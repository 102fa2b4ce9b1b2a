---------------------------- MODULE CorpusSync ----------------------------
(***************************************************************************)
(* Corpus Sync of one Knowledge Source (corpus/sync.py): processes that    *)
(* read a directory file by file, compare it with the published rows,      *)
(* embed what changed outside any lock, and publish in one transaction     *)
(* under a per-source advisory lock, or report a failure on its own.       *)
(*                                                                         *)
(* Beside them: an editor of the directory, an administrator of Access     *)
(* Grants, and processes that stop.  Every statement of the code names its *)
(* Knowledge Source, so one source stands for each of them.                *)
(*                                                                         *)
(* A file is its Source Revision, the digest of its bytes and its Access   *)
(* Scope revision; the Indexed Chunks of one document revision are one     *)
(* value, since they are inserted and deleted together.                    *)
(***************************************************************************)
EXTENDS Naturals, FiniteSets

CONSTANTS Paths,        \* source-relative paths, in the order they sort
          Revisions,    \* Source Revisions a file can have
          Malformed,    \* those that are not UTF-8, or have no title or content
          Processings,  \* Processing Revisions of the configurations in use
          Runs,         \* run ids, one per call of sync_knowledge_source
          Configuration, \* the Processing Revision each call is configured with
          None,
          Grantable,    \* bound: paths whose document an administrator grants
          MaxEdits      \* bound: changes of the directory

ASSUME PathsAssumption == Paths \subseteq Nat /\ IsFiniteSet(Paths)
ASSUME MalformedAssumption == Malformed \subseteq Revisions
ASSUME ConfigurationAssumption == Configuration \in [Runs -> Processings]
ASSUME BoundsAssumption == MaxEdits \in Nat /\ Grantable \subseteq Paths

VARIABLES files,            \* the directory: the revision of each path, or None
          documents,        \* source_documents: the row of each path, or None
          chunks,           \* indexed_chunks
          corpus_revision,  \* knowledge_sources.corpus_revision, or None
          grants,           \* documents some Access Grant names
          reports,          \* sync_reports, by run id
          lock,             \* holder of the advisory lock, or None
          sync,             \* what each run has in memory, and whether (history) the
                            \* directory stayed as it was since the run began
          edits             \* spent bound

database == <<documents, chunks, corpus_revision, grants, reports>>
vars == <<files, documents, chunks, corpus_revision, grants, reports, lock,
          sync, edits>>

-----------------------------------------------------------------------------
(* Data                                                                    *)

EmbeddingAttempts == 3

Row == [source : Revisions, processing : Processings]
Corpora == [Paths -> Row \cup {None}]
Snapshots == [Paths -> Revisions \cup {None}]
Chunks == [path : Paths, source : Revisions, processing : Processings]
Counts == [added : Nat, updated : Nat, deleted : Nat, unchanged : Nat]

Phases == {"new", "discovering", "processing", "locked", "writing",
           "failing", "returned", "raised", "stopped"}
Active == {"discovering", "processing", "locked", "writing", "failing"}
Ended == {"returned", "raised", "stopped"}

SyncStates ==
  [phase : Phases, unread : SUBSET Paths, candidates : Snapshots,
   existing : Corpora, counts : Counts, observed : Nat,
   pending : SUBSET Paths, processed : SUBSET Paths,
   attempts : 0..(EmbeddingAttempts - 1), quiet : BOOLEAN]

Reports ==
  [status : {"succeeded", "failed"}, processing : Processings, observed : Nat,
   counts : Counts, corpus_revision : (SUBSET (Paths \X Row)) \cup {None}]

\* None is no value that stands beside it.
ASSUME NoneAssumption ==
  /\ None \notin Revisions \cup Runs \cup Row \cup Reports
  /\ \A revision \in SUBSET (Paths \X Row) : revision # None

EmptySnapshot == [p \in Paths |-> None]
NoCounts == [added |-> 0, updated |-> 0, deleted |-> 0, unchanged |-> 0]

Present(contents) == {p \in Paths : contents[p] # None}
First(paths) == CHOOSE p \in paths : \A q \in paths : p <= q

RowOf(source, c) == [source |-> source, processing |-> c]
ChunkOf(p, source, c) == [path |-> p, source |-> source, processing |-> c]

\* The corpus a snapshot stands for once everything in it is processed.
Proposed(snapshot, c) ==
  [p \in Paths |-> IF snapshot[p] = None THEN None ELSE RowOf(snapshot[p], c)]

\* The digest over every candidate and the one Processing Revision.
CorpusRevision(snapshot, c) ==
  {<<p, RowOf(snapshot[p], c)>> : p \in Present(snapshot)}

CountChanges(snapshot, existing, c) ==
  LET proposed == Present(snapshot)
      current == Present(existing)
      same(p) == existing[p] = RowOf(snapshot[p], c)
  IN [added     |-> Cardinality({p \in proposed : p \notin current}),
      updated   |-> Cardinality({p \in proposed : p \in current /\ ~same(p)}),
      deleted   |-> Cardinality(current \ proposed),
      unchanged |-> Cardinality({p \in proposed : p \in current /\ same(p)})]

\* The candidates whose row is missing or carries another revision.
ChangedPaths(snapshot, existing, c) ==
  {p \in Present(snapshot) : existing[p] # RowOf(snapshot[p], c)}

NewRun ==
  [phase |-> "new", unread |-> {}, candidates |-> EmptySnapshot,
   existing |-> EmptySnapshot, counts |-> NoCounts, observed |-> 0,
   pending |-> {}, processed |-> {},
   attempts |-> 0, quiet |-> TRUE]

TypeOK ==
  /\ files \in Snapshots
  /\ documents \in Corpora
  /\ chunks \subseteq Chunks
  /\ corpus_revision \in (SUBSET (Paths \X Row)) \cup {None}
  /\ grants \subseteq Paths
  /\ reports \in [Runs -> Reports \cup {None}]
  /\ lock \in Runs \cup {None}
  /\ sync \in [Runs -> SyncStates]
  /\ edits \in 0..MaxEdits

\* A directory, beside a source nothing was published for or that an earlier
\* sync published.
Init ==
  /\ files \in Snapshots
  /\ \/ /\ documents = EmptySnapshot
        /\ chunks = {}
        /\ corpus_revision = None
     \/ \E snapshot \in [Paths -> (Revisions \ Malformed) \cup {None}], c \in Processings :
          /\ documents = Proposed(snapshot, c)
          /\ chunks = {ChunkOf(p, snapshot[p], c) : p \in Present(snapshot)}
          /\ corpus_revision = CorpusRevision(snapshot, c)
  /\ grants = {}
  /\ reports = [r \in Runs |-> None]
  /\ lock = None
  /\ sync = [r \in Runs |-> NewRun]
  /\ edits = 0

-----------------------------------------------------------------------------
(* One call of sync_knowledge_source, up to its publication                *)

\* The run goes on with what it has in memory; nothing else changes.
Continue(r, state) ==
  /\ sync' = [sync EXCEPT ![r] = state]
  /\ UNCHANGED <<files, database, lock, edits>>

\* What a failed report still needs; the rest of the run's memory is garbage.
Failed(r) ==
  [NewRun EXCEPT !.phase = "failing", !.observed = sync[r].observed,
                 !.counts = sync[r].counts]

\* The call is over and its memory with it.
Over(phase) == [NewRun EXCEPT !.phase = phase]

\* The call begins and lists the paths of the directory.
Start(r) ==
  /\ sync[r].phase = "new"
  /\ Continue(r, [NewRun EXCEPT !.phase = "discovering", !.unread = Present(files)])

\* A listed file is read later than it was listed: one gone since is skipped.
ReadFile(r) ==
  /\ sync[r].phase = "discovering"
  /\ sync[r].unread # {}
  /\ LET p == First(sync[r].unread)
     IN Continue(r, [sync[r] EXCEPT !.unread = @ \ {p}, !.candidates[p] = files[p]])

\* No directory, an escaping symlink, no access scope revision, unreadable.
DiscoveryFails(r) ==
  /\ sync[r].phase = "discovering"
  /\ Continue(r, Failed(r))

\* A file name that has no document identity is no CorpusSyncError: it is raised.
PathRejected(r) ==
  /\ sync[r].phase = "discovering"
  /\ sync[r].unread # {}
  /\ Continue(r, Over("raised"))

\* With the snapshot complete, the published rows are read and compared.
LoadExisting(r) ==
  /\ sync[r].phase = "discovering"
  /\ sync[r].unread = {}
  /\ LET s == sync[r]
     IN Continue(r, [s EXCEPT
          !.phase = "processing",
          !.observed = Cardinality(Present(s.candidates)),
          !.existing = documents,
          !.counts = CountChanges(s.candidates, documents, Configuration[r]),
          !.pending = ChangedPaths(s.candidates, documents, Configuration[r])])

LoadFails(r) ==
  /\ sync[r].phase = "discovering"
  /\ sync[r].unread = {}
  /\ Continue(r, [Failed(r) EXCEPT !.observed = Cardinality(Present(sync[r].candidates))])

\* One changed document is parsed and embedded; its attempts are its own.
ProcessDocument(r) ==
  /\ sync[r].phase = "processing"
  /\ sync[r].pending # {}
  /\ LET p == First(sync[r].pending)
     IN /\ sync[r].candidates[p] \notin Malformed
        /\ Continue(r, [sync[r] EXCEPT !.pending = @ \ {p}, !.processed = @ \cup {p},
                                       !.attempts = 0])

\* Variant: one retry too many.
EmbeddingInterruptedOnceMore(r) ==
  /\ sync[r].phase = "processing"
  /\ sync[r].pending # {}
  /\ sync[r].candidates[First(sync[r].pending)] \notin Malformed
  /\ LET s == [sync[r] EXCEPT !.attempts = @ + 1]
     IN Continue(r, IF s.attempts > EmbeddingAttempts THEN Failed(r) ELSE s)

\* A connection error or timeout of the embedder; the last attempt ends the run.
EmbeddingInterrupted(r) ==
  /\ sync[r].phase = "processing"
  /\ sync[r].pending # {}
  /\ sync[r].candidates[First(sync[r].pending)] \notin Malformed
  /\ LET s == [sync[r] EXCEPT !.attempts = @ + 1]
     IN Continue(r, IF s.attempts = EmbeddingAttempts THEN Failed(r) ELSE s)

\* A document that is not UTF-8, or has no title or no content.
ParseFails(r) ==
  /\ sync[r].phase = "processing"
  /\ sync[r].pending # {}
  /\ sync[r].candidates[First(sync[r].pending)] \in Malformed
  /\ Continue(r, Failed(r))

\* Any other error of the embedder, or vectors that do not fit the chunks.
EmbeddingFails(r) ==
  /\ sync[r].phase = "processing"
  /\ sync[r].pending # {}
  /\ sync[r].candidates[First(sync[r].pending)] \notin Malformed
  /\ Continue(r, Failed(r))

-----------------------------------------------------------------------------
(* The publication transaction: nothing it writes is seen before it commits *)

\* The transaction begins by waiting for the advisory lock of the source.
AcquireLock(r) ==
  /\ sync[r].phase = "processing"
  /\ sync[r].pending = {}
  /\ lock = None
  /\ lock' = r
  /\ sync' = [sync EXCEPT ![r].phase = "locked"]
  /\ UNCHANGED <<files, database, edits>>

\* Variant: a session lock, which outlives the transaction.
RollBackHoldingLock(r) ==
  /\ sync' = [sync EXCEPT ![r] = Failed(r)]
  /\ UNCHANGED <<files, database, lock, edits>>

\* The transaction ends without effect and the lock goes with it.
RollBack(r) ==
  /\ lock' = IF lock = r THEN None ELSE lock
  /\ sync' = [sync EXCEPT ![r] = Failed(r)]
  /\ UNCHANGED <<files, database, edits>>

\* Variant: the rows are not read again under the lock.
CheckNothing(r) ==
  /\ sync[r].phase = "locked"
  /\ Continue(r, [sync[r] EXCEPT !.phase = "writing"])

CheckExisting(r) ==
  /\ sync[r].phase = "locked"
  /\ documents = sync[r].existing
  /\ Continue(r, [sync[r] EXCEPT !.phase = "writing"])

CorpusChanged(r) ==
  /\ sync[r].phase = "locked"
  /\ documents # sync[r].existing
  /\ RollBack(r)

\* A statement, or the commit, fails and takes the whole transaction with it.
TransactionFails(r) ==
  /\ \/ sync[r].phase = "processing" /\ sync[r].pending = {}
     \/ sync[r].phase \in {"locked", "writing"}
  /\ RollBack(r)

\* Variant: absent documents are not deleted.
WrittenDocumentsKeepingAbsent(r) ==
  LET s == sync[r]
  IN [p \in Paths |-> IF p \in s.processed THEN RowOf(s.candidates[p], Configuration[r])
                                           ELSE documents[p]]

\* The rows after the deletions and upserts: unchanged rows are not touched.
WrittenDocuments(r) ==
  LET s == sync[r]
  IN [p \in Paths |-> CASE s.candidates[p] = None -> None
                        [] p \in s.processed -> RowOf(s.candidates[p], Configuration[r])
                        [] OTHER -> documents[p]]

\* Variant: the chunks of a replaced document stay beside the new ones.
WrittenChunksKeepingOld(r) ==
  LET s == sync[r]
  IN {ch \in chunks : s.candidates[ch.path] # None}
       \cup {ChunkOf(p, s.candidates[p], Configuration[r]) : p \in s.processed}

\* Chunks go with their deleted document, or are replaced with their upserted one.
WrittenChunks(r) ==
  LET s == sync[r]
  IN {ch \in chunks : s.candidates[ch.path] # None /\ ch.path \notin s.processed}
       \cup {ChunkOf(p, s.candidates[p], Configuration[r]) : p \in s.processed}

\* Variant: grants without the cascade.
RemainingGrantsUncascaded(r) == grants

\* Access Grants cascade from the deletion, and survive an upsert.
RemainingGrants(r) == {p \in grants : sync[r].candidates[p] # None}

SucceededReport(r) ==
  [status |-> "succeeded", processing |-> Configuration[r], observed |-> sync[r].observed,
   counts |-> sync[r].counts,
   corpus_revision |-> CorpusRevision(sync[r].candidates, Configuration[r])]

\* The commit: rows, chunks, revision and report at once.
Committed(r) ==
  /\ sync[r].phase = "writing"
  /\ reports[r] = None
  /\ documents' = WrittenDocuments(r)
  /\ chunks' = WrittenChunks(r)
  /\ grants' = RemainingGrants(r)
  /\ corpus_revision' = CorpusRevision(sync[r].candidates, Configuration[r])
  /\ reports' = [reports EXCEPT ![r] = SucceededReport(r)]
  /\ lock' = None
  /\ UNCHANGED <<files, edits>>

Commit(r) ==
  /\ Committed(r)
  /\ sync' = [sync EXCEPT ![r] = Over("returned")]

\* The server committed, the client saw a broken connection.
CommitUnknown(r) ==
  /\ Committed(r)
  /\ sync' = [sync EXCEPT ![r] = Failed(r)]

-----------------------------------------------------------------------------
(* The failed report, in a transaction of its own                          *)

FailedReport(r) ==
  [status |-> "failed", processing |-> Configuration[r], observed |-> sync[r].observed,
   counts |-> sync[r].counts, corpus_revision |-> None]

InsertFailedReport(r) ==
  /\ sync[r].phase = "failing"
  /\ reports[r] = None
  /\ reports' = [reports EXCEPT ![r] = FailedReport(r)]
  /\ sync' = [sync EXCEPT ![r] = Over("returned")]
  /\ UNCHANGED <<files, documents, chunks, corpus_revision, grants, lock, edits>>

\* The run id is the key: the report of a publication that did commit is there
\* already, and the insert leaves the call as an exception.
ReportKeyTaken(r) ==
  /\ sync[r].phase = "failing"
  /\ reports[r] # None
  /\ Continue(r, Over("raised"))

\* The database is gone when the failure is to be reported.
ReportInsertFails(r) ==
  /\ sync[r].phase = "failing"
  /\ reports[r] = None
  /\ Continue(r, Over("raised"))

-----------------------------------------------------------------------------
(* The environment                                                         *)

\* A file is written, replaced or removed.
Edit(p, revision) ==
  /\ edits < MaxEdits
  /\ files[p] # revision
  /\ files' = [files EXCEPT ![p] = revision]
  /\ edits' = edits + 1
  /\ sync' = [r \in Runs |-> [sync[r] EXCEPT !.quiet = @ /\ sync[r].phase \notin Active]]
  /\ UNCHANGED <<database, lock>>

\* An Access Grant names a published document (a foreign key).
Grant(p) ==
  /\ documents[p] # None
  /\ p \notin grants
  /\ grants' = grants \cup {p}
  /\ UNCHANGED <<files, documents, chunks, corpus_revision, reports, lock, sync, edits>>

\* The process stops; the server rolls its transaction back.
Stop(r) ==
  /\ sync[r].phase \in Active
  /\ sync' = [sync EXCEPT ![r] = Over("stopped")]
  /\ lock' = IF lock = r THEN None ELSE lock
  /\ UNCHANGED <<files, database, edits>>

-----------------------------------------------------------------------------
\* The steps of a call that nothing goes wrong for, and of one that finds the
\* snapshot or the corpus unfit.
Advance(r) ==
  \/ ReadFile(r) \/ LoadExisting(r) \/ ProcessDocument(r) \/ ParseFails(r)
  \/ AcquireLock(r) \/ CheckExisting(r) \/ CorpusChanged(r) \/ Commit(r)
  \/ InsertFailedReport(r) \/ ReportKeyTaken(r)

\* What the file system, the embedder and the database may do to it.
Trouble(r) ==
  \/ DiscoveryFails(r) \/ PathRejected(r) \/ LoadFails(r)
  \/ EmbeddingInterrupted(r) \/ EmbeddingFails(r) \/ TransactionFails(r)
  \/ CommitUnknown(r) \/ ReportInsertFails(r) \/ Stop(r)

Next ==
  \/ \E r \in Runs : Start(r) \/ Advance(r) \/ Trouble(r)
  \/ \E p \in Paths, revision \in Revisions \cup {None} : Edit(p, revision)
  \/ \E p \in Grantable : Grant(p)

Spec == Init /\ [][Next]_vars

\* A call that runs goes on: it waits for nothing but the embedder, whose calls
\* return or raise, and the advisory lock, which its holder gives up.
FairSpec == Spec /\ \A r \in Runs : WF_vars(Advance(r))

-----------------------------------------------------------------------------
(* Properties                                                              *)

\* What is published is one corpus: every row has the same Processing Revision.
OneProcessing ==
  \A p, q \in Present(documents) : documents[p].processing = documents[q].processing

\* The Indexed Chunks are exactly those of the published document revisions:
\* none is left of a deleted or replaced one, none is missing.
ChunksCurrent ==
  chunks = {ChunkOf(p, documents[p].source, documents[p].processing) : p \in Present(documents)}

\* The Corpus Revision a reader is shown is the digest of the rows beside it.
RevisionCurrent ==
  IF corpus_revision = None
    THEN Present(documents) = {}
    ELSE corpus_revision = {<<p, documents[p]>> : p \in Present(documents)}

\* No document that cannot be parsed is ever published.
WellFormed == \A p \in Present(documents) : documents[p].source \notin Malformed

\* However syncs with different configurations race, fail half way or stop, the
\* rows, chunks and revision of the source belong together (the publication
\* transaction of corpus/sync.py, with work done outside the lock).
CorpusWhole == OneProcessing /\ ChunksCurrent /\ RevisionCurrent /\ WellFormed

\* A document that left the corpus and comes back is readable by nobody until an
\* administrator grants it anew (access_grants cascade from source_documents).
ReadmittedUngranted ==
  [][\A p \in Paths : documents[p] = None /\ documents'[p] # None => p \notin grants']_vars

\* A run during which nobody touched the directory publishes exactly the
\* directory: what it added, replaced and deleted is what was there to be.
QuietSyncPublishesDirectory ==
  [][\A r \in Runs :
       reports[r] = None /\ reports'[r] # None /\ reports'[r].status = "succeeded"
         /\ sync[r].quiet
       => Present(documents') = Present(files)
            /\ \A p \in Present(files) : documents'[p].source = files[p]]_vars

Publication == INSTANCE Publication WITH corpus <- documents

\* Corpus Sync implements Publication: the corpus changes only as a whole,
\* together with a succeeded report whose counts compare it with the corpus it
\* replaced, counted though they were outside the lock; a run that leaves a
\* failed report has published nothing, and no run leaves two.
PublicationSpec == Publication!PublicationSpec

\* A call that began comes back or raises, if its process is not stopped.
EverySyncEnds ==
  \A r \in Runs : sync[r].phase \in Active ~> sync[r].phase \in Ended
=============================================================================
