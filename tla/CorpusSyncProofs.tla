-------------------------- MODULE CorpusSyncProofs --------------------------
(***************************************************************************)
(* Theorems about CorpusSync, for every set of paths, revisions, runs and  *)
(* configurations: the published corpus is always whole, and Corpus Sync   *)
(* implements Publication.                                                 *)
(***************************************************************************)
EXTENDS CorpusSync, FiniteSetTheorems, WellFoundedInduction, TLAPS

-----------------------------------------------------------------------------
(* The inductive invariant                                                 *)

\* What the steps after the comparison rely on: the counts and the documents to
\* process are those of this snapshot against the rows that were read.
Compared(r, s) ==
  /\ s.observed = Cardinality(Present(s.candidates))
  /\ s.counts = CountChanges(s.candidates, s.existing, Configuration[r])
  /\ s.processed \cup s.pending = ChangedPaths(s.candidates, s.existing, Configuration[r])
  /\ \A p \in s.processed : s.candidates[p] \notin Malformed

\* What run r may rely on when s is what it has in memory.
Memory(r, s) ==
  /\ s.phase \in {"new", "discovering", "processing", "locked", "writing"} => reports[r] = None
  /\ s.phase \in {"processing", "locked", "writing"} => Compared(r, s)
  /\ s.phase \in {"locked", "writing"} => s.pending = {} /\ lock = r
  /\ s.phase = "writing" => s.existing = documents
  /\ s.phase \in {"new", "discovering"} => s.processed = {}
  /\ s.phase = "discovering" /\ s.quiet =>
       \A p \in Paths : p \notin s.unread => s.candidates[p] = files[p]
  /\ s.phase \in {"processing", "locked", "writing"} /\ s.quiet => s.candidates = files

Remembered == \A r \in Runs : Memory(r, sync[r])

\* Every Access Grant names a published document.
GrantsResolve == \A p \in grants : documents[p] # None

IInv == TypeOK /\ CorpusWhole /\ GrantsResolve /\ Remembered

-----------------------------------------------------------------------------
(* Data                                                                    *)

\* What a snapshot or a corpus contains is a finite set of paths.
LEMMA PresentFinite ==
  ASSUME NEW contents PROVE /\ Present(contents) \subseteq Paths
                            /\ IsFiniteSet(Present(contents))
                            /\ Cardinality(Present(contents)) \in Nat
<1>1. Present(contents) \subseteq Paths
  BY DEF Present
<1>2. IsFiniteSet(Present(contents))
  BY <1>1, PathsAssumption, FS_Subset
<1> QED
  BY <1>1, <1>2, FS_CardinalityType

\* The four counts of a comparison are natural numbers.
LEMMA CountsTyped ==
  ASSUME NEW snapshot \in Snapshots, NEW existing \in Corpora, NEW c \in Processings
  PROVE CountChanges(snapshot, existing, c) \in Counts
<1> DEFINE proposed == Present(snapshot)
           current == Present(existing)
           same(p) == existing[p] = RowOf(snapshot[p], c)
           A == {p \in proposed : p \notin current}
           U == {p \in proposed : p \in current /\ ~same(p)}
           D == current \ proposed
           N == {p \in proposed : p \in current /\ same(p)}
<1>1. A \subseteq Paths /\ U \subseteq Paths /\ D \subseteq Paths /\ N \subseteq Paths
  BY DEF Present
<1>2. IsFiniteSet(A) /\ IsFiniteSet(U) /\ IsFiniteSet(D) /\ IsFiniteSet(N)
  BY <1>1, PathsAssumption, FS_Subset
<1>3. Cardinality(A) \in Nat /\ Cardinality(U) \in Nat /\ Cardinality(D) \in Nat
        /\ Cardinality(N) \in Nat
  BY <1>2, FS_CardinalityType
<1>4. CountChanges(snapshot, existing, c)
        = [added |-> Cardinality(A), updated |-> Cardinality(U),
           deleted |-> Cardinality(D), unchanged |-> Cardinality(N)]
  BY DEF CountChanges
<1> HIDE DEF A, U, D, N
<1> QED
  BY <1>3, <1>4 DEF Counts

\* A call that has not begun has memory of the declared type.
LEMMA NewRunTyped == NewRun \in SyncStates
  BY DEF NewRun, SyncStates, EmptySnapshot, NoCounts, Counts, Snapshots, Corpora, Phases,
         EmbeddingAttempts

\* What a failing call keeps is of the declared type.
LEMMA FailedTyped ==
  ASSUME NEW r \in Runs, sync[r] \in SyncStates
  PROVE Failed(r) \in SyncStates /\ Failed(r).phase = "failing"
  BY NewRunTyped DEF Failed, SyncStates, Phases, NewRun

\* What an ended call keeps is of the declared type.
LEMMA OverTyped ==
  ASSUME NEW phase \in Ended
  PROVE Over(phase) \in SyncStates /\ Over(phase).phase = phase
  BY NewRunTyped DEF Over, SyncStates, Phases, NewRun, Ended

-----------------------------------------------------------------------------
(* Steps of one run that leave the database alone                          *)

\* A step of one run that leaves the database alone and remembers rightly keeps
\* the invariant, when the lock of another run stays that run's.
LEMMA RunStep ==
  ASSUME IInv, NEW r \in Runs, NEW s \in SyncStates,
         sync' = [sync EXCEPT ![r] = s],
         lock' \in Runs \cup {None},
         \A q \in Runs \ {r} : lock = q => lock' = q,
         UNCHANGED <<files, database, edits>>,
         Memory(r, s)'
  PROVE IInv'
<1>1. TypeOK'
  BY DEF IInv, TypeOK, database
<1>2. CorpusWhole' /\ GrantsResolve'
  BY DEF IInv, CorpusWhole, OneProcessing, ChunksCurrent, RevisionCurrent, WellFormed,
         GrantsResolve, database, Present
<1>3. ASSUME NEW q \in Runs PROVE Memory(q, sync[q])'
  <2>1. CASE q = r
    BY <2>1 DEF IInv, TypeOK, Memory, Compared, database
  <2>2. CASE q # r
    <3>1. sync'[q] = sync[q] /\ (lock = q => lock' = q)
      BY <2>2 DEF IInv, TypeOK
    <3>2. Memory(q, sync[q])
      BY DEF IInv, Remembered
    <3> QED
      BY <3>1, <3>2 DEF Memory, Compared, database
  <2> QED
    BY <2>1, <2>2
<1> QED
  BY <1>1, <1>2, <1>3 DEF IInv, Remembered

\* So does a step that only goes on with what the run has in memory.
LEMMA ContinueStep ==
  ASSUME IInv, NEW r \in Runs, NEW s \in SyncStates, Continue(r, s), Memory(r, s)
  PROVE IInv'
<1>1. Memory(r, s)'
  BY DEF Memory, Compared, Continue, database
<1> QED
  BY <1>1, RunStep DEF Continue, IInv, TypeOK

\* The first of some paths is one of them.
LEMMA FirstIn ==
  ASSUME NEW paths \in SUBSET Paths, paths # {}
  PROVE First(paths) \in paths
<1> DEFINE Below == {pair \in Nat \X Nat : pair[1] < pair[2]}
<1>1. IsWellFoundedOn(Below, Nat)
  BY NatLessThanWellFounded DEF OpToRel
<1>2. paths \subseteq Nat
  BY PathsAssumption
<1>3. PICK p \in paths : \A q \in paths : <<q, p>> \notin Below
  BY <1>1, <1>2, WFMin
<1>4. ASSUME NEW q \in paths PROVE p <= q
  <2>1. p \in Nat /\ q \in Nat
    BY <1>2
  <2>2. ~ (q < p)
    <3>1. <<q, p>> \in Nat \X Nat /\ <<q, p>>[1] = q /\ <<q, p>>[2] = p
      BY <2>1
    <3>2. <<q, p>> \notin Below
      BY <1>3
    <3> QED
      BY <3>1, <3>2
  <2> QED
    BY <2>1, <2>2
<1> QED
  BY <1>4 DEF First

\* Listing the directory keeps the invariant: nothing is a candidate yet.
LEMMA StartKeeps ==
  ASSUME IInv, NEW r \in Runs, Start(r) PROVE IInv'
<1> DEFINE s == [NewRun EXCEPT !.phase = "discovering", !.unread = Present(files)]
<1>1. s \in SyncStates
  BY NewRunTyped, PresentFinite DEF SyncStates, Phases, NewRun
<1>2. sync[r] \in SyncStates /\ Memory(r, sync[r]) /\ files \in Snapshots
  BY DEF IInv, TypeOK, Remembered
<1>3. /\ s.phase = "discovering"
      /\ s.candidates = EmptySnapshot /\ s.processed = {}
      /\ s.unread = Present(files)
  BY DEF NewRun
<1>4. Memory(r, s)
  BY <1>2, <1>3 DEF Start, Memory, EmptySnapshot, Present, Snapshots
<1> QED
  BY <1>1, <1>4, ContinueStep DEF Start

\* Reading a file keeps it: in a quiet run the candidate is the file.
LEMMA ReadFileKeeps ==
  ASSUME IInv, NEW r \in Runs, ReadFile(r) PROVE IInv'
<1> DEFINE p == First(sync[r].unread)
           s == [sync[r] EXCEPT !.unread = @ \ {p}, !.candidates[p] = files[p]]
<1>1. sync[r] \in SyncStates /\ Memory(r, sync[r]) /\ files \in Snapshots
  BY DEF IInv, TypeOK, Remembered
<1>2. sync[r].unread \in SUBSET Paths /\ sync[r].unread # {}
  BY <1>1 DEF SyncStates, ReadFile
<1>3. p \in Paths
  BY <1>2, FirstIn
<1> HIDE DEF p
<1>4. s \in SyncStates
  BY <1>1, <1>3 DEF SyncStates, Snapshots
<1>5. /\ s.phase = "discovering" /\ sync[r].phase = "discovering"
      /\ s.quiet = sync[r].quiet
      /\ s.unread = sync[r].unread \ {p}
      /\ s.candidates = [sync[r].candidates EXCEPT ![p] = files[p]]
  BY <1>1 DEF SyncStates, ReadFile
<1>6. sync[r].candidates \in Snapshots
  BY <1>1 DEF SyncStates
<1>7. Memory(r, s)
  BY <1>1, <1>3, <1>5, <1>6 DEF Memory, Snapshots
<1> QED
  BY <1>4, <1>7, ContinueStep DEF ReadFile, p

\* A failing run relies on nothing it read.
LEMMA FailedRemembers ==
  ASSUME IInv, NEW r \in Runs PROVE Failed(r) \in SyncStates /\ Memory(r, Failed(r))
<1>1. sync[r] \in SyncStates
  BY DEF IInv, TypeOK
<1> QED
  BY <1>1, FailedTyped DEF Memory

\* Nor does one that is over.
LEMMA OverRemembers ==
  ASSUME NEW r \in Runs, NEW phase \in Ended
  PROVE Over(phase) \in SyncStates /\ Memory(r, Over(phase))
  BY OverTyped DEF Memory, Ended

\* Failures while reading, parsing or embedding keep the invariant.
LEMMA FailuresKeep ==
  ASSUME IInv, NEW r \in Runs,
         DiscoveryFails(r) \/ ParseFails(r) \/ EmbeddingFails(r)
  PROVE IInv'
  BY FailedRemembers, ContinueStep DEF DiscoveryFails, ParseFails, EmbeddingFails

\* So do the ends of a call in an exception.
LEMMA RaisesKeep ==
  ASSUME IInv, NEW r \in Runs,
         PathRejected(r) \/ ReportKeyTaken(r) \/ ReportInsertFails(r)
  PROVE IInv'
<1>1. "raised" \in Ended
  BY DEF Ended
<1> QED
  BY <1>1, OverRemembers, ContinueStep DEF PathRejected, ReportKeyTaken, ReportInsertFails

\* A failure to read the published rows keeps it.
LEMMA LoadFailsKeeps ==
  ASSUME IInv, NEW r \in Runs, LoadFails(r) PROVE IInv'
<1> DEFINE s == [Failed(r) EXCEPT !.observed = Cardinality(Present(sync[r].candidates))]
<1>1. Failed(r) \in SyncStates
  BY FailedRemembers
<1>2. Cardinality(Present(sync[r].candidates)) \in Nat
  BY PresentFinite
<1>3. s \in SyncStates /\ s.phase = Failed(r).phase
  BY <1>1, <1>2 DEF SyncStates
<1>4. s.phase = "failing"
  BY <1>3, FailedTyped DEF IInv, TypeOK
<1>5. Memory(r, s)
  BY <1>4 DEF Memory
<1> QED
  BY <1>3, <1>5, ContinueStep DEF LoadFails

\* The comparison with the rows establishes Compared.
LEMMA LoadExistingKeeps ==
  ASSUME IInv, NEW r \in Runs, LoadExisting(r) PROVE IInv'
<1> DEFINE m == sync[r]
           s == [m EXCEPT
                   !.phase = "processing",
                   !.observed = Cardinality(Present(m.candidates)),
                   !.existing = documents,
                   !.counts = CountChanges(m.candidates, documents, Configuration[r]),
                   !.pending = ChangedPaths(m.candidates, documents, Configuration[r])]
<1>1. m \in SyncStates /\ Memory(r, m) /\ documents \in Corpora /\ files \in Snapshots
  BY DEF IInv, TypeOK, Remembered
<1>2. m.candidates \in Snapshots
  BY <1>1 DEF SyncStates
<1>3. CountChanges(m.candidates, documents, Configuration[r]) \in Counts
  BY <1>1, <1>2, CountsTyped, ConfigurationAssumption
<1>4. ChangedPaths(m.candidates, documents, Configuration[r]) \subseteq Paths
  BY DEF ChangedPaths, Present
<1>5. Cardinality(Present(m.candidates)) \in Nat
  BY PresentFinite
<1>6. s \in SyncStates
  BY <1>1, <1>3, <1>4, <1>5 DEF SyncStates, Phases
<1>7. /\ s.phase = "processing" /\ s.candidates = m.candidates /\ s.existing = documents
      /\ s.observed = Cardinality(Present(m.candidates))
      /\ s.counts = CountChanges(m.candidates, documents, Configuration[r])
      /\ s.pending = ChangedPaths(m.candidates, documents, Configuration[r])
      /\ s.processed = m.processed /\ s.quiet = m.quiet
  BY <1>1 DEF SyncStates
<1>8. m.phase = "discovering" /\ m.unread = {}
  BY DEF LoadExisting
<1>9. m.processed = {}
  BY <1>1, <1>8 DEF Memory
<1>10. m.quiet => m.candidates = files
  BY <1>1, <1>2, <1>8 DEF Memory, Snapshots
<1>11. Memory(r, s)
  <2> HIDE DEF s
  <2> QED
    BY <1>1, <1>7, <1>8, <1>9, <1>10 DEF Memory, Compared
<1> QED
  BY <1>6, <1>11, ContinueStep DEF LoadExisting

\* A processed document stays one of the changed ones, and is not malformed.
LEMMA ProcessDocumentKeeps ==
  ASSUME IInv, NEW r \in Runs, ProcessDocument(r) PROVE IInv'
<1> DEFINE m == sync[r]
           p == First(m.pending)
           s == [m EXCEPT !.pending = @ \ {p}, !.processed = @ \cup {p}, !.attempts = 0]
<1>1. m \in SyncStates /\ Memory(r, m)
  BY DEF IInv, TypeOK, Remembered
<1>2. m.pending \in SUBSET Paths /\ m.pending # {} /\ m.phase = "processing"
  BY <1>1 DEF SyncStates, ProcessDocument
<1>3. p \in m.pending
  BY <1>2, FirstIn
<1>4. m.candidates[p] \notin Malformed
  BY DEF ProcessDocument
<1> HIDE DEF p
<1>5. s \in SyncStates
  <2>1. 0 \in 0..(EmbeddingAttempts - 1)
    BY DEF EmbeddingAttempts
  <2>2. m.pending \ {p} \in SUBSET Paths /\ m.processed \cup {p} \in SUBSET Paths
    BY <1>1, <1>2, <1>3 DEF SyncStates
  <2>3. s = [m EXCEPT !.pending = m.pending \ {p}, !.processed = m.processed \cup {p},
                      !.attempts = 0]
    BY <1>1 DEF SyncStates
  <2> HIDE DEF s
  <2> QED
    BY <1>1, <2>1, <2>2, <2>3 DEF SyncStates
<1>6. /\ s.phase = "processing" /\ s.candidates = m.candidates /\ s.existing = m.existing
      /\ s.observed = m.observed /\ s.counts = m.counts /\ s.quiet = m.quiet
      /\ s.pending = m.pending \ {p} /\ s.processed = m.processed \cup {p}
  BY <1>1, <1>2 DEF SyncStates
<1>7. Compared(r, m)
  BY <1>1, <1>2 DEF Memory
<1>8. Memory(r, s)
  <2> HIDE DEF s
  <2>1. s.processed \cup s.pending = m.processed \cup m.pending
    BY <1>3, <1>6
  <2>2. Compared(r, s)
    BY <1>4, <1>6, <1>7, <2>1 DEF Compared
  <2> QED
    BY <1>1, <1>2, <1>6, <2>2 DEF Memory
<1> QED
  BY <1>5, <1>8, ContinueStep DEF ProcessDocument, p

\* A retried embedding changes nothing but its count, which stays in range.
LEMMA EmbeddingInterruptedKeeps ==
  ASSUME IInv, NEW r \in Runs, EmbeddingInterrupted(r) PROVE IInv'
<1> DEFINE m == sync[r]
           s == [m EXCEPT !.attempts = @ + 1]
<1>1. m \in SyncStates /\ Memory(r, m)
  BY DEF IInv, TypeOK, Remembered
<1>2. s.attempts = m.attempts + 1 /\ m.attempts \in 0..(EmbeddingAttempts - 1)
  BY <1>1 DEF SyncStates
<1>3. CASE s.attempts = EmbeddingAttempts
  BY <1>3, FailedRemembers, ContinueStep DEF EmbeddingInterrupted
<1>4. CASE s.attempts # EmbeddingAttempts
  <2>1. s \in SyncStates
    BY <1>1, <1>2, <1>4 DEF SyncStates, EmbeddingAttempts
  <2>2. /\ s.phase = m.phase /\ s.candidates = m.candidates /\ s.existing = m.existing
        /\ s.observed = m.observed /\ s.counts = m.counts /\ s.quiet = m.quiet
        /\ s.pending = m.pending /\ s.processed = m.processed /\ s.unread = m.unread
    BY <1>1 DEF SyncStates
  <2>3. Memory(r, s)
    <3> HIDE DEF s
    <3> QED
      BY <1>1, <2>2 DEF Memory, Compared
  <2>4. Continue(r, s)
    BY <1>4 DEF EmbeddingInterrupted
  <2> QED
    BY <2>1, <2>3, <2>4, ContinueStep
<1> QED
  BY <1>3, <1>4

-----------------------------------------------------------------------------
(* The lock                                                                *)

\* A change of phase alone keeps everything else a run remembers.
LEMMA PhaseStep ==
  ASSUME NEW m \in SyncStates, NEW phase \in Phases, NEW s, s = [m EXCEPT !.phase = phase]
  PROVE /\ s \in SyncStates /\ s.phase = phase
        /\ s.candidates = m.candidates /\ s.existing = m.existing
        /\ s.observed = m.observed /\ s.counts = m.counts /\ s.quiet = m.quiet
        /\ s.pending = m.pending /\ s.processed = m.processed /\ s.unread = m.unread
  BY DEF SyncStates

\* Taking the free lock keeps the invariant: no other run held it.
LEMMA AcquireLockKeeps ==
  ASSUME IInv, NEW r \in Runs, AcquireLock(r) PROVE IInv'
<1>1. sync[r] \in SyncStates /\ Memory(r, sync[r]) /\ sync \in [Runs -> SyncStates]
  BY DEF IInv, TypeOK, Remembered
<1>2. "locked" \in Phases
  BY DEF Phases
<1>3. PICK s \in SyncStates : s = [sync[r] EXCEPT !.phase = "locked"]
  BY <1>1, <1>2, PhaseStep
<1>4. /\ s.phase = "locked"
      /\ s.candidates = sync[r].candidates /\ s.existing = sync[r].existing
      /\ s.observed = sync[r].observed /\ s.counts = sync[r].counts
      /\ s.quiet = sync[r].quiet /\ s.pending = sync[r].pending
      /\ s.processed = sync[r].processed
  BY <1>1, <1>2, <1>3, PhaseStep
<1>5. sync' = [sync EXCEPT ![r] = s]
  BY <1>1, <1>3 DEF AcquireLock
<1>6. sync[r].phase = "processing" /\ sync[r].pending = {} /\ lock' = r /\ lock = None
  BY DEF AcquireLock
<1>7. UNCHANGED <<files, database, edits>>
  BY DEF AcquireLock
<1>8. Memory(r, s)'
  <2>1. files' = files /\ reports' = reports
    BY <1>7 DEF database
  <2>2. Compared(r, sync[r]) /\ reports[r] = None
    BY <1>1, <1>6 DEF Memory
  <2>3. Compared(r, s)
    BY <1>4, <2>2 DEF Compared
  <2>4. s.quiet => s.candidates = files
    BY <1>1, <1>4, <1>6 DEF Memory
  <2> QED
    BY <1>4, <1>6, <2>1, <2>2, <2>3, <2>4 DEF Memory, Compared
<1>9. \A q \in Runs \ {r} : lock = q => lock' = q
  BY <1>6, NoneAssumption
<1> QED
  BY <1>5, <1>6, <1>7, <1>8, <1>9, RunStep

\* A rollback gives up no lock but the run's own.
LEMMA RollBackKeeps ==
  ASSUME IInv, NEW r \in Runs, RollBack(r) PROVE IInv'
<1>1. PICK s \in SyncStates : s = Failed(r)
  BY FailedRemembers
<1>2. s.phase = "failing"
  BY <1>1, FailedTyped DEF IInv, TypeOK
<1>3. sync' = [sync EXCEPT ![r] = s] /\ UNCHANGED <<files, database, edits>>
  BY <1>1 DEF RollBack
<1>4. lock \in Runs \cup {None} /\ lock' = IF lock = r THEN None ELSE lock
  BY DEF RollBack, IInv, TypeOK
<1>5. Memory(r, s)'
  BY <1>2 DEF Memory
<1>6. \A q \in Runs \ {r} : lock = q => lock' = q
  BY <1>4
<1>7. lock' \in Runs \cup {None}
  BY <1>4
<1> QED
  BY <1>3, <1>5, <1>6, <1>7, RunStep

\* A run that writes found its rows unchanged under its own lock.
LEMMA CheckExistingKeeps ==
  ASSUME IInv, NEW r \in Runs, CheckExisting(r) PROVE IInv'
<1> DEFINE s == [sync[r] EXCEPT !.phase = "writing"]
<1>1. sync[r] \in SyncStates /\ Memory(r, sync[r])
  BY DEF IInv, TypeOK, Remembered
<1>2. "writing" \in Phases
  BY DEF Phases
<1>3. /\ s \in SyncStates /\ s.phase = "writing"
      /\ s.candidates = sync[r].candidates /\ s.existing = sync[r].existing
      /\ s.observed = sync[r].observed /\ s.counts = sync[r].counts
      /\ s.quiet = sync[r].quiet /\ s.pending = sync[r].pending
      /\ s.processed = sync[r].processed
  BY <1>1, <1>2, PhaseStep
<1>4. Memory(r, s)
  <2> HIDE DEF s
  <2> QED
    BY <1>1, <1>3 DEF CheckExisting, Memory, Compared
<1> QED
  BY <1>3, <1>4, ContinueStep DEF CheckExisting

\* A process that stops leaves the database and gives up its lock.
LEMMA StopKeeps ==
  ASSUME IInv, NEW r \in Runs, Stop(r) PROVE IInv'
<1>1. "stopped" \in Ended
  BY DEF Ended
<1>2. Over("stopped") \in SyncStates /\ Memory(r, Over("stopped"))'
  BY <1>1, OverTyped DEF Memory, Stop, Over, NewRun
<1> QED
  BY <1>2, RunStep DEF Stop, IInv, TypeOK

\* A transaction that fails, or finds other rows, is a rollback.
LEMMA FailedTransactionKeeps ==
  ASSUME IInv, NEW r \in Runs, CorpusChanged(r) \/ TransactionFails(r) PROVE IInv'
  BY RollBackKeeps DEF CorpusChanged, TransactionFails

-----------------------------------------------------------------------------
(* The commit                                                              *)

\* What a run that writes knows: its snapshot, compared with the rows that are
\* still there, with nothing left to process.
LEMMA Writing ==
  ASSUME IInv, NEW r \in Runs, sync[r].phase = "writing"
  PROVE /\ sync[r].candidates \in Snapshots
        /\ Configuration[r] \in Processings
        /\ sync[r].existing = documents
        /\ lock = r
        /\ sync[r].observed = Cardinality(Present(sync[r].candidates))
        /\ sync[r].counts = CountChanges(sync[r].candidates, documents, Configuration[r])
        /\ sync[r].processed = ChangedPaths(sync[r].candidates, documents, Configuration[r])
        /\ \A p \in sync[r].processed : sync[r].candidates[p] \notin Malformed
        /\ sync[r].quiet => sync[r].candidates = files
<1>1. sync[r] \in SyncStates /\ Memory(r, sync[r])
  BY DEF IInv, TypeOK, Remembered
<1> QED
  BY <1>1, ConfigurationAssumption DEF SyncStates, Memory, Compared

\* The documents upserted and the rows left alone make up the whole snapshot.
LEMMA WrittenIsProposed ==
  ASSUME IInv, NEW r \in Runs, sync[r].phase = "writing"
  PROVE WrittenDocuments(r) = Proposed(sync[r].candidates, Configuration[r])
<1> DEFINE candidates == sync[r].candidates
           c == Configuration[r]
<1>1. sync[r].processed = ChangedPaths(candidates, documents, c)
  BY Writing
<1>2. ASSUME NEW p \in Paths
      PROVE (CASE candidates[p] = None -> None
               [] p \in sync[r].processed -> RowOf(candidates[p], c)
               [] OTHER -> documents[p])
              = IF candidates[p] = None THEN None ELSE RowOf(candidates[p], c)
  <2>1. CASE candidates[p] = None
    <3>1. p \notin sync[r].processed
      BY <1>1, <2>1 DEF ChangedPaths, Present
    <3> QED
      BY <2>1, <3>1
  <2>2. CASE candidates[p] # None /\ p \in sync[r].processed
    BY <2>2
  <2>3. CASE candidates[p] # None /\ p \notin sync[r].processed
    <3>1. documents[p] = RowOf(candidates[p], c)
      BY <1>1, <2>3 DEF ChangedPaths, Present
    <3> QED
      BY <2>3, <3>1
  <2> QED
    BY <2>1, <2>2, <2>3
<1> QED
  BY <1>2 DEF WrittenDocuments, Proposed

\* What the commit makes of the database, in terms of the snapshot.
LEMMA ProposedRow ==
  ASSUME NEW snapshot \in Snapshots, NEW c \in Processings, NEW p \in Paths
  PROVE /\ Proposed(snapshot, c)[p]
             = IF snapshot[p] = None THEN None ELSE RowOf(snapshot[p], c)
        /\ snapshot[p] # None => RowOf(snapshot[p], c) \in Row
        /\ RowOf(snapshot[p], c).source = snapshot[p]
        /\ RowOf(snapshot[p], c).processing = c
        /\ snapshot[p] # None => RowOf(snapshot[p], c) # None
  BY NoneAssumption DEF Proposed, RowOf, Row, Snapshots

\* The corpus a snapshot proposes, and its digest, are of the declared types.
LEMMA ProposedTyped ==
  ASSUME NEW snapshot \in Snapshots, NEW c \in Processings
  PROVE /\ Proposed(snapshot, c) \in Corpora
        /\ Present(Proposed(snapshot, c)) = Present(snapshot)
        /\ CorpusRevision(snapshot, c) \in SUBSET (Paths \X Row)
        /\ CorpusRevision(snapshot, c) # None
<1>1. \A p \in Paths :
        /\ Proposed(snapshot, c)[p]
             = IF snapshot[p] = None THEN None ELSE RowOf(snapshot[p], c)
        /\ snapshot[p] # None => RowOf(snapshot[p], c) \in Row
        /\ snapshot[p] # None => RowOf(snapshot[p], c) # None
  BY ProposedRow
<1>2. Proposed(snapshot, c) \in Corpora
  BY <1>1 DEF Proposed, Corpora
<1>3. Present(Proposed(snapshot, c)) = Present(snapshot)
  BY <1>1 DEF Present
<1>4. CorpusRevision(snapshot, c) \in SUBSET (Paths \X Row)
  BY <1>1 DEF CorpusRevision, Present
<1> QED
  BY <1>2, <1>3, <1>4, NoneAssumption

\* A commit publishes a whole corpus: the rows are those proposed, with their
\* chunks and their digest.
LEMMA CommittedWhole ==
  ASSUME IInv, NEW r \in Runs, Committed(r) PROVE CorpusWhole'
<1> DEFINE candidates == sync[r].candidates
           processed == sync[r].processed
           c == Configuration[r]
<1>1. /\ candidates \in Snapshots /\ c \in Processings
      /\ processed = ChangedPaths(candidates, documents, c)
      /\ \A p \in processed : candidates[p] \notin Malformed
  BY Writing DEF Committed
<1>2. /\ documents' = Proposed(candidates, c)
      /\ chunks' = WrittenChunks(r)
      /\ corpus_revision' = CorpusRevision(candidates, c)
  BY WrittenIsProposed DEF Committed
<1>3. Present(documents') = Present(candidates)
  BY <1>1, <1>2, ProposedTyped
<1>4. \A p \in Present(candidates) :
        /\ documents'[p] = RowOf(candidates[p], c)
        /\ documents'[p].source = candidates[p]
        /\ documents'[p].processing = c
  <2>1. \A p \in Present(candidates) : p \in Paths /\ candidates[p] # None
    BY DEF Present
  <2> QED
    BY <1>1, <1>2, <2>1, ProposedRow
<1>5. \A p \in Present(candidates) \ processed : documents[p] = RowOf(candidates[p], c)
  BY <1>1 DEF ChangedPaths
<1>6. processed \subseteq Present(candidates)
  BY <1>1 DEF ChangedPaths
<1>7. Present(candidates) = {p \in Paths : candidates[p] # None}
  BY DEF Present
<1>8. WrittenChunks(r) = {ch \in chunks : candidates[ch.path] # None /\ ch.path \notin processed}
                           \cup {ChunkOf(p, candidates[p], c) : p \in processed}
  BY DEF WrittenChunks
<1>9. chunks = {ChunkOf(p, documents[p].source, documents[p].processing) : p \in Present(documents)}
  BY DEF IInv, CorpusWhole, ChunksCurrent
<1>10. \A p \in Present(candidates) :
         /\ RowOf(candidates[p], c).source = candidates[p]
         /\ RowOf(candidates[p], c).processing = c
  BY DEF RowOf
<1>11. \A p \in Present(candidates) \ processed : p \in Present(documents)
  BY <1>1, <1>4, <1>5, <1>7, ProposedRow DEF Present
<1>12. \A p \in Present(documents) : documents[p].source \notin Malformed
  BY DEF IInv, CorpusWhole, WellFormed
<1> HIDE DEF candidates, processed, c
<1>13. OneProcessing'
  BY <1>3, <1>4 DEF OneProcessing, Present
<1>14. chunks' = {ChunkOf(p, candidates[p], c) : p \in Present(candidates)}
  <2>1. ASSUME NEW ch \in {x \in chunks : candidates[x.path] # None /\ x.path \notin processed}
        PROVE ch \in {ChunkOf(p, candidates[p], c) : p \in Present(candidates)}
    <3>1. PICK p \in Present(documents) :
            ch = ChunkOf(p, documents[p].source, documents[p].processing)
      BY <1>9
    <3>2. ch.path = p /\ p \in Paths
      BY <3>1 DEF ChunkOf, Present
    <3>3. p \in Present(candidates) \ processed
      BY <1>7, <2>1, <3>2
    <3>4. ch = ChunkOf(p, candidates[p], c)
      BY <1>5, <1>10, <3>1, <3>3
    <3> QED
      BY <3>3, <3>4
  <2>2. ASSUME NEW p \in Present(candidates), p \notin processed
        PROVE /\ ChunkOf(p, candidates[p], c) \in chunks
              /\ ChunkOf(p, candidates[p], c).path = p
    <3>1. ChunkOf(p, candidates[p], c)
            = ChunkOf(p, documents[p].source, documents[p].processing)
      BY <1>5, <1>10, <2>2
    <3> QED
      BY <1>9, <1>11, <2>2, <3>1 DEF ChunkOf
  <2>3. ASSUME NEW p \in Present(candidates)
        PROVE ChunkOf(p, candidates[p], c) \in chunks'
    <3>1. CASE p \in processed
      BY <1>2, <1>8, <3>1
    <3>2. CASE p \notin processed
      BY <1>2, <1>7, <1>8, <2>2, <3>2
    <3> QED
      BY <3>1, <3>2
  <2>4. ASSUME NEW ch \in chunks'
        PROVE ch \in {ChunkOf(p, candidates[p], c) : p \in Present(candidates)}
    BY <1>2, <1>6, <1>8, <2>1
  <2> QED
    BY <2>3, <2>4
<1>15. ChunksCurrent'
  BY <1>3, <1>4, <1>14 DEF ChunksCurrent, Present
<1>16. RevisionCurrent'
  <2>1. corpus_revision' = {<<p, RowOf(candidates[p], c)>> : p \in Present(candidates)}
    BY <1>2 DEF CorpusRevision
  <2>2. corpus_revision' # None
    BY <1>1, <1>2, ProposedTyped
  <2> QED
    BY <1>3, <1>4, <2>1, <2>2 DEF RevisionCurrent, Present
<1>17. WellFormed'
  <2>1. ASSUME NEW p \in Present(candidates) PROVE candidates[p] \notin Malformed
    <3>1. CASE p \in processed
      BY <1>1, <3>1
    <3>2. CASE p \notin processed
      BY <1>5, <1>10, <1>11, <1>12, <3>2
    <3> QED
      BY <3>1, <3>2
  <2> QED
    BY <1>3, <1>4, <2>1 DEF WellFormed, Present
<1> QED
  BY <1>13, <1>15, <1>16, <1>17 DEF CorpusWhole

\* A commit keeps the invariant, whether its run learns of it or not: every run
\* that compared with the rows it replaced has yet to compare again.
LEMMA CommittedKeeps ==
  ASSUME IInv, NEW r \in Runs, Committed(r), NEW s \in SyncStates,
         s.phase \in {"returned", "failing"}, sync' = [sync EXCEPT ![r] = s]
  PROVE IInv'
<1> DEFINE candidates == sync[r].candidates
           c == Configuration[r]
<1>1. sync[r].phase = "writing"
  BY DEF Committed
<1>2. /\ candidates \in Snapshots /\ c \in Processings /\ lock = r
      /\ sync[r].processed = ChangedPaths(candidates, documents, c)
  BY <1>1, Writing
<1>3. /\ documents' = Proposed(candidates, c)
      /\ chunks' = WrittenChunks(r)
      /\ corpus_revision' = CorpusRevision(candidates, c)
      /\ grants' = {p \in grants : candidates[p] # None}
      /\ reports' = [reports EXCEPT ![r] = SucceededReport(r)]
      /\ lock' = None /\ files' = files /\ edits' = edits
  BY <1>1, WrittenIsProposed DEF Committed, RemainingGrants
<1>4. TypeOK'
  <2>1. documents' \in Corpora /\ corpus_revision' \in SUBSET (Paths \X Row)
    BY <1>2, <1>3, ProposedTyped
  <2>2. chunks' \subseteq Chunks
    <3>1. ASSUME NEW p \in sync[r].processed
          PROVE ChunkOf(p, candidates[p], c) \in Chunks
      <4>1. p \in Paths /\ candidates[p] # None
        BY <1>2 DEF ChangedPaths, Present
      <4> QED
        BY <1>2, <4>1 DEF ChunkOf, Chunks, Snapshots
    <3> QED
      BY <1>3, <3>1 DEF WrittenChunks, IInv, TypeOK
  <2>3. SucceededReport(r) \in Reports
    <3>1. sync[r] \in SyncStates
      BY DEF IInv, TypeOK
    <3>2. sync[r].observed \in Nat /\ sync[r].counts \in Counts
      BY <3>1 DEF SyncStates
    <3>3. CorpusRevision(candidates, c) \in SUBSET (Paths \X Row)
      BY <1>2, ProposedTyped
    <3> QED
      BY <1>2, <3>2, <3>3 DEF SucceededReport, Reports
  <2>4. reports' \in [Runs -> Reports \cup {None}]
    BY <1>3, <2>3 DEF IInv, TypeOK
  <2>5. sync' \in [Runs -> SyncStates]
    BY DEF IInv, TypeOK
  <2> QED
    BY <1>3, <2>1, <2>2, <2>4, <2>5 DEF IInv, TypeOK
<1>5. CorpusWhole'
  BY CommittedWhole
<1>6. GrantsResolve'
  BY <1>2, <1>3, ProposedRow DEF GrantsResolve, IInv, TypeOK
<1>7. Remembered'
  <2>1. ASSUME NEW q \in Runs PROVE Memory(q, sync[q])'
    <3>1. CASE q = r
      <4>1. sync'[q] = s
        BY <3>1 DEF IInv, TypeOK
      <4> QED
        BY <4>1 DEF Memory
    <3>2. CASE q # r
      <4>1. sync'[q] = sync[q] /\ reports'[q] = reports[q]
        BY <1>3, <3>2 DEF IInv, TypeOK
      <4>2. Memory(q, sync[q]) /\ lock # q
        BY <1>2, <3>2 DEF IInv, Remembered
      <4> QED
        BY <1>3, <4>1, <4>2 DEF Memory, Compared
    <3> QED
      BY <3>1, <3>2
  <2> QED
    BY <2>1 DEF Remembered
<1> QED
  BY <1>4, <1>5, <1>6, <1>7 DEF IInv

\* Both ends of a commit are such.
LEMMA CommitKeeps ==
  ASSUME IInv, NEW r \in Runs, Commit(r) \/ CommitUnknown(r) PROVE IInv'
<1>1. CASE Commit(r)
  <2>1. "returned" \in Ended
    BY DEF Ended
  <2>2. PICK s \in SyncStates : s = Over("returned") /\ s.phase = "returned"
    BY <2>1, OverTyped
  <2> QED
    BY <1>1, <2>2, CommittedKeeps DEF Commit
<1>2. CASE CommitUnknown(r)
  <2>1. PICK s \in SyncStates : s = Failed(r) /\ s.phase = "failing"
    BY FailedTyped DEF IInv, TypeOK
  <2> QED
    BY <1>2, <2>1, CommittedKeeps DEF CommitUnknown
<1> QED
  BY <1>1, <1>2

-----------------------------------------------------------------------------
(* The failed report and the environment                                   *)

\* The report of a failure is a report, with no Corpus Revision.
LEMMA FailedReportTyped ==
  ASSUME IInv, NEW r \in Runs
  PROVE /\ FailedReport(r) \in Reports
        /\ FailedReport(r).status = "failed" /\ FailedReport(r).corpus_revision = None
<1>1. sync[r] \in SyncStates
  BY DEF IInv, TypeOK
<1>2. sync[r].observed \in Nat /\ sync[r].counts \in Counts
  BY <1>1 DEF SyncStates
<1>3. Configuration[r] \in Processings
  BY ConfigurationAssumption
<1>4. FailedReport(r)
        = [status |-> "failed", processing |-> Configuration[r],
           observed |-> sync[r].observed, counts |-> sync[r].counts,
           corpus_revision |-> None]
  BY DEF FailedReport
<1>5. None \in (SUBSET (Paths \X Row)) \cup {None}
  OBVIOUS
<1>6. FailedReport(r) \in Reports
  BY <1>2, <1>3, <1>4, <1>5 DEF Reports
<1> QED
  BY <1>4, <1>6

\* Storing it keeps the invariant: its run relies on nothing any more.
LEMMA InsertFailedReportKeeps ==
  ASSUME IInv, NEW r \in Runs, InsertFailedReport(r) PROVE IInv'
<1>1. "returned" \in Ended
  BY DEF Ended
<1>2. PICK s \in SyncStates : s = Over("returned") /\ s.phase = "returned"
  BY <1>1, OverTyped
<1>3. /\ sync' = [sync EXCEPT ![r] = s]
      /\ reports' = [reports EXCEPT ![r] = FailedReport(r)]
      /\ UNCHANGED <<files, documents, chunks, corpus_revision, grants, lock, edits>>
  BY <1>2 DEF InsertFailedReport
<1>4. TypeOK'
  BY <1>3, FailedReportTyped DEF IInv, TypeOK
<1>5. CorpusWhole' /\ GrantsResolve'
  BY <1>3 DEF IInv, CorpusWhole, OneProcessing, ChunksCurrent, RevisionCurrent, WellFormed,
         GrantsResolve, Present
<1>6. ASSUME NEW q \in Runs PROVE Memory(q, sync[q])'
  <2>1. CASE q = r
    <3>1. sync'[q] = s
      BY <1>3, <2>1 DEF IInv, TypeOK
    <3> QED
      BY <1>2, <3>1 DEF Memory
  <2>2. CASE q # r
    <3>1. sync'[q] = sync[q] /\ reports'[q] = reports[q]
      BY <1>3, <2>2 DEF IInv, TypeOK
    <3>2. Memory(q, sync[q])
      BY DEF IInv, Remembered
    <3> QED
      BY <1>3, <3>1, <3>2 DEF Memory, Compared
  <2> QED
    BY <2>1, <2>2
<1> QED
  BY <1>4, <1>5, <1>6 DEF IInv, Remembered

\* An edit takes their quiet from the runs that are under way.
LEMMA EditKeeps ==
  ASSUME IInv, NEW p \in Paths, NEW revision \in Revisions \cup {None}, Edit(p, revision)
  PROVE IInv'
<1>1. /\ files' = [files EXCEPT ![p] = revision]
      /\ edits' = edits + 1 /\ edits < MaxEdits
      /\ UNCHANGED <<documents, chunks, corpus_revision, grants, reports, lock>>
  BY DEF Edit, database
<1>2. ASSUME NEW q \in Runs
      PROVE /\ sync'[q] \in SyncStates
            /\ sync'[q].quiet = (sync[q].quiet /\ sync[q].phase \notin Active)
            /\ sync'[q].phase = sync[q].phase /\ sync'[q].unread = sync[q].unread
            /\ sync'[q].candidates = sync[q].candidates
            /\ sync'[q].existing = sync[q].existing
            /\ sync'[q].observed = sync[q].observed /\ sync'[q].counts = sync[q].counts
            /\ sync'[q].pending = sync[q].pending
            /\ sync'[q].processed = sync[q].processed
  <2>1. sync'[q] = [sync[q] EXCEPT !.quiet = @ /\ sync[q].phase \notin Active]
    BY DEF Edit
  <2>2. sync[q] \in SyncStates
    BY DEF IInv, TypeOK
  <2>3. PICK quiet \in BOOLEAN : quiet = (sync[q].quiet /\ sync[q].phase \notin Active)
    OBVIOUS
  <2>4. sync'[q] = [sync[q] EXCEPT !.quiet = quiet]
    BY <2>1, <2>2, <2>3 DEF SyncStates
  <2> QED
    BY <2>2, <2>3, <2>4 DEF SyncStates
<1>3. TypeOK'
  <2>1. sync' \in [Runs -> SyncStates]
    <3>1. sync' = [q \in Runs |-> sync'[q]]
      BY DEF Edit
    <3> QED
      BY <1>2, <3>1
  <2>2. edits' \in 0..MaxEdits
    BY <1>1, BoundsAssumption DEF IInv, TypeOK
  <2> QED
    BY <1>1, <2>1, <2>2 DEF IInv, TypeOK, Snapshots
<1>4. CorpusWhole' /\ GrantsResolve'
  BY <1>1 DEF IInv, CorpusWhole, OneProcessing, ChunksCurrent, RevisionCurrent, WellFormed,
         GrantsResolve, Present
<1>5. ASSUME NEW q \in Runs PROVE Memory(q, sync[q])'
  <2>1. Memory(q, sync[q])
    BY DEF IInv, Remembered
  <2>2. sync[q].phase \in Active => ~ sync'[q].quiet
    BY <1>2
  <2>3. Compared(q, sync[q]) => Compared(q, sync'[q])
    BY <1>2 DEF Compared
  <2> QED
    BY <1>1, <1>2, <2>1, <2>2, <2>3 DEF Memory, Compared, Active
<1> QED
  BY <1>3, <1>4, <1>5 DEF IInv, Remembered

\* A grant names a published document.
LEMMA GrantKeeps ==
  ASSUME IInv, NEW p \in Grantable, Grant(p) PROVE IInv'
<1>1. /\ documents[p] # None /\ grants' = grants \cup {p}
      /\ UNCHANGED <<files, documents, chunks, corpus_revision, reports, lock, sync, edits>>
  BY DEF Grant
<1>2. TypeOK' /\ GrantsResolve'
  BY <1>1, BoundsAssumption DEF IInv, TypeOK, GrantsResolve
<1>3. CorpusWhole'
  BY <1>1 DEF IInv, CorpusWhole, OneProcessing, ChunksCurrent, RevisionCurrent, WellFormed,
         Present
<1>4. Remembered'
  BY <1>1 DEF IInv, Remembered, Memory, Compared
<1> QED
  BY <1>2, <1>3, <1>4 DEF IInv

-----------------------------------------------------------------------------
(* The invariant                                                           *)

\* Every directory, and every whole corpus with it, satisfies the invariant.
LEMMA InitHolds == ASSUME Init PROVE IInv
<1>1. ASSUME NEW snapshot \in [Paths -> (Revisions \ Malformed) \cup {None}],
             NEW c \in Processings,
             documents = Proposed(snapshot, c),
             chunks = {ChunkOf(p, snapshot[p], c) : p \in Present(snapshot)},
             corpus_revision = CorpusRevision(snapshot, c)
      PROVE /\ documents \in Corpora /\ chunks \subseteq Chunks
            /\ corpus_revision \in (SUBSET (Paths \X Row)) \cup {None}
            /\ CorpusWhole
  <2>1. snapshot \in Snapshots
    BY DEF Snapshots
  <2>2. /\ Present(documents) = Present(snapshot)
        /\ corpus_revision \in SUBSET (Paths \X Row) /\ corpus_revision # None
        /\ documents \in Corpora
    BY <1>1, <2>1, ProposedTyped
  <2>3. \A p \in Present(snapshot) :
          /\ p \in Paths /\ snapshot[p] \in Revisions \ Malformed
          /\ documents[p] = RowOf(snapshot[p], c)
          /\ documents[p].source = snapshot[p] /\ documents[p].processing = c
    BY <1>1, <2>1, ProposedRow DEF Present
  <2>4. chunks \subseteq Chunks
    BY <1>1, <2>3 DEF ChunkOf, Chunks
  <2>5. OneProcessing /\ WellFormed
    BY <2>2, <2>3 DEF OneProcessing, WellFormed
  <2>6. ChunksCurrent
    BY <1>1, <2>2, <2>3 DEF ChunksCurrent
  <2>7. RevisionCurrent
    BY <1>1, <2>2, <2>3 DEF RevisionCurrent, CorpusRevision
  <2> QED
    BY <2>2, <2>4, <2>5, <2>6, <2>7 DEF CorpusWhole
<1>2. ASSUME documents = EmptySnapshot, chunks = {}, corpus_revision = None
      PROVE /\ documents \in Corpora /\ chunks \subseteq Chunks
            /\ corpus_revision \in (SUBSET (Paths \X Row)) \cup {None}
            /\ CorpusWhole
  <2>1. Present(documents) = {}
    BY <1>2 DEF Present, EmptySnapshot
  <2>2. CorpusWhole
    BY <1>2, <2>1 DEF CorpusWhole, OneProcessing, ChunksCurrent, RevisionCurrent, WellFormed
  <2>3. documents \in Corpora
    BY <1>2 DEF Corpora, EmptySnapshot
  <2>4. corpus_revision \in (SUBSET (Paths \X Row)) \cup {None}
    BY <1>2
  <2>5. chunks \subseteq Chunks
    BY <1>2
  <2> QED
    BY <2>2, <2>3, <2>4, <2>5
<1>3. /\ documents \in Corpora /\ chunks \subseteq Chunks
      /\ corpus_revision \in (SUBSET (Paths \X Row)) \cup {None}
      /\ CorpusWhole
  BY <1>1, <1>2 DEF Init
<1>4. TypeOK
  BY <1>3, NewRunTyped, BoundsAssumption DEF Init, TypeOK
<1>5. Remembered
  BY DEF Init, Remembered, Memory, NewRun
<1>6. GrantsResolve
  BY DEF Init, GrantsResolve
<1> QED
  BY <1>3, <1>4, <1>5, <1>6 DEF IInv

\* IInv is inductive.
LEMMA Inductive == ASSUME IInv, [Next]_vars PROVE IInv'
<1>1. ASSUME NEW r \in Runs, Start(r) \/ Advance(r) PROVE IInv'
  BY <1>1, StartKeeps, ReadFileKeeps, LoadExistingKeeps, ProcessDocumentKeeps, FailuresKeep,
     AcquireLockKeeps, CheckExistingKeeps, FailedTransactionKeeps, CommitKeeps,
     InsertFailedReportKeeps, RaisesKeep DEF Advance
<1>2. ASSUME NEW r \in Runs, Trouble(r) PROVE IInv'
  BY <1>2, FailuresKeep, RaisesKeep, LoadFailsKeeps, EmbeddingInterruptedKeeps,
     FailedTransactionKeeps, CommitKeeps, StopKeeps DEF Trouble
<1>3. ASSUME NEW p \in Paths, NEW revision \in Revisions \cup {None}, Edit(p, revision)
      PROVE IInv'
  BY <1>3, EditKeeps
<1>4. ASSUME NEW p \in Grantable, Grant(p) PROVE IInv'
  BY <1>4, GrantKeeps
<1>5. ASSUME UNCHANGED vars PROVE IInv'
  <2>1. TypeOK' /\ GrantsResolve'
    BY <1>5 DEF vars, database, IInv, TypeOK, GrantsResolve
  <2>2. CorpusWhole'
    BY <1>5 DEF vars, database, IInv, CorpusWhole, OneProcessing, ChunksCurrent,
       RevisionCurrent, WellFormed, Present
  <2>3. Remembered'
    BY <1>5 DEF vars, database, IInv, Remembered, Memory, Compared
  <2> QED
    BY <2>1, <2>2, <2>3 DEF IInv
<1> QED
  BY <1>1, <1>2, <1>3, <1>4, <1>5 DEF Next

\* The inductive invariant holds in every reachable state.
THEOREM Invariance == Spec => []IInv
  BY InitHolds, Inductive, PTL DEF Spec

\* Rows, chunks, reports and what every run has in memory keep their types.
THEOREM TypeCorrect == Spec => []TypeOK
<1>1. IInv => TypeOK
  BY DEF IInv
<1> QED
  BY <1>1, Invariance, PTL

\* The published rows, chunks and Corpus Revision belong together in every
\* state, for every number of racing runs and configurations.
THEOREM CorpusAlwaysWhole == Spec => []CorpusWhole
<1>1. IInv => CorpusWhole
  BY DEF IInv
<1> QED
  BY <1>1, Invariance, PTL

-----------------------------------------------------------------------------
(* What one step may do                                                    *)

\* Only a commit changes the rows, and it makes them those of its snapshot.
LEMMA RowsChangeByCommit ==
  ASSUME IInv, [Next]_vars
  PROVE \/ documents' = documents
        \/ \E r \in Runs : /\ Committed(r)
                           /\ documents' = Proposed(sync[r].candidates, Configuration[r])
<1>1. ASSUME NEW r \in Runs, Start(r) \/ Advance(r) \/ Trouble(r), ~ Committed(r)
      PROVE documents' = documents
  BY <1>1 DEF Advance, Trouble, Start, ReadFile, LoadExisting, ProcessDocument, ParseFails,
     AcquireLock, CheckExisting, CorpusChanged, Commit, InsertFailedReport, ReportKeyTaken,
     DiscoveryFails, PathRejected, LoadFails, EmbeddingInterrupted, EmbeddingFails,
     TransactionFails, CommitUnknown, ReportInsertFails, Stop, RollBack, Continue, database
<1>2. ASSUME NEW r \in Runs, Committed(r)
      PROVE documents' = Proposed(sync[r].candidates, Configuration[r])
  BY <1>2, WrittenIsProposed DEF Committed
<1>3. ASSUME NEW p \in Paths, NEW revision \in Revisions \cup {None}, Edit(p, revision)
      PROVE documents' = documents
  BY <1>3 DEF Edit, database
<1>4. ASSUME NEW p \in Grantable, Grant(p) PROVE documents' = documents
  BY <1>4 DEF Grant
<1> QED
  BY <1>1, <1>2, <1>3, <1>4 DEF Next, vars, database

\* A document enters the corpus with no Access Grant, whoever held one before.
THEOREM ReadmittedAlwaysUngranted == Spec => ReadmittedUngranted
<1>1. ASSUME IInv, [Next]_vars
      PROVE \A p \in Paths : documents[p] = None /\ documents'[p] # None => p \notin grants'
  <2>1. CASE documents' = documents
    BY <2>1
  <2>2. ASSUME NEW r \in Runs, Committed(r)
        PROVE \A p \in Paths : documents[p] = None => p \notin grants'
    BY <1>1, <2>2 DEF Committed, RemainingGrants, IInv, GrantsResolve
  <2> QED
    BY <1>1, <2>1, <2>2, RowsChangeByCommit
<1> QED
  BY <1>1, Invariance, PTL DEF Spec, ReadmittedUngranted

\* A report is stored by a commit or says that its run failed.
LEMMA ReportsChange ==
  ASSUME IInv, [Next]_vars
  PROVE \/ reports' = reports
        \/ \E r \in Runs : Committed(r)
        \/ \E r \in Runs : InsertFailedReport(r)
<1>1. ASSUME NEW r \in Runs, Start(r) \/ Advance(r) \/ Trouble(r), ~ Committed(r),
             ~ InsertFailedReport(r)
      PROVE reports' = reports
  BY <1>1 DEF Advance, Trouble, Start, ReadFile, LoadExisting, ProcessDocument, ParseFails,
     AcquireLock, CheckExisting, CorpusChanged, Commit, ReportKeyTaken,
     DiscoveryFails, PathRejected, LoadFails, EmbeddingInterrupted, EmbeddingFails,
     TransactionFails, CommitUnknown, ReportInsertFails, Stop, RollBack, Continue, database
<1>2. ASSUME NEW p \in Paths, NEW revision \in Revisions \cup {None}, Edit(p, revision)
      PROVE reports' = reports
  BY <1>2 DEF Edit, database
<1>3. ASSUME NEW p \in Grantable, Grant(p) PROVE reports' = reports
  BY <1>3 DEF Grant
<1> QED
  BY <1>1, <1>2, <1>3 DEF Next, vars, database

\* What a run publishes while nobody touches the directory is the directory.
THEOREM QuietSyncAlwaysPublishesDirectory == Spec => QuietSyncPublishesDirectory
<1>1. ASSUME IInv, [Next]_vars, NEW r \in Runs, reports[r] = None, reports'[r] # None,
             reports'[r].status = "succeeded", sync[r].quiet
      PROVE /\ Present(documents') = Present(files)
            /\ \A p \in Present(files) : documents'[p].source = files[p]
  <2>1. ~ \E q \in Runs : InsertFailedReport(q)
    <3>1. SUFFICES ASSUME NEW q \in Runs, InsertFailedReport(q) PROVE FALSE
      OBVIOUS
    <3>2. reports' = [reports EXCEPT ![q] = FailedReport(q)]
      BY <3>1 DEF InsertFailedReport
    <3>3. q = r /\ reports'[r].status = "failed"
      BY <1>1, <3>2, FailedReportTyped DEF IInv, TypeOK
    <3> QED
      BY <1>1, <3>3
  <2>2. PICK q \in Runs : Committed(q)
    BY <1>1, <2>1, ReportsChange
  <2>3. q = r
    BY <1>1, <2>2 DEF Committed, IInv, TypeOK
  <2>4. sync[r].candidates = files /\ files \in Snapshots /\ Configuration[r] \in Processings
    BY <1>1, <2>2, <2>3, Writing DEF Committed
  <2>5. documents' = Proposed(files, Configuration[r])
    BY <1>1, <2>2, <2>3, <2>4, WrittenIsProposed DEF Committed
  <2>6. Present(documents') = Present(files)
    BY <2>4, <2>5, ProposedTyped
  <2> QED
    BY <2>4, <2>5, <2>6, ProposedRow DEF Present
<1>2. IInv /\ [Next]_vars =>
        \A r \in Runs :
          reports[r] = None /\ reports'[r] # None /\ reports'[r].status = "succeeded"
            /\ sync[r].quiet
          => Present(documents') = Present(files)
               /\ \A p \in Present(files) : documents'[p].source = files[p]
  BY <1>1
<1> QED
  BY <1>2, Invariance, PTL DEF Spec, QuietSyncPublishesDirectory

-----------------------------------------------------------------------------
(* Corpus Sync implements Publication                                      *)

\* The cardinality the instance sees is the one of this module.
LEMMA SameCardinality ==
  ASSUME NEW S PROVE Publication!Cardinality(S) = Cardinality(S)
  BY DEF Publication!Cardinality, Cardinality

\* The counts made outside the lock are those of the replacement itself.
LEMMA CountsAreChanges ==
  ASSUME NEW snapshot \in Snapshots, NEW old \in Corpora, NEW c \in Processings,
         NEW new, new = Proposed(snapshot, c)
  PROVE CountChanges(snapshot, old, c) = Publication!Changes(old, new)
<1>1. \A contents : Publication!Published(contents) = Present(contents)
  BY DEF Publication!Published, Present
<1>2. Present(new) = Present(snapshot)
  BY ProposedTyped
<1>3. \A p \in Present(snapshot) : p \in Paths /\ new[p] = RowOf(snapshot[p], c)
  BY ProposedRow DEF Present
<1>4. {p \in Present(snapshot) : p \notin Present(old)}
        = Publication!Published(new) \ Publication!Published(old)
  BY <1>1, <1>2
<1>5. {p \in Present(snapshot) : p \in Present(old) /\ ~ old[p] = RowOf(snapshot[p], c)}
        = {p \in Publication!Published(old) \cap Publication!Published(new) : old[p] # new[p]}
  BY <1>1, <1>2, <1>3
<1>6. Present(old) \ Present(snapshot)
        = Publication!Published(old) \ Publication!Published(new)
  BY <1>1, <1>2
<1>7. {p \in Present(snapshot) : p \in Present(old) /\ old[p] = RowOf(snapshot[p], c)}
        = {p \in Publication!Published(old) \cap Publication!Published(new) : old[p] = new[p]}
  BY <1>1, <1>2, <1>3
<1>8. CountChanges(snapshot, old, c)
        = [added |-> Cardinality({p \in Present(snapshot) : p \notin Present(old)}),
           updated |-> Cardinality({p \in Present(snapshot) :
                          p \in Present(old) /\ ~ old[p] = RowOf(snapshot[p], c)}),
           deleted |-> Cardinality(Present(old) \ Present(snapshot)),
           unchanged |-> Cardinality({p \in Present(snapshot) :
                          p \in Present(old) /\ old[p] = RowOf(snapshot[p], c)})]
  BY Zenon DEF CountChanges
<1>9. Publication!Changes(old, new)
        = [added |-> Cardinality(Publication!Published(new) \ Publication!Published(old)),
           updated |-> Cardinality({p \in Publication!Published(old) \cap Publication!Published(new) :
                                      old[p] # new[p]}),
           deleted |-> Cardinality(Publication!Published(old) \ Publication!Published(new)),
           unchanged |-> Cardinality({p \in Publication!Published(old) \cap Publication!Published(new) :
                                        old[p] = new[p]})]
  BY SameCardinality, Zenon DEF Publication!Changes
<1> QED
  BY <1>4, <1>5, <1>6, <1>7, <1>8, <1>9, Zenon

\* A commit is a publication of the run's snapshot, its counts included.
LEMMA CommitPublishes ==
  ASSUME IInv, NEW r \in Runs, Committed(r) PROVE Publication!Publish(r)
<1> DEFINE candidates == sync[r].candidates
           c == Configuration[r]
<1>1. /\ candidates \in Snapshots /\ c \in Processings
      /\ sync[r].observed = Cardinality(Present(candidates))
      /\ sync[r].counts = CountChanges(candidates, documents, c)
      /\ documents \in Corpora
  BY Writing DEF Committed, IInv, TypeOK
<1>2. documents' = Proposed(candidates, c)
  BY WrittenIsProposed DEF Committed
<1>3. Proposed(candidates, c) = Publication!CorpusOf(candidates, c)
  BY DEF Proposed, RowOf, Publication!CorpusOf
<1>4. sync[r].counts = Publication!Changes(documents, documents')
  BY <1>1, <1>2, CountsAreChanges
<1>5. sync[r].observed = Cardinality(Publication!Published(candidates))
  BY <1>1 DEF Publication!Published, Present
<1>6. CorpusRevision(candidates, c) = Publication!RevisionOf(documents')
  <2>1. Present(documents') = Present(candidates)
    BY <1>1, <1>2, ProposedTyped
  <2>2. \A p \in Present(candidates) : documents'[p] = RowOf(candidates[p], c)
    BY <1>1, <1>2, ProposedRow DEF Present
  <2>3. Present(documents') = {p \in Paths : documents'[p] # None}
    BY DEF Present
  <2> QED
    BY <2>1, <2>2, <2>3 DEF CorpusRevision, Publication!RevisionOf
<1>7. reports' = [reports EXCEPT ![r] =
        [status |-> "succeeded", processing |-> c,
         observed |-> Cardinality(Publication!Published(candidates)),
         counts |-> Publication!Changes(documents, documents'),
         corpus_revision |-> Publication!RevisionOf(documents')]]
  BY <1>4, <1>5, <1>6 DEF Committed, SucceededReport
<1>8. reports[r] = None /\ reports'[r] # None
  <2>1. reports'[r] = SucceededReport(r) /\ reports[r] = None
    BY DEF Committed, IInv, TypeOK
  <2>2. SucceededReport(r) \in Reports
    <3>1. sync[r] \in SyncStates
      BY DEF IInv, TypeOK
    <3>2. sync[r].observed \in Nat /\ sync[r].counts \in Counts
      BY <3>1 DEF SyncStates
    <3>3. CorpusRevision(candidates, c) \in SUBSET (Paths \X Row)
      BY <1>1, ProposedTyped
    <3> QED
      BY <1>1, <3>2, <3>3 DEF SucceededReport, Reports
  <2> QED
    BY <2>1, <2>2, NoneAssumption
<1>9. candidates \in [Paths -> Revisions \cup {None}]
  BY <1>1 DEF Snapshots
<1>10. documents' = Publication!CorpusOf(candidates, c)
  BY <1>2, <1>3
<1> HIDE DEF candidates, c
<1>11. reports' = [reports EXCEPT ![r] =
        [status |-> "succeeded", processing |-> c,
         observed |-> Publication!Cardinality(Publication!Published(candidates)),
         counts |-> Publication!Changes(documents, documents'),
         corpus_revision |-> Publication!RevisionOf(documents')]]
  BY <1>7, SameCardinality
<1> QED
  BY <1>1, <1>8, <1>9, <1>10, <1>11, Zenon DEF Publication!Publish

\* A failed report is the failure of a run that has reported nothing.
LEMMA FailedReportFails ==
  ASSUME IInv, NEW r \in Runs, InsertFailedReport(r) PROVE Publication!Fail(r)
<1>1. reports' = [reports EXCEPT ![r] = FailedReport(r)] /\ reports[r] = None
        /\ documents' = documents
  BY DEF InsertFailedReport
<1>2. reports'[r] = FailedReport(r)
  BY <1>1 DEF IInv, TypeOK
<1>3. sync[r] \in SyncStates
  BY DEF IInv, TypeOK
<1>4. sync[r].observed \in Nat /\ sync[r].counts \in Counts
  BY <1>3 DEF SyncStates
<1>5. FailedReport(r) \in Publication!FailedReports
  BY <1>4, ConfigurationAssumption DEF FailedReport, Publication!FailedReports, Counts
<1>6. FailedReport(r) # None
  BY FailedReportTyped, NoneAssumption
<1> QED
  BY <1>1, <1>2, <1>5, <1>6 DEF Publication!Fail

\* Corpus Sync implements Publication: every step replaces the whole corpus with
\* a true report, reports a failure, or changes neither corpus nor reports.
THEOREM ImplementsPublication == Spec => PublicationSpec
<1>1. Init => Publication!PublicationInit
  <2>1. SUFFICES ASSUME Init PROVE Publication!PublicationInit
    OBVIOUS
  <2>2. ASSUME NEW snapshot \in [Paths -> (Revisions \ Malformed) \cup {None}],
               NEW c \in Processings, documents = Proposed(snapshot, c)
        PROVE /\ snapshot \in [Paths -> Revisions \cup {None}]
              /\ documents = Publication!CorpusOf(snapshot, c)
    BY <2>2 DEF Proposed, RowOf, Publication!CorpusOf
  <2> QED
    BY <2>1, <2>2 DEF Init, EmptySnapshot, Publication!PublicationInit
<1>2. IInv /\ [Next]_vars => [Publication!PublicationNext]_(Publication!publicationVars)
  <2>1. SUFFICES ASSUME IInv, [Next]_vars
                 PROVE Publication!PublicationNext \/ UNCHANGED Publication!publicationVars
    OBVIOUS
  <2>2. ASSUME NEW r \in Runs, Committed(r) PROVE Publication!PublicationNext
    BY <2>1, <2>2, CommitPublishes DEF Publication!PublicationNext
  <2>3. ASSUME NEW r \in Runs, InsertFailedReport(r) PROVE Publication!PublicationNext
    BY <2>1, <2>3, FailedReportFails DEF Publication!PublicationNext
  <2> QED
    BY <2>1, <2>2, <2>3, RowsChangeByCommit, ReportsChange DEF Publication!publicationVars
<1> QED
  BY <1>1, <1>2, Invariance, PTL DEF Spec, PublicationSpec, Publication!PublicationSpec

=============================================================================
