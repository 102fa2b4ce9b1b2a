---------------------------- MODULE Publication ----------------------------
(***************************************************************************)
(* What Corpus Sync promises a reader of one Knowledge Source, however     *)
(* many syncs run, fail, race or stop: the published corpus is replaced    *)
(* as a whole, by one run at a time, and the one report a run may leave    *)
(* tells the truth about what that run did to the corpus.                  *)
(***************************************************************************)
EXTENDS Naturals, FiniteSets

CONSTANTS Paths,        \* source-relative paths, the identity of a document
          Revisions,    \* Source Revisions a document can have
          Processings,  \* Processing Revisions
          Runs,         \* run ids
          None

VARIABLES corpus,       \* the row published for each path, or None
          reports       \* the report stored for each run, or None

publicationVars == <<corpus, reports>>

Row == [source : Revisions, processing : Processings]

Corpora == [Paths -> Row \cup {None}]

\* The corpus in which exactly the documents of snapshot are published.
CorpusOf(snapshot, c) ==
  [p \in Paths |-> IF snapshot[p] = None
                     THEN None
                     ELSE [source |-> snapshot[p], processing |-> c]]

\* The Corpus Revision: a digest of every document with both its revisions.
RevisionOf(published) ==
  {<<p, published[p]>> : p \in {q \in Paths : published[q] # None}}

Published(contents) == {p \in Paths : contents[p] # None}

\* What replacing old by new adds, updates, deletes and leaves alone.
Changes(old, new) ==
  [added     |-> Cardinality(Published(new) \ Published(old)),
   updated   |-> Cardinality({p \in Published(old) \cap Published(new) : old[p] # new[p]}),
   deleted   |-> Cardinality(Published(old) \ Published(new)),
   unchanged |-> Cardinality({p \in Published(old) \cap Published(new) : old[p] = new[p]})]

PublicationInit ==
  /\ \/ corpus = [p \in Paths |-> None]
     \/ \E snapshot \in [Paths -> Revisions \cup {None}], c \in Processings :
          corpus = CorpusOf(snapshot, c)
  /\ reports = [r \in Runs |-> None]

\* One run replaces the corpus and reports it in the same transaction.
Publish(r) ==
  /\ reports[r] = None /\ reports'[r] # None
  /\ \E snapshot \in [Paths -> Revisions \cup {None}], c \in Processings :
       /\ corpus' = CorpusOf(snapshot, c)
       /\ reports' = [reports EXCEPT ![r] =
            [status |-> "succeeded", processing |-> c,
             observed |-> Cardinality(Published(snapshot)),
             counts |-> Changes(corpus, corpus'),
             corpus_revision |-> RevisionOf(corpus')]]

FailedReports ==
  [status : {"failed"}, processing : Processings, observed : Nat,
   counts : [added : Nat, updated : Nat, deleted : Nat, unchanged : Nat],
   corpus_revision : {None}]

\* One run reports that it failed, and has published nothing.
Fail(r) ==
  /\ reports[r] = None /\ reports'[r] # None
  /\ reports'[r] \in FailedReports
  /\ reports' = [reports EXCEPT ![r] = reports'[r]]
  /\ UNCHANGED corpus

PublicationNext == \E r \in Runs : Publish(r) \/ Fail(r)

PublicationSpec == PublicationInit /\ [][PublicationNext]_publicationVars
=============================================================================
