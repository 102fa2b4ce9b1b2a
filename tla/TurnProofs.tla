----------------------------- MODULE TurnProofs -----------------------------
(***************************************************************************)
(* Proofs about the Turn graph, for every set of identities, Principals    *)
(* and documents, every budget the code accepts and every bound.           *)
(***************************************************************************)
EXTENDS Turn, SequenceTheorems, WellFoundedInduction, TLAPS

-----------------------------------------------------------------------------
(* The inductive invariant, in named parts. *)

\* A checkpoint holds work exactly when a node is still to run, and that work
\* passes its validator.
WorkAtNode ==
  /\ work = Null <=> next = "end"
  /\ work # Null => WorkAccepted(work)

\* The stages each node may find; the routes and the nodes agree on them.
StagesAt(n) ==
  CASE n = "prepare_turn" -> {"new", "prepared"}
    [] n = "capture_turn_authorization" -> {"prepared"}
    [] n = "compact_context" -> {"authorized", "compacting"}
    [] n = "contextualize_turn" -> {"authorized"}
    [] n = "run_research_subgraph" -> {"researching"}
    [] n = "run_answer_subgraph" -> {"answering"}
    [] n = "authorize_and_commit_turn" -> {"authorizing"}
    [] n = "complete_turn" -> {"terminal"}

StageAtNode == work # Null => work.stage \in StagesAt(next)

\* Work that prepare_turn accepted.
InProgress(w) == w # Null /\ w.stage # "new"

\* A thread the Turn t may be checkpointed with, rolled back to or committed
\* to.
OwnThread(th, t) ==
  /\ th \in ThreadStates
  /\ ThreadAccepted(th)
  /\ th.principal_id # Null
  /\ th.active_turn_id = t
  /\ t \notin IdsOf(th.turn_records)

RollbackOwned(w) ==
  w.pre_compaction_thread = Null
    \/ OwnThread(w.pre_compaction_thread, w.turn_id)

ActiveBound ==
  /\ ThreadAccepted(thread)
  /\ work = Null => thread.active_turn_id = Null
  /\ InProgress(work) =>
       /\ OwnThread(thread, work.turn_id)
       /\ thread.active_turn_fingerprint = Fingerprint(work)
       /\ RollbackOwned(work)

\* Calls that attempts already lost to a restart or a process stop.
Spent(w) == (w.authorization_restarts + crashes) * ModelCallLimit

CallsWithin(w, made) ==
  /\ w.model_calls <= ModelCallLimit
  /\ made <= ModelCallLimit + Spent(w)
  /\ ~ResultStage(w) => made <= w.model_calls + Spent(w)

CallsBound == InProgress(work) => CallsWithin(work, calls)

IInv ==
  /\ TypeOK
  /\ WorkAtNode
  /\ StageAtNode
  /\ ActiveBound
  /\ CallsBound

-----------------------------------------------------------------------------
(* Thread Memory. *)

\* What a compaction keeps for its rollback is a thread of the declared type.
LEMMA RetainedType ==
  ASSUME NEW th \in ThreadStates
  PROVE  Retained(th) \in ThreadsOver({Null})
BY DEF ThreadStates, ThreadsOver, Retained

\* A thread without a fingerprint is a thread state.
LEMMA PlainThreadType == ThreadsOver({Null}) \subseteq ThreadStates
BY DEF ThreadStates, ThreadsOver

\* A record of a new Turn ID may be appended to any accepted thread.
LEMMA CommittedAccepted ==
  ASSUME NEW th \in ThreadStates, ThreadAccepted(th), th.principal_id # Null,
         NEW r \in TurnRecords, r.turn_id \notin IdsOf(th.turn_records)
  PROVE  /\ Committed(th, r) \in ThreadStates
         /\ ThreadAccepted(Committed(th, r))
         /\ Committed(th, r).active_turn_id = Null
<1> DEFINE records == th.turn_records
           c == Committed(th, r)
<1>1. records \in Seq(TurnRecords)
  BY DEF ThreadStates, ThreadsOver
<1>2. c = [th EXCEPT !.turn_records = Append(records, r),
                     !.active_turn_id = Null,
                     !.active_turn_fingerprint = Null]
  BY DEF Committed
<1>3. Append(records, r) \in Seq(TurnRecords)
  BY <1>1
<1>4. c \in ThreadStates
  BY <1>2, <1>3 DEF ThreadStates, ThreadsOver
<1>5. /\ c.turn_records = Append(records, r)
      /\ c.active_turn_id = Null
      /\ c.active_turn_fingerprint = Null
      /\ c.principal_id = th.principal_id
  BY <1>2 DEF ThreadStates, ThreadsOver
<1>6. ASSUME NEW i \in 1..Len(c.turn_records), NEW j \in 1..Len(c.turn_records),
             c.turn_records[i].turn_id = c.turn_records[j].turn_id
      PROVE  i = j
  <2>1. Len(c.turn_records) = Len(records) + 1
    BY <1>1, <1>5
  <2>2. \A k \in 1..Len(records) : /\ c.turn_records[k] = records[k]
                                   /\ records[k].turn_id # r.turn_id
    BY <1>1, <1>5 DEF IdsOf
  <2>3. c.turn_records[Len(records) + 1] = r
    BY <1>1, <1>5
  <2>4. i \in 1..Len(records) \/ i = Len(records) + 1
    BY <1>1, <2>1
  <2>5. j \in 1..Len(records) \/ j = Len(records) + 1
    BY <1>1, <2>1
  <2>6. CASE i \in 1..Len(records) /\ j \in 1..Len(records)
    <3>1. records[i].turn_id = records[j].turn_id
      BY <1>6, <2>2, <2>6
    <3> QED
      BY <3>1, <2>6 DEF ThreadAccepted
  <2> QED
    BY <1>6, <2>2, <2>3, <2>4, <2>5, <2>6
<1> QED
  BY <1>4, <1>5, <1>6 DEF ThreadAccepted

\* Compaction keeps the records it does not summarise, in order.
LEMMA CompactedAccepted ==
  ASSUME NEW th \in ThreadStates, ThreadAccepted(th), th.principal_id # Null,
         NEW k \in 1..Len(th.turn_records), NEW d \in SUBSET Docs
  PROVE  /\ Compacted(th, k, d) \in ThreadStates
         /\ ThreadAccepted(Compacted(th, k, d))
         /\ Compacted(th, k, d).principal_id = th.principal_id
         /\ Compacted(th, k, d).active_turn_id = th.active_turn_id
         /\ IdsOf(Compacted(th, k, d).turn_records) \subseteq IdsOf(th.turn_records)
<1> DEFINE records == th.turn_records
           n == Len(records)
           rest == SubSeq(records, k + 1, n)
           s == [covered |-> Covered(th) \o SubSeq(records, 1, k),
                 dependencies |-> d]
           c == Compacted(th, k, d)
<1>1. records \in Seq(TurnRecords) /\ n \in Nat
  BY DEF ThreadStates, ThreadsOver
<1>2. Covered(th) \in Seq(TurnRecords)
  BY NullAssumption DEF Covered, ThreadStates, ThreadsOver, Summaries
<1>3. SubSeq(records, 1, k) \in Seq(TurnRecords)
  BY <1>1
<1>4. s \in Summaries
  BY <1>2, <1>3, ConcatProperties DEF Summaries
<1>5. /\ rest \in Seq(TurnRecords)
      /\ Len(rest) = n - k
      /\ \A i \in 1..(n - k) : rest[i] = records[k + i]
  BY <1>1
<1>6. c = [th EXCEPT !.summary = s, !.turn_records = rest]
  BY DEF Compacted, ThreadStates, ThreadsOver
<1>7. c \in ThreadStates
  BY <1>4, <1>5, <1>6 DEF ThreadStates, ThreadsOver
<1>8. /\ c.turn_records = rest
      /\ c.principal_id = th.principal_id
      /\ c.active_turn_id = th.active_turn_id
      /\ c.active_turn_fingerprint = th.active_turn_fingerprint
  BY <1>6 DEF ThreadStates, ThreadsOver
<1>9. ASSUME NEW i \in 1..(n - k), NEW j \in 1..(n - k),
             rest[i].turn_id = rest[j].turn_id
      PROVE  i = j
  <2>1. k + i \in 1..n /\ k + j \in 1..n
    BY <1>1
  <2>2. records[k + i].turn_id = records[k + j].turn_id
    BY <1>5, <1>9
  <2>3. k + i = k + j
    BY <2>1, <2>2 DEF ThreadAccepted
  <2> QED
    BY <2>3, <1>1
<1>10. ThreadAccepted(c)
  BY <1>5, <1>8, <1>9 DEF ThreadAccepted
<1>11. IdsOf(rest) \subseteq IdsOf(records)
  <2> SUFFICES ASSUME NEW i \in 1..(n - k)
               PROVE  rest[i].turn_id \in IdsOf(records)
    BY <1>5 DEF IdsOf
  <2>1. k + i \in 1..n
    BY <1>1
  <2> QED
    BY <1>5, <2>1 DEF IdsOf
<1> QED
  BY <1>7, <1>8, <1>10, <1>11

-----------------------------------------------------------------------------
(* Current Turn Work. *)

\* Python's None is no snapshot, thread, work or identity.
LEMMA NullDistinct ==
  /\ Null \notin TurnIds
  /\ Null \notin Principals
  /\ Null \notin Questions
  /\ Null \notin Outcomes
  /\ Null \notin Reasons
  /\ Null \notin Snapshots
  /\ Null \notin Summaries
  /\ Null \notin ThreadsOver({Null})
  /\ Null \notin Works
  /\ Null \notin SUBSET Docs
BY NullAssumption

\* _terminal_work writes work its validator accepts, at either result stage.
LEMMA TerminalWorkAccepted ==
  ASSUME NEW w, WorkAccepted(w), w.authorization_snapshot # Null,
         w.cited_answer = Null,
         NEW question \in Questions,
         NEW outcome \in Outcomes, NEW reason \in Reasons \cup {Null},
         outcome = "answered" <=> reason = Null
  PROVE  /\ WorkAccepted(TerminalWork(w, question, outcome, reason))
         /\ TerminalWork(w, question, outcome, reason).stage = "authorizing"
<1> DEFINE t == TerminalWork(w, question, outcome, reason)
<1>1. w \in Works
  BY DEF WorkAccepted
<1>a. t = [w EXCEPT !.stage = "authorizing",
                    !.standalone_question = question,
                    !.outcome = outcome,
                    !.terminal_reason = reason]
  BY DEF TerminalWork
<1>b. /\ "authorizing" \in Stages
      /\ question \in Questions \cup {Null}
      /\ outcome \in Outcomes \cup {Null}
  BY DEF Stages
<1> HIDE DEF t
<1>2. t \in Works
  BY ZenonT(30), <1>1, <1>a, <1>b DEF Works
<1> USE DEF t
<1>3. /\ t.stage = "authorizing"
      /\ t.standalone_question = question
      /\ t.outcome = outcome
      /\ t.terminal_reason = reason
      /\ t.authorization_snapshot = w.authorization_snapshot
      /\ t.cited_answer = w.cited_answer
  BY <1>1 DEF TerminalWork, Works
<1> QED
  BY <1>2, <1>3, NullDistinct DEF WorkAccepted, ResultStage

\* _terminal_checkpoint writes terminal work its validator accepts.
LEMMA TerminalCheckpointAccepted ==
  ASSUME NEW w, WorkAccepted(w), w.stage = "prepared"
  PROVE  /\ WorkAccepted(TerminalCheckpoint(w, "authorization_unavailable"))
         /\ TerminalCheckpoint(w, "authorization_unavailable").stage = "terminal"
<1> DEFINE t == TerminalCheckpoint(w, "authorization_unavailable")
<1>1. w \in Works
  BY DEF WorkAccepted
<1> DEFINE question == IF w.standalone_question = Null
                       THEN "own" ELSE w.standalone_question
<1>a. t = [w EXCEPT !.stage = "terminal",
                    !.standalone_question = question,
                    !.outcome = "failed",
                    !.terminal_reason = "authorization_unavailable"]
  BY DEF TerminalCheckpoint
<1>b. /\ "terminal" \in Stages
      /\ question \in Questions \cup {Null}
      /\ "failed" \in Outcomes \cup {Null}
      /\ "authorization_unavailable" \in Reasons \cup {Null}
  BY <1>1 DEF Stages, Questions, Outcomes, Reasons, Works
<1> HIDE DEF t, question
<1>2. t \in Works
  BY <1>1, <1>a, <1>b DEF Works
<1> USE DEF t, question
<1>3. /\ t.stage = "terminal"
      /\ t.standalone_question # Null
      /\ t.outcome = "failed"
      /\ t.terminal_reason = "authorization_unavailable"
      /\ t.authorization_snapshot = w.authorization_snapshot
      /\ t.cited_answer = w.cited_answer
  BY <1>1, NullDistinct DEF TerminalCheckpoint, Works, Questions
<1> QED
  BY <1>2, <1>3, NullDistinct
     DEF WorkAccepted, ResultStage, Outcomes, Reasons

\* _authorizing_failure writes work its validator accepts.
LEMMA AuthorizingFailureAccepted ==
  ASSUME NEW w, WorkAccepted(w), w.stage \in {"researching", "answering"}
  PROVE  /\ WorkAccepted(AuthorizingFailure(w))
         /\ AuthorizingFailure(w).stage = "authorizing"
BY NullDistinct
   DEF WorkAccepted, AuthorizingFailure, Works, Stages, ResultStage, Questions,
       Outcomes, Reasons

\* The restart after an authorization change writes work its validator accepts.
LEMMA RestartedAccepted ==
  ASSUME NEW w, WorkAccepted(w), w.authorization_restarts < RestartLimit
  PROVE  /\ WorkAccepted(Restarted(w))
         /\ Restarted(w).stage = "prepared"
<1> DEFINE r == Restarted(w)
<1>1. w \in Works
  BY DEF WorkAccepted
<1>a. w.authorization_restarts + 1 \in 0..1
  BY <1>1 DEF RestartLimit, Works
<1>b. w.authorization_restarts \in 0..1
  BY <1>1 DEF RestartLimit, Works
<1>2. r \in Works
  BY <1>1, <1>a DEF Restarted, Works, Stages
<1>3. /\ r.stage = "prepared"
      /\ r.standalone_question = Null
      /\ r.authorization_snapshot = Null
      /\ r.cited_answer = Null
      /\ r.outcome = Null
      /\ r.terminal_reason = Null
  BY <1>1 DEF Restarted, Works
<1> QED
  BY <1>2, <1>3 DEF WorkAccepted, ResultStage

\* Work a caller submits, and the reset of it, is accepted.
LEMMA NewWorkAccepted ==
  ASSUME NEW t \in TurnIds, NEW stage \in {"new", "prepared"}
  PROVE  WorkAccepted(NewWork(t, stage))
BY NullDistinct
   DEF WorkAccepted, NewWork, Works, Stages, ResultStage

\* A failure is committed as a Turn Record.
LEMMA FailureRecordType ==
  ASSUME NEW w \in Works, NEW reason \in Reasons
  PROVE  /\ FailureRecord(w, reason) \in TurnRecords
         /\ FailureRecord(w, reason).turn_id = w.turn_id
BY DEF FailureRecord, Works, TurnRecords, Questions, Outcomes

\* Work at a result stage is committed as a Turn Record.
LEMMA ResultRecordType ==
  ASSUME NEW w, WorkAccepted(w), ResultStage(w)
  PROVE  /\ ResultRecord(w) \in TurnRecords
         /\ ResultRecord(w).turn_id = w.turn_id
         /\ [ResultRecord(w) EXCEPT !.citation_dependencies = {}]
              \in TurnRecords
BY DEF ResultRecord, Works, TurnRecords, WorkAccepted, ResultStage

-----------------------------------------------------------------------------
(* The two ways a node ends. *)

\* What every node after prepare_turn finds.
LEMMA NodeFinds ==
  ASSUME IInv, NEW n \in Nodes \ {"prepare_turn"}, Proceeds(n)
  PROVE  /\ WorkAccepted(work)
         /\ InProgress(work)
         /\ work.stage \in StagesAt(n)
         /\ OwnThread(thread, work.turn_id)
         /\ RollbackOwned(work)
         /\ CallsWithin(work, calls)
         /\ work.turn_id \in TurnIds
         /\ calls \in Nat
<1>1. next = n
  BY DEF Proceeds, AtNode
<1>2. work # Null /\ WorkAccepted(work)
  BY <1>1 DEF IInv, WorkAtNode, Nodes
<1>3. work.stage \in StagesAt(n)
  BY <1>1, <1>2 DEF IInv, StageAtNode
<1>4. work.stage # "new"
  BY <1>3 DEF StagesAt, Nodes
<1> QED
  BY <1>2, <1>3, <1>4
     DEF IInv, InProgress, ActiveBound, CallsBound, TypeOK, WorkAccepted, Works

\* A node's checkpoint keeps the invariant when its work is acceptable to the
\* node it routes to, its thread belongs to the Turn, and its calls are
\* charged or already spent.
LEMMA CheckpointPreserves ==
  ASSUME IInv, NEW w, NEW th, NEW n \in Nodes,
         Checkpoint(w, th, n),
         WorkAccepted(w), w.stage \in StagesAt(n), w.stage # "new",
         OwnThread(th, w.turn_id), RollbackOwned(w),
         calls' \in Nat, CallsWithin(w, calls')
  PROVE  IInv'
<1> DEFINE c == Checkpointed(th, w)
<1>1. /\ work' = w
      /\ thread' = c
      /\ next' = n
      /\ UNCHANGED <<running, caller, error, scope, submissions, changes,
                     crashes, base>>
  BY DEF Checkpoint, budgets
<1>2. w \in Works /\ w # Null
  BY NullDistinct DEF WorkAccepted
<1>3. /\ c \in ThreadStates
      /\ c.active_turn_fingerprint = w
      /\ c.principal_id = th.principal_id
      /\ c.active_turn_id = th.active_turn_id
      /\ c.turn_records = th.turn_records
  BY <1>2 DEF Checkpointed, Fingerprint, OwnThread, ThreadStates, ThreadsOver
<1>4. w.turn_id \in TurnIds
  BY <1>2 DEF Works
<1>5. ThreadAccepted(c)
  BY <1>3, <1>4, NullDistinct DEF OwnThread, ThreadAccepted
<1>6. OwnThread(c, w.turn_id)
  BY <1>3, <1>5 DEF OwnThread
<1>7. TypeOK'
  BY <1>1, <1>2, <1>3 DEF IInv, TypeOK
<1>8. WorkAtNode'
  BY <1>1, <1>2 DEF WorkAtNode, Nodes
<1>9. StageAtNode'
  BY <1>1, <1>2 DEF StageAtNode
<1>10. ActiveBound'
  BY <1>1, <1>2, <1>3, <1>5, <1>6 DEF ActiveBound, Fingerprint
<1>11. CallsBound'
  BY <1>1 DEF CallsBound, CallsWithin, Spent
<1> QED
  BY <1>7, <1>8, <1>9, <1>10, <1>11 DEF IInv

\* Committing a record of the Turn ends it.
LEMMA CommitPreserves ==
  ASSUME IInv, InProgress(work), NEW th, OwnThread(th, work.turn_id),
         NEW r \in TurnRecords, r.turn_id = work.turn_id, Commit(th, r)
  PROVE  IInv'
<1> DEFINE c == Committed(th, r)
<1>1. /\ thread' = c
      /\ work' = Null
      /\ next' = "end"
      /\ running' = FALSE
      /\ UNCHANGED <<caller, error, scope, submissions, changes, crashes, base,
                     calls>>
  BY DEF Commit, budgets
<1>2. /\ c \in ThreadStates
      /\ ThreadAccepted(c)
      /\ c.active_turn_id = Null
  BY CommittedAccepted DEF OwnThread
<1>3. TypeOK'
  BY <1>1, <1>2 DEF IInv, TypeOK
<1>4. WorkAtNode' /\ StageAtNode'
  BY <1>1 DEF WorkAtNode, StageAtNode
<1>5. ActiveBound' /\ CallsBound'
  BY <1>1, <1>2 DEF ActiveBound, CallsBound, InProgress
<1> QED
  BY <1>3, <1>4, <1>5 DEF IInv

-----------------------------------------------------------------------------
(* One lemma per group of actions. *)

\* A thread nothing has run on satisfies the inductive invariant.
LEMMA InitEstablishes == Init => IInv
<1> SUFFICES ASSUME Init PROVE IInv
  OBVIOUS
<1>1. EmptyThread \in ThreadStates /\ ThreadAccepted(EmptyThread)
  BY NullDistinct DEF EmptyThread, ThreadStates, ThreadsOver, ThreadAccepted
<1>2. TypeOK
  <2>1. /\ thread \in ThreadStates /\ base \in ThreadStates
        /\ work \in Works \cup {Null}
    BY <1>1 DEF Init
  <2>2. /\ submissions \in 0..MaxSubmissions
        /\ changes \in 0..MaxScopeChanges
        /\ crashes \in 0..MaxCrashes
        /\ calls \in Nat
    BY BoundAssumption DEF Init
  <2> QED
    BY <2>1, <2>2 DEF Init, TypeOK, Errors
<1>3. WorkAtNode /\ StageAtNode
  BY DEF Init, WorkAtNode, StageAtNode
<1>4. ActiveBound /\ CallsBound
  BY <1>1 DEF Init, ActiveBound, CallsBound, InProgress, EmptyThread
<1> QED
  BY <1>2, <1>3, <1>4 DEF IInv

\* A run that starts, raises or meets a change of scope leaves the checkpoint.
LEMMA UnchangedCheckpointPreserves ==
  ASSUME IInv, UNCHANGED <<thread, work, next, crashes, calls>>, TypeOK'
  PROVE  IInv'
BY DEF IInv, WorkAtNode, StageAtNode, ActiveBound, CallsBound, CallsWithin,
       Spent

\* A node that raises leaves the checkpoint it read.
LEMMA NodeRaisesPreserves == IInv /\ NodeRaises => IInv'
<1> SUFFICES ASSUME IInv, NodeRaises PROVE IInv'
  OBVIOUS
<1>1. NodeError \in Errors
  BY DEF NodeError, PrepareError, Errors
<1>2. TypeOK'
  BY <1>1 DEF IInv, TypeOK, NodeRaises, budgets
<1> QED
  BY <1>2, UnchangedCheckpointPreserves DEF NodeRaises, budgets

\* prepare_turn binds, resumes or skips a Turn and keeps the invariant.
LEMMA PrepareTurnPreserves == IInv /\ PrepareTurn => IInv'
<1> SUFFICES ASSUME IInv, PrepareTurn PROVE IInv'
  OBVIOUS
<1>1. next = "prepare_turn" /\ PrepareError = "none"
  BY DEF PrepareTurn, Proceeds, AtNode, NodeError
<1>2. /\ WorkAccepted(work)
      /\ ThreadAccepted(thread)
      /\ thread.active_turn_id # Null => work.stage # "new"
      /\ thread.principal_id \in {Null, caller}
  BY <1>1 DEF PrepareError
<1>3. work # Null /\ work \in Works /\ work.turn_id \in TurnIds
  BY <1>2, NullDistinct DEF WorkAccepted, Works
<1>4. work.stage \in {"new", "prepared"}
  BY <1>1, <1>3 DEF IInv, StageAtNode, StagesAt
<1>5. thread.active_turn_id # Null => InProgress(work)
  BY <1>2, <1>3 DEF InProgress
<1>6. CASE work.turn_id \in IdsOf(thread.turn_records)
  <2>1. ~InProgress(work)
    BY <1>6 DEF IInv, ActiveBound, OwnThread
  <2>2. thread.active_turn_id = Null
    BY <1>5, <2>1
  <2>3. /\ work' = Null /\ next' = "end" /\ running' = FALSE
        /\ UNCHANGED <<thread, base, calls, caller, error, scope, submissions,
                       changes, crashes>>
    BY <1>6 DEF PrepareTurn, budgets
  <2> QED
    BY <2>2, <2>3
       DEF IInv, TypeOK, WorkAtNode, StageAtNode, ActiveBound, CallsBound,
           InProgress
<1>7. CASE work.turn_id \notin IdsOf(thread.turn_records)
  <2> DEFINE w == PreparedWork
             th == Begun(thread, caller, w)
  <2>1. /\ w \in Works /\ WorkAccepted(w) /\ w.stage = "prepared"
        /\ w.turn_id = work.turn_id
    <3>1. CASE thread.active_turn_id = Null
      BY ZenonT(30), <3>1, <1>3, NewWorkAccepted DEF PreparedWork, NewWork, WorkAccepted
    <3>2. CASE thread.active_turn_id # Null
      BY <3>2, <1>2, <1>3, <1>4 DEF PreparedWork
    <3> QED
      BY <3>1, <3>2
  <2>2. /\ work' = w /\ thread' = th
        /\ next' = "capture_turn_authorization"
        /\ IF thread.active_turn_id = Null
           THEN base' = thread /\ calls' = 0
           ELSE UNCHANGED <<base, calls>>
        /\ UNCHANGED <<running, caller, error, scope, submissions, changes,
                       crashes>>
    BY <1>7, <2>1 DEF PrepareTurn, budgets
  <2>3. /\ th \in ThreadStates
        /\ th.principal_id = caller
        /\ th.active_turn_id = w.turn_id
        /\ th.active_turn_fingerprint = w
        /\ th.turn_records = thread.turn_records
    BY <1>3, <2>1
       DEF IInv, TypeOK, Begun, Fingerprint, ThreadStates, ThreadsOver
  <2>4. caller # Null /\ w # Null /\ w.turn_id # Null
    BY <1>3, <2>1, NullDistinct DEF IInv, TypeOK
  <2>5. OwnThread(th, w.turn_id)
    BY <1>2, <1>7, <2>1, <2>3, <2>4 DEF OwnThread, ThreadAccepted
  <2>6. RollbackOwned(w) /\ CallsWithin(w, calls') /\ calls' \in Nat
    <3>1. CASE thread.active_turn_id = Null
      <4>1. /\ w.pre_compaction_thread = Null
            /\ w.model_calls = 0
            /\ w.authorization_restarts = 0
            /\ calls' = 0
        BY <2>2, <3>1 DEF PreparedWork, NewWork
      <4>2. (0 + crashes) * ModelCallLimit \in Nat /\ ModelCallLimit \in Nat
        BY BudgetAssumption, BoundAssumption DEF IInv, TypeOK
      <4> QED
        BY <4>1, <4>2 DEF RollbackOwned, CallsWithin, Spent
    <3>2. CASE thread.active_turn_id # Null
      BY <1>5, <2>2, <3>2
         DEF PreparedWork, IInv, TypeOK, ActiveBound, CallsBound
    <3> QED
      BY <3>1, <3>2
  <2>7. TypeOK'
    BY <2>1, <2>2, <2>3, <2>6 DEF IInv, TypeOK, Nodes
  <2>8. WorkAtNode' /\ StageAtNode'
    BY <2>1, <2>2, <2>4 DEF WorkAtNode, StageAtNode, StagesAt
  <2>9. ActiveBound'
    BY <2>2, <2>3, <2>4, <2>5, <2>6 DEF ActiveBound, OwnThread, Fingerprint
  <2>10. CallsBound'
    BY <2>2, <2>6 DEF CallsBound, CallsWithin, Spent
  <2> QED
    BY <2>7, <2>8, <2>9, <2>10 DEF IInv
<1> QED
  BY <1>6, <1>7

\* The arithmetic of lost calls.
LEMMA SpentFacts ==
  ASSUME IInv, NEW w \in Works
  PROVE  /\ Spent(w) \in Nat
         /\ ModelCallLimit \in Nat
         /\ w.model_calls \in Nat
         /\ \A v \in Works :
              /\ v.authorization_restarts = w.authorization_restarts
                   => Spent(v) = Spent(w)
              /\ v.authorization_restarts = w.authorization_restarts + 1
                   => Spent(v) = Spent(w) + ModelCallLimit
<1>1. ModelCallLimit \in Nat /\ crashes \in Nat
  BY BudgetAssumption, BoundAssumption DEF IInv, TypeOK
<1>2. \A v \in Works : v.authorization_restarts \in Nat /\ v.model_calls \in Nat
  BY DEF Works
<1>3. \A a, b \in Nat : /\ (a + b) * ModelCallLimit \in Nat
                        /\ ((a + 1) + b) * ModelCallLimit
                             = (a + b) * ModelCallLimit + ModelCallLimit
  BY <1>1
<1> QED
  BY <1>1, <1>2, <1>3 DEF Spent

\* Capturing the scope, or failing to, keeps the invariant.
LEMMA CapturePreserves ==
  IInv /\ (CaptureFails \/ CaptureTurnAuthorization) => IInv'
<1> SUFFICES ASSUME IInv, CaptureFails \/ CaptureTurnAuthorization PROVE IInv'
  OBVIOUS
<1>1. Proceeds("capture_turn_authorization")
  BY DEF CaptureFails, CaptureTurnAuthorization
<1>2. /\ WorkAccepted(work) /\ work \in Works
      /\ work.stage = "prepared"
      /\ OwnThread(thread, work.turn_id)
      /\ RollbackOwned(work)
      /\ CallsWithin(work, calls)
      /\ calls \in Nat
  BY <1>1, NodeFinds DEF Nodes, StagesAt, WorkAccepted
<1>3. calls' = calls
  BY <1>2 DEF CaptureFails, CaptureTurnAuthorization, Charge
<1>4. ASSUME CaptureFails PROVE IInv'
  <2> DEFINE w == TerminalCheckpoint(work, "authorization_unavailable")
  <2>1. Checkpoint(w, thread, "complete_turn")
    BY <1>4 DEF CaptureFails
  <2>2. WorkAccepted(w) /\ w.stage = "terminal"
    BY <1>2, TerminalCheckpointAccepted
  <2>3. /\ w.turn_id = work.turn_id
        /\ w.pre_compaction_thread = work.pre_compaction_thread
        /\ w.model_calls = work.model_calls
        /\ w.authorization_restarts = work.authorization_restarts
    BY <1>2 DEF TerminalCheckpoint, Works
  <2>4. RollbackOwned(w) /\ CallsWithin(w, calls')
    BY <1>2, <1>3, <2>2, <2>3
       DEF RollbackOwned, CallsWithin, Spent, ResultStage
  <2> HIDE DEF w
  <2> QED
    BY <1>2, <1>3, <2>1, <2>2, <2>3, <2>4, CheckpointPreserves
       DEF Nodes, StagesAt
<1>5. ASSUME CaptureTurnAuthorization PROVE IInv'
  <2> DEFINE snapshot == [principal_id |-> caller, revision |-> scope]
             w == [work EXCEPT !.stage = "authorized",
                               !.authorization_snapshot = snapshot]
  <2>1. PICK n \in {"compact_context", "contextualize_turn"} :
          Checkpoint(w, thread, n)
    BY <1>5 DEF CaptureTurnAuthorization
  <2>2. snapshot \in Snapshots /\ snapshot # Null
    BY NullDistinct DEF IInv, TypeOK, Snapshots
  <2> HIDE DEF snapshot
  <2>3. w \in Works
    BY <1>2, <2>2 DEF Works, Stages
  <2>4. /\ w.stage = "authorized"
        /\ w.authorization_snapshot = snapshot
        /\ w.turn_id = work.turn_id
        /\ w.pre_compaction_thread = work.pre_compaction_thread
        /\ w.model_calls = work.model_calls
        /\ w.authorization_restarts = work.authorization_restarts
        /\ w.standalone_question = work.standalone_question
        /\ w.outcome = work.outcome
        /\ w.terminal_reason = work.terminal_reason
        /\ w.cited_answer = work.cited_answer
    BY <1>2 DEF Works
  <2> HIDE DEF w
  <2>5. WorkAccepted(w)
    BY <1>2, <2>2, <2>3, <2>4 DEF WorkAccepted, ResultStage
  <2>6. RollbackOwned(w) /\ CallsWithin(w, calls')
    BY <1>2, <1>3, <2>4 DEF RollbackOwned, CallsWithin, Spent, ResultStage
  <2> QED
    BY <1>2, <1>3, <2>1, <2>4, <2>5, <2>6, CheckpointPreserves
       DEF Nodes, StagesAt
<1> QED
  BY <1>4, <1>5

\* A terminal result of a node that holds a snapshot goes to the gate.
LEMMA TerminalPreserves ==
  ASSUME IInv, InProgress(work), OwnThread(thread, work.turn_id),
         NEW w \in Works, WorkAccepted(w), w.authorization_snapshot # Null,
         w.cited_answer = Null, w.turn_id = work.turn_id, RollbackOwned(w),
         NEW question \in Questions, NEW outcome \in {"declined", "failed"},
         NEW reason \in Reasons, w.model_calls <= ModelCallLimit,
         calls' \in Nat, calls' <= ModelCallLimit + Spent(w),
         Checkpoint(TerminalWork(w, question, outcome, reason), thread,
                    "authorize_and_commit_turn")
  PROVE  IInv'
<1> DEFINE t == TerminalWork(w, question, outcome, reason)
<1>1. WorkAccepted(t) /\ t.stage = "authorizing"
  BY TerminalWorkAccepted, NullDistinct DEF Outcomes
<1>2. /\ t.turn_id = w.turn_id
      /\ t.pre_compaction_thread = w.pre_compaction_thread
      /\ t.model_calls = w.model_calls
      /\ t.authorization_restarts = w.authorization_restarts
  BY DEF TerminalWork, Works
<1> HIDE DEF t
<1>3. RollbackOwned(t) /\ CallsWithin(t, calls')
  BY <1>1, <1>2 DEF RollbackOwned, CallsWithin, Spent, ResultStage
<1> QED
  BY <1>1, <1>2, <1>3, CheckpointPreserves DEF Nodes, StagesAt, t

\* A non-empty set of positive numbers has a least element.
LEMMA LeastElement ==
  ASSUME NEW S \in SUBSET Nat, S # {}
  PROVE  \E k \in S : \A j \in S : k <= j
<1>1. PICK k \in S : \A j \in S : ~(<<j, k>> \in OpToRel(<, Nat))
  BY NatLessThanWellFounded, WFMin
<1>2. \A j \in S : k <= j
  <2> SUFFICES ASSUME NEW j \in S PROVE k <= j
    OBVIOUS
  <2>1. j \in Nat /\ k \in Nat
    OBVIOUS
  <2>2. ~(j < k)
    BY <1>1, <2>1 DEF OpToRel
  <2> QED
    BY <2>1, <2>2
<1> QED
  BY <1>2

\* The compaction prefix is at least one and at most every active record.
LEMMA PrefixRange ==
  ASSUME NEW th \in ThreadStates, th.turn_records # <<>>
  PROVE  CompactionPrefix(th) \in 1..Len(th.turn_records)
<1> DEFINE n == Len(th.turn_records)
           fits == {k \in 1..n :
                      RecordWeight * (n - k) + SummaryWeight <= ContextLimit}
<1>1. n \in Nat /\ n # 0
  BY EmptySeq DEF ThreadStates, ThreadsOver
<1>2. CASE fits = {}
  BY <1>1, <1>2 DEF CompactionPrefix
<1>3. CASE fits # {}
  <2>1. \E k \in fits : \A j \in fits : k <= j
    <3>1. fits \in SUBSET Nat
      BY <1>1
    <3> HIDE DEF fits
    <3> QED
      BY <1>3, <3>1, LeastElement
  <2> QED
    BY <1>3, <2>1 DEF CompactionPrefix
<1> QED
  BY <1>2, <1>3

\* What the compaction and contextualization nodes find.
LEMMA AuthorizedNodeFinds ==
  ASSUME IInv, NEW n \in {"compact_context", "contextualize_turn"}, Proceeds(n)
  PROVE  /\ WorkAccepted(work) /\ work \in Works /\ InProgress(work)
         /\ work.stage \in {"authorized", "compacting"}
         /\ work.authorization_snapshot # Null
         /\ work.standalone_question = Null
         /\ work.cited_answer = Null
         /\ work.outcome = Null
         /\ work.terminal_reason = Null
         /\ OwnThread(thread, work.turn_id)
         /\ RollbackOwned(work)
         /\ calls \in Nat
         /\ work.model_calls \in Nat
         /\ work.model_calls <= ModelCallLimit
         /\ ModelCallLimit \in 1..10
         /\ Spent(work) \in Nat
         /\ calls <= work.model_calls + Spent(work)
<1>1. n \in Nodes \ {"prepare_turn"}
  BY DEF Nodes
<1>2. /\ WorkAccepted(work) /\ work \in Works /\ InProgress(work)
      /\ work.stage \in {"authorized", "compacting"}
      /\ OwnThread(thread, work.turn_id)
      /\ RollbackOwned(work)
      /\ CallsWithin(work, calls)
      /\ calls \in Nat
  BY <1>1, NodeFinds DEF StagesAt, WorkAccepted
<1> QED
  BY <1>2, SpentFacts, BudgetAssumption DEF WorkAccepted, ResultStage, CallsWithin

\* A compaction refused by budget, deadline or dependency keeps the invariant.
LEMMA CompactionRefusedPreserves == IInv /\ CompactionRefused => IInv'
<1> SUFFICES ASSUME IInv, CompactionRefused PROVE IInv'
  OBVIOUS
<1>1. Proceeds("compact_context")
  BY DEF CompactionRefused
<1>2. PICK reason \in {"context_compaction_failed", "other"} :
        Checkpoint(TerminalWork(work, "own", "failed", reason),
                   thread, "authorize_and_commit_turn")
  BY DEF CompactionRefused
<1>3. calls' = calls
  BY <1>1, AuthorizedNodeFinds DEF CompactionRefused, Charge
<1>4. calls' <= ModelCallLimit + Spent(work)
  BY <1>1, <1>3, AuthorizedNodeFinds
<1>5. "own" \in Questions /\ reason \in Reasons
  BY DEF Questions, Reasons
<1> QED
  BY <1>1, <1>2, <1>3, <1>4, <1>5, AuthorizedNodeFinds, TerminalPreserves

\* A failed summary attempt, retried or final, keeps the invariant.
LEMMA CompactionAttemptFailsPreserves ==
  IInv /\ CompactionAttemptFails => IInv'
<1> SUFFICES ASSUME IInv, CompactionAttemptFails PROVE IInv'
  OBVIOUS
<1> DEFINE w == [work EXCEPT !.stage = "compacting",
                             !.model_calls = @ + 1,
                             !.compaction_attempts = @ + 1]
<1>1. /\ Proceeds("compact_context")
      /\ work.compaction_attempts < SummaryRetryLimit
      /\ work.model_calls < ModelCallLimit
      /\ \/ Checkpoint(w, thread, "compact_context")
         \/ Checkpoint(
              TerminalWork(w, "own", "failed", "context_compaction_failed"),
              thread, "authorize_and_commit_turn")
  BY DEF CompactionAttemptFails, CompactionAllowed
<1>2. calls' \in Nat /\ calls' <= calls + 1
  BY <1>1, AuthorizedNodeFinds DEF CompactionAttemptFails, Charge
<1>3. /\ work.model_calls + 1 \in 0..10
      /\ work.compaction_attempts + 1 \in 0..2
  BY <1>1, AuthorizedNodeFinds DEF Works, SummaryRetryLimit
<1>4. w \in Works
  BY <1>1, <1>3, AuthorizedNodeFinds DEF Works, Stages
<1>5. /\ w.stage = "compacting"
      /\ w.model_calls = work.model_calls + 1
      /\ w.turn_id = work.turn_id
      /\ w.authorization_restarts = work.authorization_restarts
      /\ w.pre_compaction_thread = work.pre_compaction_thread
      /\ w.authorization_snapshot = work.authorization_snapshot
      /\ w.standalone_question = work.standalone_question
      /\ w.cited_answer = work.cited_answer
      /\ w.outcome = work.outcome
      /\ w.terminal_reason = work.terminal_reason
  BY <1>1, AuthorizedNodeFinds DEF Works
<1> HIDE DEF w
<1>6. WorkAccepted(w)
  BY <1>1, <1>4, <1>5, AuthorizedNodeFinds DEF WorkAccepted, ResultStage
<1>7. RollbackOwned(w)
  BY <1>1, <1>5, AuthorizedNodeFinds DEF RollbackOwned
<1>8. /\ Spent(w) = Spent(work)
      /\ w.model_calls <= ModelCallLimit
      /\ calls' <= w.model_calls + Spent(w)
      /\ calls' <= ModelCallLimit + Spent(w)
  BY <1>1, <1>2, <1>5, AuthorizedNodeFinds DEF Spent
<1>9. CASE Checkpoint(w, thread, "compact_context")
  BY <1>1, <1>2, <1>5, <1>6, <1>7, <1>8, <1>9, AuthorizedNodeFinds,
     CheckpointPreserves DEF CallsWithin, Nodes, StagesAt
<1>10. CASE Checkpoint(
              TerminalWork(w, "own", "failed", "context_compaction_failed"),
              thread, "authorize_and_commit_turn")
  <2>1. "own" \in Questions /\ "context_compaction_failed" \in Reasons
    BY DEF Questions, Reasons
  <2> QED
    BY <1>1, <1>2, <1>4, <1>5, <1>6, <1>7, <1>8, <1>10, <2>1,
       AuthorizedNodeFinds, TerminalPreserves
<1> QED
  BY <1>1, <1>9, <1>10

\* A summary is shown nothing the Principal may not read.
LEMMA DependenciesInScope ==
  ASSUME NEW th, NEW k
  PROVE  AuthorizedDependencies(th, k) \subseteq scope
BY DEF AuthorizedDependencies

\* A compaction keeps the invariant, the thread it retains included.
LEMMA CompactContextPreserves == IInv /\ CompactContext => IInv'
<1> SUFFICES ASSUME IInv, CompactContext PROVE IInv'
  OBVIOUS
<1>1. /\ Proceeds("compact_context")
      /\ work.compaction_attempts < SummaryRetryLimit
      /\ work.model_calls < ModelCallLimit
      /\ thread.turn_records # <<>>
      /\ calls' = calls + 1
  BY AuthorizedNodeFinds DEF CompactContext, CompactionAllowed, Charge
<1> DEFINE k == CompactionPrefix(thread)
           kept(d) == Compacted(thread, k, d)
           previous == IF work.pre_compaction_thread = Null
                       THEN Retained(thread) ELSE work.pre_compaction_thread
           w == [work EXCEPT !.stage = "authorized",
                             !.model_calls = @ + 1,
                             !.compaction_attempts = @ + 1,
                             !.pre_compaction_thread = previous]
<1>2. PICK d \in SUBSET AuthorizedDependencies(thread, k) :
        Checkpoint(w, kept(d), "contextualize_turn")
  BY DEF CompactContext
<1>3. thread \in ThreadStates /\ k \in 1..Len(thread.turn_records)
  BY <1>1, PrefixRange DEF IInv, TypeOK
<1>4. d \in SUBSET Docs
  BY DependenciesInScope DEF IInv, TypeOK
<1>5. OwnThread(kept(d), work.turn_id)
  <2>1. /\ ThreadAccepted(thread)
        /\ thread.principal_id # Null
        /\ thread.active_turn_id = work.turn_id
        /\ work.turn_id \notin IdsOf(thread.turn_records)
    BY <1>1, AuthorizedNodeFinds DEF OwnThread
  <2> HIDE DEF k
  <2>2. /\ kept(d) \in ThreadStates
        /\ ThreadAccepted(kept(d))
        /\ kept(d).principal_id = thread.principal_id
        /\ kept(d).active_turn_id = thread.active_turn_id
        /\ IdsOf(kept(d).turn_records) \subseteq IdsOf(thread.turn_records)
    BY <1>3, <1>4, <2>1, CompactedAccepted
  <2> HIDE DEF kept
  <2> QED
    BY <2>1, <2>2 DEF OwnThread
<1>6. /\ previous \in ThreadsOver({Null})
      /\ OwnThread(previous, work.turn_id)
  <2>1. CASE work.pre_compaction_thread = Null
    <3>1. /\ Retained(thread) \in ThreadsOver({Null})
          /\ Retained(thread) \in ThreadStates
      BY <1>3, RetainedType, PlainThreadType
    <3>2. /\ Retained(thread).principal_id = thread.principal_id
          /\ Retained(thread).active_turn_id = thread.active_turn_id
          /\ Retained(thread).turn_records = thread.turn_records
          /\ Retained(thread).active_turn_fingerprint = Null
      BY <1>3 DEF Retained, ThreadStates, ThreadsOver
    <3>3. OwnThread(thread, work.turn_id)
      BY <1>1, AuthorizedNodeFinds
    <3>4. OwnThread(Retained(thread), work.turn_id)
      BY <3>1, <3>2, <3>3 DEF OwnThread, ThreadAccepted
    <3> QED
      BY <2>1, <3>1, <3>4
  <2>2. CASE work.pre_compaction_thread # Null
    BY <1>1, <2>2, AuthorizedNodeFinds DEF RollbackOwned, Works
  <2> QED
    BY <2>1, <2>2
<1>7. /\ work.model_calls + 1 \in 0..10
      /\ work.compaction_attempts + 1 \in 0..2
      /\ work \in Works
  BY SMTT(30), <1>1, AuthorizedNodeFinds DEF Works, SummaryRetryLimit
<1> HIDE DEF previous
<1>8. w \in Works
  BY <1>6, <1>7 DEF Works, Stages
<1>9. /\ w.stage = "authorized"
      /\ w.model_calls = work.model_calls + 1
      /\ w.turn_id = work.turn_id
      /\ w.authorization_restarts = work.authorization_restarts
      /\ w.pre_compaction_thread = previous
      /\ w.authorization_snapshot = work.authorization_snapshot
      /\ w.standalone_question = work.standalone_question
      /\ w.cited_answer = work.cited_answer
      /\ w.outcome = work.outcome
      /\ w.terminal_reason = work.terminal_reason
  BY <1>7 DEF Works
<1> HIDE DEF w, kept
<1>10. WorkAccepted(w)
  BY <1>1, <1>8, <1>9, AuthorizedNodeFinds DEF WorkAccepted, ResultStage
<1>11. RollbackOwned(w)
  BY <1>6, <1>9 DEF RollbackOwned
<1>12. calls' \in Nat /\ CallsWithin(w, calls')
  <2>1. Spent(w) = Spent(work)
    BY <1>9 DEF Spent
  <2>2. /\ calls \in Nat
        /\ work.model_calls \in Nat
        /\ ModelCallLimit \in Nat
        /\ Spent(work) \in Nat
        /\ calls <= work.model_calls + Spent(work)
    BY <1>1, AuthorizedNodeFinds
  <2>3. /\ calls' \in Nat
        /\ w.model_calls <= ModelCallLimit
        /\ calls' <= w.model_calls + Spent(w)
        /\ calls' <= ModelCallLimit + Spent(w)
    BY <1>1, <1>9, <2>1, <2>2
  <2> QED
    BY <2>3 DEF CallsWithin
<1> QED
  BY <1>2, <1>5, <1>9, <1>10, <1>11, <1>12, CheckpointPreserves
     DEF Nodes, StagesAt

\* A first Turn takes its message as its question.
LEMMA ContextualizeFirstTurnPreserves ==
  IInv /\ ContextualizeFirstTurn => IInv'
<1> SUFFICES ASSUME IInv, ContextualizeFirstTurn PROVE IInv'
  OBVIOUS
<1> DEFINE w == [work EXCEPT !.stage = "researching",
                             !.standalone_question = "own"]
<1>1. /\ Proceeds("contextualize_turn")
      /\ Checkpoint(w, thread, "run_research_subgraph")
      /\ calls' = calls
  BY AuthorizedNodeFinds DEF ContextualizeFirstTurn, Charge
<1>2. "own" \in Questions /\ "own" # Null
  BY NullDistinct DEF Questions
<1>3. w \in Works
  BY <1>1, <1>2, AuthorizedNodeFinds DEF Works, Stages
<1>4. /\ w.stage = "researching"
      /\ w.standalone_question = "own"
      /\ w.model_calls = work.model_calls
      /\ w.turn_id = work.turn_id
      /\ w.authorization_restarts = work.authorization_restarts
      /\ w.pre_compaction_thread = work.pre_compaction_thread
      /\ w.authorization_snapshot = work.authorization_snapshot
      /\ w.cited_answer = work.cited_answer
      /\ w.outcome = work.outcome
      /\ w.terminal_reason = work.terminal_reason
  BY <1>1, AuthorizedNodeFinds DEF Works
<1> HIDE DEF w
<1>5. WorkAccepted(w)
  BY <1>1, <1>2, <1>3, <1>4, AuthorizedNodeFinds DEF WorkAccepted, ResultStage
<1>6. RollbackOwned(w) /\ CallsWithin(w, calls') /\ calls' \in Nat
  BY <1>1, <1>4, AuthorizedNodeFinds DEF RollbackOwned, CallsWithin, Spent
<1> QED
  BY <1>1, <1>4, <1>5, <1>6, AuthorizedNodeFinds, CheckpointPreserves
     DEF Nodes, StagesAt

\* A rewrite refused by budget, deadline or dependency keeps the invariant.
LEMMA ContextualizationRefusedPreserves ==
  IInv /\ ContextualizationRefused => IInv'
<1> SUFFICES ASSUME IInv, ContextualizationRefused PROVE IInv'
  OBVIOUS
<1>1. /\ Proceeds("contextualize_turn")
      /\ Checkpoint(TerminalWork(work, "own", "failed", "other"),
                    thread, "authorize_and_commit_turn")
      /\ calls' = calls
  BY AuthorizedNodeFinds DEF ContextualizationRefused, Charge
<1>2. calls' <= ModelCallLimit + Spent(work)
  BY <1>1, AuthorizedNodeFinds
<1>3. "own" \in Questions /\ "other" \in Reasons
  BY DEF Questions, Reasons
<1> QED
  BY <1>1, <1>2, <1>3, AuthorizedNodeFinds, TerminalPreserves

\* The work after a rewrite was charged.
LEMMA ChargedRewriteFacts ==
  ASSUME IInv, RewriteAllowed
  PROVE  /\ ChargedRewrite \in Works
         /\ WorkAccepted(ChargedRewrite)
         /\ ChargedRewrite.stage = work.stage
         /\ ChargedRewrite.model_calls = work.model_calls + 1
         /\ ChargedRewrite.model_calls <= ModelCallLimit
         /\ ChargedRewrite.turn_id = work.turn_id
         /\ ChargedRewrite.authorization_restarts = work.authorization_restarts
         /\ Spent(ChargedRewrite) = Spent(work)
         /\ RollbackOwned(ChargedRewrite)
         /\ ChargedRewrite.authorization_snapshot # Null
         /\ ChargedRewrite.cited_answer = Null
         /\ ChargedRewrite.outcome = Null
         /\ ChargedRewrite.terminal_reason = Null
<1> DEFINE w == ChargedRewrite
<1>1. Proceeds("contextualize_turn") /\ work.model_calls < ModelCallLimit
  BY DEF RewriteAllowed
<1>2. work \in Works /\ work.model_calls + 1 \in 0..10
  BY <1>1, AuthorizedNodeFinds
<1>3. w \in Works
  BY <1>2 DEF ChargedRewrite, Works
<1>4. /\ w.stage = work.stage
      /\ w.model_calls = work.model_calls + 1
      /\ w.turn_id = work.turn_id
      /\ w.authorization_restarts = work.authorization_restarts
      /\ w.pre_compaction_thread = work.pre_compaction_thread
      /\ w.authorization_snapshot = work.authorization_snapshot
      /\ w.standalone_question = work.standalone_question
      /\ w.cited_answer = work.cited_answer
      /\ w.outcome = work.outcome
      /\ w.terminal_reason = work.terminal_reason
  BY <1>2 DEF ChargedRewrite, Works
<1>5. WorkAccepted(w)
  BY <1>1, <1>3, <1>4, AuthorizedNodeFinds DEF WorkAccepted, ResultStage
<1> QED
  BY <1>1, <1>2, <1>3, <1>4, <1>5, AuthorizedNodeFinds DEF RollbackOwned, Spent

\* A failed rewrite or a request for clarification keeps the invariant.
LEMMA RewriteEndsPreserves ==
  IInv /\ (RewriteFails \/ ClarificationRequested) => IInv'
<1> SUFFICES ASSUME IInv, RewriteFails \/ ClarificationRequested PROVE IInv'
  OBVIOUS
<1>1. RewriteAllowed /\ Proceeds("contextualize_turn")
  BY DEF RewriteFails, ClarificationRequested, RewriteAllowed
<1>2. calls' \in Nat /\ calls' <= calls + 1
  BY <1>1, AuthorizedNodeFinds DEF RewriteFails, ClarificationRequested, Charge
<1>3. calls' <= ModelCallLimit + Spent(ChargedRewrite)
  BY <1>1, <1>2, AuthorizedNodeFinds, ChargedRewriteFacts
<1>4. PICK question \in Questions, outcome \in {"declined", "failed"} :
        Checkpoint(TerminalWork(ChargedRewrite, question, outcome, "other"),
                   thread, "authorize_and_commit_turn")
  BY DEF RewriteFails, ClarificationRequested, Questions
<1>5. "other" \in Reasons
  BY DEF Reasons
<1> QED
  BY <1>1, <1>2, <1>3, <1>4, <1>5, AuthorizedNodeFinds, ChargedRewriteFacts,
     TerminalPreserves

\* A successful rewrite keeps the invariant.
LEMMA ContextualizeTurnPreserves == IInv /\ ContextualizeTurn => IInv'
<1> SUFFICES ASSUME IInv, ContextualizeTurn PROVE IInv'
  OBVIOUS
<1> DEFINE c == ChargedRewrite
           w == [c EXCEPT !.stage = "researching",
                          !.standalone_question = "derived"]
<1>1. /\ RewriteAllowed
      /\ Proceeds("contextualize_turn")
      /\ Checkpoint(w, thread, "run_research_subgraph")
      /\ calls' = calls + 1
  BY AuthorizedNodeFinds DEF ContextualizeTurn, RewriteAllowed, Charge
<1>2. "derived" \in Questions /\ "derived" # Null
  BY NullDistinct DEF Questions
<1> HIDE DEF c
<1>3. c \in Works
  BY <1>1, ChargedRewriteFacts DEF c
<1>4. w \in Works
  BY <1>2, <1>3 DEF Works, Stages
<1>5. /\ w.stage = "researching"
      /\ w.standalone_question = "derived"
      /\ w.model_calls = c.model_calls
      /\ w.turn_id = c.turn_id
      /\ w.authorization_restarts = c.authorization_restarts
      /\ w.pre_compaction_thread = c.pre_compaction_thread
      /\ w.authorization_snapshot = c.authorization_snapshot
      /\ w.cited_answer = c.cited_answer
      /\ w.outcome = c.outcome
      /\ w.terminal_reason = c.terminal_reason
  BY <1>3 DEF Works
<1> HIDE DEF w
<1> USE DEF c
<1>6. WorkAccepted(w)
  BY <1>1, <1>2, <1>4, <1>5, ChargedRewriteFacts DEF WorkAccepted, ResultStage
<1>7. RollbackOwned(w)
  BY <1>1, <1>5, ChargedRewriteFacts DEF RollbackOwned
<1>8. CallsWithin(w, calls') /\ calls' \in Nat
  <2>1. Spent(w) = Spent(c)
    BY <1>5 DEF Spent
  <2>2. calls' <= w.model_calls + Spent(w)
    BY <1>1, <1>5, <2>1, AuthorizedNodeFinds, ChargedRewriteFacts
  <2> QED
    BY <1>1, <1>5, <2>1, <2>2, AuthorizedNodeFinds, ChargedRewriteFacts
       DEF CallsWithin
<1> QED
  BY <1>1, <1>5, <1>6, <1>7, <1>8, AuthorizedNodeFinds, ChargedRewriteFacts,
     CheckpointPreserves DEF Nodes, StagesAt

\* What the subgraph nodes find.
LEMMA SubgraphNodeFinds ==
  ASSUME IInv, NEW n \in {"run_research_subgraph", "run_answer_subgraph"},
         Proceeds(n)
  PROVE  /\ WorkAccepted(work) /\ work \in Works /\ InProgress(work)
         /\ work.stage = IF n = "run_research_subgraph"
                         THEN "researching" ELSE "answering"
         /\ work.authorization_snapshot # Null
         /\ work.standalone_question # Null
         /\ work.cited_answer = Null
         /\ work.outcome = Null
         /\ work.terminal_reason = Null
         /\ OwnThread(thread, work.turn_id)
         /\ RollbackOwned(work)
         /\ calls \in Nat
         /\ work.model_calls \in Nat
         /\ work.model_calls <= ModelCallLimit
         /\ ModelCallLimit \in 1..10
         /\ Spent(work) \in Nat
         /\ calls <= work.model_calls + Spent(work)
<1>1. n \in Nodes \ {"prepare_turn"}
  BY DEF Nodes
<1>2. /\ WorkAccepted(work) /\ work \in Works /\ InProgress(work)
      /\ work.stage = IF n = "run_research_subgraph"
                      THEN "researching" ELSE "answering"
      /\ OwnThread(thread, work.turn_id)
      /\ RollbackOwned(work)
      /\ CallsWithin(work, calls)
      /\ calls \in Nat
  BY <1>1, NodeFinds DEF StagesAt, WorkAccepted
<1> QED
  BY <1>2, SpentFacts, BudgetAssumption DEF WorkAccepted, ResultStage, CallsWithin

\* The counters a Research run returns.
LEMMA ResearchedFacts ==
  ASSUME IInv, Proceeds("run_research_subgraph"), NEW c \in ResearchCharges
  PROVE  /\ Researched(c) \in Works
         /\ Researched(c).model_calls = c.model_calls
         /\ Researched(c).model_calls \in work.model_calls..ModelCallLimit
         /\ Researched(c).turn_id = work.turn_id
         /\ Researched(c).authorization_restarts = work.authorization_restarts
         /\ Researched(c).pre_compaction_thread = work.pre_compaction_thread
         /\ Researched(c).authorization_snapshot = work.authorization_snapshot
         /\ Researched(c).standalone_question = work.standalone_question
         /\ Researched(c).cited_answer = work.cited_answer
         /\ Researched(c).outcome = work.outcome
         /\ Researched(c).terminal_reason = work.terminal_reason
<1>1. work \in Works
  BY SubgraphNodeFinds
<1>2. /\ c.model_calls \in work.model_calls..ModelCallLimit
      /\ c.retrieval_requests \in work.retrieval_requests..RetrievalLimit
      /\ c.research_iterations \in work.research_iterations..IterationLimit
  BY DEF ResearchCharges
<1>3. /\ c.model_calls \in 0..10
      /\ c.retrieval_requests \in 0..2
      /\ c.research_iterations \in 0..1
  BY <1>1, <1>2, BudgetAssumption DEF Works
<1>4. Researched(c) \in Works
  BY <1>1, <1>3 DEF Researched, Works
<1> QED
  BY <1>1, <1>2, <1>4 DEF Researched, Works

\* Research that found Evidence keeps the invariant.
LEMMA EvidenceReadyPreserves == IInv /\ EvidenceReady => IInv'
<1> SUFFICES ASSUME IInv, EvidenceReady PROVE IInv'
  OBVIOUS
<1>1. Proceeds("run_research_subgraph")
  BY DEF EvidenceReady
<1>2. PICK c \in ResearchCharges, evidence \in (SUBSET scope) \ {{}} :
        /\ Checkpoint([Researched(c) EXCEPT !.stage = "answering",
                                            !.evidence_set = evidence],
                      thread, "run_answer_subgraph")
        /\ calls' = calls + (c.model_calls - work.model_calls)
  BY DEF EvidenceReady, Charge
<1> DEFINE r == Researched(c)
           w == [r EXCEPT !.stage = "answering", !.evidence_set = evidence]
<1>3. evidence \in SUBSET Docs /\ evidence # Null
  BY NullDistinct DEF IInv, TypeOK
<1> HIDE DEF r
<1>4. r \in Works
  BY <1>1, ResearchedFacts DEF r
<1>5. w \in Works
  BY <1>3, <1>4 DEF Works, Stages
<1>6. /\ w.stage = "answering"
      /\ w.evidence_set = evidence
      /\ w.model_calls = r.model_calls
      /\ w.turn_id = r.turn_id
      /\ w.authorization_restarts = r.authorization_restarts
      /\ w.pre_compaction_thread = r.pre_compaction_thread
      /\ w.authorization_snapshot = r.authorization_snapshot
      /\ w.standalone_question = r.standalone_question
      /\ w.cited_answer = r.cited_answer
      /\ w.outcome = r.outcome
      /\ w.terminal_reason = r.terminal_reason
  BY <1>4 DEF Works
<1>7. Checkpoint(w, thread, "run_answer_subgraph")
  BY <1>2 DEF r
<1> HIDE DEF w
<1>8. WorkAccepted(w)
  BY <1>1, <1>3, <1>5, <1>6, ResearchedFacts, SubgraphNodeFinds
     DEF WorkAccepted, ResultStage, r
<1>9. RollbackOwned(w)
  BY <1>1, <1>6, ResearchedFacts, SubgraphNodeFinds DEF RollbackOwned, r
<1>10. calls' \in Nat /\ CallsWithin(w, calls')
  <2>1. Spent(w) = Spent(work)
    BY <1>1, <1>6, ResearchedFacts DEF Spent, r
  <2>2. w.model_calls \in work.model_calls..ModelCallLimit
        /\ calls' = calls + (w.model_calls - work.model_calls)
    BY <1>1, <1>2, <1>6, ResearchedFacts DEF r
  <2>3. /\ calls' \in Nat
        /\ w.model_calls <= ModelCallLimit
        /\ calls' <= w.model_calls + Spent(w)
        /\ calls' <= ModelCallLimit + Spent(w)
    BY <1>1, <2>1, <2>2, SubgraphNodeFinds
  <2> QED
    BY <2>3 DEF CallsWithin
<1>11. w.turn_id = work.turn_id
  BY <1>1, <1>6, ResearchedFacts DEF r
<1> QED
  BY <1>1, <1>6, <1>7, <1>8, <1>9, <1>10, <1>11, SubgraphNodeFinds,
     CheckpointPreserves DEF Nodes, StagesAt

\* Research that concluded without Evidence keeps the invariant.
LEMMA ResearchConcludesPreserves == IInv /\ ResearchConcludes => IInv'
<1> SUFFICES ASSUME IInv, ResearchConcludes PROVE IInv'
  OBVIOUS
<1>1. Proceeds("run_research_subgraph")
  BY DEF ResearchConcludes
<1>2. PICK c \in ResearchCharges, outcome \in Outcomes :
        /\ Checkpoint([Researched(c) EXCEPT
                         !.stage = "authorizing",
                         !.outcome = outcome,
                         !.terminal_reason =
                           IF outcome = "answered" THEN Null ELSE "other"],
                      thread, "authorize_and_commit_turn")
        /\ calls' = calls + (c.model_calls - work.model_calls)
  BY DEF ResearchConcludes, Charge
<1> DEFINE r == Researched(c)
           reason == IF outcome = "answered" THEN Null ELSE "other"
           w == [r EXCEPT !.stage = "authorizing",
                          !.outcome = outcome,
                          !.terminal_reason = reason]
<1>3. /\ reason \in Reasons \cup {Null}
      /\ outcome # Null
      /\ (outcome = "answered") <=> (reason = Null)
  BY NullDistinct DEF Reasons
<1>7. Checkpoint(w, thread, "authorize_and_commit_turn")
  BY <1>2
<1> HIDE DEF r, reason
<1>4. r \in Works
  BY <1>1, ResearchedFacts DEF r
<1>5. w \in Works
  BY <1>3, <1>4 DEF Works, Stages
<1>6. /\ w.stage = "authorizing"
      /\ w.outcome = outcome
      /\ w.terminal_reason = reason
      /\ w.model_calls = r.model_calls
      /\ w.turn_id = r.turn_id
      /\ w.authorization_restarts = r.authorization_restarts
      /\ w.pre_compaction_thread = r.pre_compaction_thread
      /\ w.authorization_snapshot = r.authorization_snapshot
      /\ w.standalone_question = r.standalone_question
  BY <1>4 DEF Works
<1> HIDE DEF w
<1>8. WorkAccepted(w)
  BY <1>1, <1>3, <1>5, <1>6, ResearchedFacts, SubgraphNodeFinds
     DEF WorkAccepted, ResultStage, r
<1>9. RollbackOwned(w)
  BY <1>1, <1>6, ResearchedFacts, SubgraphNodeFinds DEF RollbackOwned, r
<1>10. calls' \in Nat /\ CallsWithin(w, calls')
  <2>1. Spent(w) = Spent(work)
    BY <1>1, <1>6, ResearchedFacts DEF Spent, r
  <2>2. w.model_calls \in work.model_calls..ModelCallLimit
        /\ calls' = calls + (w.model_calls - work.model_calls)
    BY <1>1, <1>2, <1>6, ResearchedFacts DEF r
  <2>3. /\ calls' \in Nat
        /\ w.model_calls <= ModelCallLimit
        /\ calls' <= w.model_calls + Spent(w)
        /\ calls' <= ModelCallLimit + Spent(w)
    BY <1>1, <2>1, <2>2, SubgraphNodeFinds
  <2> QED
    BY <2>3 DEF CallsWithin
<1>11. w.turn_id = work.turn_id
  BY <1>1, <1>6, ResearchedFacts DEF r
<1> QED
  BY <1>1, <1>6, <1>7, <1>8, <1>9, <1>10, <1>11, SubgraphNodeFinds,
     CheckpointPreserves DEF Nodes, StagesAt

\* A subgraph that raises keeps the invariant, its lost charges included.
LEMMA SubgraphRaisesPreserves == IInv /\ SubgraphRaises => IInv'
<1> SUFFICES ASSUME IInv, SubgraphRaises PROVE IInv'
  OBVIOUS
<1> DEFINE w == AuthorizingFailure(work)
<1>1. PICK n \in {"run_research_subgraph", "run_answer_subgraph"} : Proceeds(n)
  BY DEF SubgraphRaises
<1>2. Checkpoint(w, thread, "authorize_and_commit_turn")
  BY DEF SubgraphRaises
<1>3. PICK made \in 0..(ModelCallLimit - work.model_calls) :
        calls' = calls + made
  BY DEF SubgraphRaises, Charge
<1>4. WorkAccepted(w) /\ w.stage = "authorizing"
  BY <1>1, SubgraphNodeFinds, AuthorizingFailureAccepted
<1>5. /\ w.turn_id = work.turn_id
      /\ w.model_calls = work.model_calls
      /\ w.authorization_restarts = work.authorization_restarts
      /\ w.pre_compaction_thread = work.pre_compaction_thread
  BY <1>1, SubgraphNodeFinds DEF AuthorizingFailure, Works
<1> HIDE DEF w
<1>6. RollbackOwned(w)
  BY <1>1, <1>5, SubgraphNodeFinds DEF RollbackOwned
<1>7. calls' \in Nat /\ calls' <= ModelCallLimit + Spent(w)
  BY <1>1, <1>3, <1>5, SubgraphNodeFinds DEF Spent
<1>8. CallsWithin(w, calls')
  BY <1>1, <1>4, <1>5, <1>7, SubgraphNodeFinds DEF CallsWithin, ResultStage
<1> QED
  BY <1>1, <1>2, <1>4, <1>5, <1>6, <1>7, <1>8, SubgraphNodeFinds,
     CheckpointPreserves DEF Nodes, StagesAt

\* Both ways the Answer subgraph returns write this work.
LEMMA AnsweredPreserves ==
  ASSUME IInv, Proceeds("run_answer_subgraph"),
         NEW total \in work.model_calls..ModelCallLimit,
         NEW repairs \in work.answer_repairs..1,
         NEW cited \in SUBSET work.evidence_set,
         NEW outcome \in Outcomes, NEW reason \in Reasons \cup {Null},
         outcome = "answered" <=> reason = Null,
         Checkpoint([work EXCEPT !.stage = "authorizing",
                                 !.model_calls = total,
                                 !.answer_repairs = repairs,
                                 !.cited_answer = cited,
                                 !.outcome = outcome,
                                 !.terminal_reason = reason],
                    thread, "authorize_and_commit_turn"),
         calls' = calls + (total - work.model_calls)
  PROVE  IInv'
<1> DEFINE w == [work EXCEPT !.stage = "authorizing",
                             !.model_calls = total,
                             !.answer_repairs = repairs,
                             !.cited_answer = cited,
                             !.outcome = outcome,
                             !.terminal_reason = reason]
<1>1. work \in Works /\ work.stage = "answering"
  BY SubgraphNodeFinds
<1>2. work.evidence_set \in SUBSET Docs
  <2>1. work.evidence_set # Null
    BY <1>1, SubgraphNodeFinds DEF WorkAccepted
  <2> QED
    BY <1>1, <2>1 DEF Works
<1>3. /\ total \in 0..10
      /\ repairs \in 0..1
      /\ cited \in SUBSET Docs
  BY <1>1, <1>2, BudgetAssumption DEF Works
<1>4. w \in Works
  BY <1>1, <1>3 DEF Works, Stages
<1>5. /\ w.stage = "authorizing"
      /\ w.outcome = outcome
      /\ w.terminal_reason = reason
      /\ w.model_calls = total
      /\ w.turn_id = work.turn_id
      /\ w.authorization_restarts = work.authorization_restarts
      /\ w.pre_compaction_thread = work.pre_compaction_thread
      /\ w.authorization_snapshot = work.authorization_snapshot
      /\ w.standalone_question = work.standalone_question
  BY <1>1 DEF Works
<1>6. Checkpoint(w, thread, "authorize_and_commit_turn")
  OBVIOUS
<1> HIDE DEF w
<1>7. WorkAccepted(w)
  BY <1>4, <1>5, SubgraphNodeFinds, NullDistinct DEF WorkAccepted, ResultStage
<1>8. RollbackOwned(w)
  BY <1>5, SubgraphNodeFinds DEF RollbackOwned
<1>9. calls' \in Nat /\ calls' <= ModelCallLimit + Spent(w)
  BY <1>5, SubgraphNodeFinds DEF Spent
<1>10. CallsWithin(w, calls')
  BY <1>5, <1>9, BudgetAssumption DEF CallsWithin, ResultStage
<1> QED
  BY <1>5, <1>6, <1>7, <1>8, <1>9, <1>10, SubgraphNodeFinds,
     CheckpointPreserves DEF Nodes, StagesAt

\* An answer released or withheld keeps the invariant.
LEMMA AnswerPreserves == IInv /\ (AnswerReleased \/ AnswerWithheld) => IInv'
<1> SUFFICES ASSUME IInv, AnswerReleased \/ AnswerWithheld PROVE IInv'
  OBVIOUS
<1>1. Proceeds("run_answer_subgraph")
  BY DEF AnswerReleased, AnswerWithheld
<1>2. work.model_calls \in Nat
  BY <1>1, SubgraphNodeFinds
<1>3. /\ "failed" \in Outcomes /\ "answered" \in Outcomes
      /\ "declined" \in Outcomes /\ "other" \in Reasons
  BY DEF Outcomes, Reasons
<1>4. Null # "other"
  BY <1>3, NullDistinct
<1>5. ASSUME AnswerReleased PROVE IInv'
  <2>1. PICK total \in (work.model_calls + 2)..ModelCallLimit,
             repairs \in work.answer_repairs..1,
             cited \in SUBSET work.evidence_set :
          /\ Checkpoint([work EXCEPT !.stage = "authorizing",
                                     !.model_calls = total,
                                     !.answer_repairs = repairs,
                                     !.cited_answer = cited,
                                     !.outcome = IF cited = {} THEN "declined"
                                                 ELSE "answered",
                                     !.terminal_reason =
                                       IF cited = {} THEN "other" ELSE Null],
                        thread, "authorize_and_commit_turn")
          /\ calls' = calls + (total - work.model_calls)
    BY <1>5 DEF AnswerReleased, Charge
  <2>2. total \in work.model_calls..ModelCallLimit
    BY <1>2
  <2> QED
    BY ZenonT(30), <1>1, <1>3, <1>4, <2>1, <2>2, AnsweredPreserves
<1>6. ASSUME AnswerWithheld PROVE IInv'
  <2>1. PICK total \in work.model_calls..ModelCallLimit,
             repairs \in work.answer_repairs..1 :
          /\ Checkpoint([work EXCEPT !.stage = "authorizing",
                                     !.model_calls = total,
                                     !.answer_repairs = repairs,
                                     !.cited_answer = {},
                                     !.outcome = "failed",
                                     !.terminal_reason = "other"],
                        thread, "authorize_and_commit_turn")
          /\ calls' = calls + (total - work.model_calls)
    BY <1>6 DEF AnswerWithheld, Charge
  <2> QED
    BY <1>1, <1>3, <1>4, <2>1, AnsweredPreserves
<1> QED
  BY <1>5, <1>6

\* The thread a gate rolls back to is the Turn's own.
LEMMA RollbackThreadOwned ==
  ASSUME OwnThread(thread, work.turn_id), RollbackOwned(work)
  PROVE  OwnThread(RollbackThread(work, thread), work.turn_id)
BY DEF RollbackThread, RollbackOwned

\* The one authorization restart, with its rollback, keeps the invariant.
LEMMA GateRestartsPreserves == IInv /\ GateRestarts => IInv'
<1> SUFFICES ASSUME IInv, GateRestarts PROVE IInv'
  OBVIOUS
<1> DEFINE w == Restarted(work)
<1>1. /\ Proceeds("authorize_and_commit_turn")
      /\ Checkpoint(w, RollbackThread(work, thread), "prepare_turn")
      /\ calls' = calls + 0
  BY DEF GateRestarts, Charge
<1>2. work.authorization_restarts < RestartLimit
  BY DEF GateRestarts, Transition, AuthorizationTransition
<1>3. /\ WorkAccepted(work) /\ work \in Works
      /\ OwnThread(thread, work.turn_id)
      /\ RollbackOwned(work)
      /\ CallsWithin(work, calls)
      /\ calls \in Nat
  BY <1>1, NodeFinds DEF Nodes, WorkAccepted
<1>4. WorkAccepted(w) /\ w.stage = "prepared"
  BY <1>2, <1>3, RestartedAccepted
<1>5. /\ w.turn_id = work.turn_id
      /\ w.model_calls = work.model_calls
      /\ w.authorization_restarts = work.authorization_restarts + 1
      /\ w.pre_compaction_thread = Null
  BY <1>3 DEF Restarted, Works
<1> HIDE DEF w
<1>6. w \in Works
  BY <1>4 DEF WorkAccepted
<1>7. /\ Spent(w) = Spent(work) + ModelCallLimit
      /\ Spent(work) \in Nat /\ ModelCallLimit \in Nat
      /\ work.model_calls \in Nat
  BY <1>3, <1>5, <1>6, SpentFacts
<1>8. calls <= ModelCallLimit + Spent(work) /\ work.model_calls <= ModelCallLimit
  BY <1>3 DEF CallsWithin
<1>9. /\ calls' \in Nat
      /\ w.model_calls <= ModelCallLimit
      /\ calls' <= w.model_calls + Spent(w)
      /\ calls' <= ModelCallLimit + Spent(w)
  BY <1>1, <1>3, <1>5, <1>7, <1>8
<1>10. RollbackOwned(w) /\ CallsWithin(w, calls')
  BY <1>5, <1>9 DEF RollbackOwned, CallsWithin
<1> QED
  BY <1>1, <1>3, <1>4, <1>5, <1>9, <1>10, RollbackThreadOwned,
     CheckpointPreserves DEF Nodes, StagesAt

\* Every commit at the gate, of a result or a failure, keeps the invariant.
LEMMA GateCommitsPreserves ==
  IInv /\ (GateUnavailable \/ GateFails \/ GateCommits) => IInv'
<1> SUFFICES ASSUME IInv, GateUnavailable \/ GateFails \/ GateCommits
             PROVE  IInv'
  OBVIOUS
<1>1. Proceeds("authorize_and_commit_turn")
  BY DEF GateUnavailable, GateFails, GateCommits
<1>2. /\ WorkAccepted(work) /\ work \in Works /\ InProgress(work)
      /\ ResultStage(work)
      /\ OwnThread(thread, work.turn_id)
      /\ OwnThread(RollbackThread(work, thread), work.turn_id)
  BY <1>1, NodeFinds, RollbackThreadOwned
     DEF Nodes, WorkAccepted, StagesAt, ResultStage
<1>3. CASE GateUnavailable
  <2>1. PICK reason \in {"authorization_unavailable",
                         "authorization_context_mismatch"} :
          Commit(RollbackThread(work, thread), FailureRecord(work, reason))
    BY <1>3 DEF GateUnavailable
  <2>2. reason \in Reasons
    BY DEF Reasons
  <2> QED
    BY <1>2, <2>1, <2>2, FailureRecordType, CommitPreserves
<1>4. CASE GateFails
  <2>1. "authorization_changed_twice" \in Reasons
    BY DEF Reasons
  <2> QED
    BY <1>2, <1>4, <2>1, FailureRecordType, CommitPreserves DEF GateFails
<1>5. CASE GateCommits
  <2>1. "citation_dependency_mismatch" \in Reasons
    BY DEF Reasons
  <2> DEFINE r == IF CitationsMatch(work)
                  THEN ResultRecord(work)
                  ELSE FailureRecord(work, "citation_dependency_mismatch")
  <2>2. r \in TurnRecords /\ r.turn_id = work.turn_id
    BY <1>2, <2>1, FailureRecordType, ResultRecordType
  <2>3. Commit(thread, r)
    BY <1>5 DEF GateCommits
  <2> HIDE DEF r
  <2> QED
    BY <1>2, <2>2, <2>3, CommitPreserves
<1> QED
  BY <1>3, <1>4, <1>5

\* Committing terminal work keeps the invariant.
LEMMA CompleteTurnPreserves == IInv /\ CompleteTurn => IInv'
<1> SUFFICES ASSUME IInv, CompleteTurn PROVE IInv'
  OBVIOUS
<1> DEFINE r == [ResultRecord(work) EXCEPT !.citation_dependencies = {}]
<1>1. Proceeds("complete_turn") /\ Commit(thread, r)
  BY DEF CompleteTurn
<1>2. /\ WorkAccepted(work) /\ InProgress(work) /\ ResultStage(work)
      /\ OwnThread(thread, work.turn_id)
  BY <1>1, NodeFinds DEF Nodes, StagesAt, ResultStage
<1>3. r \in TurnRecords /\ r.turn_id = work.turn_id
  BY <1>2, ResultRecordType DEF ResultRecord
<1> HIDE DEF r
<1> QED
  BY <1>1, <1>2, <1>3, CommitPreserves

\* A new input, even one over an active Turn, keeps the invariant.
LEMMA SubmitPreserves ==
  ASSUME IInv, NEW p \in Principals, NEW t \in TurnIds, Submit(p, t)
  PROVE  IInv'
<1>1. /\ work' = NewWork(t, "new")
      /\ next' = "prepare_turn"
      /\ UNCHANGED <<thread, scope, changes, crashes, base, calls>>
      /\ running' = TRUE /\ caller' = p /\ error' = "none"
      /\ submissions < MaxSubmissions /\ submissions' = submissions + 1
  BY DEF Submit
<1>2. /\ WorkAccepted(work') /\ work' \in Works /\ work' # Null
      /\ work'.stage = "new"
  BY <1>1, NewWorkAccepted, NullDistinct DEF WorkAccepted, NewWork
<1>3. TypeOK'
  <2>1. submissions' \in 0..MaxSubmissions
    BY <1>1, BoundAssumption DEF IInv, TypeOK
  <2> QED
    BY <1>1, <1>2, <2>1 DEF IInv, TypeOK, Nodes, Errors
<1>4. WorkAtNode' /\ StageAtNode'
  BY <1>1, <1>2 DEF WorkAtNode, StageAtNode, StagesAt
<1>5. ActiveBound' /\ CallsBound'
  BY <1>1, <1>2 DEF IInv, ActiveBound, CallsBound, InProgress
<1> QED
  BY <1>3, <1>4, <1>5 DEF IInv

\* A process that stops keeps its checkpoint and forgets its calls.
LEMMA CrashPreserves == IInv /\ Crash => IInv'
<1> SUFFICES ASSUME IInv, Crash PROVE IInv'
  OBVIOUS
<1>1. /\ running /\ running' = FALSE
      /\ crashes < MaxCrashes /\ crashes' = crashes + 1
      /\ UNCHANGED <<thread, work, next, caller, error, scope, submissions,
                     changes, base>>
  BY DEF Crash
<1>2. PICK made \in 0..(IF CallsModels(next)
                        THEN ModelCallLimit - work.model_calls ELSE 0) :
        calls' = calls + made
  BY DEF Crash, Charge
<1>3. calls \in Nat /\ crashes \in Nat /\ ModelCallLimit \in Nat
  BY BoundAssumption, BudgetAssumption DEF IInv, TypeOK
<1>4. CallsModels(next) => /\ InProgress(work) /\ ~ResultStage(work)
                           /\ work.model_calls \in Nat
  <2> SUFFICES ASSUME CallsModels(next)
               PROVE  /\ InProgress(work) /\ ~ResultStage(work)
                      /\ work.model_calls \in Nat
    OBVIOUS
  <2>1. work # Null /\ work \in Works
    BY DEF CallsModels, IInv, WorkAtNode, WorkAccepted
  <2>2. work.stage \in {"authorized", "compacting", "researching", "answering"}
    BY <2>1 DEF CallsModels, IInv, StageAtNode, StagesAt
  <2> QED
    BY <2>1, <2>2 DEF InProgress, ResultStage, Works
<1>5. made \in Nat
  BY <1>2, <1>3, <1>4
<1>6. TypeOK'
  <2>1. crashes' \in 0..MaxCrashes /\ calls' \in Nat
    BY <1>1, <1>2, <1>3, <1>5, BoundAssumption
  <2> QED
    BY <1>1, <2>1 DEF IInv, TypeOK
<1>7. WorkAtNode' /\ StageAtNode' /\ ActiveBound'
  BY <1>1 DEF IInv, WorkAtNode, StageAtNode, ActiveBound
<1>8. CallsBound'
  <2> SUFFICES ASSUME InProgress(work) PROVE CallsWithin(work, calls)'
    BY <1>1 DEF CallsBound, InProgress
  <2>1. work \in Works
    BY DEF InProgress, IInv, WorkAtNode, WorkAccepted
  <2> DEFINE a == work.authorization_restarts
             lost == (a + crashes) * ModelCallLimit
  <2>2. a \in Nat /\ work.model_calls \in Nat
    BY <2>1 DEF Works
  <2>3. /\ lost \in Nat
        /\ (a + crashes') * ModelCallLimit = lost + ModelCallLimit
    BY <1>1, <1>3, <2>2
  <2>4. /\ work.model_calls <= ModelCallLimit
        /\ calls <= ModelCallLimit + lost
        /\ ~ResultStage(work) => calls <= work.model_calls + lost
    BY DEF IInv, CallsBound, CallsWithin, Spent
  <2>5. calls' <= ModelCallLimit + lost
    <3>1. CASE CallsModels(next)
      <4>1. made \in 0..(ModelCallLimit - work.model_calls)
        BY <1>2, <3>1
      <4>2. calls <= work.model_calls + lost
        BY <1>4, <2>4, <3>1
      <4> HIDE DEF lost
      <4> QED
        BY <1>2, <1>3, <2>2, <2>3, <4>1, <4>2
    <3>2. CASE ~CallsModels(next)
      BY <1>2, <1>3, <2>3, <2>4, <3>2
    <3> QED
      BY <3>1, <3>2
  <2>6. /\ calls' <= ModelCallLimit + (lost + ModelCallLimit)
        /\ calls' <= work.model_calls + (lost + ModelCallLimit)
    <3> HIDE DEF lost
    <3> QED
      BY <1>2, <1>3, <1>5, <2>2, <2>3, <2>5
  <2> HIDE DEF lost
  <2> QED
    BY <1>1, <2>3, <2>4, <2>6 DEF CallsWithin, Spent, a, ResultStage
<1> QED
  BY <1>6, <1>7, <1>8 DEF IInv

\* Resuming, stopping and scope changes keep the invariant.
LEMMA EnvironmentPreserves ==
  IInv /\ (Resume \/ \E d \in Docs : Grant(d) \/ Revoke(d)) => IInv'
<1> SUFFICES ASSUME IInv, Resume \/ \E d \in Docs : Grant(d) \/ Revoke(d)
             PROVE  IInv'
  OBVIOUS
<1>1. CASE Resume
  BY <1>1, UnchangedCheckpointPreserves DEF Resume, budgets, IInv, TypeOK, Errors
<1>2. ASSUME NEW d \in Docs, Grant(d) \/ Revoke(d) PROVE IInv'
  <2>1. changes' \in 0..MaxScopeChanges /\ scope' \in SUBSET Docs
    BY <1>2, BoundAssumption DEF Grant, Revoke, IInv, TypeOK
  <2> QED
    BY <1>2, <2>1, UnchangedCheckpointPreserves DEF Grant, Revoke, IInv, TypeOK
<1> QED
  BY <1>1, <1>2

-----------------------------------------------------------------------------
(* The theorems. *)

\* IInv is inductive.
LEMMA Inductive == IInv /\ [Next]_vars => IInv'
<1> SUFFICES ASSUME IInv, [Next]_vars PROVE IInv'
  OBVIOUS
<1>1. CASE NodeStep
  BY <1>1, NodeRaisesPreserves, PrepareTurnPreserves, CapturePreserves,
     CompactionRefusedPreserves, CompactionAttemptFailsPreserves,
     CompactContextPreserves, ContextualizeFirstTurnPreserves,
     ContextualizationRefusedPreserves, RewriteEndsPreserves,
     ContextualizeTurnPreserves, EvidenceReadyPreserves,
     ResearchConcludesPreserves, SubgraphRaisesPreserves, AnswerPreserves,
     GateRestartsPreserves, GateCommitsPreserves, CompleteTurnPreserves
     DEF NodeStep
<1>2. ASSUME NEW p \in Principals, NEW t \in TurnIds, Submit(p, t) PROVE IInv'
  BY <1>2, SubmitPreserves
<1>3. CASE Resume \/ \E d \in Docs : Grant(d) \/ Revoke(d)
  BY <1>3, EnvironmentPreserves
<1>4. CASE Crash
  BY <1>4, CrashPreserves
<1>5. CASE UNCHANGED vars
  BY <1>5, UnchangedCheckpointPreserves DEF vars, IInv, TypeOK
<1> QED
  BY <1>1, <1>2, <1>3, <1>4, <1>5 DEF Next

\* The Turn graph keeps its inductive invariant in every reachable state.
THEOREM Invariance == Spec => []IInv
<1>1. Init => IInv
  BY InitEstablishes
<1>2. IInv /\ [Next]_vars => IInv'
  BY Inductive
<1> QED
  BY <1>1, <1>2, PTL DEF Spec

\* Every variable of the Turn graph keeps its type: no node writes a counter
\* past the range its field declares, whatever the budget and the schedule.
THEOREM TypeCorrect == Spec => []TypeOK
BY Invariance, PTL DEF IInv

\* Every checkpoint is accepted by the model_validate calls of the node that
\* reads it next, although nodes write their updates with model_copy.
THEOREM CheckpointsAccepted == Spec => []CheckpointAccepted
<1>1. IInv => CheckpointAccepted
  BY DEF IInv, WorkAtNode, ActiveBound, CheckpointAccepted
<1> QED
  BY <1>1, Invariance, PTL

Stranded == IInv /\ thread.active_turn_id # Null /\ ~Resumable

AtRefusal == /\ work # Null /\ work.stage = "new"
             /\ next = "prepare_turn"
             /\ NodeError = "turn_resume_incompatible"

\* An active Turn lost its work to a new input only, and prepare_turn refuses
\* every run on what replaced it.
LEMMA StrandedFinds == Stranded => AtRefusal
<1> SUFFICES ASSUME Stranded PROVE AtRefusal
  OBVIOUS
<1>1. work # Null
  BY DEF Stranded, IInv, ActiveBound
<1>2. work.stage = "new"
  BY <1>1 DEF Stranded, IInv, ActiveBound, InProgress, OwnThread, Resumable
<1>3. next \in Nodes
  BY <1>1 DEF Stranded, IInv, TypeOK, WorkAtNode
<1>4. next = "prepare_turn"
  BY <1>1, <1>2, <1>3 DEF Stranded, IInv, StageAtNode, StagesAt, Nodes
<1> QED
  BY <1>1, <1>2, <1>4 DEF Stranded, AtRefusal, NodeError, PrepareError

\* A node either raises or finds what it accepts.
LEMMA NodeProceeds ==
  NodeStep => NodeRaises \/ NodeError = "none"
BY DEF NodeStep, Proceeds, PrepareTurn, CaptureFails, CaptureTurnAuthorization,
       CompactionRefused, CompactionAllowed, CompactionAttemptFails,
       CompactContext, ContextualizeFirstTurn, ContextualizationRefused,
       RewriteAllowed, RewriteFails, ClarificationRequested,
       ContextualizeTurn, EvidenceReady, ResearchConcludes, SubgraphRaises,
       AnswerReleased, AnswerWithheld, GateUnavailable, GateRestarts,
       GateFails, GateCommits, CompleteTurn

\* Only the restart routes to prepare_turn.
LEMMA NodeRoutes ==
  NodeStep => NodeRaises \/ GateRestarts \/ next' # "prepare_turn"
<1>1. PrepareTurn => next' # "prepare_turn"
  BY DEF PrepareTurn
<1>2. CaptureFails \/ CaptureTurnAuthorization => next' # "prepare_turn"
  BY DEF CaptureFails, CaptureTurnAuthorization, Checkpoint
<1>3. CompactionRefused \/ CompactionAttemptFails \/ CompactContext
        => next' # "prepare_turn"
  BY DEF CompactionRefused, CompactionAttemptFails, CompactContext, Checkpoint
<1>4. \/ ContextualizeFirstTurn \/ ContextualizationRefused \/ RewriteFails
      \/ ClarificationRequested \/ ContextualizeTurn
      => next' # "prepare_turn"
  BY DEF ContextualizeFirstTurn, ContextualizationRefused, RewriteFails,
         ClarificationRequested, ContextualizeTurn, Checkpoint
<1>5. EvidenceReady \/ ResearchConcludes \/ SubgraphRaises
        => next' # "prepare_turn"
  BY DEF EvidenceReady, ResearchConcludes, SubgraphRaises, Checkpoint
<1>6. AnswerReleased \/ AnswerWithheld => next' # "prepare_turn"
  BY DEF AnswerReleased, AnswerWithheld, Checkpoint
<1>7. GateUnavailable \/ GateFails \/ GateCommits \/ CompleteTurn
        => next' # "prepare_turn"
  BY DEF GateUnavailable, GateFails, GateCommits, CompleteTurn, Commit
<1> QED
  BY <1>1, <1>2, <1>3, <1>4, <1>5, <1>6, <1>7 DEF NodeStep

\* An active Turn loses its work to a caller's new input and to nothing else,
\* and once it has, no run changes the thread any more.
THEOREM OnlyNewInputsStrandTurns == Spec => OnlyNewInputStrandsTurn
<1> DEFINE P ==
      /\ (thread'.active_turn_id # Null /\ ~Resumable') =>
           /\ UNCHANGED thread
           /\ \/ UNCHANGED work
              \/ submissions' = submissions + 1 /\ work'.stage = "new"
      /\ (thread.active_turn_id # Null /\ ~Resumable) => UNCHANGED thread
<1>0. (Stranded => AtRefusal)'
  BY StrandedFinds, PTL
<1>1. IInv /\ [Next]_vars => [P]_vars
  <2> SUFFICES ASSUME IInv, [Next]_vars PROVE P
    OBVIOUS
  <2>1. IInv'
    BY Inductive
  <2>2. ASSUME NodeStep, ~NodeRaises PROVE P
    <3>1. ~(thread.active_turn_id # Null /\ ~Resumable)
      BY <2>2, NodeProceeds, StrandedFinds DEF Stranded, AtRefusal
    <3>2. ASSUME thread'.active_turn_id # Null, ~Resumable' PROVE FALSE
      <4>1. /\ work' # Null /\ work'.stage = "new"
            /\ next' = "prepare_turn"
        BY <1>0, <2>1, <3>2 DEF Stranded, AtRefusal
      <4>2. GateRestarts
        BY <2>2, <4>1, NodeRoutes
      <4>3. work \in Works
        BY <4>2, NodeFinds DEF GateRestarts, Nodes, WorkAccepted
      <4>4. work' = Restarted(work)
        BY <4>2 DEF GateRestarts, Checkpoint
      <4> QED
        BY <4>1, <4>3, <4>4 DEF Restarted, Works
    <3> QED
      BY <3>1, <3>2
  <2>3. CASE NodeRaises
    BY <2>3 DEF NodeRaises
  <2>4. ASSUME NEW p \in Principals, NEW t \in TurnIds, Submit(p, t) PROVE P
    <3>1. /\ UNCHANGED thread /\ submissions' = submissions + 1
          /\ work'.stage = "new"
      BY <2>4 DEF Submit, NewWork
    <3> QED
      BY <3>1
  <2>5. CASE \/ Resume \/ Crash \/ UNCHANGED vars
             \/ \E d \in Docs : Grant(d) \/ Revoke(d)
    <3>1. UNCHANGED <<thread, work>>
      BY <2>5 DEF Resume, Crash, vars, Grant, Revoke
    <3> QED
      BY <3>1
  <2> QED
    BY <2>2, <2>3, <2>4, <2>5 DEF Next
<1>2. Spec => [][P]_vars
  BY <1>1, Invariance, PTL DEF Spec
<1> QED
  BY <1>2, PTL DEF OnlyNewInputStrandsTurn

\* The authorization restart, process stops and lost counters each cost a Turn
\* at most one model call limit more.
THEOREM ModelCallsAlwaysBounded == Spec => []ModelCallsBounded
<1>1. ASSUME IInv PROVE ModelCallsBounded
  <2> SUFFICES ASSUME thread.active_turn_id # Null, work.stage # "new"
               PROVE  calls <= (1 + work.authorization_restarts + crashes)
                                 * ModelCallLimit
    BY DEF ModelCallsBounded
  <2>1. InProgress(work) /\ work \in Works
    BY <1>1 DEF IInv, ActiveBound, InProgress, WorkAtNode, WorkAccepted
  <2>2. calls <= ModelCallLimit + Spent(work)
    BY <1>1, <2>1 DEF IInv, CallsBound, CallsWithin
  <2>3. /\ work.authorization_restarts \in Nat
        /\ crashes \in Nat
        /\ ModelCallLimit \in Nat
    BY <1>1, <2>1, BoundAssumption, BudgetAssumption DEF IInv, TypeOK, Works
  <2>4. (1 + work.authorization_restarts + crashes) * ModelCallLimit
          = ModelCallLimit + Spent(work)
    BY <2>3 DEF Spent
  <2> QED
    BY <2>2, <2>4
<1> QED
  BY <1>1, Invariance, PTL
=============================================================================
