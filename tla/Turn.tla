-------------------------------- MODULE Turn --------------------------------
(***************************************************************************)
(* The top-level Turn graph of the Reference System (graph/_turn.py): the  *)
(* nodes that prepare, authorize, compact, contextualize, research, answer *)
(* and commit one Turn on a Conversation Thread, with the checkpoint the   *)
(* graph library writes after every node.                                  *)
(*                                                                         *)
(* One action is one node: the library persists a node's whole update or,  *)
(* when the process stops or the node raises, none of it.  The Research    *)
(* and Answer subgraphs appear by the contract the Turn relies on (what    *)
(* they may charge and return); every deadline check may go either way.    *)
(*                                                                         *)
(* Data is abstracted to what the properties tell apart.  A message is     *)
(* "own" (the user's text) or "derived" (written by a model); a document   *)
(* is a member of Docs; a fingerprint or a scope revision is the value     *)
(* that was hashed; terminal reasons no property names are "other".        *)
(***************************************************************************)
EXTENDS Naturals, Sequences

CONSTANTS
  TurnIds,               \* Turn identities a caller may submit
  Principals,            \* trusted Principals
  Docs,                  \* Source Documents
  Null,                  \* Python's None
  ModelCallLimit,        \* TurnExecutionBudget.model_call_limit
  RetrievalLimit,        \* TurnExecutionBudget.retrieval_request_limit
  IterationLimit,        \* TurnExecutionBudget.research_iteration_limit
  RecordWeight,          \* tokens of one Turn Record
  SummaryWeight,         \* tokens reserved for the Conversation Summary
  ContextLimit,          \* token budget of active semantic Memory
  \* Bounds and environment switches of the model.
  MaxSubmissions,        \* runs started with a new input
  MaxScopeChanges,       \* grants and revocations
  MaxCrashes,            \* process stops
  GrantsAllowed,         \* may a document enter the scope, or only leave it?
  OverlapAllowed,        \* may a caller submit while a Turn is active?
  SubgraphsMayRaise      \* may a subgraph end in an uncaught exception?

ASSUME BudgetAssumption ==
  /\ ModelCallLimit \in 1..10
  /\ RetrievalLimit \in 1..2
  /\ IterationLimit \in 0..1

ASSUME WeightAssumption ==
  /\ RecordWeight \in Nat \ {0}
  /\ SummaryWeight \in Nat \ {0}
  /\ ContextLimit \in Nat
  /\ SummaryWeight < ContextLimit

ASSUME BoundAssumption ==
  /\ MaxSubmissions \in Nat
  /\ MaxScopeChanges \in Nat
  /\ MaxCrashes \in Nat
  /\ GrantsAllowed \in BOOLEAN
  /\ OverlapAllowed \in BOOLEAN
  /\ SubgraphsMayRaise \in BOOLEAN

VARIABLES
  thread,        \* checkpointed ThreadState
  work,          \* checkpointed CurrentTurnWork, or Null
  next,          \* checkpointed next node, or "end"
  running,       \* is a run of the graph executing?
  caller,        \* RuntimeContext.principal_id of the latest run
  error,         \* what the latest run raised, or "none"
  scope,         \* documents the thread's Principal may read now
  submissions, changes, crashes,   \* spent bounds
  base,          \* history: the thread when its active Turn began
  calls          \* history: model calls the active Turn really made

vars == <<thread, work, next, running, caller, error, scope,
          submissions, changes, crashes, base, calls>>

-----------------------------------------------------------------------------
(* Values. *)

\* Mutant: one Conversation Summary attempt too many.
SummaryRetryLimitOffByOne == 3

SummaryRetryLimit == 2
RestartLimit == 1

Stages == {"new", "prepared", "authorized", "compacting", "researching",
           "answering", "authorizing", "terminal"}

Nodes == {"prepare_turn", "capture_turn_authorization", "compact_context",
          "contextualize_turn", "run_research_subgraph",
          "run_answer_subgraph", "authorize_and_commit_turn",
          "complete_turn"}

Errors == {"none", "turn_resume_incompatible", "thread_principal_mismatch",
           "thread_busy", "invalid_checkpoint"}

\* TurnOutcome; "declined" is refused or clarification_requested.
Outcomes == {"answered", "declined", "failed"}

Reasons == {"authorization_unavailable", "authorization_context_mismatch",
            "authorization_changed_twice", "citation_dependency_mismatch",
            "context_compaction_failed", "other"}

Questions == {"own", "derived"}

TurnRecords == [turn_id : TurnIds,
                standalone_question : Questions,
                outcome : Outcomes,
                terminal_reason : Reasons \cup {Null},
                citation_dependencies : SUBSET Docs]

\* covered is what covered_through_turn_id stands for: the records folded in.
Summaries == [covered : Seq(TurnRecords), dependencies : SUBSET Docs]

ThreadsOver(F) == [principal_id : Principals \cup {Null},
                   turn_records : Seq(TurnRecords),
                   summary : Summaries \cup {Null},
                   active_turn_id : TurnIds \cup {Null},
                   active_turn_fingerprint : F]

Snapshots == [principal_id : Principals, revision : SUBSET Docs]

Works == [turn_id : TurnIds,
          stage : Stages,
          model_calls : 0..10,
          compaction_attempts : 0..2,
          retrieval_requests : 0..2,
          research_iterations : 0..1,
          answer_repairs : 0..1,
          authorization_restarts : 0..1,
          standalone_question : Questions \cup {Null},
          authorization_snapshot : Snapshots \cup {Null},
          evidence_set : {Null} \cup SUBSET Docs,
          cited_answer : {Null} \cup SUBSET Docs,
          outcome : Outcomes \cup {Null},
          terminal_reason : Reasons \cup {Null},
          pre_compaction_thread : ThreadsOver({Null}) \cup {Null}]

ThreadStates == ThreadsOver(Works \cup {Null})

ASSUME NullAssumption ==
  /\ Null \notin TurnIds \cup Principals
  /\ \A documents \in SUBSET Docs : documents # Null
  /\ Null \notin Questions \cup Outcomes \cup Reasons
  /\ Null \notin Snapshots \cup Summaries
  /\ Null \notin ThreadsOver({Null}) \cup Works

\* resume_fingerprint: a digest, so equal exactly for equal work.
Fingerprint(w) == w

NewWork(t, stage) ==
  [turn_id |-> t, stage |-> stage, model_calls |-> 0,
   compaction_attempts |-> 0, retrieval_requests |-> 0,
   research_iterations |-> 0, answer_repairs |-> 0,
   authorization_restarts |-> 0, standalone_question |-> Null,
   authorization_snapshot |-> Null, evidence_set |-> Null,
   cited_answer |-> Null, outcome |-> Null, terminal_reason |-> Null,
   pre_compaction_thread |-> Null]

EmptyThread ==
  [principal_id |-> Null, turn_records |-> <<>>, summary |-> Null,
   active_turn_id |-> Null, active_turn_fingerprint |-> Null]

\* The model_validator a node runs on the work it reads back.
ResultStage(w) == w.stage \in {"authorizing", "terminal"}

WorkAccepted(w) ==
  /\ w \in Works
  /\ IF ResultStage(w)
     THEN /\ w.outcome # Null
          /\ (w.outcome = "answered") <=> (w.terminal_reason = Null)
     ELSE w.outcome = Null /\ w.terminal_reason = Null /\ w.cited_answer = Null
  /\ (w.standalone_question # Null) <=>
       (w.stage \in {"researching", "answering", "authorizing", "terminal"})
  /\ (w.authorization_snapshot # Null) <=>
       (w.stage \in {"authorized", "compacting", "researching", "answering",
                     "authorizing"})
  /\ w.stage = "answering" => w.evidence_set # Null

IdsOf(records) == {records[i].turn_id : i \in 1..Len(records)}

\* The model_validator a node runs on the thread it reads back.
ThreadAccepted(th) ==
  /\ \A i, j \in 1..Len(th.turn_records) :
       th.turn_records[i].turn_id = th.turn_records[j].turn_id => i = j
  /\ th.principal_id = Null =>
       /\ th.turn_records = <<>>
       /\ th.summary = Null
       /\ th.active_turn_id = Null
       /\ th.active_turn_fingerprint = Null
  /\ th.active_turn_id = Null => th.active_turn_fingerprint = Null

-----------------------------------------------------------------------------
(* Thread Memory (conversation.py). *)

Covered(th) == IF th.summary = Null THEN <<>> ELSE th.summary.covered

\* Every record the thread ever took, whether summarised or still active.
History(th) == Covered(th) \o th.turn_records

HasHistory(th) == th.turn_records # <<>> \/ th.summary # Null

Weight(th) == RecordWeight * Len(th.turn_records)
              + (IF th.summary = Null THEN 0 ELSE SummaryWeight)

RequiresCompaction(th) == Weight(th) > ContextLimit

\* Mutant: a prefix that leaves exactly the room the summary needs is passed over.
CompactionPrefixStrict(th) ==
  LET n == Len(th.turn_records)
      fits == {k \in 1..n :
                 RecordWeight * (n - k) + SummaryWeight < ContextLimit}
  IN IF fits = {} THEN n ELSE CHOOSE k \in fits : \A j \in fits : k <= j

\* oldest_compaction_prefix: the smallest count whose removal leaves room for
\* the summary, or every record when none does.
CompactionPrefix(th) ==
  LET n == Len(th.turn_records)
      fits == {k \in 1..n :
                 RecordWeight * (n - k) + SummaryWeight <= ContextLimit}
  IN IF fits = {} THEN n ELSE CHOOSE k \in fits : \A j \in fits : k <= j

\* Mutant: one record more than the summary covers leaves active Memory.
CompactedLosingRecord(th, k, dependencies) ==
  [th EXCEPT
     !.summary = [covered |-> Covered(th) \o SubSeq(th.turn_records, 1, k),
                  dependencies |-> dependencies],
     !.turn_records = SubSeq(@, k + 2, Len(@))]

\* compact_thread_memory, with the dependencies the new summary kept.
Compacted(th, k, dependencies) ==
  [th EXCEPT
     !.summary = [covered |-> Covered(th) \o SubSeq(th.turn_records, 1, k),
                  dependencies |-> dependencies],
     !.turn_records = SubSeq(@, k + 1, Len(@))]

\* Citation dependencies the Summarizer is shown: those of projected records
\* that are still authorized, and of summary items that are.
AuthorizedDependencies(th, k) ==
  {d \in scope :
     \/ \E i \in 1..k :
          /\ th.turn_records[i].citation_dependencies \subseteq scope
          /\ d \in th.turn_records[i].citation_dependencies
     \/ th.summary # Null /\ d \in th.summary.dependencies}

\* begin_turn's update; its rejections are in PrepareError.
Begun(th, p, w) ==
  [th EXCEPT !.principal_id = p,
             !.active_turn_id = w.turn_id,
             !.active_turn_fingerprint = Fingerprint(w)]

\* commit_turn's update; its rejections are in CommitRejected.
Committed(th, r) ==
  IF r.turn_id \in IdsOf(th.turn_records)
  THEN th
  ELSE [th EXCEPT !.turn_records = Append(@, r),
                  !.active_turn_id = Null,
                  !.active_turn_fingerprint = Null]

CommitRejected(th, r) ==
  IF r.turn_id \in IdsOf(th.turn_records)
  THEN r \notin {th.turn_records[i] : i \in 1..Len(th.turn_records)}
  ELSE th.active_turn_id # r.turn_id

\* Mutant: the node returns its work and the thread it was given.
CheckpointedStale(th, w) == th

Checkpointed(th, w) == [th EXCEPT !.active_turn_fingerprint = Fingerprint(w)]

-----------------------------------------------------------------------------
(* Current Turn Work. *)

\* Mutant: a second change commits once the restart is spent.
TransitionWithoutFailure(original, current, restarts) ==
  IF original # current /\ restarts < RestartLimit THEN "restart" ELSE "commit"

\* decide_authorization_transition, for snapshots of one Principal.
AuthorizationTransition(original, current, restarts) ==
  IF original = current THEN "commit"
  ELSE IF restarts < RestartLimit THEN "restart" ELSE "fail"

\* Mutants: a field restart_after_authorization_change forgets to discard, a
\* budget it refunds, a restart it does not count.
RestartedKeepingSnapshot(w) ==
  [NewWork(w.turn_id, "prepared") EXCEPT
     !.model_calls = w.model_calls,
     !.compaction_attempts = w.compaction_attempts,
     !.authorization_restarts = w.authorization_restarts + 1,
     !.authorization_snapshot = w.authorization_snapshot]

RestartedRefundingCalls(w) ==
  [NewWork(w.turn_id, "prepared") EXCEPT
     !.compaction_attempts = w.compaction_attempts,
     !.authorization_restarts = w.authorization_restarts + 1]

RestartedUncounted(w) ==
  [NewWork(w.turn_id, "prepared") EXCEPT
     !.model_calls = w.model_calls,
     !.compaction_attempts = w.compaction_attempts,
     !.authorization_restarts = w.authorization_restarts]

\* restart_after_authorization_change
Restarted(w) ==
  [w EXCEPT !.stage = "prepared",
            !.authorization_restarts = @ + 1,
            !.standalone_question = Null,
            !.authorization_snapshot = Null,
            !.evidence_set = Null,
            !.cited_answer = Null,
            !.outcome = Null,
            !.terminal_reason = Null,
            !.pre_compaction_thread = Null]

\* _terminal_work
TerminalWork(w, question, outcome, reason) ==
  [w EXCEPT !.stage = IF w.authorization_snapshot # Null
                      THEN "authorizing" ELSE "terminal",
            !.standalone_question = question,
            !.outcome = outcome,
            !.terminal_reason = reason]

\* _terminal_checkpoint
TerminalCheckpoint(w, reason) ==
  [w EXCEPT !.stage = "terminal",
            !.standalone_question = IF @ = Null THEN "own" ELSE @,
            !.outcome = "failed",
            !.terminal_reason = reason]

\* _authorizing_failure: the charges of the subgraph that raised are lost.
AuthorizingFailure(w) ==
  [w EXCEPT !.stage = "authorizing",
            !.evidence_set = Null,
            !.cited_answer = Null,
            !.outcome = "failed",
            !.terminal_reason = "other"]

\* Mutant: the gate forgets that the thread was compacted.
NoRollback(w, th) == th

RollbackThread(w, th) ==
  IF w.pre_compaction_thread = Null THEN th ELSE w.pre_compaction_thread

FailureRecord(w, reason) ==
  [turn_id |-> w.turn_id,
   standalone_question |-> IF w.standalone_question = Null
                           THEN "own" ELSE w.standalone_question,
   outcome |-> "failed",
   terminal_reason |-> reason,
   citation_dependencies |-> {}]

\* _citation_dependencies raises unless every citation is in the Evidence.
CitationsMatch(w) ==
  w.cited_answer = Null \/ w.cited_answer = {}
    \/ (w.evidence_set # Null /\ w.cited_answer \subseteq w.evidence_set)

ResultRecord(w) ==
  [turn_id |-> w.turn_id,
   standalone_question |-> w.standalone_question,
   outcome |-> w.outcome,
   terminal_reason |-> w.terminal_reason,
   citation_dependencies |->
     IF w.cited_answer = Null THEN {} ELSE w.cited_answer]

-----------------------------------------------------------------------------
(* Runs of the graph. *)

budgets == <<submissions, changes, crashes>>

AtNode(n) == running /\ next = n

\* The node's update is checkpointed and the run goes on to node n.
Checkpoint(w, th, n) ==
  /\ work' = w
  /\ thread' = Checkpointed(th, w)
  /\ next' = n
  /\ UNCHANGED <<running, caller, error, scope, budgets, base>>

\* The record is committed and the run ends (commit_turn, current_turn: None).
\* A rejected commit raises, on this run and on every later one.
Commit(th, r) ==
  /\ ~CommitRejected(th, r)
  /\ thread' = Committed(th, r)
  /\ work' = Null
  /\ next' = "end"
  /\ running' = FALSE
  /\ UNCHANGED <<caller, error, scope, budgets, base, calls>>

Charge(n) == calls' = calls + n

\* Mutant: prepare_turn resets the work of an active Turn too.
AlwaysReset == NewWork(work.turn_id, "prepared")

\* What a run that starts at prepare_turn resumes from: an idle thread resets
\* whatever the caller supplied.
PreparedWork ==
  IF thread.active_turn_id = Null
  THEN NewWork(work.turn_id, "prepared")
  ELSE work

PrepareError ==
  IF \/ ~WorkAccepted(work)
     \/ ~ThreadAccepted(thread)
     \/ thread.active_turn_id # Null /\ work.stage = "new"
  THEN "turn_resume_incompatible"
  ELSE IF thread.principal_id \notin {Null, caller}
  THEN "thread_principal_mismatch"
  ELSE IF work.turn_id \in IdsOf(thread.turn_records)
  THEN "none"
  ELSE IF thread.active_turn_id \notin {Null, work.turn_id}
  THEN "thread_busy"
  ELSE IF /\ thread.active_turn_id = work.turn_id
          /\ thread.active_turn_fingerprint # Fingerprint(PreparedWork)
  THEN "turn_resume_incompatible"
  ELSE "none"

\* Every other node validates what it reads before it does anything.
NodeError ==
  IF next = "prepare_turn" THEN PrepareError
  ELSE IF WorkAccepted(work) /\ ThreadAccepted(thread) THEN "none"
  ELSE "invalid_checkpoint"

Proceeds(n) == AtNode(n) /\ NodeError = "none"

\* The node raises: the run ends on the checkpoint it started from.
NodeRaises ==
  /\ running
  /\ NodeError # "none"
  /\ running' = FALSE
  /\ error' = NodeError
  /\ UNCHANGED <<thread, work, next, caller, scope, budgets, base, calls>>

PrepareTurn ==
  /\ Proceeds("prepare_turn")
  /\ IF work.turn_id \in IdsOf(thread.turn_records)
     THEN /\ work' = Null
          /\ next' = "end"
          /\ running' = FALSE
          /\ UNCHANGED <<thread, base, calls>>
     ELSE /\ work' = PreparedWork
          /\ thread' = Begun(thread, caller, PreparedWork)
          /\ next' = IF PreparedWork.stage = "terminal"
                     THEN "complete_turn" ELSE "capture_turn_authorization"
          /\ IF thread.active_turn_id = Null
             THEN base' = thread /\ calls' = 0
             ELSE UNCHANGED <<base, calls>>
          /\ UNCHANGED running
  /\ UNCHANGED <<caller, error, scope, budgets>>

\* A missing pool, a failing database or an unknown Principal.
CaptureFails ==
  /\ Proceeds("capture_turn_authorization")
  /\ Checkpoint(TerminalCheckpoint(work, "authorization_unavailable"),
                thread, "complete_turn")
  /\ Charge(0)

CaptureTurnAuthorization ==
  /\ Proceeds("capture_turn_authorization")
  /\ LET w == [work EXCEPT
                 !.stage = "authorized",
                 !.authorization_snapshot =
                   [principal_id |-> caller, revision |-> scope]]
     IN Checkpoint(w, thread,
                   IF RequiresCompaction(Checkpointed(thread, w))
                   THEN "compact_context" ELSE "contextualize_turn")
  /\ Charge(0)

\* Budget spent, deadline passed, or a dependency of the node missing.
CompactionRefused ==
  /\ Proceeds("compact_context")
  /\ \E reason \in {"context_compaction_failed", "other"} :
       /\ work.compaction_attempts >= SummaryRetryLimit =>
            reason = "context_compaction_failed"
       /\ reason = "context_compaction_failed" =>
            \/ work.compaction_attempts >= SummaryRetryLimit
            \/ work.model_calls < ModelCallLimit
       /\ Checkpoint(TerminalWork(work, "own", "failed", reason),
                     thread, "authorize_and_commit_turn")
  /\ Charge(0)

CompactionAllowed ==
  /\ Proceeds("compact_context")
  /\ work.compaction_attempts < SummaryRetryLimit
  /\ work.model_calls < ModelCallLimit
  /\ thread.turn_records # <<>>

\* The attempt is charged even when it failed before the model was called.
CompactionAttemptFails ==
  /\ CompactionAllowed
  /\ LET w == [work EXCEPT !.stage = "compacting",
                           !.model_calls = @ + 1,
                           !.compaction_attempts = @ + 1]
     IN IF w.compaction_attempts < SummaryRetryLimit
        THEN Checkpoint(w, thread, "compact_context")
        ELSE Checkpoint(
               TerminalWork(w, "own", "failed", "context_compaction_failed"),
               thread, "authorize_and_commit_turn")
  /\ \E made \in 0..1 : Charge(made)

\* The thread kept for a rollback; its fingerprint is overwritten before any
\* node could compare it.
Retained(th) == [th EXCEPT !.active_turn_fingerprint = Null]

CompactContext ==
  /\ CompactionAllowed
  /\ LET k == CompactionPrefix(thread)
     IN \E kept \in SUBSET AuthorizedDependencies(thread, k) :
          LET compacted == Compacted(thread, k, kept)
              w == [work EXCEPT
                      !.stage = "authorized",
                      !.model_calls = @ + 1,
                      !.compaction_attempts = @ + 1,
                      !.pre_compaction_thread =
                        IF @ = Null THEN Retained(thread) ELSE @]
          IN /\ ~RequiresCompaction(compacted)
             /\ Checkpoint(w, compacted, "contextualize_turn")
  /\ Charge(1)

\* A first Turn needs no rewriting and no model.
ContextualizeFirstTurn ==
  /\ Proceeds("contextualize_turn")
  /\ ~HasHistory(thread)
  /\ Checkpoint([work EXCEPT !.stage = "researching",
                             !.standalone_question = "own"],
                thread, "run_research_subgraph")
  /\ Charge(0)

\* Budget spent, deadline passed, or a dependency of the node missing.
ContextualizationRefused ==
  /\ Proceeds("contextualize_turn")
  /\ HasHistory(thread)
  /\ Checkpoint(TerminalWork(work, "own", "failed", "other"),
                thread, "authorize_and_commit_turn")
  /\ Charge(0)

ChargedRewrite == [work EXCEPT !.model_calls = @ + 1]

RewriteAllowed ==
  /\ Proceeds("contextualize_turn")
  /\ HasHistory(thread)
  /\ work.model_calls < ModelCallLimit

\* The rewrite raised, or its answer came after the deadline.
RewriteFails ==
  /\ RewriteAllowed
  /\ Checkpoint(TerminalWork(ChargedRewrite, "own", "failed", "other"),
                thread, "authorize_and_commit_turn")
  /\ \E made \in 0..1 : Charge(made)

ClarificationRequested ==
  /\ RewriteAllowed
  /\ Checkpoint(TerminalWork(ChargedRewrite, "derived", "declined", "other"),
                thread, "authorize_and_commit_turn")
  /\ Charge(1)

ContextualizeTurn ==
  /\ RewriteAllowed
  /\ Checkpoint([ChargedRewrite EXCEPT !.stage = "researching",
                                       !.standalone_question = "derived"],
                thread, "run_research_subgraph")
  /\ Charge(1)

\* What a Research run may charge: whole operations, never past a limit.
ResearchCharges ==
  [model_calls : work.model_calls..ModelCallLimit,
   retrieval_requests : work.retrieval_requests..RetrievalLimit,
   research_iterations : work.research_iterations..IterationLimit]

Researched(c) ==
  [work EXCEPT !.model_calls = c.model_calls,
               !.retrieval_requests = c.retrieval_requests,
               !.research_iterations = c.research_iterations]

\* Evidence is authorized against the scope of the moment it is retrieved and
\* expanded, not against the snapshot.
EvidenceReady ==
  /\ Proceeds("run_research_subgraph")
  /\ \E c \in ResearchCharges, evidence \in (SUBSET scope) \ {{}} :
       /\ c.retrieval_requests > work.retrieval_requests
       /\ c.model_calls >= work.model_calls + 3   \* plan, rerank, assess
       /\ Checkpoint([Researched(c) EXCEPT !.stage = "answering",
                                           !.evidence_set = evidence],
                     thread, "run_answer_subgraph")
       /\ Charge(c.model_calls - work.model_calls)

\* Direct answer, clarification or refusal, insufficient evidence, failure.
ResearchConcludes ==
  /\ Proceeds("run_research_subgraph")
  /\ \E c \in ResearchCharges, outcome \in Outcomes :
       /\ outcome # "failed" => c.model_calls > work.model_calls
       /\ Checkpoint([Researched(c) EXCEPT
                        !.stage = "authorizing",
                        !.outcome = outcome,
                        !.terminal_reason =
                          IF outcome = "answered" THEN Null ELSE "other"],
                     thread, "authorize_and_commit_turn")
       /\ Charge(c.model_calls - work.model_calls)

\* The subgraph raised after any number of calls; its counters never come back.
SubgraphRaises ==
  /\ SubgraphsMayRaise
  /\ \/ Proceeds("run_research_subgraph")
     \/ Proceeds("run_answer_subgraph")
  /\ Checkpoint(AuthorizingFailure(work), thread, "authorize_and_commit_turn")
  /\ \E made \in 0..(ModelCallLimit - work.model_calls) : Charge(made)

\* An answer or a refusal that was generated, validated and verified: every
\* Evidence document was hydrated, again at release, under the scope of that
\* moment; a factual answer cites some of them.
AnswerReleased ==
  /\ Proceeds("run_answer_subgraph")
  /\ work.evidence_set \subseteq scope
  /\ \E total \in (work.model_calls + 2)..ModelCallLimit,
        repairs \in work.answer_repairs..1,
        cited \in SUBSET work.evidence_set :
       /\ Checkpoint([work EXCEPT !.stage = "authorizing",
                                  !.model_calls = total,
                                  !.answer_repairs = repairs,
                                  !.cited_answer = cited,
                                  !.outcome = IF cited = {} THEN "declined"
                                              ELSE "answered",
                                  !.terminal_reason = IF cited = {} THEN "other"
                                                      ELSE Null],
                     thread, "authorize_and_commit_turn")
       /\ Charge(total - work.model_calls)

\* An insufficient or incomplete answer cites nothing.
AnswerWithheld ==
  /\ Proceeds("run_answer_subgraph")
  /\ \E total \in work.model_calls..ModelCallLimit,
        repairs \in work.answer_repairs..1 :
       /\ Checkpoint([work EXCEPT !.stage = "authorizing",
                                  !.model_calls = total,
                                  !.answer_repairs = repairs,
                                  !.cited_answer = {},
                                  !.outcome = "failed",
                                  !.terminal_reason = "other"],
                     thread, "authorize_and_commit_turn")
       /\ Charge(total - work.model_calls)

Latest == [principal_id |-> caller, revision |-> scope]

Transition ==
  AuthorizationTransition(work.authorization_snapshot, Latest,
                          work.authorization_restarts)

\* The pool is gone, or the second capture raises.
GateUnavailable ==
  /\ Proceeds("authorize_and_commit_turn")
  /\ \E reason \in {"authorization_unavailable",
                    "authorization_context_mismatch"} :
       Commit(RollbackThread(work, thread), FailureRecord(work, reason))

GateRestarts ==
  /\ Proceeds("authorize_and_commit_turn")
  /\ Transition = "restart"
  /\ Checkpoint(Restarted(work), RollbackThread(work, thread), "prepare_turn")
  /\ Charge(0)

GateFails ==
  /\ Proceeds("authorize_and_commit_turn")
  /\ Transition = "fail"
  /\ Commit(RollbackThread(work, thread),
            FailureRecord(work, "authorization_changed_twice"))

GateCommits ==
  /\ Proceeds("authorize_and_commit_turn")
  /\ Transition = "commit"
  /\ Commit(thread, IF CitationsMatch(work)
                    THEN ResultRecord(work)
                    ELSE FailureRecord(work, "citation_dependency_mismatch"))

\* Terminal work that never had a snapshot carries no citations.
CompleteTurn ==
  /\ Proceeds("complete_turn")
  /\ work.stage = "terminal"
  /\ Commit(thread, [ResultRecord(work) EXCEPT !.citation_dependencies = {}])

-----------------------------------------------------------------------------
(* Callers, the process and administrators. *)

\* A run with a new input: the input channel replaces the checkpointed work.
Submit(p, t) ==
  /\ ~running
  /\ submissions < MaxSubmissions
  /\ OverlapAllowed \/ thread.active_turn_id = Null
  /\ work' = NewWork(t, "new")
  /\ next' = "prepare_turn"
  /\ running' = TRUE
  /\ caller' = p
  /\ error' = "none"
  /\ submissions' = submissions + 1
  /\ UNCHANGED <<thread, scope, changes, crashes, base, calls>>

\* A run without input continues from the checkpoint, for the same caller.
Resume ==
  /\ ~running
  /\ next # "end"
  /\ running' = TRUE
  /\ error' = "none"
  /\ UNCHANGED <<thread, work, next, caller, scope, budgets, base, calls>>

CallsModels(n) == n \in {"compact_context", "contextualize_turn",
                         "run_research_subgraph", "run_answer_subgraph"}

\* The process stops inside a node: the calls it made are charged to nobody.
Crash ==
  /\ running
  /\ crashes < MaxCrashes
  /\ running' = FALSE
  /\ crashes' = crashes + 1
  /\ \E made \in 0..(IF CallsModels(next)
                     THEN ModelCallLimit - work.model_calls ELSE 0) :
       Charge(made)
  /\ UNCHANGED <<thread, work, next, caller, error, scope, submissions,
                 changes, base>>

Grant(d) ==
  /\ GrantsAllowed
  /\ d \notin scope
  /\ changes < MaxScopeChanges
  /\ scope' = scope \cup {d}
  /\ changes' = changes + 1
  /\ UNCHANGED <<thread, work, next, running, caller, error, submissions,
                 crashes, base, calls>>

Revoke(d) ==
  /\ d \in scope
  /\ changes < MaxScopeChanges
  /\ scope' = scope \ {d}
  /\ changes' = changes + 1
  /\ UNCHANGED <<thread, work, next, running, caller, error, submissions,
                 crashes, base, calls>>

Init ==
  /\ thread = EmptyThread
  /\ work = Null
  /\ next = "end"
  /\ running = FALSE
  /\ caller \in Principals
  /\ error = "none"
  /\ scope \in SUBSET Docs
  /\ submissions = 0
  /\ changes = 0
  /\ crashes = 0
  /\ base = EmptyThread
  /\ calls = 0

NodeStep ==
  \/ NodeRaises
  \/ PrepareTurn
  \/ CaptureFails
  \/ CaptureTurnAuthorization
  \/ CompactionRefused
  \/ CompactionAttemptFails
  \/ CompactContext
  \/ ContextualizeFirstTurn
  \/ ContextualizationRefused
  \/ RewriteFails
  \/ ClarificationRequested
  \/ ContextualizeTurn
  \/ EvidenceReady
  \/ ResearchConcludes
  \/ SubgraphRaises
  \/ AnswerReleased
  \/ AnswerWithheld
  \/ GateUnavailable
  \/ GateRestarts
  \/ GateFails
  \/ GateCommits
  \/ CompleteTurn

Next ==
  \/ NodeStep
  \/ \E p \in Principals, t \in TurnIds : Submit(p, t)
  \/ Resume
  \/ Crash
  \/ \E d \in Docs : Grant(d) \/ Revoke(d)

Spec == Init /\ [][Next]_vars

\* The library keeps executing nodes of a live run, and a caller who saw a run
\* stop short of its end resumes it.
Fairness == WF_vars(NodeStep) /\ WF_vars(Resume)

FairSpec == Spec /\ Fairness

-----------------------------------------------------------------------------
(* Properties. *)

\* Every field keeps the type its model declares: no counter of the work ever
\* passes the range CurrentTurnWork was given.
TypeOK ==
  /\ thread \in ThreadStates
  /\ work \in Works \cup {Null}
  /\ next \in Nodes \cup {"end"}
  /\ running \in BOOLEAN
  /\ caller \in Principals
  /\ error \in Errors
  /\ scope \in SUBSET Docs
  /\ submissions \in 0..MaxSubmissions
  /\ changes \in 0..MaxScopeChanges
  /\ crashes \in 0..MaxCrashes
  /\ base \in ThreadStates
  /\ calls \in Nat

\* No node, restart or rollback ever leaves a checkpoint that the next node's
\* model_validate would reject (nodes write with model_copy, unvalidated).
CheckpointAccepted ==
  next # "end" => WorkAccepted(work) /\ ThreadAccepted(thread)

\* The thread holds the fingerprint of exactly the work checkpointed beside it.
Resumable ==
  /\ work # Null
  /\ work.turn_id = thread.active_turn_id
  /\ thread.active_turn_fingerprint = Fingerprint(work)

\* Only a caller's new input can cost an active Turn its work: no node, restart,
\* rollback or stop does.  Once it has (the input channel overwrote the work),
\* nothing is executed on what replaced it: no run changes the thread again, so
\* the active Turn is neither resumed nor ended.
OnlyNewInputStrandsTurn ==
  [][/\ (thread'.active_turn_id # Null /\ ~Resumable') =>
          /\ UNCHANGED thread
          /\ \/ UNCHANGED work
             \/ submissions' = submissions + 1 /\ work'.stage = "new"
     /\ (thread.active_turn_id # Null /\ ~Resumable) => UNCHANGED thread]_vars

\* The course's "active turn-7 + turn-8 -> thread_busy": a run for another Turn
\* than the active one, of the thread's own Principal, is rejected as busy.
OverlapRejectedAsBusy ==
  [][(/\ running
      /\ error' # error
      /\ thread.principal_id = caller
      /\ thread.active_turn_id \notin {Null, work.turn_id})
     => error' = "thread_busy"]_vars

\* However often a Turn restarts, stops or loses a subgraph's counters, the
\* model calls it makes stay within one limit per attempt and process stop.
ModelCallsBounded ==
  (thread.active_turn_id # Null /\ work.stage # "new") =>
    calls <= (1 + work.authorization_restarts + crashes) * ModelCallLimit

\* Every model call of the active Turn is charged to its budget, across
\* retries and the authorization restart.
CallsCharged ==
  (thread.active_turn_id # Null /\ work.stage # "new") =>
    calls <= work.model_calls

InTurn == thread.active_turn_id # Null /\ work # Null /\ work.stage # "new"

\* While a Turn is active its budget is never refunded, not by its restart
\* either, and every call it makes is charged; only a process stop and a
\* subgraph that raised leave calls uncharged.
ChargesKept ==
  [][InTurn /\ InTurn' =>
       /\ work'.model_calls >= work.model_calls
       /\ \/ calls' + work.model_calls <= calls + work'.model_calls
          \/ crashes' = crashes + 1
          \/ work' = AuthorizingFailure(work)]_vars

\* A completed Turn ID is never executed again.
CompletedTurnNotReexecuted ==
  thread.active_turn_id # Null =>
    thread.active_turn_id \notin IdsOf(History(base))

LastRecord(th) == th.turn_records[Len(th.turn_records)]

Commits == /\ thread.active_turn_id # Null
           /\ thread'.active_turn_id = Null

\* Whatever a Turn commits (its citations, a summary it made) and whatever an
\* ending that is no failure rested on (its whole Evidence Set, cited or not)
\* are documents the Principal may read at that moment.
CommittedMaterialAuthorized ==
  [][Commits =>
       /\ LastRecord(thread)'.citation_dependencies \subseteq scope
       /\ (LastRecord(thread)'.outcome # "failed" /\ work.evidence_set # Null) =>
            work.evidence_set \subseteq scope
       /\ thread'.summary # base.summary =>
            thread'.summary.dependencies \subseteq scope]_vars

\* A Turn whose scope moved, whose gate failed or whose compaction failed
\* leaves the memory it found, plus its own record.
UnauthorizedCompactionRolledBack ==
  [][(/\ Commits
      /\ \/ LastRecord(thread)'.terminal_reason \in Reasons \ {"other",
                                         "citation_dependency_mismatch"}
         \/ work.authorization_snapshot = Null
         \/ work.authorization_snapshot.revision # scope)
     => /\ thread'.summary = base.summary
        /\ thread'.turn_records = Append(base.turn_records,
                                         LastRecord(thread'))]_vars

\* A Turn that commits a new summary took into it exactly the oldest records
\* that had to leave the memory it found: the rest has room beside the summary,
\* and one record more would not, whatever was compacted, undone and compacted
\* again on the way.
SmallestPrefixCommitted ==
  [][(Commits /\ thread'.summary # base.summary) =>
       LET kept == Len(thread'.turn_records) - 1
       IN /\ RecordWeight * kept + SummaryWeight <= ContextLimit
          /\ RecordWeight * (kept + 1) + SummaryWeight > ContextLimit]_vars

Log == INSTANCE ThreadLog WITH
         Records <- TurnRecords,
         NoTurn <- Null,
         log <- History(thread),
         active <- thread.active_turn_id

\* The thread implements the abstract log its caller was promised: compaction,
\* restarts, rollbacks, stops and resumes never lose, change or repeat a record.
LogSpec == Log!LogSpec

\* An accepted Turn ends with its record in the log.
AcceptedTurnCommits ==
  \A t \in TurnIds :
    thread.active_turn_id = t ~>
      (thread.active_turn_id = Null /\ t \in IdsOf(History(thread)))
=============================================================================
