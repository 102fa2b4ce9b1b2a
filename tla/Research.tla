------------------------------ MODULE Research ------------------------------
(***************************************************************************)
(* The bounded Research subgraph (graph/_research.py): plan, retrieve,     *)
(* assess, refine.  Unlike a Turn node, a Research node is not one step:   *)
(* nothing is checkpointed inside the subgraph, so a node is split at each *)
(* call it waits for, and the deadline, the scope and the corpus may move  *)
(* while it waits.                                                         *)
(*                                                                         *)
(* A document is <<source, path>>.  A corpus revision is a digest of what  *)
(* a source published, so a later publication may bring one back.  A       *)
(* removed document is one that left the scope.  Which documents match,    *)
(* pass the relevance threshold or fit the budgets is left open.           *)
(***************************************************************************)
EXTENDS Naturals

CONSTANTS
  Sources,               \* Knowledge Sources
  Paths,                 \* source paths within one of them
  Revisions,             \* corpus revisions a source may publish
  ModelCallLimit, RetrievalLimit, IterationLimit,   \* TurnExecutionBudget
  ContextWindow,         \* RetrievalConfig.context_window
  MaxChanges             \* bound: scope changes and publications

Documents == Sources \X Paths

CallsCap == ModelCallLimit + 1   \* bound: where the history stops counting

Operations == {"model_calls", "retrieval_requests", "research_iterations"}

ASSUME ResearchAssumption ==
  /\ ModelCallLimit \in 1..10
  /\ RetrievalLimit \in 1..2
  /\ IterationLimit \in 0..1
  /\ ContextWindow \in 0..3
  /\ MaxChanges \in Nat

VARIABLES
  step,          \* the node, or the call a node is waiting for
  counters,      \* ResearchCounters
  requested,     \* knowledge_sources of the plan
  todo,          \* of those, still to be searched in this round
  found,         \* candidates of this round so far
  broken,        \* did a search of this round fail?
  earlier,       \* items of the earlier retrieval_results
  round,         \* the latest of them
  evidence,      \* evidence_set: the items selected and expanded
  sufficient,    \* latest assessment
  status,        \* status of the subgraph
  late,          \* has the deadline passed?
  scope,         \* documents the Principal may read now
  corpus,        \* published revision of each source
  changes,       \* spent bound
  trusted,       \* is the snapshot's Principal the run's?
  start,         \* history: counters the subgraph was given
  calls,         \* history: model calls made
  lateReturn,    \* history: did a call return after the deadline?
  seenDocuments, \* history: readable at some time since the round began
  seenRevisions  \* history: published at some time since the round began

control == <<step, status>>
charges == <<counters, calls>>
search  == <<requested, todo, found, broken>>
result  == <<earlier, round, evidence, sufficient>>
world   == <<late, scope, corpus, changes>>
given   == <<trusted, start>>
seen    == <<seenDocuments, seenRevisions>>

vars == <<control, charges, search, result, world, given, lateReturn, seen>>

Steps == {"plan", "planning", "replanning",
          "retrieve", "embedding", "searching", "reranking", "expanding",
          "assess", "assessing", "deciding", "confirming",
          "refine", "refining", "end", "raised"}

Statuses == {"pending", "evidence_ready", "direct", "clarification",
             "refused", "incomplete", "failed"}

Counters == [model_calls : 0..ModelCallLimit,
             retrieval_requests : 0..RetrievalLimit,
             research_iterations : 0..IterationLimit]

Items == [document : Documents, revision : Revisions]

Rounds == [failed : BOOLEAN, items : SUBSET Items]

-----------------------------------------------------------------------------
(* Budget, deadline and routes. *)

Limit == [model_calls |-> ModelCallLimit,
          retrieval_requests |-> RetrievalLimit,
          research_iterations |-> IterationLimit]

\* Mutant: one operation more than the limit.
AdmittedInclusive(operations) ==
  ~late /\ \A o \in operations : counters[o] <= Limit[o]

\* _consume_research_operations: all of them, before the deadline, or none.
Admitted(operations) ==
  /\ ~late
  /\ \A o \in operations : counters[o] < Limit[o]

Consumed(operations) ==
  [o \in Operations |-> counters[o] + (IF o \in operations THEN 1 ELSE 0)]

\* Mutant: a terminal the routes do not follow.
TerminalUnrouted(s) == status' = s /\ UNCHANGED step

Terminal(s) == status' = s /\ step' = "end"

Continue(s) == step' = s /\ UNCHANGED status

\* Model calls really made.
Made(n) == calls' = IF calls < CallsCap THEN calls + n ELSE calls

\* A node that reserves its operations and starts its call, or ends research.
Reserve(operations, call, made) ==
  IF Admitted(operations)
  THEN /\ counters' = Consumed(operations)
       /\ Made(made)
       /\ Continue(call)
  ELSE Terminal("incomplete") /\ UNCHANGED charges

\* A call the run waited for has returned, or raised.
Returned == lateReturn' = (lateReturn \/ late)

\* Mutant: the deadline is read before a call only.
AlwaysInTime(in_time) == in_time

\* What a node does once its call has returned.
IfInTime(in_time) == IF late THEN Terminal("incomplete") ELSE in_time

-----------------------------------------------------------------------------
(* plan_research *)

\* A node of the run was built without a dependency it needs.
DependencyMissing ==
  /\ step \in {"plan", "retrieve"}
  /\ step = "plan" => trusted
  /\ counters.retrieval_requests = start.retrieval_requests
  /\ step' = "raised"
  /\ UNCHANGED <<status, charges, search, result, world, given, lateReturn,
                 seen>>

RefuseStranger ==
  /\ step = "plan"
  /\ ~trusted
  /\ Terminal("refused")
  /\ UNCHANGED <<charges, search, result, world, given, lateReturn, seen>>

StartPlan ==
  /\ step = "plan"
  /\ trusted
  /\ Reserve({"model_calls"}, "planning", 1)
  /\ UNCHANGED <<search, result, world, given, lateReturn, seen>>

\* An invalid plan is asked for once more.
PlanFails ==
  /\ step = "planning"
  /\ Reserve({"model_calls"}, "replanning", 1)
  /\ Returned
  /\ UNCHANGED <<search, result, world, given, seen>>

ReplanFails ==
  /\ step = "replanning"
  /\ Terminal("failed")
  /\ Returned
  /\ UNCHANGED <<charges, search, result, world, given, seen>>

PlanRetrieves ==
  /\ step \in {"planning", "replanning"}
  /\ IfInTime(Continue("retrieve"))
  /\ \E sources \in (SUBSET Sources) \ {{}} :
       requested' = IF late THEN requested ELSE sources
  /\ Returned
  /\ UNCHANGED <<charges, todo, found, broken, result, world, given, seen>>

PlanConcludes ==
  /\ step \in {"planning", "replanning"}
  /\ \E s \in {"direct", "clarification", "refused"} : IfInTime(Terminal(s))
  /\ Returned
  /\ UNCHANGED <<charges, search, result, world, given, seen>>

-----------------------------------------------------------------------------
(* retrieve_research_evidence, retrieve, expand_evidence_set_context *)

\* The reservation covers the rerank call.
StartRetrieval ==
  /\ step = "retrieve"
  /\ Reserve({"retrieval_requests", "model_calls"}, "embedding", 0)
  /\ todo' = requested
  /\ found' = {}
  /\ broken' = FALSE
  /\ seenDocuments' = scope
  /\ seenRevisions' = [s \in Sources |-> {corpus[s]}]
  /\ UNCHANGED <<requested, result, world, given, lateReturn>>

\* Mutant: a failed rerank gives its model call back too.
RefundedAlways(reranked) ==
  [counters EXCEPT !.model_calls = @ - 1]

\* The model call is given back when the reranker was never asked.
Refunded(reranked) ==
  IF reranked THEN counters ELSE [counters EXCEPT !.model_calls = @ - 1]

Retrieved == earlier \cup round.items

\* retrieve returns; the Evidence Set is assembled from every round.
RoundReturns(new, reranked) ==
  /\ earlier' = Retrieved
  /\ round' = new
  /\ counters' = Refunded(reranked)
  /\ Continue("expanding")

EmbeddingFails ==
  /\ step = "embedding"
  /\ RoundReturns([failed |-> TRUE, items |-> {}], FALSE)
  /\ Returned
  /\ UNCHANGED <<calls, search, evidence, sufficient, world, given, seen>>

EmbeddingReturns ==
  /\ step = "embedding"
  /\ Continue("searching")
  /\ Returned
  /\ UNCHANGED <<charges, search, result, world, given, seen>>

Readable(s) == {d \in scope : d[1] = s}

\* One read-only transaction: the published revision with the matches in it.
SearchReturns(s) ==
  /\ step = "searching"
  /\ s \in todo
  /\ todo' = todo \ {s}
  /\ \E matches \in SUBSET Readable(s) :
       found' = found \cup [document : matches, revision : {corpus[s]}]
  /\ UNCHANGED <<control, charges, requested, broken, result, world, given,
                 lateReturn, seen>>

\* No published revision, or the database failed.
SearchFails(s) ==
  /\ step = "searching"
  /\ s \in todo
  /\ todo' = todo \ {s}
  /\ broken' = TRUE
  /\ UNCHANGED <<control, charges, requested, found, result, world, given,
                 lateReturn, seen>>

SearchesDone ==
  /\ step = "searching"
  /\ todo = {}
  /\ IF broken \/ found = {}
     THEN /\ RoundReturns([failed |-> broken, items |-> {}], FALSE)
          /\ UNCHANGED calls
     ELSE /\ Continue("reranking")
          /\ Made(1)
          /\ UNCHANGED <<earlier, round, counters>>
  /\ UNCHANGED <<search, evidence, sufficient, world, given, lateReturn, seen>>

\* The relevant candidates, none of them perhaps.
RerankReturns ==
  /\ step = "reranking"
  /\ \E relevant \in SUBSET found :
       RoundReturns([failed |-> FALSE, items |-> relevant], TRUE)
  /\ Returned
  /\ UNCHANGED <<calls, search, evidence, sufficient, world, given, seen>>

\* An exception, or an output that is not a permutation of the candidates.
RerankFails ==
  /\ step = "reranking"
  /\ RoundReturns([failed |-> TRUE, items |-> {}], TRUE)
  /\ Returned
  /\ UNCHANGED <<calls, search, evidence, sufficient, world, given, seen>>

\* Mutant: only what the latest round retrieved is looked up again.
StillPublishedLatest(items) ==
  \A i \in items \cap round.items :
    i.document \in scope /\ i.revision = corpus[i.document[1]]

\* Every item is looked up again, whichever round retrieved it.
StillPublished(items) ==
  \A i \in items :
    i.document \in scope /\ i.revision = corpus[i.document[1]]

\* What round robin selects within the item and token budgets.
Selections == {items \in SUBSET Retrieved : items = {} => Retrieved = {}}

\* Mutant: the status of the latest request is not looked at.
FailureIgnored(expanded) == ~expanded

\* A failed request leaves the set incomplete, a failed expansion too.
RetrievalFailed(expanded) == round.failed \/ ~expanded

ExpansionReturns ==
  /\ step = "expanding"
  /\ \E items \in Selections, expanded \in BOOLEAN :
       /\ expanded => round.failed \/ ContextWindow = 0 \/ StillPublished(items)
       /\ ContextWindow = 0 \/ items = {} \/ round.failed => expanded
       /\ evidence' = IF late THEN evidence ELSE IF expanded THEN items ELSE {}
       /\ IfInTime(IF RetrievalFailed(expanded)
                   THEN Terminal("failed") ELSE Continue("assess"))
  /\ Returned
  /\ UNCHANGED <<charges, search, earlier, round, sufficient, world, given, seen>>

\* Anything else the node's try block may meet.
RetrievalRaises ==
  /\ step \in {"embedding", "searching", "reranking", "expanding"}
  /\ Terminal("failed")
  /\ Returned
  /\ UNCHANGED <<charges, search, result, world, given, seen>>

-----------------------------------------------------------------------------
(* assess_research_evidence *)

StartAssessment ==
  /\ step = "assess"
  /\ Reserve({"model_calls"}, "assessing", 1)
  /\ UNCHANGED <<search, result, world, given, lateReturn, seen>>

\* Mutant: an assessment may find nothing sufficient.
AnyVerdicts == BOOLEAN

\* What an assessment may say: nothing is sufficient without Evidence.
Verdicts == {v \in BOOLEAN : v => evidence # {}}

\* An exception, of the assessor or of its own checks.
AssessmentFails ==
  /\ step \in {"assessing", "confirming"}
  /\ Terminal("failed")
  /\ Returned
  /\ UNCHANGED <<charges, search, result, world, given, seen>>

AssessmentReturns ==
  /\ step = "assessing"
  /\ \E verdict \in Verdicts :
       /\ sufficient' = IF late THEN sufficient ELSE verdict
  /\ IfInTime(Continue("deciding"))
  /\ Returned
  /\ UNCHANGED <<charges, search, earlier, round, evidence, world, given, seen>>

CanRefine ==
  Admitted({"research_iterations", "retrieval_requests", "model_calls"})

\* Success, one refinement, one confirmation, or the end; the deadline is
\* read again, but not for a success.
Decide ==
  /\ step = "deciding"
  /\ IF sufficient
     THEN Terminal("evidence_ready") /\ UNCHANGED charges
     ELSE IF CanRefine
     THEN Continue("refine") /\ UNCHANGED charges
     ELSE IF evidence # {}
     THEN Reserve({"model_calls"}, "confirming", 1)
     ELSE Terminal("incomplete") /\ UNCHANGED charges
  /\ UNCHANGED <<search, result, world, given, lateReturn, seen>>

ConfirmationReturns ==
  /\ step = "confirming"
  /\ \E verdict \in Verdicts :
       /\ sufficient' = IF late THEN sufficient ELSE verdict
       /\ IfInTime(Terminal(IF verdict THEN "evidence_ready" ELSE "incomplete"))
  /\ Returned
  /\ UNCHANGED <<charges, search, earlier, round, evidence, world, given, seen>>

-----------------------------------------------------------------------------
(* refine_research_query_node *)

StartRefinement ==
  /\ step = "refine"
  /\ Reserve({"research_iterations", "model_calls"}, "refining", 1)
  /\ UNCHANGED <<search, result, world, given, lateReturn, seen>>

\* An exception, or a query that did not change.
RefinementFails ==
  /\ step = "refining"
  /\ Terminal("failed")
  /\ Returned
  /\ UNCHANGED <<charges, search, result, world, given, seen>>

RefinementReturns ==
  /\ step = "refining"
  /\ IfInTime(Continue("retrieve"))
  /\ Returned
  /\ UNCHANGED <<charges, search, result, world, given, seen>>

-----------------------------------------------------------------------------
(* The clock, administrators and Corpus Sync. *)

DeadlinePasses ==
  /\ ~late
  /\ late' = TRUE
  /\ UNCHANGED <<control, charges, search, result, scope, corpus, changes,
                 given, lateReturn, seen>>

Grant(d) ==
  /\ d \notin scope
  /\ changes < MaxChanges
  /\ scope' = scope \cup {d}
  /\ seenDocuments' = seenDocuments \cup {d}
  /\ changes' = changes + 1
  /\ UNCHANGED <<control, charges, search, result, late, corpus, given,
                 lateReturn, seenRevisions>>

Revoke(d) ==
  /\ d \in scope
  /\ changes < MaxChanges
  /\ scope' = scope \ {d}
  /\ changes' = changes + 1
  /\ UNCHANGED <<control, charges, search, result, late, corpus, given,
                 lateReturn, seen>>

Publish(s, r) ==
  /\ changes < MaxChanges
  /\ corpus[s] # r
  /\ corpus' = [corpus EXCEPT ![s] = r]
  /\ seenRevisions' = [seenRevisions EXCEPT ![s] = @ \cup {r}]
  /\ changes' = changes + 1
  /\ UNCHANGED <<control, charges, search, result, late, scope, given,
                 lateReturn, seenDocuments>>

Init ==
  /\ step = "plan"
  /\ counters \in Counters
  /\ requested = {}
  /\ todo = {}
  /\ found = {}
  /\ broken = FALSE
  /\ earlier = {}
  /\ round = [failed |-> FALSE, items |-> {}]
  /\ evidence = {}
  /\ sufficient = FALSE
  /\ status = "pending"
  /\ late \in BOOLEAN
  /\ scope \in SUBSET Documents
  /\ corpus \in [Sources -> Revisions]
  /\ changes = 0
  /\ trusted \in BOOLEAN
  /\ start = counters
  /\ calls = 0
  /\ lateReturn = FALSE
  /\ seenDocuments = scope
  /\ seenRevisions = [s \in Sources |-> {corpus[s]}]

SubgraphStep ==
  \/ DependencyMissing
  \/ RefuseStranger
  \/ StartPlan
  \/ PlanFails
  \/ ReplanFails
  \/ PlanRetrieves
  \/ PlanConcludes
  \/ StartRetrieval
  \/ EmbeddingFails
  \/ EmbeddingReturns
  \/ \E s \in Sources : SearchReturns(s) \/ SearchFails(s)
  \/ SearchesDone
  \/ RerankReturns
  \/ RerankFails
  \/ ExpansionReturns
  \/ RetrievalRaises
  \/ StartAssessment
  \/ AssessmentFails
  \/ AssessmentReturns
  \/ Decide
  \/ ConfirmationReturns
  \/ StartRefinement
  \/ RefinementFails
  \/ RefinementReturns

Next ==
  \/ SubgraphStep
  \/ DeadlinePasses
  \/ \E d \in Documents : Grant(d) \/ Revoke(d)
  \/ \E s \in Sources, r \in Revisions : Publish(s, r)

Spec == Init /\ [][Next]_vars

\* invoke() runs the subgraph to its end; every call returns or raises.
FairSpec == Spec /\ WF_vars(SubgraphStep)

-----------------------------------------------------------------------------
(* Properties. *)

\* Counters stay within the limits of the budget, the refund included.
TypeOK ==
  /\ step \in Steps
  /\ status \in Statuses
  /\ counters \in Counters
  /\ start \in Counters
  /\ calls \in 0..CallsCap
  /\ requested \subseteq Sources
  /\ todo \subseteq requested
  /\ found \subseteq Items
  /\ broken \in BOOLEAN
  /\ earlier \subseteq Items
  /\ round \in Rounds
  /\ evidence \subseteq Items
  /\ sufficient \in BOOLEAN
  /\ late \in BOOLEAN
  /\ scope \subseteq Documents
  /\ corpus \in [Sources -> Revisions]
  /\ changes \in 0..MaxChanges
  /\ trusted \in BOOLEAN
  /\ lateReturn \in BOOLEAN
  /\ seenDocuments \subseteq Documents
  /\ seenRevisions \in [Sources -> SUBSET Revisions]

\* No model call escapes the budget: each is reserved before it starts, and a
\* reservation is only given back when the reranker was never asked.
CallsCharged == calls <= counters.model_calls - start.model_calls

\* What the Turn graph assumes of a Research run that returns: Evidence costs
\* a retrieval and at least a plan, a rerank and an assessment, a planned
\* conclusion at least the plan, and no counter moves back.
ContractKept ==
  step = "end" =>
    /\ status # "pending"
    /\ \A o \in Operations : start[o] <= counters[o]
    /\ status = "evidence_ready" =>
         /\ evidence # {}
         /\ counters.retrieval_requests > start.retrieval_requests
         /\ counters.model_calls >= start.model_calls + 3
    /\ status \in {"direct", "clarification", "refused"} /\ trusted =>
         counters.model_calls > start.model_calls

\* Evidence rests only on documents that were readable, and revisions that
\* were published, at some time since the last round began: what the first
\* round found and the Principal lost before the second never comes out.
EvidenceFresh ==
  (step = "end" /\ status = "evidence_ready") =>
    \A i \in evidence :
      /\ i.document \in seenDocuments
      /\ i.revision \in seenRevisions[i.document[1]]

\* A call that returned after the deadline cannot become Evidence, nor a
\* planned conclusion.
LateResultsDiscarded ==
  (step = "end" /\ lateReturn) => status \in {"incomplete", "failed"}

\* A failed Retrieval Request never lets research succeed on the rest.
FailureFailsClosed ==
  (step = "end" /\ round.failed) => status \in {"incomplete", "failed"}

\* Whatever fails or is insufficient, research comes to an end.
Terminates == <>(step \in {"end", "raised"})
=============================================================================
