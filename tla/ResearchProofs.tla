--------------------------- MODULE ResearchProofs ---------------------------
(***************************************************************************)
(* Proofs about the Research subgraph, for every set of sources, paths and *)
(* revisions, every budget the code accepts and any number of changes of   *)
(* the scope and the corpus.                                               *)
(***************************************************************************)
EXTENDS Research, TLAPS

-----------------------------------------------------------------------------
(* The inductive invariant, in named parts. *)

\* A reserved rerank call that has not been made yet.
Unused == IF step \in {"embedding", "searching"} THEN 1 ELSE 0

Charged == start.model_calls + calls + Unused <= counters.model_calls

\* A round that found something was charged its rerank.
Reranked == IF Retrieved = {} THEN 0 ELSE 1

\* Model calls charged before each step, its own included: the plan, then the
\* reservations of the current round.
Spent(s) ==
  CASE s \in {"plan", "end", "raised"} -> 0
    [] s \in {"planning", "retrieve", "expanding", "assess"} -> 1
    [] s \in {"replanning", "embedding", "searching", "reranking",
              "assessing", "deciding", "refine"} -> 2
    [] s \in {"confirming", "refining"} -> 3

\* Steps no round has reached, or that no longer count.
OutsideRounds(s) == s \in {"plan", "planning", "replanning", "end", "raised"}

ModelCallsSpent ==
  start.model_calls + Spent(step) + (IF OutsideRounds(step) THEN 0 ELSE Reranked)
    <= counters.model_calls

OthersSpent ==
  /\ start.retrieval_requests <= counters.retrieval_requests
  /\ start.research_iterations <= counters.research_iterations
  /\ step \notin {"plan", "planning", "replanning", "retrieve",
                  "end", "raised"} =>
       start.retrieval_requests < counters.retrieval_requests

\* Evidence comes from the retrieved items, a verdict from Evidence.
Grounded ==
  /\ evidence \subseteq Retrieved
  /\ sufficient => evidence # {} /\ step \in {"deciding", "end"}

\* A step before the end is pending, and retrieval only follows a plan.
Pending ==
  /\ step # "end" <=> status = "pending"
  /\ step \in {"plan", "planning", "replanning"} => Retrieved = {} /\ todo = {}
  /\ step \notin {"plan", "end", "raised"} => trusted

Lateness ==
  /\ lateReturn => late
  /\ lateReturn => step \in {"searching", "reranking", "expanding", "end"}

\* A failed request ends the run.
FailedRound == round.failed => step \in {"expanding", "end"}

\* What the readers of a round may have seen.
Seen ==
  /\ scope \subseteq seenDocuments
  /\ \A s \in Sources : corpus[s] \in seenRevisions[s]

Fresh(items) ==
  \A i \in items : /\ i.document \in seenDocuments
                   /\ i.revision \in seenRevisions[i.document[1]]

EvidenceOfRound ==
  (ContextWindow # 0 /\ step \in {"assess", "assessing", "deciding", "confirming"})
    => Fresh(evidence)

\* The parts: what was spent, where the run is, what readers see, and what the
\* theorems are about.
Spending == Charged /\ ModelCallsSpent /\ OthersSpent

Placed == Grounded /\ Pending /\ Lateness /\ FailedRound

Readers == Seen /\ EvidenceOfRound

Promises ==
  /\ ContractKept
  /\ LateResultsDiscarded
  /\ FailureFailsClosed
  /\ ContextWindow # 0 => EvidenceFresh

IInv == TypeOK /\ Spending /\ Placed /\ Readers /\ Promises

USE DEF control, charges, search, result, world, given, seen

-----------------------------------------------------------------------------
(* Operators. *)

\* The limits of the budget are natural numbers.
LEMMA Limits ==
  /\ ModelCallLimit \in Nat
  /\ RetrievalLimit \in Nat
  /\ IterationLimit \in Nat
  /\ CallsCap = ModelCallLimit + 1
  BY ResearchAssumption DEF CallsCap

\* Counters are natural numbers within the limits.
LEMMA CounterTypes ==
  ASSUME NEW c \in Counters
  PROVE  /\ c.model_calls \in Nat
         /\ c.model_calls <= ModelCallLimit
         /\ c.retrieval_requests \in Nat
         /\ c.research_iterations \in Nat
  BY Limits DEF Counters

\* Calls that were charged stay below the bound of the history.
LEMMA CallsTyped ==
  ASSUME NEW c \in Counters, NEW b \in Counters, NEW n \in Nat,
         b.model_calls + n <= c.model_calls
  PROVE  n \in 0..CallsCap /\ n < CallsCap
  BY Limits, CounterTypes DEF CallsCap

\* A reservation charges one model call and what else it names, within the
\* limits and before the deadline; a refused one ends research.
LEMMA ReserveEffect ==
  ASSUME TypeOK, Spending,
         NEW operations \in SUBSET Operations, "model_calls" \in operations,
         NEW call \in Steps, NEW made \in {0, 1},
         Reserve(operations, call, made)
  PROVE  \/ /\ ~late
            /\ step' = call
            /\ status' = status
            /\ calls' = calls + made
            /\ counters' \in Counters
            /\ counters'.model_calls = counters.model_calls + 1
            /\ counters'.retrieval_requests = counters.retrieval_requests
                 + (IF "retrieval_requests" \in operations THEN 1 ELSE 0)
            /\ counters'.research_iterations = counters.research_iterations
                 + (IF "research_iterations" \in operations THEN 1 ELSE 0)
         \/ Terminal("incomplete") /\ UNCHANGED charges
  <1>1. CASE ~Admitted(operations)
    BY <1>1 DEF Reserve
  <1>2. CASE Admitted(operations)
    <2>1. /\ ~late
          /\ step' = call
          /\ status' = status
          /\ counters' = Consumed(operations)
      BY <1>2 DEF Reserve, Admitted, Continue
    <2>2. calls' = calls + made
      <3>1. calls < CallsCap
        BY Limits, CounterTypes DEF TypeOK, Spending, Charged, Unused
      <3> QED BY <1>2, <3>1 DEF Reserve, Made
    <2>3. Consumed(operations) \in Counters
      BY <1>2, Limits
        DEF TypeOK, Admitted, Consumed, Counters, Operations, Limit
    <2>4. /\ Consumed(operations).model_calls = counters.model_calls + 1
          /\ Consumed(operations).retrieval_requests
               = counters.retrieval_requests
                 + (IF "retrieval_requests" \in operations THEN 1 ELSE 0)
          /\ Consumed(operations).research_iterations
               = counters.research_iterations
                 + (IF "research_iterations" \in operations THEN 1 ELSE 0)
      BY DEF TypeOK, Consumed, Counters, Operations
    <2> QED BY <2>1, <2>2, <2>3, <2>4
  <1> QED BY <1>1, <1>2

\* A refund changes the model calls, and by one at most.
LEMMA RefundEffect ==
  ASSUME TypeOK, NEW reranked \in BOOLEAN, counters.model_calls > 0
  PROVE  /\ Refunded(reranked) \in Counters
         /\ Refunded(reranked).model_calls
              = counters.model_calls - (IF reranked THEN 0 ELSE 1)
         /\ Refunded(reranked).retrieval_requests = counters.retrieval_requests
         /\ Refunded(reranked).research_iterations = counters.research_iterations
  BY Limits DEF TypeOK, Refunded, Counters

-----------------------------------------------------------------------------
(* Steps that do not finish a run, and steps that fail it. *)

\* Before the end nothing is promised.
LEMMA PromisesBeforeEnd ==
  ASSUME step' # "end"
  PROVE  Promises'
  BY DEF Promises, ContractKept, LateResultsDiscarded, FailureFailsClosed,
      EvidenceFresh

\* No counter moves back.
LEMMA NeverBelowStart ==
  ASSUME TypeOK', Spending'
  PROVE  \A o \in Operations : start[o]' <= counters[o]'
  <1>1. start.model_calls' <= counters.model_calls'
    BY CounterTypes DEF TypeOK, Spending, Charged, Unused
  <1> QED BY <1>1 DEF Spending, OthersSpent, Operations

\* A run that ends incomplete or failed promises only its counters.
LEMMA PromisesAtFailure ==
  ASSUME status' \in {"incomplete", "failed"}, TypeOK', Spending'
  PROVE  Promises'
  <1>1. ContractKept'
    BY NeverBelowStart DEF ContractKept
  <1> QED BY <1>1
    DEF Promises, LateResultsDiscarded, FailureFailsClosed, EvidenceFresh

\* A step that ends the run incomplete or failed and leaves the rest alone.
LEMMA FailureKeeps ==
  ASSUME IInv,
         step # "end",
         NEW s \in {"incomplete", "failed"}, Terminal(s),
         Returned \/ UNCHANGED lateReturn,
         UNCHANGED <<charges, search, result, world, given, seen>>
  PROVE  IInv'
  <1>1. TypeOK'
    BY DEF IInv, TypeOK, Terminal, Returned, Steps, Statuses
  <1>2. Spending'
    BY CounterTypes
      DEF IInv, TypeOK, Spending, Charged, Unused, ModelCallsSpent, Spent,
        OutsideRounds, OthersSpent, Terminal
  <1>3. Placed'
    <2>1. Lateness'
      BY DEF IInv, TypeOK, Placed, Lateness, Terminal, Returned
    <2> QED BY <2>1
      DEF IInv, Placed, Grounded, Pending, FailedRound, Retrieved, Terminal
  <1>4. Readers'
    BY DEF IInv, Readers, Seen, EvidenceOfRound, Terminal
  <1>5. Promises'
    BY <1>1, <1>2, PromisesAtFailure DEF Terminal
  <1> QED BY <1>1, <1>2, <1>3, <1>4, <1>5 DEF IInv

-----------------------------------------------------------------------------
(* One lemma per action. *)

\* A run that raises returns nothing.
LEMMA DependencyMissingKeeps ==
  ASSUME IInv, DependencyMissing
  PROVE  IInv'
  <1>1. TypeOK'
    BY CounterTypes DEF IInv, TypeOK, Steps, DependencyMissing, Steps
  <1>2. Spending'
    BY CounterTypes
      DEF IInv, TypeOK, DependencyMissing, Steps, Spending, Charged, Unused,
        ModelCallsSpent, Spent, OutsideRounds, OthersSpent, Reranked, Retrieved
  <1>3. Placed'
    BY DEF IInv, DependencyMissing, Steps, Placed, Grounded, Pending, Lateness,
        FailedRound, Retrieved
  <1>4. Readers'
    BY DEF IInv, DependencyMissing, Steps, Readers, Seen, EvidenceOfRound, Fresh
  <1>5. Promises'
    BY PromisesBeforeEnd DEF DependencyMissing, Steps
  <1> QED BY <1>1, <1>2, <1>3, <1>4, <1>5 DEF IInv

\* Another Principal's run is refused before anything is charged.
LEMMA RefuseStrangerKeeps ==
  ASSUME IInv, RefuseStranger
  PROVE  IInv'
  <1>1. TypeOK'
    BY DEF IInv, TypeOK, RefuseStranger, Terminal, Steps, Statuses
  <1>2. Spending'
    BY CounterTypes
      DEF IInv, TypeOK, RefuseStranger, Terminal, Spending, Charged, Unused,
        ModelCallsSpent, Spent, OutsideRounds, OthersSpent
  <1>3. Placed'
    BY DEF IInv, RefuseStranger, Terminal, Placed, Grounded, Pending, Lateness,
        FailedRound, Retrieved
  <1>4. Readers'
    BY DEF IInv, RefuseStranger, Terminal, Readers, Seen, EvidenceOfRound
  <1>5. Promises'
    <2>1. ContractKept'
      BY <1>1, <1>2, NeverBelowStart DEF ContractKept, RefuseStranger, Terminal
    <2> QED BY <2>1
      DEF IInv, RefuseStranger, Terminal, Placed, Lateness, FailedRound,
        Promises, LateResultsDiscarded, FailureFailsClosed, EvidenceFresh
  <1> QED BY <1>1, <1>2, <1>3, <1>4, <1>5 DEF IInv

\* A second invalid plan fails the run.
LEMMA ReplanFailsKeeps ==
  ASSUME IInv, ReplanFails
  PROVE  IInv'
  BY FailureKeeps DEF ReplanFails

\* So does an exception of the retrieval node.
LEMMA RetrievalRaisesKeeps ==
  ASSUME IInv, RetrievalRaises
  PROVE  IInv'
  BY FailureKeeps DEF RetrievalRaises

\* So does a failed assessment.
LEMMA AssessmentFailsKeeps ==
  ASSUME IInv, AssessmentFails
  PROVE  IInv'
  BY FailureKeeps DEF AssessmentFails

\* So does a failed refinement.
LEMMA RefinementFailsKeeps ==
  ASSUME IInv, RefinementFails
  PROVE  IInv'
  BY FailureKeeps DEF RefinementFails

\* The plan is charged before it is asked for.
LEMMA StartPlanKeeps ==
  ASSUME IInv, StartPlan
  PROVE  IInv'
  <1>1. \/ /\ ~late
           /\ step' = "planning"
           /\ status' = status
           /\ calls' = calls + 1
           /\ counters' \in Counters
           /\ counters'.model_calls = counters.model_calls + 1
           /\ counters'.retrieval_requests = counters.retrieval_requests + 0
           /\ counters'.research_iterations = counters.research_iterations + 0
        \/ Terminal("incomplete") /\ UNCHANGED charges
    <2>1. Reserve({"model_calls"}, "planning", 1)
      BY DEF StartPlan
    <2> QED BY <2>1, ReserveEffect DEF IInv, Operations, Steps
  <1>2. CASE step' = "planning"
    <2>1. TypeOK'
      <3>1. calls' \in 0..CallsCap
        BY <1>1, <1>2, CallsTyped, CounterTypes
          DEF IInv, TypeOK, Spending, Charged, Unused, StartPlan, Terminal
      <3> QED BY <1>1, <1>2, <3>1
        DEF IInv, TypeOK, StartPlan, Terminal, Returned, Steps
    <2>2. Spending'
      BY <1>1, <1>2, CounterTypes
        DEF IInv, TypeOK, StartPlan, Terminal, Returned, Spending, Charged,
          Unused, ModelCallsSpent, Spent, OutsideRounds, OthersSpent, Reranked,
          Retrieved
    <2>3. Placed'
      BY <1>1, <1>2
        DEF IInv, StartPlan, Terminal, Returned, Placed, Grounded, Pending,
          Lateness, FailedRound, Retrieved
    <2>4. Readers'
      BY <1>1, <1>2
        DEF IInv, StartPlan, Terminal, Returned, Readers, Seen,
          EvidenceOfRound, Fresh
    <2>5. Promises'
      BY <1>1, <1>2, PromisesBeforeEnd DEF StartPlan, Terminal, Returned
    <2> QED BY <2>1, <2>2, <2>3, <2>4, <2>5 DEF IInv
  <1>3. CASE Terminal("incomplete") /\ UNCHANGED charges
    BY <1>3, FailureKeeps DEF StartPlan
  <1> QED BY <1>1, <1>2, <1>3

\* So is its repair.
LEMMA PlanFailsKeeps ==
  ASSUME IInv, PlanFails
  PROVE  IInv'
  <1>1. \/ /\ ~late
           /\ step' = "replanning"
           /\ status' = status
           /\ calls' = calls + 1
           /\ counters' \in Counters
           /\ counters'.model_calls = counters.model_calls + 1
           /\ counters'.retrieval_requests = counters.retrieval_requests + 0
           /\ counters'.research_iterations = counters.research_iterations + 0
        \/ Terminal("incomplete") /\ UNCHANGED charges
    <2>1. Reserve({"model_calls"}, "replanning", 1)
      BY DEF PlanFails
    <2> QED BY <2>1, ReserveEffect DEF IInv, Operations, Steps
  <1>2. CASE step' = "replanning"
    <2>1. TypeOK'
      <3>1. calls' \in 0..CallsCap
        BY <1>1, <1>2, CallsTyped, CounterTypes
          DEF IInv, TypeOK, Spending, Charged, Unused, PlanFails, Terminal
      <3> QED BY <1>1, <1>2, <3>1
        DEF IInv, TypeOK, PlanFails, Terminal, Returned, Steps
    <2>2. Spending'
      BY <1>1, <1>2, CounterTypes
        DEF IInv, TypeOK, PlanFails, Terminal, Returned, Spending, Charged,
          Unused, ModelCallsSpent, Spent, OutsideRounds, OthersSpent, Reranked,
          Retrieved
    <2>3. Placed'
      BY <1>1, <1>2
        DEF IInv, PlanFails, Terminal, Returned, Placed, Grounded, Pending,
          Lateness, FailedRound, Retrieved
    <2>4. Readers'
      BY <1>1, <1>2
        DEF IInv, PlanFails, Terminal, Returned, Readers, Seen,
          EvidenceOfRound, Fresh
    <2>5. Promises'
      BY <1>1, <1>2, PromisesBeforeEnd DEF PlanFails, Terminal, Returned
    <2> QED BY <2>1, <2>2, <2>3, <2>4, <2>5 DEF IInv
  <1>3. CASE Terminal("incomplete") /\ UNCHANGED charges
    BY <1>3, FailureKeeps DEF PlanFails
  <1> QED BY <1>1, <1>2, <1>3

\* So is an assessment.
LEMMA StartAssessmentKeeps ==
  ASSUME IInv, StartAssessment
  PROVE  IInv'
  <1>1. \/ /\ ~late
           /\ step' = "assessing"
           /\ status' = status
           /\ calls' = calls + 1
           /\ counters' \in Counters
           /\ counters'.model_calls = counters.model_calls + 1
           /\ counters'.retrieval_requests = counters.retrieval_requests + 0
           /\ counters'.research_iterations = counters.research_iterations + 0
        \/ Terminal("incomplete") /\ UNCHANGED charges
    <2>1. Reserve({"model_calls"}, "assessing", 1)
      BY DEF StartAssessment
    <2> QED BY <2>1, ReserveEffect DEF IInv, Operations, Steps
  <1>2. CASE step' = "assessing"
    <2>1. TypeOK'
      <3>1. calls' \in 0..CallsCap
        BY <1>1, <1>2, CallsTyped, CounterTypes
          DEF IInv, TypeOK, Spending, Charged, Unused, StartAssessment,
            Terminal
      <3> QED BY <1>1, <1>2, <3>1
        DEF IInv, TypeOK, StartAssessment, Terminal, Returned, Steps
    <2>2. Spending'
      BY <1>1, <1>2, CounterTypes
        DEF IInv, TypeOK, StartAssessment, Terminal, Returned, Spending,
          Charged, Unused, ModelCallsSpent, Spent, OutsideRounds, OthersSpent,
          Reranked, Retrieved
    <2>3. Placed'
      BY <1>1, <1>2
        DEF IInv, StartAssessment, Terminal, Returned, Placed, Grounded,
          Pending, Lateness, FailedRound, Retrieved
    <2>4. Readers'
      BY <1>1, <1>2
        DEF IInv, StartAssessment, Terminal, Returned, Readers, Seen,
          EvidenceOfRound, Fresh
    <2>5. Promises'
      BY <1>1, <1>2, PromisesBeforeEnd DEF StartAssessment, Terminal, Returned
    <2> QED BY <2>1, <2>2, <2>3, <2>4, <2>5 DEF IInv
  <1>3. CASE Terminal("incomplete") /\ UNCHANGED charges
    BY <1>3, FailureKeeps DEF StartAssessment
  <1> QED BY <1>1, <1>2, <1>3

\* So is the refinement.
LEMMA StartRefinementKeeps ==
  ASSUME IInv, StartRefinement
  PROVE  IInv'
  <1>1. \/ /\ ~late
           /\ step' = "refining"
           /\ status' = status
           /\ calls' = calls + 1
           /\ counters' \in Counters
           /\ counters'.model_calls = counters.model_calls + 1
           /\ counters'.retrieval_requests = counters.retrieval_requests + 0
           /\ counters'.research_iterations = counters.research_iterations + 1
        \/ Terminal("incomplete") /\ UNCHANGED charges
    <2>1. Reserve({"research_iterations", "model_calls"}, "refining", 1)
      BY DEF StartRefinement
    <2> QED BY <2>1, ReserveEffect DEF IInv, Operations, Steps
  <1>2. CASE step' = "refining"
    <2>1. TypeOK'
      <3>1. calls' \in 0..CallsCap
        BY <1>1, <1>2, CallsTyped, CounterTypes
          DEF IInv, TypeOK, Spending, Charged, Unused, StartRefinement,
            Terminal
      <3> QED BY <1>1, <1>2, <3>1
        DEF IInv, TypeOK, StartRefinement, Terminal, Returned, Steps
    <2>2. Spending'
      BY <1>1, <1>2, CounterTypes
        DEF IInv, TypeOK, StartRefinement, Terminal, Returned, Spending,
          Charged, Unused, ModelCallsSpent, Spent, OutsideRounds, OthersSpent,
          Reranked, Retrieved
    <2>3. Placed'
      BY <1>1, <1>2
        DEF IInv, StartRefinement, Terminal, Returned, Placed, Grounded,
          Pending, Lateness, FailedRound, Retrieved
    <2>4. Readers'
      BY <1>1, <1>2
        DEF IInv, StartRefinement, Terminal, Returned, Readers, Seen,
          EvidenceOfRound, Fresh
    <2>5. Promises'
      BY <1>1, <1>2, PromisesBeforeEnd DEF StartRefinement, Terminal, Returned
    <2> QED BY <2>1, <2>2, <2>3, <2>4, <2>5 DEF IInv
  <1>3. CASE Terminal("incomplete") /\ UNCHANGED charges
    BY <1>3, FailureKeeps DEF StartRefinement
  <1> QED BY <1>1, <1>2, <1>3

\* A plan that is late is not followed.
LEMMA PlanRetrievesKeeps ==
  ASSUME IInv, PlanRetrieves
  PROVE  IInv'
  <1>1. CASE late
    BY <1>1, FailureKeeps DEF PlanRetrieves, IfInTime
  <1>2. CASE ~late
    <2>1. TypeOK'
      BY <1>2, CounterTypes
        DEF IInv, TypeOK, Steps, PlanRetrieves, IfInTime, Continue, Returned,
          Placed, Pending
    <2>2. Spending'
      BY <1>2, CounterTypes
        DEF IInv, TypeOK, PlanRetrieves, IfInTime, Continue, Returned, Placed,
          Pending, Spending, Charged, Unused, ModelCallsSpent, Spent,
          OutsideRounds, OthersSpent, Reranked, Retrieved
    <2>3. Placed'
      BY <1>2
        DEF IInv, PlanRetrieves, IfInTime, Continue, Returned, Placed, Pending,
          Placed, Grounded, Pending, Lateness, FailedRound, Retrieved
    <2>4. Readers'
      BY <1>2
        DEF IInv, PlanRetrieves, IfInTime, Continue, Returned, Placed, Pending,
          Readers, Seen, EvidenceOfRound, Fresh
    <2>5. Promises'
      BY <1>2, PromisesBeforeEnd
        DEF PlanRetrieves, IfInTime, Continue, Returned, Placed, Pending
    <2> QED BY <2>1, <2>2, <2>3, <2>4, <2>5 DEF IInv
  <1> QED BY <1>1, <1>2

\* Nor is it a conclusion; one in time cost its plan.
LEMMA PlanConcludesKeeps ==
  ASSUME IInv, PlanConcludes
  PROVE  IInv'
  <1>1. CASE late
    BY <1>1, FailureKeeps DEF PlanConcludes, IfInTime
  <1>2. CASE ~late
    <2>1. TypeOK'
      BY <1>2
        DEF IInv, TypeOK, PlanConcludes, IfInTime, Terminal, Returned, Steps,
          Statuses
    <2>2. Spending'
      BY <1>2, CounterTypes
        DEF IInv, TypeOK, PlanConcludes, IfInTime, Terminal, Spending, Charged,
          Unused, ModelCallsSpent, Spent, OutsideRounds, OthersSpent
    <2>3. Placed'
      BY <1>2
        DEF IInv, PlanConcludes, IfInTime, Terminal, Returned, Placed,
          Grounded, Pending, Lateness, FailedRound, Retrieved
    <2>4. Readers'
      BY <1>2
        DEF IInv, PlanConcludes, IfInTime, Terminal, Readers, Seen,
          EvidenceOfRound
    <2>5. Promises'
      <3>1. start.model_calls < counters.model_calls
        BY CounterTypes
          DEF IInv, TypeOK, PlanConcludes, Spending, ModelCallsSpent, Spent,
            OutsideRounds
      <3>2. ContractKept'
        BY <1>2, <2>1, <2>2, <3>1, NeverBelowStart
          DEF ContractKept, PlanConcludes, IfInTime, Terminal
      <3> QED BY <1>2, <3>2
        DEF IInv, PlanConcludes, IfInTime, Terminal, Returned, Placed,
          Lateness, FailedRound, Promises, LateResultsDiscarded,
          FailureFailsClosed, EvidenceFresh
    <2> QED BY <2>1, <2>2, <2>3, <2>4, <2>5 DEF IInv
  <1> QED BY <1>1, <1>2

\* A round is charged its request and its rerank before it starts.
LEMMA StartRetrievalKeeps ==
  ASSUME IInv, StartRetrieval
  PROVE  IInv'
  <1>1. \/ /\ ~late
           /\ step' = "embedding"
           /\ status' = status
           /\ calls' = calls + 0
           /\ counters' \in Counters
           /\ counters'.model_calls = counters.model_calls + 1
           /\ counters'.retrieval_requests = counters.retrieval_requests + 1
           /\ counters'.research_iterations = counters.research_iterations + 0
        \/ Terminal("incomplete") /\ UNCHANGED charges
    <2>1. Reserve({"retrieval_requests", "model_calls"}, "embedding", 0)
      BY DEF StartRetrieval
    <2> QED BY <2>1, ReserveEffect DEF IInv, Operations, Steps
  <1>2. TypeOK'
    <2>1. calls' = calls /\ counters' \in Counters
      BY <1>1, CounterTypes DEF IInv, TypeOK
    <2>2. step' \in Steps /\ status' \in Statuses
      BY <1>1 DEF IInv, TypeOK, Terminal, Steps, Statuses
    <2>3. seenRevisions' \in [Sources -> SUBSET Revisions]
      BY DEF IInv, TypeOK, StartRetrieval
    <2> QED BY <2>1, <2>2, <2>3 DEF IInv, TypeOK, StartRetrieval
  <1>3. Spending'
    BY <1>1, CounterTypes
      DEF IInv, TypeOK, StartRetrieval, Terminal, Spending, Charged, Unused,
        ModelCallsSpent, Spent, OutsideRounds, OthersSpent, Reranked, Retrieved
  <1>4. Placed'
    BY <1>1
      DEF IInv, TypeOK, StartRetrieval, Terminal, Placed, Grounded, Pending,
        Lateness, FailedRound, Retrieved
  <1>5. Readers'
    BY <1>1
      DEF IInv, TypeOK, StartRetrieval, Terminal, Readers, Seen,
        EvidenceOfRound
  <1>6. Promises'
    BY <1>1, <1>2, <1>3, PromisesBeforeEnd, PromisesAtFailure DEF Terminal
  <1> QED BY <1>2, <1>3, <1>4, <1>5, <1>6 DEF IInv

\* The searches start in the state the reservation left.
LEMMA EmbeddingReturnsKeeps ==
  ASSUME IInv, EmbeddingReturns
  PROVE  IInv'
  <1>1. TypeOK'
    BY CounterTypes
      DEF IInv, TypeOK, Steps, EmbeddingReturns, Continue, Returned
  <1>2. Spending'
    BY CounterTypes
      DEF IInv, TypeOK, EmbeddingReturns, Continue, Returned, Spending,
        Charged, Unused, ModelCallsSpent, Spent, OutsideRounds, OthersSpent,
        Reranked, Retrieved
  <1>3. Placed'
    BY DEF IInv, EmbeddingReturns, Continue, Returned, Placed, Grounded,
        Pending, Lateness, FailedRound, Retrieved
  <1>4. Readers'
    BY DEF IInv, EmbeddingReturns, Continue, Returned, Readers, Seen,
        EvidenceOfRound, Fresh
  <1>5. Promises'
    BY PromisesBeforeEnd DEF EmbeddingReturns, Continue, Returned
  <1> QED BY <1>1, <1>2, <1>3, <1>4, <1>5 DEF IInv

\* A search adds candidates of the published revision.
LEMMA SearchReturnsKeeps ==
  ASSUME IInv, NEW s \in Sources, SearchReturns(s)
  PROVE  IInv'
  <1>1. TypeOK'
    <2>1. found' \subseteq Items
      BY DEF IInv, TypeOK, SearchReturns, Readable, Items
    <2> QED BY <2>1 DEF IInv, TypeOK, SearchReturns
  <1>2. Spending'
    BY CounterTypes
      DEF IInv, TypeOK, SearchReturns, Readable, Spending, Charged, Unused,
        ModelCallsSpent, Spent, OutsideRounds, OthersSpent, Reranked, Retrieved
  <1>3. Placed'
    BY DEF IInv, SearchReturns, Readable, Placed, Grounded, Pending, Lateness,
        FailedRound, Retrieved
  <1>4. Readers'
    BY DEF IInv, SearchReturns, Readable, Readers, Seen, EvidenceOfRound, Fresh
  <1>5. Promises'
    BY PromisesBeforeEnd DEF SearchReturns, Readable
  <1> QED BY <1>1, <1>2, <1>3, <1>4, <1>5 DEF IInv

\* A failed search adds none.
LEMMA SearchFailsKeeps ==
  ASSUME IInv, NEW s \in Sources, SearchFails(s)
  PROVE  IInv'
  <1>1. TypeOK'
    BY CounterTypes DEF IInv, TypeOK, Steps, SearchFails, Readable
  <1>2. Spending'
    BY CounterTypes
      DEF IInv, TypeOK, SearchFails, Readable, Spending, Charged, Unused,
        ModelCallsSpent, Spent, OutsideRounds, OthersSpent, Reranked, Retrieved
  <1>3. Placed'
    BY DEF IInv, SearchFails, Readable, Placed, Grounded, Pending, Lateness,
        FailedRound, Retrieved
  <1>4. Readers'
    BY DEF IInv, SearchFails, Readable, Readers, Seen, EvidenceOfRound, Fresh
  <1>5. Promises'
    BY PromisesBeforeEnd DEF SearchFails, Readable
  <1> QED BY <1>1, <1>2, <1>3, <1>4, <1>5 DEF IInv

\* A refinement in time starts the second round.
LEMMA RefinementReturnsKeeps ==
  ASSUME IInv, RefinementReturns
  PROVE  IInv'
  <1>1. CASE late
    BY <1>1, FailureKeeps DEF RefinementReturns, IfInTime
  <1>2. CASE ~late
    <2>1. TypeOK'
      BY <1>2, CounterTypes
        DEF IInv, TypeOK, Steps, RefinementReturns, IfInTime, Continue,
          Returned
    <2>2. Spending'
      BY <1>2, CounterTypes
        DEF IInv, TypeOK, RefinementReturns, IfInTime, Continue, Returned,
          Spending, Charged, Unused, ModelCallsSpent, Spent, OutsideRounds,
          OthersSpent, Reranked, Retrieved
    <2>3. Placed'
      BY <1>2
        DEF IInv, RefinementReturns, IfInTime, Continue, Returned, Placed,
          Grounded, Pending, Lateness, FailedRound, Retrieved
    <2>4. Readers'
      BY <1>2
        DEF IInv, RefinementReturns, IfInTime, Continue, Returned, Readers,
          Seen, EvidenceOfRound, Fresh
    <2>5. Promises'
      BY <1>2, PromisesBeforeEnd
        DEF RefinementReturns, IfInTime, Continue, Returned
    <2> QED BY <2>1, <2>2, <2>3, <2>4, <2>5 DEF IInv
  <1> QED BY <1>1, <1>2

\* The deadline moves nothing but itself.
LEMMA DeadlinePassesKeeps ==
  ASSUME IInv, DeadlinePasses
  PROVE  IInv'
  <1>1. TypeOK'
    BY ResearchAssumption DEF IInv, TypeOK, DeadlinePasses
  <1>2. Spending'
    BY DEF IInv, DeadlinePasses, Spending, Charged, Unused, ModelCallsSpent,
        OthersSpent, Reranked, Retrieved
  <1>3. Placed'
    BY DEF IInv, DeadlinePasses, Placed, Grounded, Pending, Lateness,
        FailedRound, Retrieved
  <1>4. Readers'
    BY DEF IInv, TypeOK, DeadlinePasses, Readers, Seen, EvidenceOfRound, Fresh
  <1>5. Promises'
    BY DEF IInv, TypeOK, DeadlinePasses, Promises, ContractKept,
        LateResultsDiscarded, FailureFailsClosed, EvidenceFresh
  <1> QED BY <1>1, <1>2, <1>3, <1>4, <1>5 DEF IInv

\* A document that becomes readable has been readable.
LEMMA GrantKeeps ==
  ASSUME IInv, NEW d \in Documents, Grant(d)
  PROVE  IInv'
  <1>1. TypeOK'
    <2>1. changes' \in 0..MaxChanges
      BY ResearchAssumption DEF IInv, TypeOK, Grant
    <2>2. /\ scope' \subseteq Documents
          /\ corpus' \in [Sources -> Revisions]
          /\ seenDocuments' \subseteq Documents
          /\ seenRevisions' \in [Sources -> SUBSET Revisions]
      BY DEF IInv, TypeOK, Grant
    <2> QED BY <2>1, <2>2 DEF IInv, TypeOK, Grant
  <1>2. Spending'
    BY DEF IInv, Grant, Spending, Charged, Unused, ModelCallsSpent, OthersSpent,
        Reranked, Retrieved
  <1>3. Placed'
    BY DEF IInv, Grant, Placed, Grounded, Pending, Lateness, FailedRound,
        Retrieved
  <1>4. Readers'
    BY DEF IInv, TypeOK, Grant, Readers, Seen, EvidenceOfRound, Fresh
  <1>5. Promises'
    BY DEF IInv, TypeOK, Grant, Promises, ContractKept, LateResultsDiscarded,
        FailureFailsClosed, EvidenceFresh
  <1> QED BY <1>1, <1>2, <1>3, <1>4, <1>5 DEF IInv

\* A document that is lost has been readable.
LEMMA RevokeKeeps ==
  ASSUME IInv, NEW d \in Documents, Revoke(d)
  PROVE  IInv'
  <1>1. TypeOK'
    <2>1. changes' \in 0..MaxChanges
      BY ResearchAssumption DEF IInv, TypeOK, Revoke
    <2>2. /\ scope' \subseteq Documents
          /\ corpus' \in [Sources -> Revisions]
          /\ seenDocuments' \subseteq Documents
          /\ seenRevisions' \in [Sources -> SUBSET Revisions]
      BY DEF IInv, TypeOK, Revoke
    <2> QED BY <2>1, <2>2 DEF IInv, TypeOK, Revoke
  <1>2. Spending'
    BY DEF IInv, Revoke, Spending, Charged, Unused, ModelCallsSpent,
        OthersSpent, Reranked, Retrieved
  <1>3. Placed'
    BY DEF IInv, Revoke, Placed, Grounded, Pending, Lateness, FailedRound,
        Retrieved
  <1>4. Readers'
    BY DEF IInv, TypeOK, Revoke, Readers, Seen, EvidenceOfRound, Fresh
  <1>5. Promises'
    BY DEF IInv, TypeOK, Revoke, Promises, ContractKept, LateResultsDiscarded,
        FailureFailsClosed, EvidenceFresh
  <1> QED BY <1>1, <1>2, <1>3, <1>4, <1>5 DEF IInv

\* A published revision has been published.
LEMMA PublishKeeps ==
  ASSUME IInv, NEW s \in Sources, NEW r \in Revisions, Publish(s, r)
  PROVE  IInv'
  <1>1. TypeOK'
    <2>1. changes' \in 0..MaxChanges
      BY ResearchAssumption DEF IInv, TypeOK, Publish
    <2>2. /\ scope' \subseteq Documents
          /\ corpus' \in [Sources -> Revisions]
          /\ seenDocuments' \subseteq Documents
          /\ seenRevisions' \in [Sources -> SUBSET Revisions]
      BY DEF IInv, TypeOK, Publish
    <2> QED BY <2>1, <2>2 DEF IInv, TypeOK, Publish
  <1>2. Spending'
    BY DEF IInv, Publish, Spending, Charged, Unused, ModelCallsSpent,
        OthersSpent, Reranked, Retrieved
  <1>3. Placed'
    BY DEF IInv, Publish, Placed, Grounded, Pending, Lateness, FailedRound,
        Retrieved
  <1>4. Readers'
    BY DEF IInv, TypeOK, Publish, Readers, Seen, EvidenceOfRound, Fresh
  <1>5. Promises'
    BY DEF IInv, TypeOK, Publish, Promises, ContractKept, LateResultsDiscarded,
        FailureFailsClosed, EvidenceFresh
  <1> QED BY <1>1, <1>2, <1>3, <1>4, <1>5 DEF IInv

\* A Retrieval Request that returns: an unused rerank is given back, and only a
\* rerank finds anything.
LEMMA RoundKeeps ==
  ASSUME IInv,
         NEW reranked \in BOOLEAN, NEW new \in Rounds,
         reranked => step = "reranking",
         ~reranked => step \in {"embedding", "searching"} /\ new.items = {},
         RoundReturns(new, reranked),
         Returned \/ UNCHANGED lateReturn,
         UNCHANGED <<calls, search, evidence, sufficient, world, given, seen>>
  PROVE  IInv'
  <1>1. /\ counters' \in Counters
        /\ counters'.model_calls
             = counters.model_calls - (IF reranked THEN 0 ELSE 1)
        /\ counters'.retrieval_requests = counters.retrieval_requests
        /\ counters'.research_iterations = counters.research_iterations
    <2>1. counters.model_calls > 0
      BY CounterTypes
        DEF IInv, TypeOK, Spending, ModelCallsSpent, Spent, OutsideRounds,
          Reranked
    <2> QED BY <2>1, RefundEffect DEF IInv, RoundReturns
  <1>2. Retrieved' = Retrieved \cup new.items
    BY DEF RoundReturns, Retrieved
  <1>3. TypeOK'
    <2>1. earlier' \subseteq Items
      BY DEF IInv, TypeOK, RoundReturns, Retrieved, Rounds
    <2> QED BY <1>1, <2>1
      DEF IInv, TypeOK, RoundReturns, Continue, Returned, Steps
  <1>4. Spending'
    BY <1>1, <1>2, CounterTypes
      DEF IInv, TypeOK, RoundReturns, Continue, Spending, Charged, Unused,
        ModelCallsSpent, Spent, OutsideRounds, OthersSpent, Reranked
  <1>5. Placed'
    <2>1. Lateness'
      BY DEF IInv, TypeOK, RoundReturns, Continue, Returned, Placed, Lateness
    <2> QED BY <1>2, <2>1
      DEF IInv, RoundReturns, Continue, Placed, Grounded, Pending, FailedRound
  <1>6. Readers'
    BY DEF IInv, RoundReturns, Continue, Readers, Seen, EvidenceOfRound
  <1>7. Promises'
    BY PromisesBeforeEnd DEF RoundReturns, Continue
  <1> QED BY <1>3, <1>4, <1>5, <1>6, <1>7 DEF IInv

\* The query could not be embedded.
LEMMA EmbeddingFailsKeeps ==
  ASSUME IInv, EmbeddingFails
  PROVE  IInv'
  <1>1. [failed |-> TRUE, items |-> {}] \in Rounds
    BY DEF Rounds
  <1> QED BY <1>1, RoundKeeps DEF EmbeddingFails

\* The searches of a round are over.
LEMMA SearchesDoneKeeps ==
  ASSUME IInv, SearchesDone
  PROVE  IInv'
  <1>1. CASE broken \/ found = {}
    <2>1. [failed |-> broken, items |-> {}] \in Rounds
      BY DEF IInv, TypeOK, Rounds
    <2> QED BY <1>1, <2>1, RoundKeeps DEF SearchesDone
  <1>2. CASE ~(broken \/ found = {})
    <2>1. calls < CallsCap
      BY Limits, CounterTypes DEF IInv, TypeOK, Spending, Charged, Unused
    <2>2. /\ step' = "reranking"
          /\ calls' = calls + 1
          /\ UNCHANGED <<status, earlier, round, counters>>
      BY <1>2, <2>1 DEF SearchesDone, Continue, Made
    <2>3. Spending'
      BY <2>2, CounterTypes
        DEF IInv, TypeOK, SearchesDone, Spending, Charged, Unused,
          ModelCallsSpent, Spent, OutsideRounds, OthersSpent, Reranked,
          Retrieved
    <2>4. TypeOK'
      <3>1. calls' \in 0..CallsCap
        BY <2>2, <2>1, Limits DEF IInv, TypeOK
      <3> QED BY <2>2, <3>1 DEF IInv, TypeOK, SearchesDone, Steps
    <2>5. Placed'
      BY <2>2
        DEF IInv, SearchesDone, Placed, Grounded, Pending, Lateness,
          FailedRound, Retrieved
    <2>6. Readers'
      BY <2>2 DEF IInv, SearchesDone, Readers, Seen, EvidenceOfRound
    <2>7. Promises'
      BY <2>2, PromisesBeforeEnd
    <2> QED BY <2>3, <2>4, <2>5, <2>6, <2>7 DEF IInv
  <1> QED BY <1>1, <1>2

\* The reranker answered.
LEMMA RerankReturnsKeeps ==
  ASSUME IInv, RerankReturns
  PROVE  IInv'
  <1>1. PICK relevant \in SUBSET found :
          RoundReturns([failed |-> FALSE, items |-> relevant], TRUE)
    BY DEF RerankReturns
  <1>2. [failed |-> FALSE, items |-> relevant] \in Rounds
    BY DEF IInv, TypeOK, Rounds
  <1> QED BY <1>1, <1>2, RoundKeeps DEF RerankReturns

\* The reranker failed.
LEMMA RerankFailsKeeps ==
  ASSUME IInv, RerankFails
  PROVE  IInv'
  <1>1. [failed |-> TRUE, items |-> {}] \in Rounds
    BY DEF Rounds
  <1> QED BY <1>1, RoundKeeps DEF RerankFails

\* The Evidence of a round was readable and published when it was expanded.
LEMMA ExpansionReturnsKeeps ==
  ASSUME IInv, ExpansionReturns
  PROVE  IInv'
  <1>1. CASE late
    BY <1>1, FailureKeeps DEF ExpansionReturns, IfInTime
  <1>2. CASE ~late
    <2>1. PICK items \in Selections, expanded \in BOOLEAN :
            /\ expanded => round.failed \/ ContextWindow = 0 \/ StillPublished(items)
            /\ evidence' = IF expanded THEN items ELSE {}
            /\ IF RetrievalFailed(expanded)
               THEN Terminal("failed") ELSE Continue("assess")
      BY <1>2 DEF ExpansionReturns, IfInTime
    <2>2. /\ evidence' \subseteq Retrieved
          /\ UNCHANGED <<charges, search, earlier, round, sufficient, world,
                         given, seen>>
          /\ lateReturn' = (lateReturn \/ late)
          /\ step = "expanding"
      BY <2>1 DEF ExpansionReturns, Selections, Returned
    <2>3. TypeOK'
      <3>1. evidence' \subseteq Items
        BY <2>2 DEF IInv, TypeOK, Retrieved, Rounds
      <3> QED BY <2>1, <2>2, <3>1
        DEF IInv, TypeOK, Terminal, Continue, Steps, Statuses
    <2>4. Spending'
      BY <2>1, <2>2, CounterTypes
        DEF IInv, TypeOK, Terminal, Continue, Spending, Charged, Unused,
          ModelCallsSpent, Spent, OutsideRounds, OthersSpent, Reranked,
          Retrieved
    <2>5. ~lateReturn /\ ~lateReturn'
      BY <1>2, <2>2 DEF IInv, Placed, Lateness
    <2>6. Placed'
      <3>1. ~sufficient /\ ~sufficient'
        BY <2>2 DEF IInv, TypeOK, Placed, Grounded
      <3> QED BY <2>1, <2>2, <2>5, <3>1
        DEF IInv, TypeOK, Terminal, Continue, RetrievalFailed, Placed,
          Grounded, Pending, Lateness, FailedRound, Retrieved
    <2>7. Readers'
      <3>1. Seen'
        BY <2>2 DEF IInv, Readers, Seen
      <3>2. EvidenceOfRound'
        <4>1. CASE RetrievalFailed(expanded)
          BY <2>1, <4>1 DEF Terminal, EvidenceOfRound
        <4>2. CASE ~RetrievalFailed(expanded) /\ ContextWindow # 0
          <5>1. evidence' = items /\ StillPublished(items)
            BY <2>1, <4>2 DEF RetrievalFailed
          <5>2. items \subseteq Items
            BY DEF IInv, TypeOK, Selections, Retrieved, Rounds
          <5> QED BY <2>2, <5>1, <5>2
            DEF IInv, Readers, Seen, StillPublished, Items, Documents,
              EvidenceOfRound, Fresh
        <4>3. CASE ContextWindow = 0
          BY <4>3 DEF EvidenceOfRound
        <4> QED BY <4>1, <4>2, <4>3
      <3> QED BY <3>1, <3>2 DEF Readers
    <2>8. Promises'
      BY <2>1, <2>3, <2>4, PromisesBeforeEnd, PromisesAtFailure
        DEF Terminal, Continue
    <2> QED BY <2>3, <2>4, <2>6, <2>7, <2>8 DEF IInv
  <1> QED BY <1>1, <1>2

\* A run that succeeds: its Evidence is of this round, and paid for.
LEMMA SuccessKeeps ==
  ASSUME IInv,
         step \in {"deciding", "confirming"},
         evidence # {},
         ~lateReturn,
         Terminal("evidence_ready"),
         sufficient' \in BOOLEAN,
         lateReturn' = FALSE,
         UNCHANGED <<charges, search, earlier, round, evidence, world, given, seen>>
  PROVE  IInv'
  <1>1. TypeOK'
    BY DEF IInv, TypeOK, Terminal, Steps, Statuses
  <1>2. Spending'
    BY CounterTypes
      DEF IInv, TypeOK, Spending, Charged, Unused, ModelCallsSpent, Spent,
        OutsideRounds, OthersSpent, Terminal
  <1>3. Placed'
    BY DEF IInv, Placed, Grounded, Pending, Lateness, FailedRound, Retrieved,
        Terminal
  <1>4. Readers'
    BY DEF IInv, Readers, Seen, EvidenceOfRound, Terminal
  <1>5. Promises'
    <2>1. ContractKept'
      <3>1. counters.model_calls >= start.model_calls + 3
        <4>1. Retrieved # {}
          BY DEF IInv, Placed, Grounded
        <4> QED BY <4>1, CounterTypes
          DEF IInv, TypeOK, Spending, ModelCallsSpent, Spent, OutsideRounds,
            Reranked
      <3>2. counters.retrieval_requests > start.retrieval_requests
        BY CounterTypes DEF IInv, TypeOK, Spending, OthersSpent
      <3> QED BY <1>1, <1>2, <3>1, <3>2, NeverBelowStart
        DEF ContractKept, Terminal
    <2>2. LateResultsDiscarded' /\ FailureFailsClosed'
      BY DEF IInv, Placed, FailedRound, LateResultsDiscarded,
          FailureFailsClosed, Terminal
    <2>3. ContextWindow # 0 => EvidenceFresh'
      BY DEF IInv, Readers, EvidenceOfRound, Fresh, EvidenceFresh
    <2> QED BY <2>1, <2>2, <2>3 DEF Promises
  <1> QED BY <1>1, <1>2, <1>3, <1>4, <1>5 DEF IInv

\* An assessment in time gives a verdict on the Evidence of the round.
LEMMA AssessmentReturnsKeeps ==
  ASSUME IInv, AssessmentReturns
  PROVE  IInv'
  <1>1. CASE late
    BY <1>1, FailureKeeps DEF AssessmentReturns, IfInTime
  <1>2. CASE ~late
    <2>1. PICK verdict \in Verdicts : sufficient' = verdict
      BY <1>2 DEF AssessmentReturns
    <2>2. /\ step = "assessing"
          /\ Continue("deciding")
          /\ lateReturn' = (lateReturn \/ late)
          /\ UNCHANGED <<charges, search, earlier, round, evidence, world, given, seen>>
      BY <1>2 DEF AssessmentReturns, IfInTime, Returned
    <2>3. TypeOK'
      BY <2>1, <2>2 DEF IInv, TypeOK, Continue, Steps, Verdicts
    <2>4. Spending'
      BY <2>2, CounterTypes
        DEF IInv, TypeOK, Continue, Spending, Charged, Unused, ModelCallsSpent,
          Spent, OutsideRounds, OthersSpent, Reranked, Retrieved
    <2>5. Placed'
      <3>1. Grounded'
        BY <2>1, <2>2 DEF IInv, Placed, Grounded, Verdicts, Continue, Retrieved
      <3>2. Lateness'
        BY <1>2, <2>2 DEF IInv, TypeOK, Placed, Lateness
      <3> QED BY <2>2, <3>1, <3>2
        DEF IInv, Placed, Pending, FailedRound, Continue, Retrieved
    <2>6. Readers'
      BY <2>2 DEF IInv, Readers, Seen, EvidenceOfRound, Fresh, Continue
    <2>7. Promises'
      BY <2>2, PromisesBeforeEnd DEF Continue
    <2> QED BY <2>3, <2>4, <2>5, <2>6, <2>7 DEF IInv
  <1> QED BY <1>1, <1>2

\* A verdict leads to success, to a refinement, to a confirmation or to the end.
LEMMA DecideKeeps ==
  ASSUME IInv, Decide
  PROVE  IInv'
  <1>1. /\ step = "deciding"
        /\ ~lateReturn
        /\ UNCHANGED <<search, result, world, given, lateReturn, seen>>
    BY DEF IInv, Placed, Lateness, Decide
  <1>2. CASE sufficient
    <2>1. Terminal("evidence_ready") /\ UNCHANGED charges
      BY <1>2 DEF Decide
    <2>2. evidence # {} /\ lateReturn' = FALSE /\ sufficient' \in BOOLEAN
      BY <1>1, <1>2 DEF IInv, TypeOK, Placed, Grounded
    <2> QED BY <1>1, <2>1, <2>2, SuccessKeeps
  <1>3. CASE ~sufficient /\ CanRefine
    <2>1. Continue("refine") /\ UNCHANGED charges
      BY <1>3 DEF Decide
    <2>2. TypeOK'
      BY <1>1, <2>1 DEF IInv, TypeOK, Continue, Steps
    <2>3. Spending'
      BY <1>1, <2>1, CounterTypes
        DEF IInv, TypeOK, Continue, Spending, Charged, Unused, ModelCallsSpent,
          Spent, OutsideRounds, OthersSpent, Reranked, Retrieved
    <2>4. Placed'
      BY <1>1, <1>3, <2>1
        DEF IInv, Placed, Grounded, Pending, Lateness, FailedRound, Retrieved,
          Continue
    <2>5. Readers'
      BY <1>1, <2>1 DEF IInv, Readers, Seen, EvidenceOfRound, Continue
    <2>6. Promises'
      BY <2>1, PromisesBeforeEnd DEF Continue
    <2> QED BY <2>2, <2>3, <2>4, <2>5, <2>6 DEF IInv
  <1>4. CASE Reserve({"model_calls"}, "confirming", 1) /\ ~sufficient
    <2>1. \/ /\ ~late
             /\ step' = "confirming"
             /\ status' = status
             /\ calls' = calls + 1
             /\ counters' \in Counters
             /\ counters'.model_calls = counters.model_calls + 1
             /\ counters'.retrieval_requests = counters.retrieval_requests + 0
             /\ counters'.research_iterations = counters.research_iterations + 0
          \/ Terminal("incomplete") /\ UNCHANGED charges
      BY <1>4, ReserveEffect DEF IInv, Operations, Steps
    <2>2. CASE step' = "confirming"
      <3>1. Spending'
        BY <1>1, <2>1, <2>2, CounterTypes
          DEF IInv, TypeOK, Terminal, Spending, Charged, Unused,
            ModelCallsSpent, Spent, OutsideRounds, OthersSpent, Reranked,
            Retrieved
      <3>2. TypeOK'
        <4>1. calls' \in 0..CallsCap
          BY <1>1, <2>1, <2>2, CallsTyped, CounterTypes
            DEF IInv, TypeOK, Spending, Charged, Unused, Terminal
        <4> QED BY <1>1, <2>1, <2>2, <4>1 DEF IInv, TypeOK, Terminal, Steps
      <3>3. Placed'
        BY <1>1, <1>4, <2>1, <2>2
          DEF IInv, Placed, Grounded, Pending, Lateness, FailedRound,
            Retrieved, Terminal
      <3>4. Readers'
        BY <1>1, <2>2 DEF IInv, Readers, Seen, EvidenceOfRound, Fresh
      <3>5. Promises'
        BY <2>2, PromisesBeforeEnd
      <3> QED BY <3>1, <3>2, <3>3, <3>4, <3>5 DEF IInv
    <2>3. CASE Terminal("incomplete") /\ UNCHANGED charges
      BY <1>1, <2>3, FailureKeeps
    <2> QED BY <2>1, <2>2, <2>3
  <1>5. CASE Terminal("incomplete") /\ UNCHANGED charges
    BY <1>1, <1>5, FailureKeeps
  <1> QED BY <1>2, <1>3, <1>4, <1>5 DEF Decide

\* A confirmation in time succeeds on the same Evidence, or ends the run.
LEMMA ConfirmationReturnsKeeps ==
  ASSUME IInv, ConfirmationReturns
  PROVE  IInv'
  <1>1. CASE late
    BY <1>1, FailureKeeps DEF ConfirmationReturns, IfInTime
  <1>2. CASE ~late
    <2>1. PICK verdict \in Verdicts :
            /\ sufficient' = verdict
            /\ Terminal(IF verdict THEN "evidence_ready" ELSE "incomplete")
      BY <1>2 DEF ConfirmationReturns, IfInTime
    <2>2. /\ step = "confirming"
          /\ lateReturn' = (lateReturn \/ late)
          /\ UNCHANGED <<charges, search, earlier, round, evidence, world, given, seen>>
      BY DEF ConfirmationReturns, Returned
    <2>3. ~sufficient /\ ~lateReturn
      BY <2>2 DEF IInv, Placed, Grounded, Lateness
    <2>4. CASE verdict
      BY <1>2, <2>1, <2>2, <2>3, <2>4, SuccessKeeps DEF Verdicts
    <2>5. CASE ~verdict
      <3>1. sufficient' = sufficient /\ Terminal("incomplete") /\ UNCHANGED lateReturn
        BY <1>2, <2>1, <2>2, <2>3, <2>5 DEF IInv, TypeOK, Verdicts
      <3> QED BY <2>2, <3>1, FailureKeeps
    <2> QED BY <2>4, <2>5
  <1> QED BY <1>1, <1>2

-----------------------------------------------------------------------------
(* The theorems. *)

\* The subgraph starts with nothing spent, retrieved or promised.
LEMMA InitEstablishes == Init => IInv
  <1> SUFFICES ASSUME Init PROVE IInv
    OBVIOUS
  <1>1. TypeOK
    <2>1. calls \in 0..CallsCap /\ changes \in 0..MaxChanges
      BY ResearchAssumption, Limits DEF Init
    <2>2. round \in Rounds
      BY DEF Init, Rounds
    <2>3. seenRevisions \in [Sources -> SUBSET Revisions]
      BY DEF Init
    <2> QED BY <2>1, <2>2, <2>3 DEF Init, TypeOK, Steps, Statuses
  <1>2. Spending
    BY CounterTypes
      DEF Init, Spending, Charged, Unused, ModelCallsSpent, Spent,
        OutsideRounds, OthersSpent, Counters
  <1>3. Placed
    BY DEF Init, Placed, Grounded, Pending, Lateness, FailedRound, Retrieved
  <1>4. Readers
    BY DEF Init, Readers, Seen, EvidenceOfRound
  <1>5. Promises
    BY DEF Init, Promises, ContractKept, LateResultsDiscarded,
        FailureFailsClosed, EvidenceFresh
  <1> QED BY <1>1, <1>2, <1>3, <1>4, <1>5 DEF IInv

\* Every step of the subgraph and of its surroundings keeps the invariant.
LEMMA NextKeeps == IInv /\ [Next]_vars => IInv'
  <1> SUFFICES ASSUME IInv, [Next]_vars PROVE IInv'
    OBVIOUS
  <1>1. CASE SubgraphStep
    BY <1>1, DependencyMissingKeeps, RefuseStrangerKeeps, StartPlanKeeps,
        PlanFailsKeeps, ReplanFailsKeeps, PlanRetrievesKeeps,
        PlanConcludesKeeps, StartRetrievalKeeps, EmbeddingFailsKeeps,
        EmbeddingReturnsKeeps, SearchReturnsKeeps, SearchFailsKeeps,
        SearchesDoneKeeps, RerankReturnsKeeps, RerankFailsKeeps,
        ExpansionReturnsKeeps, RetrievalRaisesKeeps, StartAssessmentKeeps,
        AssessmentFailsKeeps, AssessmentReturnsKeeps, DecideKeeps,
        ConfirmationReturnsKeeps, StartRefinementKeeps, RefinementFailsKeeps,
        RefinementReturnsKeeps
      DEF SubgraphStep
  <1>2. CASE DeadlinePasses
    BY <1>2, DeadlinePassesKeeps
  <1>3. CASE \E d \in Documents : Grant(d) \/ Revoke(d)
    BY <1>3, GrantKeeps, RevokeKeeps
  <1>4. CASE \E s \in Sources, r \in Revisions : Publish(s, r)
    BY <1>4, PublishKeeps
  <1>5. CASE UNCHANGED vars
    <2>1. UNCHANGED <<control, charges, search, result, world, given, lateReturn, seen>>
      BY <1>5 DEF vars
    <2>2. TypeOK'
      BY <2>1 DEF IInv, TypeOK
    <2>3. Spending'
      BY <2>1
        DEF IInv, Spending, Charged, Unused, ModelCallsSpent, OthersSpent,
          Reranked, Retrieved
    <2>4. Placed'
      BY <2>1
        DEF IInv, Placed, Grounded, Pending, Lateness, FailedRound, Retrieved
    <2>5. Readers'
      BY <2>1 DEF IInv, Readers, Seen, EvidenceOfRound, Fresh
    <2>6. Promises'
      BY <2>1
        DEF IInv, Promises, ContractKept, LateResultsDiscarded,
          FailureFailsClosed, EvidenceFresh
    <2> QED BY <2>2, <2>3, <2>4, <2>5, <2>6 DEF IInv
  <1> QED BY <1>1, <1>2, <1>3, <1>4, <1>5 DEF Next

\* The inductive invariant holds throughout every Research run.
THEOREM Invariance == Spec => []IInv
  BY InitEstablishes, NextKeeps, PTL DEF Spec

\* Every counter of a Research run stays within its limit, refunds included.
THEOREM TypeCorrect == Spec => []TypeOK
  <1>1. IInv => TypeOK
    BY DEF IInv
  <1> QED BY <1>1, Invariance, PTL

\* Every model call of a Research run was charged before it was made.
THEOREM CallsAlwaysCharged == Spec => []CallsCharged
  <1>1. IInv => CallsCharged
    BY CounterTypes DEF IInv, TypeOK, Spending, Charged, Unused, CallsCharged
  <1> QED BY <1>1, Invariance, PTL

\* A Research run that ends keeps the contract the Turn graph is built on.
THEOREM ContractAlwaysKept == Spec => []ContractKept
  <1>1. IInv => ContractKept
    BY DEF IInv, Promises
  <1> QED BY <1>1, Invariance, PTL

\* What a call returns after the deadline is never a result of the run.
THEOREM LateResultsAlwaysDiscarded == Spec => []LateResultsDiscarded
  <1>1. IInv => LateResultsDiscarded
    BY DEF IInv, Promises
  <1> QED BY <1>1, Invariance, PTL

\* One failed search fails the run, whatever the other searches found.
THEOREM FailuresAlwaysFailClosed == Spec => []FailureFailsClosed
  <1>1. IInv => FailureFailsClosed
    BY DEF IInv, Promises
  <1> QED BY <1>1, Invariance, PTL

\* With a context window, the Evidence of a run rests on what could be read
\* since its last round began.
THEOREM EvidenceAlwaysFresh ==
  ASSUME ContextWindow # 0
  PROVE  Spec => []EvidenceFresh
  <1>1. IInv => EvidenceFresh
    BY DEF IInv, Promises
  <1> QED BY <1>1, Invariance, PTL
=============================================================================
