---------------------------- MODULE AnswerProofs ----------------------------
(***************************************************************************)
(* Proofs about the Answer subgraph, for every set of sources, paths and   *)
(* revisions, every model call limit the code accepts and any number of    *)
(* changes of the scope and the corpus.                                    *)
(***************************************************************************)
EXTENDS Answer, TLAPS

-----------------------------------------------------------------------------
(* The inductive invariant, in named parts. *)

\* Model calls charged since the start when a step is reached, its own included.
Spent(s) ==
  CASE s \in {"hydrate_citations", "generate", "finish_incomplete", "end",
              "raised"} -> 0
    [] s \in {"generating", "validate", "verify", "repair"} -> 1
    [] s \in {"verifying", "repairing", "finalize"} -> 2

Spending ==
  /\ start.model_calls + Spent(step) <= model_calls
  /\ calls <= model_calls - start.model_calls
  /\ start.repair_count <= repair_count
  /\ step \in {"repair", "repairing"} => repair_count = 0

\* A draft that is verified was found valid, one that is released was judged.
Buffered ==
  /\ step \in {"validate", "verify", "verifying", "finalize"} => draft \in Drafts
  /\ step \in {"verify", "verifying", "finalize"} =>
       draft.sound /\ draft.cites \subseteq mappings
  /\ step = "finalize" => draft \in judged

\* A call that came back late leads to the end, and only the end has a status.
Placed ==
  /\ lateReturn => late /\ step \in {"finish_incomplete", "end"}
  /\ step # "end" <=> status = "pending"
  /\ status # "answered" => cited = {}

Promises == ContractKept /\ AnswerWasJudged /\ LateDraftWithheld

IInv == TypeOK /\ Spending /\ Buffered /\ Placed /\ Promises

USE DEF charges, buffer, answer, world, given, history

-----------------------------------------------------------------------------
(* Operators. *)

\* Counters are natural numbers, those of the start included.
LEMMA CounterTypes ==
  ASSUME TypeOK
  PROVE  /\ ModelCallLimit \in Nat
         /\ model_calls \in Nat /\ model_calls <= ModelCallLimit
         /\ repair_count \in Nat /\ repair_count <= 1
         /\ calls \in Nat /\ calls <= ModelCallLimit + 1
         /\ start.model_calls \in Nat /\ start.model_calls <= ModelCallLimit
         /\ start.repair_count \in Nat
  BY AnswerAssumption DEF TypeOK, CallsCap

\* An admitted call is charged once, whether or not it is made.
LEMMA ChargeEffect ==
  ASSUME TypeOK, Spending, Admitted, NEW made \in {0, 1}, Charged(made)
  PROVE  /\ ~late
         /\ model_calls' = model_calls + 1
         /\ model_calls' \in 0..ModelCallLimit
         /\ calls' = calls + made
         /\ calls' \in 0..CallsCap
  BY CounterTypes DEF Spending, Admitted, Charged, Made, CallsCap

\* What a model drafts is a draft.
LEMMA DraftsTyped ==
  ASSUME TypeOK, NEW m \in {"generate", "repair"},
         \E d \in DraftsBy(m) : Buffer(d)
  PROVE  draft' \in Drafts /\ validation' = Null /\ verification' = Null
  <1>1. \A d \in DraftsBy(m) : d \in Drafts
    BY DEF TypeOK, DraftsBy, Drafts
  <1> QED BY <1>1 DEF Buffer

\* Until an answer is released, only the counters are promised.
LEMMA PromisesBeforeRelease ==
  ASSUME Spending', Placed', status' # "answered"
  PROVE  Promises'
  BY DEF Spending, Placed, Promises, ContractKept, AnswerWasJudged,
      LateDraftWithheld

-----------------------------------------------------------------------------
(* One lemma per action. *)

\* A subgraph that raises returns nothing.
LEMMA HydrationRaisesKeeps ==
  ASSUME IInv, HydrationRaises
  PROVE  IInv'
  <1>1. TypeOK'
    BY DEF IInv, TypeOK, HydrationRaises, Raises, Steps, Go
  <1>2. Spending'
    BY CounterTypes
      DEF IInv, TypeOK, HydrationRaises, Raises, Spending, Spent, Go
  <1>3. Buffered'
    BY DEF IInv, TypeOK, HydrationRaises, Raises, Buffered, Go
  <1>4. Placed'
    BY DEF IInv, TypeOK, HydrationRaises, Raises, Placed, Go
  <1>5. Promises'
    BY <1>2, <1>4, PromisesBeforeRelease
      DEF IInv, Placed, HydrationRaises, Go, Raises
  <1> QED BY <1>1, <1>2, <1>3, <1>4, <1>5 DEF IInv

\* Without mappings nothing is generated.
LEMMA HydrationFailsKeeps ==
  ASSUME IInv, HydrationFails
  PROVE  IInv'
  <1>1. TypeOK'
    BY DEF IInv, TypeOK, HydrationFails, Steps, Go
  <1>2. Spending'
    BY CounterTypes DEF IInv, TypeOK, HydrationFails, Spending, Spent, Go
  <1>3. Buffered'
    BY DEF IInv, TypeOK, HydrationFails, Buffered, Go
  <1>4. Placed'
    BY DEF IInv, TypeOK, HydrationFails, Placed, Go
  <1>5. Promises'
    BY <1>2, <1>4, PromisesBeforeRelease DEF IInv, Placed, HydrationFails, Go
  <1> QED BY <1>1, <1>2, <1>3, <1>4, <1>5 DEF IInv

\* Mappings are those of the whole Evidence Set.
LEMMA HydrationSucceedsKeeps ==
  ASSUME IInv, HydrationSucceeds
  PROVE  IInv'
  <1>1. TypeOK'
    BY DEF IInv, TypeOK, HydrationSucceeds, Steps, Go
  <1>2. Spending'
    BY CounterTypes DEF IInv, TypeOK, HydrationSucceeds, Spending, Spent, Go
  <1>3. Buffered'
    BY DEF IInv, TypeOK, HydrationSucceeds, Buffered, Go
  <1>4. Placed'
    BY DEF IInv, TypeOK, HydrationSucceeds, Placed, Go
  <1>5. Promises'
    BY <1>2, <1>4, PromisesBeforeRelease
      DEF IInv, Placed, HydrationSucceeds, Go
  <1> QED BY <1>1, <1>2, <1>3, <1>4, <1>5 DEF IInv

\* A generation is charged before it starts.
LEMMA StartGenerationKeeps ==
  ASSUME IInv, StartGeneration
  PROVE  IInv'
  <1>1. \/ /\ ~late /\ step' = "generating" /\ model_calls' = model_calls + 1
           /\ model_calls' \in 0..ModelCallLimit /\ calls' = calls + 1
           /\ calls' \in 0..CallsCap
        \/ step' = "finish_incomplete" /\ UNCHANGED charges
    <2>1. CASE Admitted
      BY <2>1, ChargeEffect DEF IInv, StartGeneration, Go
    <2>2. CASE ~Admitted
      BY <2>2 DEF StartGeneration, Go
    <2> QED BY <2>1, <2>2
  <1>2. TypeOK'
    BY <1>1 DEF IInv, TypeOK, StartGeneration, Steps, Go
  <1>3. Spending'
    BY <1>1, CounterTypes
      DEF IInv, TypeOK, StartGeneration, Spending, Spent, Go
  <1>4. Buffered'
    BY <1>1 DEF IInv, TypeOK, StartGeneration, Buffered, Go
  <1>5. Placed'
    BY <1>1 DEF IInv, TypeOK, StartGeneration, Placed, Go
  <1>6. Promises'
    BY <1>3, <1>5, PromisesBeforeRelease DEF IInv, Placed, StartGeneration, Go
  <1> QED BY <1>2, <1>3, <1>4, <1>5, <1>6 DEF IInv

\* A missing model raises.
LEMMA GenerationRaisesKeeps ==
  ASSUME IInv, GenerationRaises
  PROVE  IInv'
  <1>1. TypeOK'
    BY DEF IInv, TypeOK, GenerationRaises, Raises, Steps, Go
  <1>2. Spending'
    BY CounterTypes
      DEF IInv, TypeOK, GenerationRaises, Raises, Spending, Spent, Go
  <1>3. Buffered'
    BY DEF IInv, TypeOK, GenerationRaises, Raises, Buffered, Go
  <1>4. Placed'
    BY DEF IInv, TypeOK, GenerationRaises, Raises, Placed, Go
  <1>5. Promises'
    BY <1>2, <1>4, PromisesBeforeRelease
      DEF IInv, Placed, GenerationRaises, Go, Raises
  <1> QED BY <1>1, <1>2, <1>3, <1>4, <1>5 DEF IInv

\* A draft in time is validated, a late one dropped.
LEMMA GenerationReturnsKeeps ==
  ASSUME IInv, GenerationReturns
  PROVE  IInv'
  <1>1. \/ /\ ~late /\ step' = "validate" /\ draft' \in Drafts
           /\ validation' = Null /\ verification' = Null
        \/ step' = "finish_incomplete" /\ Buffer(Null)
    <2>1. CASE InTime
      BY <2>1, DraftsTyped DEF IInv, GenerationReturns, Go, InTime
    <2>2. CASE ~InTime
      BY <2>2 DEF GenerationReturns, Go
    <2> QED BY <2>1, <2>2
  <1>2. lateReturn' = (lateReturn \/ late)
    BY DEF GenerationReturns, Returned
  <1>3. TypeOK'
    BY <1>1, <1>2 DEF IInv, TypeOK, GenerationReturns, Buffer, Steps, Go
  <1>4. Spending'
    BY <1>1, <1>2, CounterTypes
      DEF IInv, TypeOK, GenerationReturns, Spending, Spent, Go
  <1>5. Buffered'
    BY <1>1, <1>2 DEF IInv, TypeOK, GenerationReturns, Buffered, Go
  <1>6. Placed'
    BY <1>1, <1>2 DEF IInv, TypeOK, GenerationReturns, InTime, Placed, Go
  <1>7. Promises'
    BY <1>4, <1>6, PromisesBeforeRelease
      DEF IInv, Placed, GenerationReturns, Go, InTime
  <1> QED BY <1>3, <1>4, <1>5, <1>6, <1>7 DEF IInv

\* A failed generation leads to a repair at most.
LEMMA GenerationFailsKeeps ==
  ASSUME IInv, GenerationFails
  PROVE  IInv'
  <1>1. TypeOK'
    BY DEF IInv, TypeOK, GenerationFails, RepairOr, InTime, Returned, Buffer,
        Steps, Go
  <1>2. Spending'
    BY CounterTypes
      DEF IInv, TypeOK, GenerationFails, RepairOr, InTime, Returned, Buffer,
        Spending, Spent, Go
  <1>3. Buffered'
    BY DEF IInv, TypeOK, GenerationFails, RepairOr, InTime, Returned, Buffer,
        Buffered, Go
  <1>4. Placed'
    BY DEF IInv, TypeOK, GenerationFails, RepairOr, InTime, Returned, Buffer,
        Placed, Go
  <1>5. Promises'
    BY <1>2, <1>4, PromisesBeforeRelease
      DEF IInv, Placed, GenerationFails, Go, RepairOr, InTime, Returned, Buffer
  <1> QED BY <1>1, <1>2, <1>3, <1>4, <1>5 DEF IInv

\* Only a valid draft is verified.
LEMMA ValidateKeeps ==
  ASSUME IInv, Validate
  PROVE  IInv'
  <1>1. TypeOK'
    BY DEF IInv, TypeOK, Validate, CitationsSound, RepairOr, Steps, Go
  <1>2. Spending'
    BY CounterTypes
      DEF IInv, TypeOK, Validate, CitationsSound, RepairOr, Spending, Spent, Go
  <1>3. Buffered'
    BY DEF IInv, TypeOK, Validate, CitationsSound, RepairOr, Buffered, Go
  <1>4. Placed'
    BY DEF IInv, TypeOK, Validate, CitationsSound, RepairOr, Placed, Go
  <1>5. Promises'
    BY <1>2, <1>4, PromisesBeforeRelease
      DEF IInv, Placed, Validate, Go, CitationsSound, RepairOr
  <1> QED BY <1>1, <1>2, <1>3, <1>4, <1>5 DEF IInv

\* A verification is charged before it starts.
LEMMA StartVerificationKeeps ==
  ASSUME IInv, StartVerification
  PROVE  IInv'
  <1>1. \/ /\ ~late /\ step' = "verifying" /\ model_calls' = model_calls + 1
           /\ model_calls' \in 0..ModelCallLimit /\ calls' \in {calls, calls + 1}
           /\ calls' \in 0..CallsCap
        \/ step' = "finish_incomplete" /\ UNCHANGED charges
    <2>1. CASE Admitted
      <3>1. PICK made \in {0, 1} : Charged(made) /\ Go("verifying")
        BY <2>1 DEF StartVerification
      <3> QED BY <2>1, <3>1, ChargeEffect, CounterTypes DEF IInv, Go
    <2>2. CASE ~Admitted
      BY <2>2 DEF StartVerification, Go
    <2> QED BY <2>1, <2>2
  <1>2. TypeOK'
    BY <1>1 DEF IInv, TypeOK, StartVerification, Steps, Go
  <1>3. Spending'
    BY <1>1, CounterTypes
      DEF IInv, TypeOK, StartVerification, Spending, Spent, Go
  <1>4. Buffered'
    BY <1>1 DEF IInv, TypeOK, StartVerification, Buffered, Go
  <1>5. Placed'
    BY <1>1 DEF IInv, TypeOK, StartVerification, Placed, Go
  <1>6. Promises'
    BY <1>3, <1>5, PromisesBeforeRelease
      DEF IInv, Placed, StartVerification, Go
  <1> QED BY <1>2, <1>3, <1>4, <1>5, <1>6 DEF IInv

\* Only a supported verdict in time leads to the release.
LEMMA VerificationReturnsKeeps ==
  ASSUME IInv, VerificationReturns
  PROVE  IInv'
  <1>1. TypeOK'
    BY DEF IInv, TypeOK, VerificationReturns, RepairOr, InTime, Returned,
        Buffered, Steps, Go
  <1>2. Spending'
    BY CounterTypes
      DEF IInv, TypeOK, VerificationReturns, RepairOr, InTime, Spending, Spent,
        Go
  <1>3. Buffered'
    BY DEF IInv, TypeOK, VerificationReturns, RepairOr, InTime, Buffered, Go
  <1>4. Placed'
    BY DEF IInv, TypeOK, VerificationReturns, RepairOr, InTime, Returned,
        Placed, Go
  <1>5. Promises'
    BY <1>2, <1>4, PromisesBeforeRelease
      DEF IInv, Placed, VerificationReturns, Go, RepairOr, InTime, Returned
  <1> QED BY <1>1, <1>2, <1>3, <1>4, <1>5 DEF IInv

\* Without a verdict the answer is withheld.
LEMMA VerificationFailsKeeps ==
  ASSUME IInv, VerificationFails
  PROVE  IInv'
  <1>1. TypeOK'
    BY DEF IInv, TypeOK, VerificationFails, Returned, Steps, Go
  <1>2. Spending'
    BY CounterTypes DEF IInv, TypeOK, VerificationFails, Spending, Spent, Go
  <1>3. Buffered'
    BY DEF IInv, TypeOK, VerificationFails, Buffered, Go
  <1>4. Placed'
    BY DEF IInv, TypeOK, VerificationFails, Returned, Placed, Go
  <1>5. Promises'
    BY <1>2, <1>4, PromisesBeforeRelease
      DEF IInv, Placed, VerificationFails, Go, Returned
  <1> QED BY <1>1, <1>2, <1>3, <1>4, <1>5 DEF IInv

\* A repair is charged before it starts; a refused one is spent.
LEMMA StartRepairKeeps ==
  ASSUME IInv, StartRepair
  PROVE  IInv'
  <1>1. \/ /\ ~late /\ step' = "repairing" /\ model_calls' = model_calls + 1
           /\ model_calls' \in 0..ModelCallLimit /\ calls' = calls + 1
           /\ calls' \in 0..CallsCap /\ UNCHANGED <<repair_count, buffer>>
        \/ /\ step' = "finish_incomplete" /\ UNCHANGED charges
           /\ repair_count' = repair_count + 1 /\ Buffer(Null)
    BY ChargeEffect DEF IInv, StartRepair, Go
  <1>2. repair_count = 0
    BY DEF IInv, Spending, StartRepair
  <1>3. TypeOK'
    BY <1>1, <1>2 DEF IInv, TypeOK, StartRepair, Buffer, Steps, Go
  <1>4. Spending'
    BY <1>1, <1>2, CounterTypes
      DEF IInv, TypeOK, StartRepair, Spending, Spent, Go
  <1>5. Buffered'
    BY <1>1, <1>2 DEF IInv, TypeOK, StartRepair, Buffer, Buffered, Go
  <1>6. Placed'
    BY <1>1, <1>2 DEF IInv, TypeOK, StartRepair, Placed, Go
  <1>7. Promises'
    BY <1>4, <1>6, PromisesBeforeRelease DEF IInv, Placed, StartRepair, Go
  <1> QED BY <1>3, <1>4, <1>5, <1>6, <1>7 DEF IInv

\* A repaired draft is validated anew, a late one dropped.
LEMMA RepairReturnsKeeps ==
  ASSUME IInv, RepairReturns
  PROVE  IInv'
  <1>1. \/ /\ ~late /\ step' = "validate" /\ draft' \in Drafts
           /\ validation' = Null /\ verification' = Null
        \/ step' = "finish_incomplete" /\ Buffer(Null)
    <2>1. CASE InTime
      BY <2>1, DraftsTyped DEF IInv, RepairReturns, Go, InTime
    <2>2. CASE ~InTime
      BY <2>2 DEF RepairReturns, Go
    <2> QED BY <2>1, <2>2
  <1>2. lateReturn' = (lateReturn \/ late)
    BY DEF RepairReturns, Returned
  <1>3. repair_count = 0 /\ repair_count' = repair_count + 1
    BY DEF IInv, Spending, RepairReturns
  <1>4. TypeOK'
    BY <1>1, <1>2, <1>3 DEF IInv, TypeOK, RepairReturns, Buffer, Steps, Go
  <1>5. Spending'
    BY <1>1, <1>2, <1>3, CounterTypes
      DEF IInv, TypeOK, RepairReturns, Spending, Spent, Go
  <1>6. Buffered'
    BY <1>1, <1>2, <1>3 DEF IInv, TypeOK, RepairReturns, Buffered, Go
  <1>7. Placed'
    BY <1>1, <1>2, <1>3 DEF IInv, TypeOK, RepairReturns, InTime, Placed, Go
  <1>8. Promises'
    BY <1>5, <1>7, PromisesBeforeRelease
      DEF IInv, Placed, RepairReturns, Go, InTime
  <1> QED BY <1>4, <1>5, <1>6, <1>7, <1>8 DEF IInv

\* A failed repair ends the subgraph.
LEMMA RepairFailsKeeps ==
  ASSUME IInv, RepairFails
  PROVE  IInv'
  <1>1. repair_count = 0 /\ repair_count' = repair_count + 1
    BY DEF IInv, Spending, RepairFails
  <1>2. TypeOK'
    BY <1>1 DEF IInv, TypeOK, RepairFails, Returned, Buffer, Steps, Go
  <1>3. Spending'
    BY <1>1, CounterTypes DEF IInv, TypeOK, RepairFails, Spending, Spent, Go
  <1>4. Buffered'
    BY <1>1 DEF IInv, TypeOK, RepairFails, Buffer, Buffered, Go
  <1>5. Placed'
    BY <1>1 DEF IInv, TypeOK, RepairFails, Returned, Placed, Go
  <1>6. Promises'
    BY <1>3, <1>5, PromisesBeforeRelease
      DEF IInv, Placed, RepairFails, Go, Returned
  <1> QED BY <1>2, <1>3, <1>4, <1>5, <1>6 DEF IInv

\* What is released was judged, is sound, and came in time.
LEMMA ReleaseKeeps ==
  ASSUME IInv, Release
  PROVE  IInv'
  <1>1. TypeOK'
    BY DEF IInv, TypeOK, Release, Buffered, Steps, Go
  <1>2. Spending'
    BY CounterTypes DEF IInv, TypeOK, Release, Spending, Spent, Go
  <1>3. Buffered'
    BY DEF IInv, TypeOK, Release, Buffered, Go
  <1>4. Placed'
    BY DEF IInv, TypeOK, Release, Placed, Go
  <1>5. Promises'
    <2>1. draft \in judged /\ draft.sound /\ draft.cites \subseteq evidence
      BY DEF IInv, TypeOK, Release, Buffered
    <2>2. ~lateReturn
      BY DEF IInv, Release, Placed
    <2>3. model_calls >= start.model_calls + 2 /\ UNCHANGED <<charges, start>>
      BY CounterTypes DEF IInv, Release, Spending, Spent
    <2> QED BY <1>2, <2>1, <2>2, <2>3 DEF Release, Promises, ContractKept,
          AnswerWasJudged, LateDraftWithheld, Spending
  <1> QED BY <1>1, <1>2, <1>3, <1>4, <1>5 DEF IInv

\* Evidence that is gone releases nothing.
LEMMA ReleaseFailsKeeps ==
  ASSUME IInv, ReleaseFails
  PROVE  IInv'
  <1>1. TypeOK'
    BY DEF IInv, TypeOK, ReleaseFails, Steps, Go
  <1>2. Spending'
    BY CounterTypes DEF IInv, TypeOK, ReleaseFails, Spending, Spent, Go
  <1>3. Buffered'
    BY DEF IInv, TypeOK, ReleaseFails, Buffered, Go
  <1>4. Placed'
    BY DEF IInv, TypeOK, ReleaseFails, Placed, Go
  <1>5. Promises'
    BY <1>2, <1>4, PromisesBeforeRelease DEF IInv, Placed, ReleaseFails, Go
  <1> QED BY <1>1, <1>2, <1>3, <1>4, <1>5 DEF IInv

\* Neither does any other failure.
LEMMA FinishIncompleteKeeps ==
  ASSUME IInv, FinishIncomplete
  PROVE  IInv'
  <1>1. TypeOK'
    BY DEF IInv, TypeOK, FinishIncomplete, Steps, Go
  <1>2. Spending'
    BY CounterTypes DEF IInv, TypeOK, FinishIncomplete, Spending, Spent, Go
  <1>3. Buffered'
    BY DEF IInv, TypeOK, FinishIncomplete, Buffered, Go
  <1>4. Placed'
    BY DEF IInv, TypeOK, FinishIncomplete, Placed, Go
  <1>5. Promises'
    BY <1>2, <1>4, PromisesBeforeRelease DEF IInv, Placed, FinishIncomplete, Go
  <1> QED BY <1>1, <1>2, <1>3, <1>4, <1>5 DEF IInv

\* The deadline may pass at any point.
LEMMA DeadlinePassesKeeps ==
  ASSUME IInv, DeadlinePasses
  PROVE  IInv'
  <1>1. TypeOK'
    BY DEF IInv, TypeOK, DeadlinePasses, Steps, Go
  <1>2. Spending'
    BY CounterTypes DEF IInv, TypeOK, DeadlinePasses, Spending, Spent, Go
  <1>3. Buffered'
    BY DEF IInv, TypeOK, DeadlinePasses, Buffered, Go
  <1>4. Placed'
    BY DEF IInv, TypeOK, DeadlinePasses, Placed, Go
  <1>5. Promises'
    BY DEF IInv, DeadlinePasses, Promises, ContractKept, AnswerWasJudged,
        LateDraftWithheld
  <1> QED BY <1>1, <1>2, <1>3, <1>4, <1>5 DEF IInv

\* Grants may change at any point.
LEMMA ScopeChangesKeeps ==
  ASSUME IInv, NEW d \in Documents, ScopeChanges(d)
  PROVE  IInv'
  <1>1. scope' \subseteq Documents
    BY DEF IInv, TypeOK, ScopeChanges
  <1>2. changes' \in 0..MaxChanges
    BY AnswerAssumption DEF IInv, TypeOK, ScopeChanges
  <1>3. TypeOK'
    BY <1>1, <1>2 DEF IInv, TypeOK, ScopeChanges, Steps, Go
  <1>4. Spending'
    BY <1>1, <1>2, CounterTypes
      DEF IInv, TypeOK, ScopeChanges, Spending, Spent, Go
  <1>5. Buffered'
    BY <1>1, <1>2 DEF IInv, TypeOK, ScopeChanges, Buffered, Go
  <1>6. Placed'
    BY <1>1, <1>2 DEF IInv, TypeOK, ScopeChanges, Placed, Go
  <1>7. Promises'
    BY DEF IInv, ScopeChanges, Promises, ContractKept, AnswerWasJudged,
        LateDraftWithheld
  <1> QED BY <1>3, <1>4, <1>5, <1>6, <1>7 DEF IInv

\* So may the corpus.
LEMMA PublishKeeps ==
  ASSUME IInv, NEW s \in Sources, NEW r \in Revisions, Publish(s, r)
  PROVE  IInv'
  <1>1. corpus' \in [Sources -> Revisions]
    BY DEF IInv, TypeOK, Publish
  <1>2. changes' \in 0..MaxChanges
    BY AnswerAssumption DEF IInv, TypeOK, Publish
  <1>3. TypeOK'
    BY <1>1, <1>2 DEF IInv, TypeOK, Publish, Steps, Go
  <1>4. Spending'
    BY <1>1, <1>2, CounterTypes DEF IInv, TypeOK, Publish, Spending, Spent, Go
  <1>5. Buffered'
    BY <1>1, <1>2 DEF IInv, TypeOK, Publish, Buffered, Go
  <1>6. Placed'
    BY <1>1, <1>2 DEF IInv, TypeOK, Publish, Placed, Go
  <1>7. Promises'
    BY DEF IInv, Publish, Promises, ContractKept, AnswerWasJudged,
        LateDraftWithheld
  <1> QED BY <1>3, <1>4, <1>5, <1>6, <1>7 DEF IInv

-----------------------------------------------------------------------------
(* The theorems. *)

\* The subgraph starts with nothing spent, drafted or promised.
LEMMA InitEstablishes == Init => IInv
  <1> SUFFICES ASSUME Init PROVE IInv
    OBVIOUS
  <1>1. TypeOK
    <2>1. calls \in 0..CallsCap /\ changes \in 0..MaxChanges
      BY AnswerAssumption DEF Init, CallsCap
    <2>2. start \in [model_calls : 0..ModelCallLimit, repair_count : 0..1]
      BY DEF Init
    <2> QED BY <2>1, <2>2 DEF Init, TypeOK, Steps
  <1>2. Spending
    BY AnswerAssumption DEF Init, Spending, Spent
  <1>3. Buffered /\ Placed
    BY DEF Init, Buffered, Placed
  <1>4. Promises
    BY AnswerAssumption
      DEF Init, Promises, ContractKept, AnswerWasJudged, LateDraftWithheld
  <1> QED BY <1>1, <1>2, <1>3, <1>4 DEF IInv

\* Every step of the subgraph and of its surroundings keeps the invariant.
LEMMA NextKeeps == IInv /\ [Next]_vars => IInv'
  <1> SUFFICES ASSUME IInv, [Next]_vars PROVE IInv'
    OBVIOUS
  <1>1. CASE SubgraphStep
    BY <1>1, HydrationRaisesKeeps, HydrationFailsKeeps, HydrationSucceedsKeeps,
        StartGenerationKeeps, GenerationRaisesKeeps, GenerationReturnsKeeps,
        GenerationFailsKeeps, ValidateKeeps, StartVerificationKeeps,
        VerificationReturnsKeeps, VerificationFailsKeeps, StartRepairKeeps,
        RepairReturnsKeeps, RepairFailsKeeps, ReleaseKeeps, ReleaseFailsKeeps,
        FinishIncompleteKeeps
      DEF SubgraphStep
  <1>2. CASE DeadlinePasses
    BY <1>2, DeadlinePassesKeeps
  <1>3. CASE \E d \in Documents : ScopeChanges(d)
    BY <1>3, ScopeChangesKeeps
  <1>4. CASE \E s \in Sources, r \in Revisions : Publish(s, r)
    BY <1>4, PublishKeeps
  <1>5. CASE UNCHANGED vars
    BY <1>5
      DEF vars, IInv, TypeOK, Spending, Buffered, Placed, Promises,
        ContractKept, AnswerWasJudged, LateDraftWithheld
  <1> QED BY <1>1, <1>2, <1>3, <1>4, <1>5 DEF Next

\* The inductive invariant holds throughout every Answer run.
THEOREM Invariance == Spec => []IInv
  BY InitEstablishes, NextKeeps, PTL DEF Spec

\* Model calls and repairs of an Answer run stay within the budget of the Turn.
THEOREM TypeCorrect == Spec => []TypeOK
  <1>1. IInv => TypeOK
    BY DEF IInv
  <1> QED BY <1>1, Invariance, PTL

\* An Answer run that ends keeps the contract the Turn graph is built on.
THEOREM ContractAlwaysKept == Spec => []ContractKept
  <1>1. IInv => ContractKept
    BY DEF IInv, Promises
  <1> QED BY <1>1, Invariance, PTL

\* Only a draft that was found valid and supported is ever released.
THEOREM AnswersWereJudged == Spec => []AnswerWasJudged
  <1>1. IInv => AnswerWasJudged
    BY DEF IInv, Promises
  <1> QED BY <1>1, Invariance, PTL

\* What a model returns after the deadline is never released.
THEOREM LateDraftsWithheld == Spec => []LateDraftWithheld
  <1>1. IInv => LateDraftWithheld
    BY DEF IInv, Promises
  <1> QED BY <1>1, Invariance, PTL
=============================================================================
