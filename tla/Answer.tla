------------------------------- MODULE Answer -------------------------------
(***************************************************************************)
(* The buffered Answer subgraph (graph/_answer.py): hydrate the citations, *)
(* generate a draft, validate it, verify it, repair it once, and release   *)
(* it or withhold it.  A node that calls a model is split at the call: the *)
(* deadline, the scope and the corpus may move while it waits.  Hydration  *)
(* and release each read the database in one transaction.                  *)
(*                                                                         *)
(* Documents, items and revisions are those of Research.  The text of a    *)
(* draft is left open; what counts is which Evidence it cites and whether  *)
(* its citations are sound: only known keys, and one for every claim.      *)
(***************************************************************************)
EXTENDS Naturals

CONSTANTS
  Sources, Paths, Revisions,   \* as in Research
  ModelCallLimit,              \* TurnExecutionBudget.model_call_limit
  MaxChanges,                  \* bound: scope changes and publications
  Null                         \* None

Documents == Sources \X Paths

Items == [document : Documents, revision : Revisions]

CallsCap == ModelCallLimit + 1   \* bound: where the history stops counting

ASSUME AnswerAssumption ==
  /\ ModelCallLimit \in 1..10
  /\ MaxChanges \in Nat

VARIABLES
  step,           \* the node, or the call a node is waiting for
  model_calls,    \* consumed model calls of the Turn
  repair_count,   \* repairs of the Turn
  evidence,       \* evidence_items of the Evidence Set
  complete,       \* is the Evidence Set complete?
  mappings,       \* items with a hydrated citation mapping
  draft,          \* the buffered draft
  validation,     \* is the draft valid?  Null: not validated
  verification,   \* is the draft supported?  Null: not verified
  status,         \* status of the subgraph
  cited,          \* items the released answer cites
  late,           \* has the deadline passed?
  scope,          \* documents the Principal may read now
  corpus,         \* published revision of each source
  changes,        \* spent bound
  trusted,        \* is the snapshot's Principal the run's?
  start,          \* history: model calls and repairs the subgraph was given
  calls,          \* history: model calls made
  lateReturn,     \* history: did a call return after the deadline?
  judged          \* history: drafts a verdict in time found supported

charges == <<model_calls, calls>>
buffer  == <<draft, validation, verification>>
answer  == <<status, cited>>
world   == <<late, scope, corpus, changes>>
given   == <<evidence, complete, trusted, start>>
history == <<lateReturn, judged>>

vars == <<step, charges, repair_count, mappings, buffer, answer, world, given,
          history>>

Steps == {"hydrate_citations", "generate", "generating", "validate", "verify",
          "verifying", "repair", "repairing", "finalize", "finish_incomplete",
          "end", "raised"}

\* What a model may draft about the items it was shown: a factual draft, or a
\* refusal or an insufficiency ("declined").  Its maker tells two drafts apart.
Drafts == [maker : {"generate", "repair"}, disposition : {"factual", "declined"},
           cites : SUBSET Items, sound : BOOLEAN]

DraftsBy(m) ==
  {d \in [maker : {m}, disposition : {"factual", "declined"},
          cites : SUBSET mappings, sound : BOOLEAN] :
     /\ d.disposition = "declined" => d.sound /\ d.cites = {}
     /\ d.disposition = "factual" /\ d.sound => d.cites # {}}

-----------------------------------------------------------------------------
(* Budget and routes. *)

Go(s) == step' = s

\* Model calls really made.
Made(n) == calls' = IF calls < CallsCap THEN calls + n ELSE calls

\* _reserve_answer_model_call
Admitted == ~late /\ model_calls < ModelCallLimit

\* Mutant: only a call that is made is charged.
ChargedIfMade(made) == model_calls' = model_calls + made /\ Made(made)

Charged(made) == model_calls' = model_calls + 1 /\ Made(made)

\* A call the run waited for has returned, or raised.
Returned == lateReturn' = (lateReturn \/ late)

\* Mutant: the deadline is read before a call only.
InTimeAlways == TRUE

\* The deadline is read again after each call.
InTime == ~late

\* Mutant: the repair of an earlier attempt is forgotten.
RepairForgotten(otherwise) == IF draft # Null THEN "repair" ELSE otherwise

\* One repair for the whole Turn.
RepairOr(otherwise) == IF repair_count < 1 THEN "repair" ELSE otherwise

Buffer(d) == draft' = d /\ validation' = Null /\ verification' = Null

\* Mutant: grants are not looked up again.
AvailablePublished(items) == \A i \in items : i.revision = corpus[i.document[1]]

\* hydrate_citation_mappings: readable, and of the published revision.
Available(items) ==
  \A i \in items : i.document \in scope /\ i.revision = corpus[i.document[1]]

\* No result reaches the Turn from a subgraph that raises.
Raises == step' = "raised"

-----------------------------------------------------------------------------
(* hydrate_answer_citations *)

HydrationRaises ==
  /\ step = "hydrate_citations"
  /\ complete
  /\ Raises
  /\ UNCHANGED <<charges, repair_count, mappings, buffer, answer, world, given,
                 history>>

\* Incomplete Evidence, another Principal, or Evidence that is gone.
HydrationFails ==
  /\ step = "hydrate_citations"
  /\ Go("finish_incomplete")
  /\ UNCHANGED <<charges, repair_count, mappings, buffer, answer, world, given,
                 history>>

HydrationSucceeds ==
  /\ step = "hydrate_citations"
  /\ complete /\ trusted /\ Available(evidence)
  /\ mappings' = evidence
  /\ Go("generate")
  /\ UNCHANGED <<charges, repair_count, buffer, answer, world, given, history>>

-----------------------------------------------------------------------------
(* generate_answer *)

StartGeneration ==
  /\ step = "generate"
  /\ IF Admitted THEN Charged(1) /\ Go("generating")
                 ELSE Go("finish_incomplete") /\ UNCHANGED charges
  /\ UNCHANGED <<repair_count, mappings, buffer, answer, world, given, history>>

\* No chat model was configured.
GenerationRaises ==
  /\ step = "generate"
  /\ Admitted
  /\ Raises
  /\ UNCHANGED <<charges, repair_count, mappings, buffer, answer, world, given,
                 history>>

GenerationReturns ==
  /\ step = "generating"
  /\ IF InTime THEN Go("validate") /\ \E d \in DraftsBy("generate") : Buffer(d)
               ELSE Go("finish_incomplete") /\ Buffer(Null)
  /\ Returned
  /\ UNCHANGED <<charges, repair_count, mappings, answer, world, given, judged>>

\* The model raised, or its output is no draft.
GenerationFails ==
  /\ step = "generating"
  /\ Go(IF InTime THEN RepairOr("finish_incomplete") ELSE "finish_incomplete")
  /\ Buffer(Null)
  /\ Returned
  /\ UNCHANGED <<charges, repair_count, mappings, answer, world, given, judged>>

-----------------------------------------------------------------------------
(* validate_answer_citations *)

\* Mutant: a key outside the Evidence Set passes.
CitationsKnown(d) == TRUE

CitationsSound(d) == d.sound /\ d.cites \subseteq mappings

Validate ==
  /\ step = "validate"
  /\ validation' = CitationsSound(draft)
  /\ Go(IF CitationsSound(draft) THEN "verify" ELSE RepairOr("finish_incomplete"))
  /\ UNCHANGED <<charges, repair_count, mappings, draft, verification, answer,
                 world, given, history>>

-----------------------------------------------------------------------------
(* verify_answer *)

\* A call is charged for every draft, but made for a factual one only.
StartVerification ==
  /\ step = "verify"
  /\ IF Admitted THEN /\ Charged(IF draft.disposition = "factual" THEN 1 ELSE 0)
                      /\ Go("verifying")
                 ELSE Go("finish_incomplete") /\ UNCHANGED charges
  /\ UNCHANGED <<repair_count, mappings, buffer, answer, world, given, history>>

VerificationReturns ==
  /\ step = "verifying"
  /\ \E supported \in BOOLEAN :
       /\ draft.disposition = "declined" => supported
       /\ verification' = IF InTime THEN supported ELSE Null
       /\ Go(IF ~InTime THEN "finish_incomplete"
             ELSE IF supported THEN "finalize"
             ELSE RepairOr("finish_incomplete"))
       /\ judged' = IF supported /\ ~late THEN judged \cup {draft} ELSE judged
  /\ Returned
  /\ UNCHANGED <<charges, repair_count, mappings, draft, validation, answer,
                 world, given>>

VerificationFails ==
  /\ step = "verifying"
  /\ draft.disposition = "factual"
  /\ verification' = Null
  /\ Go("finish_incomplete")
  /\ Returned
  /\ UNCHANGED <<charges, repair_count, mappings, draft, validation, answer,
                 world, given, judged>>

-----------------------------------------------------------------------------
(* repair_answer *)

\* Mutant: a refused repair is asked for again.
StartRepairAgain ==
  /\ step = "repair"
  /\ IF Admitted THEN Charged(1) /\ Go("repairing") ELSE UNCHANGED <<step, charges>>
  /\ UNCHANGED <<repair_count, mappings, buffer, answer, world, given, history>>

\* A repair that is refused is spent all the same.
StartRepair ==
  /\ step = "repair"
  /\ IF Admitted
     THEN /\ Charged(1)
          /\ Go("repairing")
          /\ UNCHANGED <<repair_count, buffer>>
     ELSE /\ Go("finish_incomplete")
          /\ repair_count' = repair_count + 1
          /\ Buffer(Null)
          /\ UNCHANGED charges
  /\ UNCHANGED <<mappings, answer, world, given, history>>

RepairReturns ==
  /\ step = "repairing"
  /\ IF InTime THEN Go("validate") /\ \E d \in DraftsBy("repair") : Buffer(d)
               ELSE Go("finish_incomplete") /\ Buffer(Null)
  /\ repair_count' = repair_count + 1
  /\ Returned
  /\ UNCHANGED <<charges, mappings, answer, world, given, judged>>

RepairFails ==
  /\ step = "repairing"
  /\ Go("finish_incomplete")
  /\ Buffer(Null)
  /\ repair_count' = repair_count + 1
  /\ Returned
  /\ UNCHANGED <<charges, mappings, answer, world, given, judged>>

-----------------------------------------------------------------------------
(* finalize_answer, finish_incomplete_answer *)

\* Still available, with the same mappings; only rendered if valid and supported.
Release ==
  /\ step = "finalize"
  /\ Available(evidence) /\ mappings = evidence
  /\ validation = TRUE /\ verification = TRUE
  /\ status' = "answered"
  /\ cited' = draft.cites
  /\ Go("end")
  /\ UNCHANGED <<charges, repair_count, mappings, buffer, world, given, history>>

\* Evidence that is gone, or a database that failed.
ReleaseFails ==
  /\ step = "finalize"
  /\ status' = "incomplete"
  /\ Go("end")
  /\ UNCHANGED <<charges, repair_count, mappings, buffer, cited, world, given,
                 history>>

FinishIncomplete ==
  /\ step = "finish_incomplete"
  /\ status' = "incomplete"
  /\ Go("end")
  /\ UNCHANGED <<charges, repair_count, mappings, buffer, cited, world, given,
                 history>>

-----------------------------------------------------------------------------
(* The clock, administrators and Corpus Sync. *)

DeadlinePasses ==
  /\ ~late
  /\ late' = TRUE
  /\ UNCHANGED <<step, charges, repair_count, mappings, buffer, answer, scope,
                 corpus, changes, given, history>>

ScopeChanges(d) ==
  /\ changes < MaxChanges
  /\ scope' = IF d \in scope THEN scope \ {d} ELSE scope \cup {d}
  /\ changes' = changes + 1
  /\ UNCHANGED <<step, charges, repair_count, mappings, buffer, answer, late,
                 corpus, given, history>>

Publish(s, r) ==
  /\ changes < MaxChanges
  /\ corpus[s] # r
  /\ corpus' = [corpus EXCEPT ![s] = r]
  /\ changes' = changes + 1
  /\ UNCHANGED <<step, charges, repair_count, mappings, buffer, answer, late,
                 scope, given, history>>

\* Any Evidence research may have left, in whatever has become of the corpus and
\* the scope since.
Init ==
  /\ step = "hydrate_citations"
  /\ model_calls \in 0..ModelCallLimit
  /\ repair_count \in 0..1
  /\ evidence \in (SUBSET Items) \ {{}}
  /\ complete \in BOOLEAN
  /\ mappings = {}
  /\ draft = Null
  /\ validation = Null
  /\ verification = Null
  /\ status = "pending"
  /\ cited = {}
  /\ late \in BOOLEAN
  /\ scope \in SUBSET Documents
  /\ corpus \in [Sources -> Revisions]
  /\ changes = 0
  /\ trusted \in BOOLEAN
  /\ start = [model_calls |-> model_calls, repair_count |-> repair_count]
  /\ calls = 0
  /\ lateReturn = FALSE
  /\ judged = {}

SubgraphStep ==
  \/ HydrationRaises
  \/ HydrationFails
  \/ HydrationSucceeds
  \/ StartGeneration
  \/ GenerationRaises
  \/ GenerationReturns
  \/ GenerationFails
  \/ Validate
  \/ StartVerification
  \/ VerificationReturns
  \/ VerificationFails
  \/ StartRepair
  \/ RepairReturns
  \/ RepairFails
  \/ Release
  \/ ReleaseFails
  \/ FinishIncomplete

Next ==
  \/ SubgraphStep
  \/ DeadlinePasses
  \/ \E d \in Documents : ScopeChanges(d)
  \/ \E s \in Sources, r \in Revisions : Publish(s, r)

Spec == Init /\ [][Next]_vars

\* invoke() runs the subgraph to its end; every call returns or raises.
FairSpec == Spec /\ WF_vars(SubgraphStep)

-----------------------------------------------------------------------------
(* Properties. *)

\* Calls and repairs stay within the budget of the Turn.
TypeOK ==
  /\ step \in Steps
  /\ model_calls \in 0..ModelCallLimit
  /\ repair_count \in 0..1
  /\ evidence \subseteq Items
  /\ complete \in BOOLEAN
  /\ mappings \subseteq evidence
  /\ draft \in Drafts \cup {Null}
  /\ validation \in BOOLEAN \cup {Null}
  /\ verification \in BOOLEAN \cup {Null}
  /\ status \in {"pending", "answered", "incomplete"}
  /\ cited \subseteq Items
  /\ late \in BOOLEAN
  /\ scope \subseteq Documents
  /\ corpus \in [Sources -> Revisions]
  /\ changes \in 0..MaxChanges
  /\ trusted \in BOOLEAN
  /\ start \in [model_calls : 0..ModelCallLimit, repair_count : 0..1]
  /\ calls \in 0..CallsCap
  /\ lateReturn \in BOOLEAN
  /\ judged \subseteq Drafts

\* What the Turn graph assumes of an Answer run that returns: a release costs a
\* generation and a verification, a withheld answer cites nothing, every call
\* is charged, and neither charge moves back.
ContractKept ==
  /\ calls <= model_calls - start.model_calls
  /\ start.repair_count <= repair_count
  /\ step = "end" =>
       /\ status # "pending"
       /\ status = "answered" => model_calls >= start.model_calls + 2
       /\ status = "incomplete" => cited = {}

\* What is released is the very draft that a verdict in time found supported,
\* and its citations are sound; the draft of a failed repair, or the one before
\* a repair, never is.
AnswerWasJudged ==
  status = "answered" =>
    /\ draft \in judged
    /\ draft.sound
    /\ cited = draft.cites /\ cited \subseteq evidence

\* A draft or a verdict that came back after the deadline is never released.
LateDraftWithheld == lateReturn => status # "answered"

Lost(i) == i.document \notin scope \/ i.revision # corpus[i.document[1]]

\* Evidence that was lost while the answer is in the making (its document
\* unreadable, or superseded by a publication, cited or not) comes back or the
\* answer is withheld, wherever in the loop of model calls it was lost.
LostEvidenceWithheld ==
  \A i \in Items :
    (status = "pending" /\ i \in evidence /\ Lost(i))
      ~> (~Lost(i) \/ status = "incomplete" \/ step = "raised")

\* Whatever fails, is late or is not supported, the subgraph ends.
Terminates == <>(step \in {"end", "raised"})
=============================================================================
