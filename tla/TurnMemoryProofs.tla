-------------------------- MODULE TurnMemoryProofs --------------------------
(***************************************************************************)
(* Proofs about what the Turn graph does to Thread Memory: it implements   *)
(* the log of ThreadLog, a refused Turn leaves the memory it found, a Turn *)
(* summarises the smallest prefix that makes room, what is committed rests *)
(* on readable documents while none enters the scope, no charge is         *)
(* refunded, and only a process stop and a subgraph that raises leave a    *)
(* model call uncharged.                                                   *)
(***************************************************************************)
EXTENDS TurnProofs

-----------------------------------------------------------------------------
(* The inductive invariant, beside IInv. *)

SameMemory(a, b) == a.summary = b.summary /\ a.turn_records = b.turn_records

\* While a Turn is worked on, the thread has the history it began with, and
\* what a rollback would restore is the very memory it began with.
MemoryKept ==
  InProgress(work) =>
    /\ History(thread) = History(base)
    /\ SameMemory(RollbackThread(work, thread), base)

\* Nodes that run before any compaction of an attempt, or without a gate.
UncompactedNodes == {"prepare_turn", "capture_turn_authorization",
                     "compact_context", "complete_turn"}

Refusals == Reasons \ {"other", "citation_dependency_mismatch"}

\* No compaction lies behind these nodes, nor behind a refusal.
Uncompacted ==
  ( /\ InProgress(work)
    /\ next \in UncompactedNodes \/ work.terminal_reason \in Refusals )
  => work.pre_compaction_thread = Null

MInv == IInv /\ MemoryKept /\ Uncompacted

-----------------------------------------------------------------------------
(* History. *)

\* History depends on the memory of a thread only.
LEMMA SameHistory ==
  ASSUME NEW a, NEW b, SameMemory(a, b) PROVE History(a) = History(b)
BY DEF SameMemory, History, Covered

\* Fingerprints, Principal and active Turn are no memory.
LEMMA BookkeepingKeepsMemory ==
  ASSUME NEW th \in ThreadStates, NEW p \in Principals, NEW w \in Works
  PROVE  /\ SameMemory(Checkpointed(th, w), th)
         /\ Checkpointed(th, w).active_turn_id = th.active_turn_id
         /\ SameMemory(Retained(th), th)
         /\ SameMemory(Begun(th, p, w), th)
         /\ Begun(th, p, w).active_turn_id = w.turn_id
BY DEF ThreadStates, ThreadsOver, SameMemory, Checkpointed, Retained, Begun

\* What a thread summarised and what it still holds are Turn Records.
LEMMA MemoryTypes ==
  ASSUME NEW th \in ThreadStates
  PROVE  /\ th.turn_records \in Seq(TurnRecords)
         /\ Covered(th) \in Seq(TurnRecords)
BY NullDistinct DEF Covered, ThreadStates, ThreadsOver, Summaries

\* A compaction moves records into the summary and loses none.
LEMMA CompactedHistory ==
  ASSUME NEW th \in ThreadStates, NEW k \in 1..Len(th.turn_records),
         NEW d \in SUBSET Docs
  PROVE  /\ History(Compacted(th, k, d)) = History(th)
         /\ Compacted(th, k, d).active_turn_id = th.active_turn_id
<1> DEFINE records == th.turn_records
           n == Len(records)
           c == Compacted(th, k, d)
           gone == SubSeq(records, 1, k)
           left == SubSeq(records, k + 1, n)
           s == [covered |-> Covered(th) \o gone, dependencies |-> d]
<1>1. records \in Seq(TurnRecords) /\ Covered(th) \in Seq(TurnRecords)
  BY MemoryTypes
<1>2. /\ c.turn_records = left
      /\ c.summary = s
      /\ c.active_turn_id = th.active_turn_id
  BY DEF Compacted, ThreadStates, ThreadsOver
<1>3. gone \in Seq(TurnRecords) /\ left \in Seq(TurnRecords)
  BY <1>1
<1>4. gone \o left = records
  <2>1. gone \o left \in Seq(TurnRecords)
    BY <1>3, ConcatProperties
  <2>2. n \in Nat /\ Len(gone) = k /\ Len(left) = n - k
    BY <1>1
  <2>3. Len(gone \o left) = n
    BY <1>3, <2>2, ConcatProperties
  <2>4. ASSUME NEW i \in 1..n PROVE (gone \o left)[i] = records[i]
    <3>1. (gone \o left)[i] = IF i <= k THEN gone[i] ELSE left[i - k]
      BY <1>3, <2>2, ConcatProperties
    <3>2. CASE i <= k
      BY <1>1, <3>1, <3>2
    <3>3. CASE i > k
      BY <1>1, <2>2, <3>1, <3>3
    <3> QED
      BY <2>2, <3>2, <3>3
  <2> HIDE DEF gone, left
  <2> QED
    BY <1>1, <2>1, <2>3, <2>4, SeqEqual
<1>5. Covered(th) \o gone \in Seq(TurnRecords)
  BY <1>1, <1>3, ConcatProperties
<1>6. s \in Summaries
  BY <1>5 DEF Summaries
<1>7. Covered(c) = Covered(th) \o gone
  <2>1. s # Null /\ s.covered = Covered(th) \o gone
    BY <1>6, NullDistinct
  <2> HIDE DEF s, c, gone
  <2> QED
    BY <1>2, <2>1 DEF Covered
<1> HIDE DEF gone, left, c
<1>8. (Covered(th) \o gone) \o left = Covered(th) \o (gone \o left)
  <2>1. \A a, b, e \in Seq(TurnRecords) : (a \o b) \o e = a \o (b \o e)
    BY ConcatAssociative
  <2> QED
    BY <1>1, <1>3, <2>1, Zenon
<1> QED
  BY <1>2, <1>4, <1>7, <1>8, Zenon DEF History, c

\* A commit appends one record to the history and ends the Turn.
LEMMA CommittedHistory ==
  ASSUME NEW th \in ThreadStates, NEW r \in TurnRecords,
         r.turn_id \notin IdsOf(th.turn_records)
  PROVE  /\ Committed(th, r).summary = th.summary
         /\ Committed(th, r).turn_records = Append(th.turn_records, r)
         /\ Committed(th, r).active_turn_id = Null
         /\ LastRecord(Committed(th, r)) = r
         /\ History(Committed(th, r)) = Append(History(th), r)
<1> DEFINE records == th.turn_records
           c == Committed(th, r)
<1>1. records \in Seq(TurnRecords) /\ Covered(th) \in Seq(TurnRecords)
  BY MemoryTypes
<1>2. /\ c.summary = th.summary
      /\ c.turn_records = Append(records, r)
      /\ c.active_turn_id = Null
  BY DEF Committed, ThreadStates, ThreadsOver
<1>3. LastRecord(c) = r
  BY <1>1, <1>2 DEF LastRecord
<1>4. /\ records \o <<r>> = Append(records, r)
      /\ Append(Covered(th) \o records, r) = (Covered(th) \o records) \o <<r>>
      /\ <<r>> \in Seq(TurnRecords)
  <2>1. Covered(th) \o records \in Seq(TurnRecords)
    BY <1>1, ConcatProperties
  <2> QED
    BY <1>1, <2>1, AppendIsConcat
<1>5. \A a, b, d \in Seq(TurnRecords) : (a \o b) \o d = a \o (b \o d)
  BY ConcatAssociative
<1> QED
  <2>1. Covered(c) = Covered(th)
    BY <1>2 DEF Covered
  <2>2. (Covered(th) \o records) \o <<r>> = Covered(th) \o (records \o <<r>>)
    BY <1>1, <1>4, <1>5, Zenon
  <2> QED
    BY <1>2, <1>3, <1>4, <2>1, <2>2, Zenon DEF History

-----------------------------------------------------------------------------
(* Nodes that leave Thread Memory alone. *)

\* A node's update of the work: its rollback thread is kept, a node of
\* UncompactedNodes or a refusal has none, no charge is refunded, and no model
\* call goes uncharged unless a subgraph raised.
Updates(w, n) ==
  /\ Checkpoint(w, thread, n)
  /\ w.pre_compaction_thread = work.pre_compaction_thread
  /\ (n \in UncompactedNodes \/ w.terminal_reason \in Refusals)
       => w.pre_compaction_thread = Null
  /\ work.model_calls <= w.model_calls
  /\ \/ calls' + work.model_calls <= calls + w.model_calls
     \/ w = AuthorizingFailure(work)

\* Such a node finds work in progress and keeps memory as the Turn found it.
LEMMA UpdateKeeps ==
  ASSUME MInv, IInv', InProgress(work), NEW w \in Works, NEW n \in Nodes,
         Updates(w, n)
  PROVE  /\ MInv'
         /\ History(thread') = History(thread)
         /\ thread'.active_turn_id = thread.active_turn_id
<1>1. /\ work' = w /\ thread' = Checkpointed(thread, w)
      /\ next' = n /\ base' = base
  BY DEF Updates, Checkpoint
<1>2. thread \in ThreadStates
  BY DEF MInv, IInv, TypeOK
<1>3. SameMemory(thread', thread)
      /\ thread'.active_turn_id = thread.active_turn_id
  <2>1. \E p : p \in Principals
    BY DEF MInv, IInv, TypeOK
  <2> QED
    BY <1>1, <1>2, <2>1, BookkeepingKeepsMemory
<1>4. History(thread') = History(thread)
  BY <1>3, SameHistory
<1>5. SameMemory(RollbackThread(w, thread'), base)
  <2>1. SameMemory(RollbackThread(work, thread), base)
    BY DEF MInv, MemoryKept
  <2> QED
    BY <1>3, <2>1 DEF RollbackThread, SameMemory, Updates
<1>6. MemoryKept'
  BY <1>1, <1>4, <1>5 DEF MInv, MemoryKept
<1>7. Uncompacted'
  BY <1>1 DEF Uncompacted, Updates
<1> QED
  BY <1>3, <1>4, <1>6, <1>7 DEF MInv

\* The reasons results give are no refusals.
LEMMA NoRefusal == "other" \notin Refusals /\ Null \notin Refusals
BY NullDistinct DEF Refusals

\* Capturing the scope, or failing to.
LEMMA CaptureUpdates ==
  ASSUME MInv, CaptureFails \/ CaptureTurnAuthorization
  PROVE  InProgress(work) /\ \E w \in Works, n \in Nodes : Updates(w, n)
<1>1. Proceeds("capture_turn_authorization")
  BY DEF CaptureFails, CaptureTurnAuthorization
<1>2. /\ work \in Works /\ InProgress(work) /\ work.stage = "prepared"
      /\ WorkAccepted(work) /\ calls \in Nat
  BY <1>1, NodeFinds DEF MInv, Nodes, StagesAt, WorkAccepted
<1>3. work.pre_compaction_thread = Null
  BY <1>1, <1>2 DEF MInv, Uncompacted, UncompactedNodes, Proceeds, AtNode
<1>4. calls' = calls /\ work.model_calls \in Nat
  BY <1>2 DEF CaptureFails, CaptureTurnAuthorization, Charge, Works
<1>5. CASE CaptureFails
  <2> DEFINE w == TerminalCheckpoint(work, "authorization_unavailable")
  <2>1. w \in Works
    BY <1>2, TerminalCheckpointAccepted DEF WorkAccepted
  <2>2. w.model_calls = work.model_calls
        /\ w.pre_compaction_thread = work.pre_compaction_thread
    BY <1>2 DEF TerminalCheckpoint, Works
  <2> QED
    BY <1>2, <1>3, <1>4, <1>5, <2>1, <2>2 DEF CaptureFails, Updates, Nodes
<1>6. CASE CaptureTurnAuthorization
  <2> DEFINE snapshot == [principal_id |-> caller, revision |-> scope]
             w == [work EXCEPT !.stage = "authorized",
                               !.authorization_snapshot = snapshot]
  <2>1. PICK n \in {"compact_context", "contextualize_turn"} :
          Checkpoint(w, thread, n)
    BY <1>6 DEF CaptureTurnAuthorization
  <2>2. snapshot \in Snapshots
    BY DEF MInv, IInv, TypeOK, Snapshots
  <2> HIDE DEF snapshot
  <2>3. w \in Works
    BY <1>2, <2>2 DEF Works, Stages
  <2>4. w.model_calls = work.model_calls
        /\ w.pre_compaction_thread = work.pre_compaction_thread
    BY <1>2 DEF Works
  <2> HIDE DEF w
  <2>5. /\ work.model_calls <= w.model_calls
        /\ calls' + work.model_calls <= calls + w.model_calls
    BY <1>2, <1>4, <2>4
  <2> QED
    BY <1>2, <1>3, <2>1, <2>3, <2>4, <2>5 DEF Updates, Nodes
<1> QED
  BY <1>5, <1>6

\* Work ended at a result stage is work.
LEMMA TerminalWorkType ==
  ASSUME NEW v \in Works, NEW question \in Questions, NEW outcome \in Outcomes,
         NEW reason \in Reasons
  PROVE  TerminalWork(v, question, outcome, reason) \in Works
<1> DEFINE t(stage) == [v EXCEPT !.stage = stage,
                                 !.standalone_question = question,
                                 !.outcome = outcome,
                                 !.terminal_reason = reason]
<1>1. ASSUME NEW stage \in Stages PROVE t(stage) \in Works
  <2>1. /\ question \in Questions \cup {Null}
        /\ outcome \in Outcomes \cup {Null}
        /\ reason \in Reasons \cup {Null}
    OBVIOUS
  <2> QED
    BY <1>1, <2>1 DEF Works
<1>2. {"authorizing", "terminal"} \subseteq Stages
  BY DEF Stages
<1>3. CASE v.authorization_snapshot # Null
  <2>1. TerminalWork(v, question, outcome, reason) = t("authorizing")
    BY <1>3 DEF TerminalWork
  <2> HIDE DEF t
  <2> QED
    BY <1>1, <1>2, <2>1
<1>4. CASE v.authorization_snapshot = Null
  <2>1. TerminalWork(v, question, outcome, reason) = t("terminal")
    BY <1>4 DEF TerminalWork
  <2> HIDE DEF t
  <2> QED
    BY <1>1, <1>2, <2>1
<1> QED
  BY <1>3, <1>4

\* A summary refused or failed.
LEMMA CompactionFailureUpdates ==
  ASSUME MInv, CompactionRefused \/ CompactionAttemptFails
  PROVE  InProgress(work) /\ \E w \in Works, n \in Nodes : Updates(w, n)
<1>1. Proceeds("compact_context")
  BY DEF CompactionRefused, CompactionAttemptFails, CompactionAllowed
<1>2. /\ work \in Works /\ InProgress(work) /\ WorkAccepted(work)
      /\ work.authorization_snapshot # Null /\ work.cited_answer = Null
      /\ work.model_calls \in Nat /\ calls \in Nat
  BY <1>1, AuthorizedNodeFinds DEF MInv
<1>3. work.pre_compaction_thread = Null
  BY <1>1, <1>2 DEF MInv, Uncompacted, UncompactedNodes, Proceeds, AtNode
<1>4. "own" \in Questions /\ "failed" \in Outcomes
      /\ {"context_compaction_failed", "other"} \subseteq Reasons
      /\ Null \notin Reasons
  BY NullDistinct DEF Questions, Outcomes, Reasons
<1>5. CASE CompactionRefused
  <2>1. PICK reason \in {"context_compaction_failed", "other"} :
          Checkpoint(TerminalWork(work, "own", "failed", reason),
                     thread, "authorize_and_commit_turn")
    BY <1>5 DEF CompactionRefused
  <2> DEFINE w == TerminalWork(work, "own", "failed", reason)
  <2>2. w \in Works
    BY <1>2, <1>4, TerminalWorkAccepted DEF WorkAccepted
  <2>3. w.model_calls = work.model_calls
        /\ w.pre_compaction_thread = work.pre_compaction_thread
    BY <1>2 DEF TerminalWork, Works
  <2>4. calls' = calls
    BY <1>2, <1>5 DEF CompactionRefused, Charge
  <2> HIDE DEF w
  <2>5. calls' + work.model_calls <= calls + w.model_calls
    BY <1>2, <2>3, <2>4
  <2> QED
    BY <1>2, <1>3, <2>1, <2>2, <2>3, <2>5 DEF Updates, Nodes, w
<1>6. CASE CompactionAttemptFails
  <2> DEFINE a == [work EXCEPT !.stage = "compacting",
                               !.model_calls = @ + 1,
                               !.compaction_attempts = @ + 1]
             t == TerminalWork(a, "own", "failed", "context_compaction_failed")
  <2>1. \/ Checkpoint(a, thread, "compact_context")
        \/ Checkpoint(t, thread, "authorize_and_commit_turn")
    BY <1>6 DEF CompactionAttemptFails
  <2>2. PICK made \in 0..1 : calls' = calls + made
    BY <1>6 DEF CompactionAttemptFails, Charge
  <2>3. /\ work.model_calls + 1 \in 0..10
        /\ work.compaction_attempts + 1 \in 0..2
    BY <1>1, <1>2, <1>6, BudgetAssumption
       DEF CompactionAttemptFails, CompactionAllowed, SummaryRetryLimit, Works
  <2>4. a \in Works
    <3>1. work \in Works /\ "compacting" \in Stages
      BY <1>2 DEF Stages
    <3> QED
      BY <2>3, <3>1 DEF Works
  <2>5. /\ a.model_calls = work.model_calls + 1
        /\ a.pre_compaction_thread = work.pre_compaction_thread
    BY <1>2 DEF Works
  <2> HIDE DEF a
  <2>6. t = [a EXCEPT !.stage = IF a.authorization_snapshot # Null
                                THEN "authorizing" ELSE "terminal",
                      !.standalone_question = "own",
                      !.outcome = "failed",
                      !.terminal_reason = "context_compaction_failed"]
    BY DEF TerminalWork
  <2>7. t \in Works
    BY <1>4, <2>4, TerminalWorkType
  <2>8. /\ t.model_calls = a.model_calls
        /\ t.pre_compaction_thread = a.pre_compaction_thread
    BY <2>4, <2>6 DEF Works
  <2> HIDE DEF t
  <2>9. /\ calls' + work.model_calls <= calls + a.model_calls
        /\ calls' + work.model_calls <= calls + t.model_calls
    BY <1>2, <2>2, <2>5, <2>8
  <2> QED
    BY <1>2, <1>3, <2>1, <2>4, <2>5, <2>7, <2>8, <2>9 DEF Updates, Nodes
<1> QED
  BY <1>5, <1>6

\* A rewrite, its refusal or its failure; a refusal is none of Refusals.
LEMMA ContextualizeUpdates ==
  ASSUME MInv,
         \/ ContextualizeFirstTurn \/ ContextualizationRefused
         \/ RewriteFails \/ ClarificationRequested \/ ContextualizeTurn
  PROVE  InProgress(work) /\ \E w \in Works, n \in Nodes : Updates(w, n)
<1>1. Proceeds("contextualize_turn")
  BY DEF ContextualizeFirstTurn, ContextualizationRefused, RewriteFails,
         ClarificationRequested, ContextualizeTurn, RewriteAllowed
<1>2. /\ work \in Works /\ InProgress(work) /\ WorkAccepted(work)
      /\ work.authorization_snapshot # Null /\ work.cited_answer = Null
      /\ work.model_calls \in Nat /\ calls \in Nat
      /\ work.terminal_reason = Null
  BY <1>1, AuthorizedNodeFinds DEF MInv
<1>3. {"own", "derived"} \subseteq Questions
      /\ {"failed", "declined"} \subseteq Outcomes
      /\ "other" \in Reasons /\ Null \notin Reasons
  BY NullDistinct DEF Questions, Outcomes, Reasons
<1>4. ASSUME NEW w \in Works, NEW n \in {"run_research_subgraph",
                                          "authorize_and_commit_turn"},
             Checkpoint(w, thread, n),
             w.pre_compaction_thread = work.pre_compaction_thread,
             w.terminal_reason \in {Null, "other"},
             work.model_calls <= w.model_calls,
             calls' + work.model_calls <= calls + w.model_calls
      PROVE  \E v \in Works, m \in Nodes : Updates(v, m)
  BY <1>4, NoRefusal DEF Updates, Nodes, UncompactedNodes
<1>5. ASSUME NEW v \in Works, v.authorization_snapshot # Null,
             v.cited_answer = Null, NEW question \in Questions,
             NEW outcome \in {"declined", "failed"}
      PROVE  LET t == TerminalWork(v, question, outcome, "other")
             IN /\ t \in Works
                /\ t.model_calls = v.model_calls
                /\ t.pre_compaction_thread = v.pre_compaction_thread
                /\ t.terminal_reason = "other"
  <2> DEFINE t == TerminalWork(v, question, outcome, "other")
  <2>1. t = [v EXCEPT !.stage = "authorizing",
                      !.standalone_question = question,
                      !.outcome = outcome,
                      !.terminal_reason = "other"]
    BY <1>5 DEF TerminalWork
  <2>2. /\ "authorizing" \in Stages
        /\ outcome \in Outcomes \cup {Null}
        /\ "other" \in Reasons \cup {Null}
        /\ question \in Questions \cup {Null}
    BY <1>3 DEF Stages
  <2> HIDE DEF t
  <2>3. t \in Works
    BY <2>1, <2>2 DEF Works
  <2>4. /\ t.model_calls = v.model_calls
        /\ t.pre_compaction_thread = v.pre_compaction_thread
        /\ t.terminal_reason = "other"
    BY <2>1 DEF Works
  <2> QED
    BY <2>3, <2>4 DEF t
<1>6. CASE ContextualizeFirstTurn
  <2> DEFINE w == [work EXCEPT !.stage = "researching",
                               !.standalone_question = "own"]
  <2>1. Checkpoint(w, thread, "run_research_subgraph") /\ calls' = calls
    BY <1>2, <1>6 DEF ContextualizeFirstTurn, Charge
  <2>2. w \in Works
    BY <1>2, <1>3 DEF Works, Stages
  <2>3. /\ w.model_calls = work.model_calls
        /\ w.pre_compaction_thread = work.pre_compaction_thread
        /\ w.terminal_reason = work.terminal_reason
    BY <1>2 DEF Works
  <2> HIDE DEF w
  <2>4. /\ work.model_calls <= w.model_calls
        /\ calls' + work.model_calls <= calls + w.model_calls
    BY <1>2, <2>1, <2>3
  <2> QED
    BY <1>2, <1>4, <2>1, <2>2, <2>3, <2>4
<1>7. CASE ContextualizationRefused
  <2> DEFINE w == TerminalWork(work, "own", "failed", "other")
  <2>1. Checkpoint(w, thread, "authorize_and_commit_turn") /\ calls' = calls
    BY <1>2, <1>7 DEF ContextualizationRefused, Charge
  <2>2. /\ w \in Works
        /\ w.model_calls = work.model_calls
        /\ w.pre_compaction_thread = work.pre_compaction_thread
        /\ w.terminal_reason = "other"
    BY <1>2, <1>3, <1>5
  <2> HIDE DEF w
  <2>3. /\ work.model_calls <= w.model_calls
        /\ calls' + work.model_calls <= calls + w.model_calls
    BY <1>2, <2>1, <2>2
  <2> QED
    BY <1>2, <1>4, <2>1, <2>2, <2>3
<1>8. CASE RewriteFails \/ ClarificationRequested \/ ContextualizeTurn
  <2> DEFINE c == ChargedRewrite
             w == [c EXCEPT !.stage = "researching",
                            !.standalone_question = "derived"]
  <2>1. RewriteAllowed
    BY <1>8 DEF RewriteFails, ClarificationRequested, ContextualizeTurn
  <2> HIDE DEF c
  <2>2. /\ c \in Works
        /\ c.model_calls = work.model_calls + 1
        /\ c.authorization_snapshot # Null
        /\ c.cited_answer = Null
        /\ c.terminal_reason = Null
    BY <2>1, ChargedRewriteFacts DEF MInv, c
  <2>3. c.pre_compaction_thread = work.pre_compaction_thread
    BY <1>2 DEF ChargedRewrite, Works, c
  <2>4. /\ work.model_calls <= c.model_calls
        /\ calls' + work.model_calls <= calls + c.model_calls
    BY <1>2, <1>8, <2>2
       DEF RewriteFails, ClarificationRequested, ContextualizeTurn, Charge
  <2>5. CASE ContextualizeTurn
    <3>1. Checkpoint(w, thread, "run_research_subgraph")
      BY <2>5 DEF ContextualizeTurn, c
    <3>2. w \in Works
      BY <1>3, <2>2 DEF Works, Stages
    <3>3. /\ w.model_calls = c.model_calls
          /\ w.pre_compaction_thread = c.pre_compaction_thread
          /\ w.terminal_reason = c.terminal_reason
      BY <2>2 DEF Works
    <3> HIDE DEF w
    <3> QED
      BY <1>2, <1>4, <2>2, <2>3, <2>4, <3>1, <3>2, <3>3
  <2>6. CASE RewriteFails \/ ClarificationRequested
    <3>1. PICK question \in Questions, outcome \in {"declined", "failed"} :
            Checkpoint(TerminalWork(c, question, outcome, "other"),
                       thread, "authorize_and_commit_turn")
      BY <1>3, <2>6 DEF RewriteFails, ClarificationRequested, c
    <3> DEFINE t == TerminalWork(c, question, outcome, "other")
    <3>2. /\ t \in Works
          /\ t.model_calls = c.model_calls
          /\ t.pre_compaction_thread = c.pre_compaction_thread
          /\ t.terminal_reason = "other"
      BY <1>5, <2>2
    <3> HIDE DEF t
    <3> QED
      BY <1>2, <1>4, <2>3, <2>4, <3>1, <3>2 DEF t
  <2> QED
    BY <1>8, <2>5, <2>6
<1> QED
  BY <1>6, <1>7, <1>8

\* Research, with or without Evidence, or raising.
LEMMA ResearchUpdates ==
  ASSUME MInv, EvidenceReady \/ ResearchConcludes
  PROVE  InProgress(work) /\ \E w \in Works, n \in Nodes : Updates(w, n)
<1>1. Proceeds("run_research_subgraph")
  BY DEF EvidenceReady, ResearchConcludes
<1>2. /\ work \in Works /\ InProgress(work)
      /\ work.model_calls \in Nat /\ calls \in Nat
      /\ work.terminal_reason = Null
  BY <1>1, SubgraphNodeFinds DEF MInv
<1>3. CASE EvidenceReady
  <2>1. PICK c \in ResearchCharges, evidence \in (SUBSET scope) \ {{}} :
          /\ Checkpoint([Researched(c) EXCEPT !.stage = "answering",
                                              !.evidence_set = evidence],
                        thread, "run_answer_subgraph")
          /\ calls' = calls + (c.model_calls - work.model_calls)
    BY <1>3 DEF EvidenceReady, Charge
  <2> DEFINE r == Researched(c)
             w == [r EXCEPT !.stage = "answering", !.evidence_set = evidence]
  <2>2. Checkpoint(w, thread, "run_answer_subgraph")
    BY <2>1
  <2>3. evidence \in SUBSET Docs
    BY DEF MInv, IInv, TypeOK
  <2> HIDE DEF r
  <2>4. /\ r \in Works
        /\ r.model_calls = c.model_calls
        /\ r.model_calls \in Nat
        /\ r.pre_compaction_thread = work.pre_compaction_thread
        /\ r.terminal_reason = Null
    BY <1>1, <1>2, ResearchedFacts DEF MInv, r
  <2>5. w \in Works
    <3>1. "answering" \in Stages
      BY DEF Stages
    <3>2. evidence \in {Null} \cup SUBSET Docs
      BY <2>3
    <3>3. r \in Works
      BY <2>4
    <3> QED
      BY <3>1, <3>2, <3>3 DEF Works
  <2>6. /\ w.model_calls = c.model_calls
        /\ w.pre_compaction_thread = work.pre_compaction_thread
        /\ w.terminal_reason = Null
    BY <2>4 DEF Works
  <2> HIDE DEF w
  <2>7. /\ work.model_calls <= w.model_calls
        /\ calls' + work.model_calls <= calls + w.model_calls
    BY <1>2, <2>1, <2>4, <2>6 DEF ResearchCharges
  <2> QED
    BY <1>2, <2>2, <2>5, <2>6, <2>7, NoRefusal
       DEF Updates, Nodes, UncompactedNodes
<1>4. CASE ResearchConcludes
  <2>1. PICK c \in ResearchCharges, outcome \in Outcomes :
          /\ Checkpoint([Researched(c) EXCEPT
                           !.stage = "authorizing",
                           !.outcome = outcome,
                           !.terminal_reason =
                             IF outcome = "answered" THEN Null ELSE "other"],
                        thread, "authorize_and_commit_turn")
          /\ calls' = calls + (c.model_calls - work.model_calls)
    BY <1>4 DEF ResearchConcludes, Charge
  <2> DEFINE r == Researched(c)
             reason == IF outcome = "answered" THEN Null ELSE "other"
             w == [r EXCEPT !.stage = "authorizing", !.outcome = outcome,
                            !.terminal_reason = reason]
  <2>2. Checkpoint(w, thread, "authorize_and_commit_turn")
    BY <2>1
  <2>3. reason \in Reasons \cup {Null} /\ reason \notin Refusals
    BY NoRefusal DEF Reasons
  <2> HIDE DEF r, reason
  <2>4. /\ r \in Works
        /\ r.model_calls = c.model_calls
        /\ r.model_calls \in Nat
        /\ r.pre_compaction_thread = work.pre_compaction_thread
    BY <1>1, <1>2, ResearchedFacts DEF MInv, r
  <2>5. w \in Works
    <3>1. "authorizing" \in Stages /\ outcome \in Outcomes \cup {Null}
      BY <2>1 DEF Stages
    <3> QED
      BY <2>3, <2>4, <3>1 DEF Works
  <2>6. /\ w.model_calls = c.model_calls
        /\ w.pre_compaction_thread = work.pre_compaction_thread
        /\ w.terminal_reason = reason
    BY <2>4 DEF Works
  <2> HIDE DEF w
  <2>7. /\ work.model_calls <= w.model_calls
        /\ calls' + work.model_calls <= calls + w.model_calls
    BY <1>2, <2>1, <2>4, <2>6 DEF ResearchCharges
  <2> QED
    BY <1>2, <2>2, <2>3, <2>5, <2>6, <2>7 DEF Updates, Nodes, UncompactedNodes
<1> QED
  BY <1>3, <1>4

\* A subgraph that raises loses charges, no memory.
LEMMA SubgraphRaisesUpdates ==
  ASSUME MInv, SubgraphRaises
  PROVE  InProgress(work) /\ \E w \in Works, n \in Nodes : Updates(w, n)
<1> DEFINE w == AuthorizingFailure(work)
<1>1. PICK n \in {"run_research_subgraph", "run_answer_subgraph"} : Proceeds(n)
  BY DEF SubgraphRaises
<1>2. Checkpoint(w, thread, "authorize_and_commit_turn")
  BY DEF SubgraphRaises
<1>3. /\ work \in Works /\ InProgress(work) /\ WorkAccepted(work)
      /\ work.stage \in {"researching", "answering"}
  BY <1>1, SubgraphNodeFinds DEF MInv
<1>4. w \in Works
  BY <1>3, AuthorizingFailureAccepted DEF WorkAccepted
<1>5. /\ w.pre_compaction_thread = work.pre_compaction_thread
      /\ w.terminal_reason = "other"
      /\ work.model_calls <= w.model_calls
  BY <1>3 DEF AuthorizingFailure, Works
<1> QED
  BY <1>2, <1>3, <1>4, <1>5, NoRefusal DEF Updates, Nodes, UncompactedNodes

\* What the node checkpoints of an answer, released or withheld.
LEMMA AnswerCheckpoint ==
  ASSUME AnswerReleased \/ AnswerWithheld, work.model_calls \in Nat
  PROVE  \E total \in work.model_calls..ModelCallLimit,
            repairs \in work.answer_repairs..1,
            cited \in SUBSET work.evidence_set,
            outcome \in Outcomes, reason \in {"other", Null} :
           /\ Checkpoint([work EXCEPT !.stage = "authorizing",
                                      !.model_calls = total,
                                      !.answer_repairs = repairs,
                                      !.cited_answer = cited,
                                      !.outcome = outcome,
                                      !.terminal_reason = reason],
                         thread, "authorize_and_commit_turn")
           /\ calls' = calls + (total - work.model_calls)
<1>1. {"failed", "answered", "declined"} \subseteq Outcomes
  BY DEF Outcomes
<1>2. CASE AnswerReleased
  <2>1. PICK total \in (work.model_calls + 2)..ModelCallLimit,
             repairs \in work.answer_repairs..1,
             cited \in SUBSET work.evidence_set :
          /\ Checkpoint([work EXCEPT !.stage = "authorizing",
                                     !.model_calls = total,
                                     !.answer_repairs = repairs,
                                     !.cited_answer = cited,
                                     !.outcome = IF cited = {} THEN "declined"
                                                 ELSE "answered",
                                     !.terminal_reason =
                                       IF cited = {} THEN "other" ELSE Null],
                        thread, "authorize_and_commit_turn")
          /\ calls' = calls + (total - work.model_calls)
    BY <1>2 DEF AnswerReleased, Charge
  <2>2. total \in work.model_calls..ModelCallLimit
    OBVIOUS
  <2> QED
    BY <1>1, <2>1, <2>2
<1>3. CASE AnswerWithheld
  <2>1. PICK total \in work.model_calls..ModelCallLimit,
             repairs \in work.answer_repairs..1 :
          /\ Checkpoint([work EXCEPT !.stage = "authorizing",
                                     !.model_calls = total,
                                     !.answer_repairs = repairs,
                                     !.cited_answer = {},
                                     !.outcome = "failed",
                                     !.terminal_reason = "other"],
                        thread, "authorize_and_commit_turn")
          /\ calls' = calls + (total - work.model_calls)
    BY <1>3 DEF AnswerWithheld, Charge
  <2>2. {} \in SUBSET work.evidence_set
    OBVIOUS
  <2> QED
    BY <1>1, <2>1, <2>2
<1> QED
  BY <1>2, <1>3

\* An answer released or withheld.
LEMMA AnswerUpdates ==
  ASSUME MInv, AnswerReleased \/ AnswerWithheld
  PROVE  InProgress(work) /\ \E w \in Works, n \in Nodes : Updates(w, n)
<1>1. Proceeds("run_answer_subgraph")
  BY DEF AnswerReleased, AnswerWithheld
<1>2. /\ work \in Works /\ InProgress(work) /\ WorkAccepted(work)
      /\ work.stage = "answering"
      /\ work.model_calls \in Nat /\ calls \in Nat
  BY <1>1, SubgraphNodeFinds DEF MInv
<1>3. work.evidence_set \in SUBSET Docs
  BY <1>2 DEF WorkAccepted, Works
<1>4. PICK total \in work.model_calls..ModelCallLimit,
           repairs \in work.answer_repairs..1,
           cited \in SUBSET work.evidence_set,
           outcome \in Outcomes, reason \in {"other", Null} :
        /\ Checkpoint([work EXCEPT !.stage = "authorizing",
                                   !.model_calls = total,
                                   !.answer_repairs = repairs,
                                   !.cited_answer = cited,
                                   !.outcome = outcome,
                                   !.terminal_reason = reason],
                      thread, "authorize_and_commit_turn")
        /\ calls' = calls + (total - work.model_calls)
  BY <1>2, AnswerCheckpoint
<1> DEFINE w == [work EXCEPT !.stage = "authorizing",
                             !.model_calls = total,
                             !.answer_repairs = repairs,
                             !.cited_answer = cited,
                             !.outcome = outcome,
                             !.terminal_reason = reason]
<1>5. /\ total \in 0..10 /\ repairs \in 0..1 /\ cited \in SUBSET Docs
      /\ reason \in Reasons \cup {Null} /\ reason \notin Refusals
  BY <1>2, <1>3, BudgetAssumption, NoRefusal DEF Works, Reasons
<1>6. w \in Works
  BY <1>2, <1>5 DEF Works, Stages
<1>7. /\ w.model_calls = total
      /\ w.pre_compaction_thread = work.pre_compaction_thread
      /\ w.terminal_reason = reason
  BY <1>2 DEF Works
<1>8. Checkpoint(w, thread, "authorize_and_commit_turn")
  BY <1>4
<1> HIDE DEF w
<1>9. calls' + work.model_calls <= calls + w.model_calls
  BY <1>2, <1>4, <1>5, <1>7
<1> QED
  BY <1>2, <1>5, <1>6, <1>7, <1>8, <1>9 DEF Updates, Nodes, UncompactedNodes

-----------------------------------------------------------------------------
(* Nodes that compact, roll back or commit. *)

\* A compaction keeps the history, and the thread it came from for a rollback.
LEMMA CompactContextKeeps ==
  ASSUME MInv, IInv', CompactContext
  PROVE  /\ InProgress(work)
         /\ MInv'
         /\ History(thread') = History(thread)
         /\ thread'.active_turn_id = thread.active_turn_id
         /\ calls' = calls + 1 /\ work'.model_calls = work.model_calls + 1
<1>1. /\ Proceeds("compact_context") /\ thread.turn_records # <<>>
  BY DEF CompactContext, CompactionAllowed
<1>2. /\ work \in Works /\ InProgress(work) /\ calls \in Nat
      /\ work.terminal_reason = Null
  BY <1>1, AuthorizedNodeFinds DEF MInv
<1>3. work.pre_compaction_thread = Null
  BY <1>1, <1>2 DEF MInv, Uncompacted, UncompactedNodes, Proceeds, AtNode
<1> DEFINE k == CompactionPrefix(thread)
           previous == IF work.pre_compaction_thread = Null
                       THEN Retained(thread) ELSE work.pre_compaction_thread
           w == [work EXCEPT !.stage = "authorized",
                             !.model_calls = @ + 1,
                             !.compaction_attempts = @ + 1,
                             !.pre_compaction_thread = previous]
           c(d) == Compacted(thread, k, d)
<1>4. PICK d \in SUBSET AuthorizedDependencies(thread, k) :
        Checkpoint(w, c(d), "contextualize_turn")
  BY DEF CompactContext
<1>5. calls' = calls + 1
  BY <1>2 DEF CompactContext, Charge
<1>6. thread \in ThreadStates /\ k \in 1..Len(thread.turn_records)
  BY <1>1, PrefixRange DEF MInv, IInv, TypeOK
<1>7. d \in SUBSET Docs
  BY DependenciesInScope DEF MInv, IInv, TypeOK
<1>8. /\ History(c(d)) = History(thread)
      /\ c(d).active_turn_id = thread.active_turn_id
  <2> HIDE DEF k
  <2> QED
    BY <1>6, <1>7, CompactedHistory
<1>9. /\ w.model_calls = work.model_calls + 1
      /\ w.pre_compaction_thread = previous
      /\ w.terminal_reason = Null
  BY <1>2 DEF Works
<1> HIDE DEF w, c
<1>10. /\ work' = w /\ thread' = Checkpointed(c(d), w)
       /\ next' = "contextualize_turn" /\ base' = base
  BY <1>4 DEF Checkpoint
<1>11. /\ History(thread') = History(c(d))
       /\ thread'.active_turn_id = c(d).active_turn_id
  <2>1. c(d) = [thread EXCEPT !.summary = c(d).summary,
                              !.turn_records = c(d).turn_records]
    BY <1>6 DEF c, Compacted, ThreadStates, ThreadsOver
  <2>2. SameMemory(thread', c(d))
        /\ thread'.active_turn_id = c(d).active_turn_id
    BY <1>6, <1>10, <2>1 DEF Checkpointed, SameMemory, ThreadStates, ThreadsOver
  <2> QED
    BY <2>2, SameHistory
<1>12. SameMemory(RollbackThread(w, thread'), base)
  <2>1. SameMemory(thread, base) /\ previous = Retained(thread)
    BY <1>2, <1>3 DEF MInv, MemoryKept, RollbackThread
  <2>2. SameMemory(previous, thread)
    <3>1. /\ Retained(thread).summary = thread.summary
          /\ Retained(thread).turn_records = thread.turn_records
      BY <1>6 DEF Retained, ThreadStates, ThreadsOver
    <3> QED
      BY <2>1, <3>1 DEF SameMemory
  <2>3. previous # Null
    BY <1>6, <2>1, RetainedType, NullDistinct
  <2> HIDE DEF previous
  <2> QED
    BY <1>9, <2>1, <2>2, <2>3 DEF RollbackThread, SameMemory
<1>13. MemoryKept'
  BY <1>2, <1>8, <1>10, <1>11, <1>12 DEF MInv, MemoryKept
<1>14. Uncompacted'
  BY <1>9, <1>10, NoRefusal DEF Uncompacted, UncompactedNodes
<1> QED
  BY <1>2, <1>5, <1>8, <1>9, <1>10, <1>11, <1>13, <1>14 DEF MInv

\* What the gate finds; the memory it may restore is that of the beginning.
LEMMA GateFinds ==
  ASSUME MInv, Proceeds("authorize_and_commit_turn")
  PROVE  /\ work \in Works /\ InProgress(work) /\ WorkAccepted(work)
         /\ ResultStage(work)
         /\ OwnThread(thread, work.turn_id)
         /\ OwnThread(RollbackThread(work, thread), work.turn_id)
         /\ SameMemory(RollbackThread(work, thread), base)
         /\ History(RollbackThread(work, thread)) = History(thread)
<1>1. /\ WorkAccepted(work) /\ InProgress(work) /\ work \in Works
      /\ ResultStage(work)
      /\ OwnThread(thread, work.turn_id)
      /\ OwnThread(RollbackThread(work, thread), work.turn_id)
  BY NodeFinds, RollbackThreadOwned
     DEF MInv, Nodes, WorkAccepted, StagesAt, ResultStage
<1>2. /\ SameMemory(RollbackThread(work, thread), base)
      /\ History(thread) = History(base)
  BY <1>1 DEF MInv, MemoryKept
<1> QED
  BY <1>1, <1>2, SameHistory

\* The restart rolls a compaction back and keeps its charges.
LEMMA GateRestartsKeeps ==
  ASSUME MInv, IInv', GateRestarts
  PROVE  /\ InProgress(work)
         /\ MInv'
         /\ History(thread') = History(thread)
         /\ thread'.active_turn_id = thread.active_turn_id
         /\ calls' = calls /\ work'.model_calls = work.model_calls
<1> DEFINE w == Restarted(work)
           th == RollbackThread(work, thread)
<1>1. /\ Proceeds("authorize_and_commit_turn")
      /\ Checkpoint(w, th, "prepare_turn")
  BY DEF GateRestarts
<1>2. /\ work \in Works /\ InProgress(work)
      /\ OwnThread(thread, work.turn_id) /\ OwnThread(th, work.turn_id)
      /\ SameMemory(th, base) /\ History(th) = History(thread)
  BY <1>1, GateFinds
<1>3. calls' = calls
  BY DEF GateRestarts, Charge, MInv, IInv, TypeOK
<1>4. /\ w.pre_compaction_thread = Null
      /\ w.model_calls = work.model_calls
  BY <1>2 DEF Restarted, Works
<1> HIDE DEF w, th
<1>5. /\ work' = w /\ thread' = Checkpointed(th, w)
      /\ next' = "prepare_turn" /\ base' = base
  BY <1>1 DEF Checkpoint
<1>6. /\ SameMemory(thread', th)
      /\ thread'.active_turn_id = th.active_turn_id
  BY <1>2, <1>5 DEF OwnThread, Checkpointed, SameMemory, ThreadStates, ThreadsOver
<1>7. History(thread') = History(thread) /\ SameMemory(thread', base)
  BY <1>2, <1>6, SameHistory DEF SameMemory
<1>8. MemoryKept'
  BY <1>2, <1>4, <1>5, <1>7 DEF MInv, MemoryKept, RollbackThread
<1>9. Uncompacted'
  BY <1>4, <1>5 DEF Uncompacted
<1> QED
  BY <1>2, <1>3, <1>4, <1>5, <1>6, <1>7, <1>8, <1>9 DEF MInv, OwnThread

\* A commit of the Turn's record to its thread, or to the one kept for a
\* rollback, appends it to the history.
LEMMA CommitAppends ==
  ASSUME MInv, IInv', NEW th, OwnThread(th, work.turn_id),
         OwnThread(thread, work.turn_id), History(th) = History(thread),
         NEW r \in TurnRecords, r.turn_id = work.turn_id, Commit(th, r)
  PROVE  /\ MInv'
         /\ Log!Commit(r)
         /\ thread'.summary = th.summary
         /\ thread'.turn_records = Append(th.turn_records, r)
         /\ LastRecord(thread') = r
         /\ work' = Null
<1>1. thread' = Committed(th, r) /\ work' = Null
  BY DEF Commit
<1>2. th \in ThreadStates /\ r.turn_id \notin IdsOf(th.turn_records)
  BY DEF OwnThread
<1>3. /\ thread'.summary = th.summary
      /\ thread'.turn_records = Append(th.turn_records, r)
      /\ thread'.active_turn_id = Null
      /\ LastRecord(thread') = r
      /\ History(thread') = Append(History(thread), r)
  BY <1>1, <1>2, CommittedHistory
<1>4. thread.active_turn_id = r.turn_id /\ r.turn_id # Null
  BY NullDistinct DEF OwnThread, TurnRecords
<1>5. Log!Commit(r)
  BY <1>3, <1>4 DEF Log!Commit
<1>6. MemoryKept' /\ Uncompacted'
  BY <1>1 DEF MemoryKept, Uncompacted, InProgress
<1> QED
  BY <1>1, <1>3, <1>5, <1>6 DEF MInv

-----------------------------------------------------------------------------
(* What a step may do to the log. *)

Refused ==
  \/ LastRecord(thread)'.terminal_reason \in Refusals
  \/ work.authorization_snapshot = Null
  \/ work.authorization_snapshot.revision # scope

MemoryRestored ==
  /\ thread'.summary = base.summary
  /\ thread'.turn_records = Append(base.turn_records, LastRecord(thread'))

LogKept == /\ History(thread') = History(thread)
           /\ thread'.active_turn_id = thread.active_turn_id

Begins == \E t \in TurnIds : Log!Begin(t)

CommitsOrRestores ==
  /\ \E r \in TurnRecords : Log!Commit(r)
  /\ Refused => MemoryRestored

\* A commit to a thread with the memory of the beginning restores that memory.
LEMMA CommitRestores ==
  ASSUME MInv, IInv', NEW th, OwnThread(th, work.turn_id),
         OwnThread(thread, work.turn_id), History(th) = History(thread),
         NEW r \in TurnRecords, r.turn_id = work.turn_id, Commit(th, r),
         r.terminal_reason \in Refusals => SameMemory(th, base),
         \/ SameMemory(th, base)
         \/ /\ work.authorization_snapshot # Null
            /\ work.authorization_snapshot.revision = scope
  PROVE  MInv' /\ CommitsOrRestores /\ work' = Null
<1>1. /\ MInv' /\ Log!Commit(r) /\ work' = Null
      /\ thread'.summary = th.summary
      /\ thread'.turn_records = Append(th.turn_records, r)
      /\ LastRecord(thread') = r
  BY CommitAppends
<1>2. LastRecord(thread)' = r
  BY <1>1 DEF LastRecord
<1>3. SameMemory(th, base) => MemoryRestored
  BY <1>1 DEF SameMemory, MemoryRestored
<1>4. Refused => SameMemory(th, base)
  BY <1>2 DEF Refused
<1> QED
  BY <1>1, <1>3, <1>4 DEF CommitsOrRestores

\* The gate commits what the Turn made only when its scope never moved; every
\* other commit is to the memory the Turn found.
LEMMA GateEnds ==
  ASSUME MInv, IInv', GateUnavailable \/ GateFails \/ GateCommits
  PROVE  MInv' /\ CommitsOrRestores /\ work' = Null
<1> DEFINE th == RollbackThread(work, thread)
<1>1. Proceeds("authorize_and_commit_turn")
  BY DEF GateUnavailable, GateFails, GateCommits
<1>2. /\ work \in Works /\ WorkAccepted(work) /\ InProgress(work)
      /\ ResultStage(work)
      /\ OwnThread(thread, work.turn_id) /\ OwnThread(th, work.turn_id)
      /\ SameMemory(th, base) /\ History(th) = History(thread)
  BY <1>1, GateFinds
<1>3. ASSUME NEW reason \in Reasons, Commit(th, FailureRecord(work, reason))
      PROVE  MInv' /\ CommitsOrRestores /\ work' = Null
  <2> DEFINE r == FailureRecord(work, reason)
  <2>1. r \in TurnRecords /\ r.turn_id = work.turn_id
    BY <1>2, FailureRecordType
  <2>2. Commit(th, r)
    BY <1>3
  <2> HIDE DEF r, th
  <2> QED
    BY <1>2, <2>1, <2>2, CommitRestores
<1>4. {"authorization_unavailable", "authorization_context_mismatch",
       "authorization_changed_twice", "citation_dependency_mismatch"}
        \subseteq Reasons
  BY DEF Reasons
<1>5. CASE GateUnavailable
  BY <1>3, <1>4, <1>5 DEF GateUnavailable
<1>6. CASE GateFails
  BY <1>3, <1>4, <1>6 DEF GateFails
<1>7. CASE GateCommits
  <2> DEFINE r == IF CitationsMatch(work)
                  THEN ResultRecord(work)
                  ELSE FailureRecord(work, "citation_dependency_mismatch")
  <2>1. Transition = "commit" /\ Commit(thread, r)
    BY <1>7 DEF GateCommits
  <2>2. r \in TurnRecords /\ r.turn_id = work.turn_id
    BY <1>2, <1>4, FailureRecordType, ResultRecordType
  <2>3. /\ work.authorization_snapshot # Null
        /\ work.authorization_snapshot.revision = scope
    <3>1. work.authorization_snapshot = Latest
      BY <2>1 DEF Transition, AuthorizationTransition
    <3>2. Latest \in Snapshots
      BY DEF MInv, IInv, TypeOK, Latest, Snapshots
    <3> QED
      BY <3>1, <3>2, NullDistinct DEF Latest
  <2>4. r.terminal_reason \in Refusals => SameMemory(thread, base)
    <3>1. \/ r.terminal_reason = work.terminal_reason
          \/ r.terminal_reason = "citation_dependency_mismatch"
      BY DEF ResultRecord, FailureRecord
    <3>2. work.terminal_reason \in Refusals =>
            work.pre_compaction_thread = Null
      BY <1>2 DEF MInv, Uncompacted
    <3> QED
      BY <1>2, <3>1, <3>2 DEF Refusals, RollbackThread
  <2> HIDE DEF r
  <2> QED
    BY <1>2, <2>1, <2>2, <2>3, <2>4, CommitRestores
<1> QED
  BY <1>5, <1>6, <1>7

\* Terminal work without a snapshot never compacted anything.
LEMMA CompleteTurnEnds ==
  ASSUME MInv, IInv', CompleteTurn
  PROVE  MInv' /\ CommitsOrRestores /\ work' = Null
<1> DEFINE r == [ResultRecord(work) EXCEPT !.citation_dependencies = {}]
<1>1. Proceeds("complete_turn") /\ Commit(thread, r)
  BY DEF CompleteTurn
<1>2. /\ WorkAccepted(work) /\ InProgress(work) /\ ResultStage(work)
      /\ OwnThread(thread, work.turn_id)
  BY <1>1, NodeFinds DEF MInv, Nodes, StagesAt, ResultStage
<1>3. r \in TurnRecords /\ r.turn_id = work.turn_id
  BY <1>2, ResultRecordType DEF ResultRecord
<1>4. SameMemory(thread, base)
  <2>1. work.pre_compaction_thread = Null
    BY <1>1, <1>2 DEF MInv, Uncompacted, UncompactedNodes, Proceeds, AtNode
  <2> QED
    BY <1>2, <2>1 DEF MInv, MemoryKept, RollbackThread
<1> HIDE DEF r
<1> QED
  BY <1>1, <1>2, <1>3, <1>4, CommitRestores

\* prepare_turn begins a Turn on an idle thread and changes no memory.
LEMMA PrepareTurnKeeps ==
  ASSUME MInv, IInv', PrepareTurn
  PROVE  /\ MInv'
         /\ LogKept \/ Begins
         /\ \/ work' = Null
            \/ thread.active_turn_id = Null
            \/ InProgress(work) /\ work' = work /\ calls' = calls
<1>1. /\ next = "prepare_turn" /\ PrepareError = "none"
      /\ thread \in ThreadStates /\ caller \in Principals
  BY DEF PrepareTurn, Proceeds, AtNode, NodeError, MInv, IInv, TypeOK
<1>2. /\ WorkAccepted(work)
      /\ thread.active_turn_id # Null => work.stage # "new"
  BY <1>1 DEF PrepareError
<1>3. work # Null /\ work \in Works /\ work.turn_id \in TurnIds
  BY <1>2, NullDistinct DEF WorkAccepted, Works
<1>4. work.stage \in {"new", "prepared"}
  BY <1>1, <1>3 DEF MInv, IInv, StageAtNode, StagesAt
<1>5. CASE work.turn_id \in IdsOf(thread.turn_records)
  <2>1. work' = Null /\ thread' = thread
    BY <1>5 DEF PrepareTurn
  <2>2. MemoryKept' /\ Uncompacted'
    BY <2>1 DEF MemoryKept, Uncompacted, InProgress
  <2> QED
    BY <2>1, <2>2 DEF MInv, LogKept
<1>6. CASE /\ work.turn_id \notin IdsOf(thread.turn_records)
           /\ thread.active_turn_id = Null
  <2> DEFINE w == NewWork(work.turn_id, "prepared")
  <2>1. /\ work' = w /\ thread' = Begun(thread, caller, w)
        /\ base' = thread
    BY <1>6 DEF PrepareTurn, PreparedWork
  <2>2. /\ w \in Works /\ w.turn_id = work.turn_id
        /\ w.pre_compaction_thread = Null
    BY <1>3, NewWorkAccepted DEF NewWork, WorkAccepted
  <2> HIDE DEF w
  <2>3. /\ SameMemory(thread', thread)
        /\ thread'.active_turn_id = work.turn_id
    BY <1>1, <2>1, <2>2, BookkeepingKeepsMemory
  <2>4. History(thread') = History(thread)
    BY <2>3, SameHistory
  <2>5. MemoryKept' /\ Uncompacted'
    BY <2>1, <2>2, <2>3, <2>4 DEF MemoryKept, Uncompacted, RollbackThread
  <2>6. Begins
    BY <1>3, <1>6, <2>3, <2>4 DEF Begins, Log!Begin
  <2> QED
    BY <1>6, <2>1, <2>5, <2>6 DEF MInv
<1>7. CASE /\ work.turn_id \notin IdsOf(thread.turn_records)
           /\ thread.active_turn_id # Null
  <2>1. /\ work' = work /\ thread' = Begun(thread, caller, work)
        /\ base' = base /\ calls' = calls
        /\ next' = "capture_turn_authorization"
    BY <1>2, <1>4, <1>7 DEF PrepareTurn, PreparedWork
  <2>2. InProgress(work)
    BY <1>2, <1>3, <1>7 DEF InProgress
  <2>3. thread.active_turn_id = work.turn_id
    BY <2>2 DEF MInv, IInv, ActiveBound, OwnThread
  <2>4. /\ SameMemory(thread', thread)
        /\ thread'.active_turn_id = work.turn_id
    BY <1>1, <1>3, <2>1, BookkeepingKeepsMemory
  <2>5. History(thread') = History(thread)
    BY <2>4, SameHistory
  <2>6. work.pre_compaction_thread = Null
    BY <1>1, <2>2 DEF MInv, Uncompacted, UncompactedNodes
  <2>7. MemoryKept'
    BY <2>1, <2>2, <2>4, <2>5, <2>6
       DEF MInv, MemoryKept, SameMemory, RollbackThread
  <2>8. Uncompacted'
    BY <2>1, <2>6 DEF Uncompacted
  <2> QED
    BY <2>1, <2>2, <2>3, <2>4, <2>5, <2>7, <2>8 DEF MInv, LogKept
<1> QED
  BY <1>5, <1>6, <1>7

\* Callers, stops and administrators leave the checkpointed thread alone; a
\* new input is not in progress.
LEMMA EnvironmentKeeps ==
  ASSUME MInv, IInv', UNCHANGED <<thread, base>>,
         \/ work' = work /\ next' = next
         \/ ~InProgress(work')
  PROVE  MInv' /\ LogKept
<1>1. MemoryKept'
  BY DEF MInv, MemoryKept, InProgress
<1>2. Uncompacted'
  BY DEF MInv, Uncompacted, InProgress
<1> QED
  BY <1>1, <1>2 DEF MInv, LogKept

-----------------------------------------------------------------------------
(* Every step. *)

Updating ==
  \/ CaptureFails \/ CaptureTurnAuthorization
  \/ CompactionRefused \/ CompactionAttemptFails
  \/ ContextualizeFirstTurn \/ ContextualizationRefused
  \/ RewriteFails \/ ClarificationRequested \/ ContextualizeTurn
  \/ EvidenceReady \/ ResearchConcludes \/ SubgraphRaises
  \/ AnswerReleased \/ AnswerWithheld

Ending == GateUnavailable \/ GateFails \/ GateCommits \/ CompleteTurn

Outside ==
  \/ NodeRaises \/ Resume \/ Crash \/ UNCHANGED vars
  \/ \E p \in Principals, t \in TurnIds : Submit(p, t)
  \/ \E d \in Docs : Grant(d) \/ Revoke(d)

\* Every step is of one of these kinds.
LEMMA StepKinds ==
  [Next]_vars => \/ Updating \/ CompactContext \/ GateRestarts \/ Ending
                 \/ PrepareTurn \/ Outside
BY DEF Next, NodeStep, Updating, Ending, Outside

\* Fourteen nodes' outcomes only update the work.
LEMMA UpdatingUpdates ==
  ASSUME MInv, Updating
  PROVE  InProgress(work) /\ \E w \in Works, n \in Nodes : Updates(w, n)
<1>1. CASE CaptureFails \/ CaptureTurnAuthorization
  BY <1>1, CaptureUpdates
<1>2. CASE CompactionRefused \/ CompactionAttemptFails
  BY <1>2, CompactionFailureUpdates
<1>3. CASE \/ ContextualizeFirstTurn \/ ContextualizationRefused
           \/ RewriteFails \/ ClarificationRequested \/ ContextualizeTurn
  BY <1>3, ContextualizeUpdates
<1>4. CASE EvidenceReady \/ ResearchConcludes
  BY <1>4, ResearchUpdates
<1>5. CASE SubgraphRaises
  BY <1>5, SubgraphRaisesUpdates
<1>6. CASE AnswerReleased \/ AnswerWithheld
  BY <1>6, AnswerUpdates
<1> QED
  BY <1>1, <1>2, <1>3, <1>4, <1>5, <1>6 DEF Updating

\* What happens outside the nodes leaves thread and history; only a new input
\* replaces the work, and only a process stop loses calls.
LEMMA OutsideSteps ==
  ASSUME MInv, Outside
  PROVE  /\ UNCHANGED <<thread, base>>
         /\ \/ work' = work /\ next' = next
            \/ ~InProgress(work')
         /\ calls' = calls \/ crashes' = crashes + 1
<1>1. CASE NodeRaises
  BY <1>1 DEF NodeRaises
<1>2. CASE Resume
  BY <1>2 DEF Resume
<1>3. CASE Crash
  BY <1>3 DEF Crash
<1>4. CASE UNCHANGED vars
  BY <1>4 DEF vars
<1>5. ASSUME NEW p \in Principals, NEW t \in TurnIds, Submit(p, t)
      PROVE  /\ UNCHANGED <<thread, base, calls>>
             /\ ~InProgress(work')
  BY <1>5 DEF Submit, InProgress, NewWork
<1>6. ASSUME NEW d \in Docs, Grant(d) \/ Revoke(d)
      PROVE  UNCHANGED <<thread, base, calls, work, next>>
  BY <1>6 DEF Grant, Revoke
<1> QED
  BY <1>1, <1>2, <1>3, <1>4, <1>5, <1>6 DEF Outside

\* Each step keeps the log, begins a Turn or commits one.
LEMMA StepKeeps ==
  ASSUME MInv, [Next]_vars
  PROVE  MInv' /\ (LogKept \/ Begins \/ (Ending /\ CommitsOrRestores))
<1>1. IInv'
  BY Inductive DEF MInv
<1>2. CASE Updating
  <2>1. InProgress(work) /\ \E w \in Works, n \in Nodes : Updates(w, n)
    BY <1>2, UpdatingUpdates
  <2> QED
    BY <1>1, <2>1, UpdateKeeps DEF LogKept
<1>3. CASE CompactContext
  BY <1>1, <1>3, CompactContextKeeps DEF LogKept
<1>4. CASE GateRestarts
  BY <1>1, <1>4, GateRestartsKeeps DEF LogKept
<1>5. CASE Ending
  BY <1>1, <1>5, GateEnds, CompleteTurnEnds DEF Ending
<1>6. CASE PrepareTurn
  BY <1>1, <1>6, PrepareTurnKeeps
<1>7. CASE Outside
  BY <1>1, <1>7, OutsideSteps, EnvironmentKeeps
<1> QED
  BY <1>2, <1>3, <1>4, <1>5, <1>6, <1>7, StepKinds

\* A thread nothing has run on has an empty history and nothing to restore.
LEMMA InitEstablishesMemory == Init => MInv /\ Log!LogInit
<1> SUFFICES ASSUME Init PROVE MInv /\ Log!LogInit
  OBVIOUS
<1>1. IInv
  BY InitEstablishes
<1>2. MemoryKept /\ Uncompacted
  BY DEF Init, MemoryKept, Uncompacted, InProgress
<1>3. History(thread) = <<>> /\ thread.active_turn_id = Null
  BY DEF Init, EmptyThread, History, Covered
<1> QED
  BY <1>1, <1>2, <1>3 DEF MInv, Log!LogInit

\* MInv holds in every reachable state.
LEMMA MemoryInvariance == Spec => []MInv
<1>1. Init => MInv
  BY InitEstablishesMemory
<1>2. MInv /\ [Next]_vars => MInv'
  BY StepKeeps
<1> QED
  BY <1>1, <1>2, PTL DEF Spec

-----------------------------------------------------------------------------
(* The theorems. *)

\* The Turn graph implements ThreadLog: whatever compacts, restarts, rolls
\* back, stops or resumes, the caller's log of Turn Records only grows by the
\* record of the one active Turn.
THEOREM LogImplemented == Spec => LogSpec
<1>1. Init => Log!LogInit
  BY InitEstablishesMemory
<1>2. MInv /\ [Next]_vars => [Log!LogNext]_(Log!logVars)
  <2> SUFFICES ASSUME MInv, [Next]_vars
               PROVE  [Log!LogNext]_(Log!logVars)
    OBVIOUS
  <2>1. CASE CommitsOrRestores
    <3>1. PICK r \in TurnRecords : Log!Commit(r)
      BY <2>1 DEF CommitsOrRestores
    <3>2. History(thread) \in Seq(TurnRecords)
      BY MemoryTypes DEF MInv, IInv, TypeOK, History
    <3>3. /\ History(thread') # <<>>
          /\ History(thread')[Len(History(thread'))] = r
      BY <3>1, <3>2 DEF Log!Commit
    <3> QED
      BY <3>1, <3>3 DEF Log!LogNext, Log!CommitNewest
  <2> QED
    BY <2>1, StepKeeps DEF LogKept, Begins, Log!LogNext, Log!logVars
<1> QED
  BY <1>1, <1>2, MemoryInvariance, PTL DEF Spec, LogSpec, Log!LogSpec

\* A Turn that is refused, or whose scope moved, commits its own record to the
\* memory it began with: the gate leaves nothing of its compaction behind.
THEOREM RefusedTurnsRestoreMemory == Spec => UnauthorizedCompactionRolledBack
<1> DEFINE P == (Commits /\ Refused) => MemoryRestored
<1>1. MInv /\ [Next]_vars => [P]_vars
  <2> SUFFICES ASSUME MInv, [Next]_vars, Commits, Refused
               PROVE  MemoryRestored
    OBVIOUS
  <2>1. ~LogKept /\ ~Begins
    BY DEF Commits, LogKept, Begins, Log!Begin
  <2>2. CommitsOrRestores
    BY <2>1, StepKeeps
  <2> QED
    BY <2>2 DEF CommitsOrRestores
<1>2. Spec => [][P]_vars
  BY <1>1, MemoryInvariance, PTL DEF Spec
<1> QED
  BY <1>2, PTL
     DEF UnauthorizedCompactionRolledBack, Refused, Refusals, MemoryRestored

\* Whatever stops, raises, retries or restarts, the budget of an active Turn is
\* never refunded, and a call goes uncharged only where a process stopped or a
\* subgraph raised.
THEOREM ChargesAlwaysKept == Spec => ChargesKept
<1> DEFINE NotRefunded == work'.model_calls >= work.model_calls
           Charged == \/ calls' + work.model_calls <= calls + work'.model_calls
                      \/ crashes' = crashes + 1
                      \/ work' = AuthorizingFailure(work)
           P == InTurn /\ InTurn' => NotRefunded /\ Charged
<1>1. MInv /\ [Next]_vars => [P]_vars
  <2> SUFFICES ASSUME MInv, [Next]_vars, InTurn, InTurn'
               PROVE  NotRefunded /\ Charged
    OBVIOUS
  <2>1. /\ IInv' /\ calls \in Nat /\ calls' \in Nat
        /\ work.model_calls \in Nat /\ work'.model_calls \in Nat
    BY Inductive DEF MInv, IInv, TypeOK, Works, InTurn
  <2>2. CASE Updating
    <3>1. PICK w \in Works, n \in Nodes : Updates(w, n)
      BY <2>2, UpdatingUpdates
    <3>2. work' = w
      BY <3>1 DEF Updates, Checkpoint
    <3> QED
      BY <2>1, <3>1, <3>2 DEF Updates
  <2>3. CASE CompactContext
    BY <2>1, <2>3, CompactContextKeeps
  <2>4. CASE GateRestarts
    BY <2>1, <2>4, GateRestartsKeeps
  <2>5. CASE Ending
    BY <2>1, <2>5, GateEnds, CompleteTurnEnds DEF Ending, InTurn
  <2>6. CASE PrepareTurn
    <3>1. work' = work /\ calls' = calls
      BY <2>1, <2>6, PrepareTurnKeeps DEF InTurn
    <3> QED
      BY <2>1, <3>1
  <2>7. CASE Outside
    <3>1. work' = work /\ (calls' = calls \/ crashes' = crashes + 1)
      BY <2>7, OutsideSteps DEF InTurn, InProgress
    <3> QED
      BY <2>1, <3>1
  <2> QED
    BY <2>2, <2>3, <2>4, <2>5, <2>6, <2>7, StepKinds
<1>2. Spec => [][P]_vars
  BY <1>1, MemoryInvariance, PTL DEF Spec
<1> QED
  BY <1>2, PTL DEF ChargesKept

-----------------------------------------------------------------------------
(* What a Turn commits while documents only leave the scope. *)

\* Everything made since the capture rests on documents it listed, and the
\* scope has only shrunk since.
InScope(w, th) ==
  /\ w.stage \in {"prepared", "terminal"} => w.evidence_set = Null
  /\ w.authorization_snapshot # Null =>
       /\ scope \subseteq w.authorization_snapshot.revision
       /\ w.evidence_set # Null =>
            w.evidence_set \subseteq w.authorization_snapshot.revision
       /\ w.cited_answer # Null =>
            w.cited_answer \subseteq w.authorization_snapshot.revision
       /\ w.pre_compaction_thread # Null =>
            /\ th.summary # Null
            /\ th.summary.dependencies
                 \subseteq w.authorization_snapshot.revision

MaterialInScope == InProgress(work) => InScope(work, thread)

\* What an update may do to the material of the work: keep or drop it, take
\* Evidence of the present scope or citations of the Evidence, or start afresh.
Carries(w) ==
  /\ w.stage # "prepared"
  /\ w.stage = "terminal" => w.evidence_set = Null
  /\ \/ w.authorization_snapshot = Null
     \/ /\ w.authorization_snapshot = work.authorization_snapshot
        /\ w.pre_compaction_thread = work.pre_compaction_thread
        /\ \/ w.evidence_set \in {work.evidence_set, Null}
           \/ w.evidence_set \subseteq scope
        /\ \/ w.cited_answer \in {work.cited_answer, Null}
           \/ /\ work.evidence_set # Null
              /\ w.cited_answer \subseteq work.evidence_set
     \/ /\ w.authorization_snapshot.revision = scope
        /\ w.evidence_set = Null
        /\ w.cited_answer = Null
        /\ w.pre_compaction_thread = Null

\* The charge of a rewrite changes no material.
LEMMA ChargedRewriteCarries ==
  ASSUME work \in Works
  PROVE  LET c == ChargedRewrite
         IN /\ c.authorization_snapshot = work.authorization_snapshot
            /\ c.pre_compaction_thread = work.pre_compaction_thread
            /\ c.evidence_set = work.evidence_set
            /\ c.cited_answer = work.cited_answer
BY DEF ChargedRewrite, Works

\* Ending work that has a snapshot changes no material.
LEMMA TerminalWorkCarries ==
  ASSUME NEW v, NEW question, NEW outcome, NEW reason,
         \E w \in Works : DOMAIN v = DOMAIN w,
         v.authorization_snapshot # Null
  PROVE  LET t == TerminalWork(v, question, outcome, reason)
         IN /\ t.stage = "authorizing"
            /\ t.authorization_snapshot = v.authorization_snapshot
            /\ t.pre_compaction_thread = v.pre_compaction_thread
            /\ t.evidence_set = v.evidence_set
            /\ t.cited_answer = v.cited_answer
BY DEF TerminalWork, Works

\* Every update of the work carries its material so.
LEMMA UpdatingCarries ==
  ASSUME MInv, MaterialInScope, Updating
  PROVE  \E w, n : Checkpoint(w, thread, n) /\ Carries(w)
<1>1. /\ work \in Works /\ InProgress(work) /\ WorkAccepted(work)
      /\ \E w \in Works : DOMAIN work = DOMAIN w
  BY UpdatingUpdates DEF MInv, IInv, WorkAtNode, InProgress, WorkAccepted
<1>2. ASSUME NEW w, NEW n, Checkpoint(w, thread, n),
             w.stage \notin {"prepared", "terminal"},
             w.authorization_snapshot = work.authorization_snapshot,
             w.pre_compaction_thread = work.pre_compaction_thread,
             w.evidence_set = work.evidence_set,
             w.cited_answer = work.cited_answer
      PROVE  \E v, m : Checkpoint(v, thread, m) /\ Carries(v)
  BY <1>2 DEF Carries
<1>3. CASE CaptureFails
  <2> DEFINE w == TerminalCheckpoint(work, "authorization_unavailable")
  <2>1. Checkpoint(w, thread, "complete_turn")
    BY <1>3 DEF CaptureFails
  <2>2. work.stage = "prepared" /\ work.authorization_snapshot = Null
    <3>1. Proceeds("capture_turn_authorization")
      BY <1>3 DEF CaptureFails
    <3> QED
      BY <3>1, NodeFinds DEF MInv, Nodes, StagesAt, WorkAccepted
  <2>3. work.evidence_set = Null
    BY <1>1, <2>2 DEF MaterialInScope, InScope
  <2>4. /\ w.stage = "terminal"
        /\ w.authorization_snapshot = work.authorization_snapshot
        /\ w.evidence_set = work.evidence_set
    BY <1>1 DEF TerminalCheckpoint, Works
  <2> HIDE DEF w
  <2> QED
    BY <2>1, <2>2, <2>3, <2>4 DEF Carries
<1>4. CASE CaptureTurnAuthorization
  <2> DEFINE snapshot == [principal_id |-> caller, revision |-> scope]
             w == [work EXCEPT !.stage = "authorized",
                               !.authorization_snapshot = snapshot]
  <2>1. /\ Proceeds("capture_turn_authorization")
        /\ \E n : Checkpoint(w, thread, n)
    BY <1>4 DEF CaptureTurnAuthorization
  <2>2. work.stage = "prepared" /\ work.cited_answer = Null
    BY <2>1, NodeFinds DEF MInv, Nodes, StagesAt, WorkAccepted, ResultStage
  <2>3. work.pre_compaction_thread = Null
    BY <1>1, <2>1 DEF MInv, Uncompacted, UncompactedNodes, Proceeds, AtNode
  <2>4. work.evidence_set = Null
    BY <1>1, <2>2 DEF MaterialInScope, InScope
  <2>5. /\ w.stage = "authorized"
        /\ w.authorization_snapshot.revision = scope
        /\ w.evidence_set = work.evidence_set
        /\ w.cited_answer = work.cited_answer
        /\ w.pre_compaction_thread = work.pre_compaction_thread
    BY <1>1 DEF Works
  <2> HIDE DEF w
  <2>6. Carries(w)
    BY <2>2, <2>3, <2>4, <2>5 DEF Carries
  <2> QED
    BY <2>1, <2>6
<1>15. ASSUME \/ Proceeds("compact_context")
              \/ Proceeds("contextualize_turn")
       PROVE  work.authorization_snapshot # Null
  BY <1>15, AuthorizedNodeFinds DEF MInv
<1>5. CASE CompactionRefused
  <2>1. PICK reason : Checkpoint(TerminalWork(work, "own", "failed", reason),
                                 thread, "authorize_and_commit_turn")
    BY <1>5 DEF CompactionRefused
  <2>2. work.authorization_snapshot # Null
    BY <1>5, <1>15 DEF CompactionRefused
  <2> QED
    BY <1>1, <1>2, <2>1, <2>2, TerminalWorkCarries
<1>6. CASE CompactionAttemptFails
  <2> DEFINE a == [work EXCEPT !.stage = "compacting",
                               !.model_calls = @ + 1,
                               !.compaction_attempts = @ + 1]
             t == TerminalWork(a, "own", "failed", "context_compaction_failed")
  <2>1. \/ Checkpoint(a, thread, "compact_context")
        \/ Checkpoint(t, thread, "authorize_and_commit_turn")
    BY <1>6 DEF CompactionAttemptFails
  <2>2. /\ a.stage = "compacting"
        /\ a.authorization_snapshot = work.authorization_snapshot
        /\ a.pre_compaction_thread = work.pre_compaction_thread
        /\ a.evidence_set = work.evidence_set
        /\ a.cited_answer = work.cited_answer
        /\ DOMAIN a = DOMAIN work
        /\ work.authorization_snapshot # Null
    BY <1>1, <1>6, <1>15 DEF Works, CompactionAttemptFails, CompactionAllowed
  <2> HIDE DEF a
  <2>3. /\ t.stage = "authorizing"
        /\ t.authorization_snapshot = a.authorization_snapshot
        /\ t.pre_compaction_thread = a.pre_compaction_thread
        /\ t.evidence_set = a.evidence_set
        /\ t.cited_answer = a.cited_answer
    BY <1>1, <2>2, TerminalWorkCarries
  <2> HIDE DEF t
  <2> QED
    BY <1>2, <2>1, <2>2, <2>3
<1>7. CASE ContextualizeFirstTurn
  <2> DEFINE w == [work EXCEPT !.stage = "researching",
                               !.standalone_question = "own"]
  <2>1. Checkpoint(w, thread, "run_research_subgraph")
    BY <1>7 DEF ContextualizeFirstTurn
  <2>2. /\ w.stage = "researching"
        /\ w.authorization_snapshot = work.authorization_snapshot
        /\ w.pre_compaction_thread = work.pre_compaction_thread
        /\ w.evidence_set = work.evidence_set
        /\ w.cited_answer = work.cited_answer
    BY <1>1 DEF Works
  <2> HIDE DEF w
  <2> QED
    BY <1>2, <2>1, <2>2
<1>8. CASE ContextualizationRefused
  BY <1>1, <1>2, <1>8, <1>15, TerminalWorkCarries DEF ContextualizationRefused
<1>9. CASE RewriteFails \/ ClarificationRequested \/ ContextualizeTurn
  <2> DEFINE c == ChargedRewrite
             w == [c EXCEPT !.stage = "researching",
                            !.standalone_question = "derived"]
  <2>1. /\ c.authorization_snapshot = work.authorization_snapshot
        /\ c.pre_compaction_thread = work.pre_compaction_thread
        /\ c.evidence_set = work.evidence_set
        /\ c.cited_answer = work.cited_answer
    BY <1>1, ChargedRewriteCarries
  <2>2. DOMAIN c = DOMAIN work /\ work.authorization_snapshot # Null
    BY <1>9, <1>15 DEF ChargedRewrite, RewriteAllowed, RewriteFails,
       ClarificationRequested, ContextualizeTurn
  <2> HIDE DEF c
  <2>3. CASE ContextualizeTurn
    <3>1. Checkpoint(w, thread, "run_research_subgraph")
      BY <2>3 DEF ContextualizeTurn, c
    <3>2. /\ w.stage = "researching"
          /\ w.authorization_snapshot = c.authorization_snapshot
          /\ w.pre_compaction_thread = c.pre_compaction_thread
          /\ w.evidence_set = c.evidence_set
          /\ w.cited_answer = c.cited_answer
      BY <1>1, <2>2 DEF Works
    <3> HIDE DEF w
    <3> QED
      BY <1>2, <2>1, <3>1, <3>2
  <2>4. CASE RewriteFails \/ ClarificationRequested
    <3>1. PICK question, outcome :
            Checkpoint(TerminalWork(c, question, outcome, "other"),
                       thread, "authorize_and_commit_turn")
      BY <2>4 DEF RewriteFails, ClarificationRequested, c
    <3> DEFINE t == TerminalWork(c, question, outcome, "other")
    <3>2. /\ t.stage = "authorizing"
          /\ t.authorization_snapshot = c.authorization_snapshot
          /\ t.pre_compaction_thread = c.pre_compaction_thread
          /\ t.evidence_set = c.evidence_set
          /\ t.cited_answer = c.cited_answer
      BY <1>1, <2>1, <2>2, TerminalWorkCarries
    <3> HIDE DEF t
    <3> QED
      BY <1>2, <2>1, <3>1, <3>2 DEF t
  <2> QED
    BY <1>9, <2>3, <2>4
<1>10. ASSUME NEW c \in ResearchCharges
       PROVE  LET r == Researched(c)
              IN /\ r.authorization_snapshot = work.authorization_snapshot
                 /\ r.pre_compaction_thread = work.pre_compaction_thread
                 /\ r.evidence_set = work.evidence_set
                 /\ r.cited_answer = work.cited_answer
                 /\ DOMAIN r = DOMAIN work
  BY <1>1 DEF Researched, Works
<1>11. CASE EvidenceReady
  <2>1. PICK c \in ResearchCharges, evidence \in (SUBSET scope) \ {{}} :
          Checkpoint([Researched(c) EXCEPT !.stage = "answering",
                                           !.evidence_set = evidence],
                     thread, "run_answer_subgraph")
    BY <1>11 DEF EvidenceReady
  <2> DEFINE r == Researched(c)
             w == [r EXCEPT !.stage = "answering", !.evidence_set = evidence]
  <2>2. Checkpoint(w, thread, "run_answer_subgraph")
    BY <2>1
  <2> HIDE DEF r
  <2>3. /\ r.authorization_snapshot = work.authorization_snapshot
        /\ r.pre_compaction_thread = work.pre_compaction_thread
        /\ r.cited_answer = work.cited_answer
        /\ DOMAIN r = DOMAIN work
    BY <1>10 DEF r
  <2>4. /\ w.stage = "answering"
        /\ w.authorization_snapshot = r.authorization_snapshot
        /\ w.pre_compaction_thread = r.pre_compaction_thread
        /\ w.evidence_set = evidence
        /\ w.cited_answer = r.cited_answer
    BY <1>1, <2>3 DEF Works
  <2> HIDE DEF w
  <2>5. Carries(w)
    BY <2>3, <2>4 DEF Carries
  <2> QED
    BY <2>2, <2>5
<1>12. CASE ResearchConcludes
  <2>1. PICK c \in ResearchCharges, outcome \in Outcomes :
          Checkpoint([Researched(c) EXCEPT
                        !.stage = "authorizing",
                        !.outcome = outcome,
                        !.terminal_reason =
                          IF outcome = "answered" THEN Null ELSE "other"],
                     thread, "authorize_and_commit_turn")
    BY <1>12 DEF ResearchConcludes
  <2> DEFINE r == Researched(c)
             w == [r EXCEPT !.stage = "authorizing",
                            !.outcome = outcome,
                            !.terminal_reason =
                              IF outcome = "answered" THEN Null ELSE "other"]
  <2>2. Checkpoint(w, thread, "authorize_and_commit_turn")
    BY <2>1
  <2> HIDE DEF r
  <2>3. /\ r.authorization_snapshot = work.authorization_snapshot
        /\ r.pre_compaction_thread = work.pre_compaction_thread
        /\ r.evidence_set = work.evidence_set
        /\ r.cited_answer = work.cited_answer
        /\ DOMAIN r = DOMAIN work
    BY <1>10 DEF r
  <2>4. /\ w.stage = "authorizing"
        /\ w.authorization_snapshot = r.authorization_snapshot
        /\ w.pre_compaction_thread = r.pre_compaction_thread
        /\ w.evidence_set = r.evidence_set
        /\ w.cited_answer = r.cited_answer
    BY <1>1, <2>3 DEF Works
  <2> HIDE DEF w
  <2> QED
    BY <1>2, <2>2, <2>3, <2>4
<1>13. CASE SubgraphRaises
  <2> DEFINE w == AuthorizingFailure(work)
  <2>1. Checkpoint(w, thread, "authorize_and_commit_turn")
    BY <1>13 DEF SubgraphRaises
  <2>2. /\ w.stage = "authorizing"
        /\ w.authorization_snapshot = work.authorization_snapshot
        /\ w.pre_compaction_thread = work.pre_compaction_thread
        /\ w.evidence_set = Null
        /\ w.cited_answer = Null
    BY <1>1 DEF AuthorizingFailure, Works
  <2> HIDE DEF w
  <2> QED
    BY <2>1, <2>2 DEF Carries
<1>14. CASE AnswerReleased \/ AnswerWithheld
  <2>1. /\ Proceeds("run_answer_subgraph")
        /\ work.stage = "answering" /\ work.model_calls \in Nat
    <3>1. Proceeds("run_answer_subgraph")
      BY <1>14 DEF AnswerReleased, AnswerWithheld
    <3> QED
      BY <3>1, SubgraphNodeFinds DEF MInv
  <2>2. PICK total \in work.model_calls..ModelCallLimit,
             repairs \in work.answer_repairs..1,
             cited \in SUBSET work.evidence_set,
             outcome \in Outcomes, reason \in {"other", Null} :
          Checkpoint([work EXCEPT !.stage = "authorizing",
                                  !.model_calls = total,
                                  !.answer_repairs = repairs,
                                  !.cited_answer = cited,
                                  !.outcome = outcome,
                                  !.terminal_reason = reason],
                     thread, "authorize_and_commit_turn")
    BY <1>14, <2>1, AnswerCheckpoint
  <2> DEFINE w == [work EXCEPT !.stage = "authorizing",
                               !.model_calls = total,
                               !.answer_repairs = repairs,
                               !.cited_answer = cited,
                               !.outcome = outcome,
                               !.terminal_reason = reason]
  <2>3. work.evidence_set # Null
    BY <1>1, <2>1, NodeFinds DEF MInv, Nodes, StagesAt, WorkAccepted
  <2>4. /\ w.stage = "authorizing"
        /\ w.authorization_snapshot = work.authorization_snapshot
        /\ w.pre_compaction_thread = work.pre_compaction_thread
        /\ w.evidence_set = work.evidence_set
        /\ w.cited_answer = cited
    BY <1>1 DEF Works
  <2>5. Checkpoint(w, thread, "authorize_and_commit_turn")
    BY <2>2
  <2> HIDE DEF w
  <2>6. Carries(w)
    BY <2>3, <2>4 DEF Carries
  <2> QED
    BY <2>5, <2>6
<1> QED
  BY <1>3, <1>4, <1>5, <1>6, <1>7, <1>8, <1>9, <1>11, <1>12, <1>13, <1>14
     DEF Updating

\* Material stays in scope while documents only leave it.
LEMMA MaterialStep ==
  ASSUME MInv, MaterialInScope, [Next]_vars, GrantsAllowed = FALSE
  PROVE  MaterialInScope'
<1>1. MInv' /\ thread \in ThreadStates
  BY StepKeeps DEF MInv, IInv, TypeOK
<1>2. CASE Updating
  <2>1. PICK w, n : Checkpoint(w, thread, n) /\ Carries(w)
    BY <1>2, UpdatingCarries
  <2>2. /\ work' = w /\ scope' = scope
        /\ thread'.summary = thread.summary
    BY <1>1, <2>1 DEF Checkpoint, Checkpointed, ThreadStates, ThreadsOver
  <2>3. InProgress(work) /\ InScope(work, thread)
    BY <1>2, UpdatingUpdates DEF MaterialInScope
  <2>4. CASE w.authorization_snapshot = Null
    BY <2>1, <2>2, <2>4 DEF MaterialInScope, InScope, Carries
  <2>5. CASE /\ w.authorization_snapshot = work.authorization_snapshot
             /\ w.authorization_snapshot # Null
             /\ w.pre_compaction_thread = work.pre_compaction_thread
             /\ \/ w.evidence_set \in {work.evidence_set, Null}
                \/ w.evidence_set \subseteq scope
             /\ \/ w.cited_answer \in {work.cited_answer, Null}
                \/ /\ work.evidence_set # Null
                   /\ w.cited_answer \subseteq work.evidence_set
    <3> DEFINE rev == work.authorization_snapshot.revision
    <3>1. /\ scope \subseteq rev
          /\ work.evidence_set # Null => work.evidence_set \subseteq rev
          /\ work.cited_answer # Null => work.cited_answer \subseteq rev
          /\ work.pre_compaction_thread # Null =>
               /\ thread.summary # Null
               /\ thread.summary.dependencies \subseteq rev
      BY <2>3, <2>5 DEF InScope
    <3>2. /\ w.stage # "prepared"
          /\ w.stage = "terminal" => w.evidence_set = Null
      BY <2>1 DEF Carries
    <3>3. w.evidence_set # Null => w.evidence_set \subseteq rev
      BY <2>5, <3>1
    <3>4. w.cited_answer # Null => w.cited_answer \subseteq rev
      BY <2>5, <3>1
    <3> QED
      BY <2>2, <2>5, <3>1, <3>2, <3>3, <3>4 DEF MaterialInScope, InScope
  <2>6. CASE /\ w.authorization_snapshot.revision = scope
             /\ w.evidence_set = Null
             /\ w.cited_answer = Null
             /\ w.pre_compaction_thread = Null
    BY <2>1, <2>2, <2>6 DEF MaterialInScope, InScope, Carries
  <2> QED
    BY <2>1, <2>4, <2>5, <2>6 DEF Carries
<1>3. CASE CompactContext
  <2> DEFINE k == CompactionPrefix(thread)
             previous == IF work.pre_compaction_thread = Null
                         THEN Retained(thread) ELSE work.pre_compaction_thread
             w == [work EXCEPT !.stage = "authorized",
                               !.model_calls = @ + 1,
                               !.compaction_attempts = @ + 1,
                               !.pre_compaction_thread = previous]
             c(d) == Compacted(thread, k, d)
  <2>1. PICK d \in SUBSET AuthorizedDependencies(thread, k) :
          Checkpoint(w, c(d), "contextualize_turn")
    BY <1>3 DEF CompactContext
  <2>2. Proceeds("compact_context")
    BY <1>3 DEF CompactContext, CompactionAllowed
  <2>3. /\ work \in Works /\ InProgress(work)
        /\ work.authorization_snapshot # Null /\ work.cited_answer = Null
    BY <2>2, AuthorizedNodeFinds DEF MInv
  <2>4. InScope(work, thread)
    BY <2>3 DEF MaterialInScope
  <2>5. d \subseteq scope
    BY DEF AuthorizedDependencies
  <2>6. /\ w.stage = "authorized"
        /\ w.authorization_snapshot = work.authorization_snapshot
        /\ w.evidence_set = work.evidence_set
        /\ w.cited_answer = work.cited_answer
    BY <2>3 DEF Works
  <2> HIDE DEF w
  <2>7. work' = w /\ scope' = scope
    BY <2>1 DEF Checkpoint
  <2> DEFINE s == [covered |-> Covered(thread)
                                 \o SubSeq(thread.turn_records, 1, k),
                   dependencies |-> d]
  <2>8. thread'.summary = s
    <3> HIDE DEF k
    <3> QED
      BY <1>1, <2>1
         DEF Checkpoint, Checkpointed, Compacted, ThreadStates, ThreadsOver
  <2>9. s # Null /\ s.dependencies = d
    <3>1. k \in 1..Len(thread.turn_records)
      BY <1>3, PrefixRange
         DEF CompactContext, CompactionAllowed, MInv, IInv, TypeOK
    <3>2. /\ Covered(thread) \in Seq(TurnRecords)
          /\ thread.turn_records \in Seq(TurnRecords)
      BY <1>1, MemoryTypes
    <3> HIDE DEF k
    <3>3. SubSeq(thread.turn_records, 1, k) \in Seq(TurnRecords)
      BY <3>1, <3>2
    <3>4. Covered(thread) \o SubSeq(thread.turn_records, 1, k)
            \in Seq(TurnRecords)
      BY <3>2, <3>3, ConcatProperties
    <3>5. d \in SUBSET Docs
      BY <2>5 DEF MInv, IInv, TypeOK
    <3>6. s \in Summaries
      BY <3>4, <3>5 DEF Summaries
    <3> QED
      BY <3>6, NullDistinct
  <2> HIDE DEF s
  <2> QED
    BY <2>3, <2>4, <2>5, <2>6, <2>7, <2>8, <2>9
       DEF MaterialInScope, InScope
<1>4. CASE GateRestarts
  <2>1. /\ Proceeds("authorize_and_commit_turn")
        /\ work' = Restarted(work)
    BY <1>4 DEF GateRestarts, Checkpoint
  <2>2. work \in Works
    BY <2>1, GateFinds
  <2>3. work'.authorization_snapshot = Null /\ work'.evidence_set = Null
    BY <2>1, <2>2 DEF Restarted, Works
  <2> QED
    BY <2>3 DEF MaterialInScope, InScope
<1>5. CASE Ending
  <2>1. work' = Null
    BY <1>1, <1>5, GateEnds, CompleteTurnEnds DEF Ending, MInv
  <2> QED
    BY <2>1 DEF MaterialInScope, InProgress
<1>6. CASE PrepareTurn
  <2>1. \/ work' = Null
        \/ /\ work' = NewWork(work.turn_id, "prepared")
        \/ /\ work' = work /\ thread.active_turn_id # Null
           /\ thread' = Begun(thread, caller, work)
           /\ scope' = scope
    BY <1>6 DEF PrepareTurn, PreparedWork
  <2>2. CASE work' = Null
    BY <2>2 DEF MaterialInScope, InProgress
  <2>3. CASE work' = NewWork(work.turn_id, "prepared")
    <3>1. work'.authorization_snapshot = Null /\ work'.evidence_set = Null
      BY <2>3 DEF NewWork
    <3> QED
      BY <3>1 DEF MaterialInScope, InScope
  <2>4. CASE /\ work' = work /\ thread.active_turn_id # Null
             /\ thread' = Begun(thread, caller, work)
             /\ scope' = scope
    <3>1. thread'.summary = thread.summary
      BY <1>1, <2>4 DEF Begun, ThreadStates, ThreadsOver
    <3> QED
      BY <2>4, <3>1 DEF MaterialInScope, InScope, InProgress
  <2> QED
    BY <2>1, <2>2, <2>3, <2>4
<1>7. CASE Outside
  <2>1. scope' \subseteq scope
    BY <1>7
       DEF Outside, NodeRaises, Resume, Crash, vars, Submit, Grant, Revoke
  <2>2. thread' = thread /\ (work' = work \/ ~InProgress(work'))
    BY <1>7, OutsideSteps
  <2> QED
    BY <2>1, <2>2 DEF MaterialInScope, InScope, InProgress
<1> QED
  BY <1>2, <1>3, <1>4, <1>5, <1>6, <1>7, StepKinds

\* What a Turn committed: its citations, the Evidence its ending rested on, and
\* its summary if it made one.
CommitsReadable ==
  /\ LastRecord(thread)'.citation_dependencies \subseteq scope
  /\ (LastRecord(thread)'.outcome # "failed" /\ work.evidence_set # Null) =>
       work.evidence_set \subseteq scope
  /\ thread'.summary # base.summary =>
       thread'.summary.dependencies \subseteq scope

\* A commit of readable material to a memory of readable material.
LEMMA CommitIsReadable ==
  ASSUME MInv, IInv', NEW th, OwnThread(th, work.turn_id),
         OwnThread(thread, work.turn_id), History(th) = History(thread),
         NEW r \in TurnRecords, r.turn_id = work.turn_id, Commit(th, r),
         r.citation_dependencies \subseteq scope,
         \/ r.outcome = "failed" \/ work.evidence_set = Null
         \/ work.evidence_set \subseteq scope,
         \/ SameMemory(th, base)
         \/ th.summary.dependencies \subseteq scope
  PROVE  CommitsReadable
<1>1. thread'.summary = th.summary /\ LastRecord(thread') = r
  BY CommitAppends
<1>2. LastRecord(thread)' = r
  BY <1>1 DEF LastRecord
<1> QED
  BY <1>1, <1>2 DEF CommitsReadable, SameMemory

\* Every Turn that ends commits readable material.
LEMMA EndingIsReadable ==
  ASSUME MInv, IInv', MaterialInScope, Ending PROVE CommitsReadable
<1>1. CASE CompleteTurn
  <2> DEFINE r == [ResultRecord(work) EXCEPT !.citation_dependencies = {}]
  <2>1. Proceeds("complete_turn") /\ Commit(thread, r)
    BY <1>1 DEF CompleteTurn
  <2>2. /\ WorkAccepted(work) /\ InProgress(work) /\ ResultStage(work)
        /\ OwnThread(thread, work.turn_id) /\ work.stage = "terminal"
    BY <2>1, NodeFinds DEF MInv, Nodes, StagesAt, ResultStage
  <2>5. work.evidence_set = Null
    BY <2>2 DEF MaterialInScope, InScope
  <2>3. /\ r \in TurnRecords /\ r.turn_id = work.turn_id
        /\ r.citation_dependencies = {}
    BY <2>2, ResultRecordType DEF ResultRecord
  <2>4. SameMemory(thread, base)
    <3>1. work.pre_compaction_thread = Null
      BY <2>1, <2>2 DEF MInv, Uncompacted, UncompactedNodes, Proceeds, AtNode
    <3> QED
      BY <2>2, <3>1 DEF MInv, MemoryKept, RollbackThread
  <2> HIDE DEF r
  <2> QED
    BY <2>1, <2>2, <2>3, <2>4, <2>5, CommitIsReadable
<1>2. CASE GateUnavailable \/ GateFails \/ GateCommits
  <2> DEFINE th == RollbackThread(work, thread)
  <2>1. Proceeds("authorize_and_commit_turn")
    BY <1>2 DEF GateUnavailable, GateFails, GateCommits
  <2>2. /\ work \in Works /\ WorkAccepted(work) /\ InProgress(work)
        /\ ResultStage(work)
        /\ OwnThread(thread, work.turn_id) /\ OwnThread(th, work.turn_id)
        /\ SameMemory(th, base) /\ History(th) = History(thread)
    BY <2>1, GateFinds
  <2>3. /\ work.authorization_snapshot # Null
        /\ InScope(work, thread)
    <3>1. work.stage = "authorizing"
      BY <2>1, NodeFinds DEF MInv, Nodes, StagesAt
    <3> QED
      BY <2>2, <3>1 DEF WorkAccepted, MaterialInScope
  <2>4. ASSUME NEW reason \in Reasons, Commit(th, FailureRecord(work, reason))
        PROVE  CommitsReadable
    <3> DEFINE r == FailureRecord(work, reason)
    <3>1. /\ r \in TurnRecords /\ r.turn_id = work.turn_id
          /\ r.citation_dependencies = {} /\ r.outcome = "failed"
      BY <2>2, FailureRecordType DEF FailureRecord
    <3>2. Commit(th, r)
      BY <2>4
    <3> HIDE DEF r, th
    <3> QED
      BY <2>2, <3>1, <3>2, CommitIsReadable
  <2>5. {"authorization_unavailable", "authorization_context_mismatch",
         "authorization_changed_twice", "citation_dependency_mismatch"}
          \subseteq Reasons
    BY DEF Reasons
  <2>6. CASE GateUnavailable
    BY <2>4, <2>5, <2>6 DEF GateUnavailable
  <2>7. CASE GateFails
    BY <2>4, <2>5, <2>7 DEF GateFails
  <2>8. CASE GateCommits
    <3> DEFINE r == IF CitationsMatch(work)
                    THEN ResultRecord(work)
                    ELSE FailureRecord(work, "citation_dependency_mismatch")
    <3>1. Transition = "commit" /\ Commit(thread, r)
      BY <2>8 DEF GateCommits
    <3>2. r \in TurnRecords /\ r.turn_id = work.turn_id
      BY <2>2, <2>5, FailureRecordType, ResultRecordType
    <3>3. work.authorization_snapshot.revision = scope
      BY <3>1 DEF Transition, AuthorizationTransition, Latest
    <3>4. r.citation_dependencies = {}
            \/ /\ work.cited_answer # Null
               /\ r.citation_dependencies = work.cited_answer
      BY DEF ResultRecord, FailureRecord
    <3>5. r.citation_dependencies \subseteq scope
      BY <2>3, <3>3, <3>4 DEF InScope
    <3>7. work.evidence_set = Null \/ work.evidence_set \subseteq scope
      BY <2>3, <3>3 DEF InScope
    <3>6. \/ SameMemory(thread, base)
          \/ thread.summary.dependencies \subseteq scope
      <4>1. CASE work.pre_compaction_thread = Null
        BY <2>2, <4>1 DEF RollbackThread
      <4>2. CASE work.pre_compaction_thread # Null
        BY <2>3, <3>3, <4>2 DEF InScope
      <4> QED
        BY <4>1, <4>2
    <3> HIDE DEF r
    <3> QED
      BY <2>2, <3>1, <3>2, <3>5, <3>6, <3>7, CommitIsReadable
  <2> QED
    BY <1>2, <2>6, <2>7, <2>8
<1> QED
  BY <1>1, <1>2 DEF Ending

\* While no document enters the scope, whatever a Turn commits (its citations,
\* a summary it made) and the whole Evidence Set an ending that is no failure
\* rested on are documents its Principal may read at that moment.
\* With grants this is false: run turn_scope_aba.
THEOREM CommitsAreAuthorized ==
  ASSUME GrantsAllowed = FALSE
  PROVE  Spec => CommittedMaterialAuthorized
<1> DEFINE P == Commits => CommitsReadable
<1>1. Init => MaterialInScope
  BY DEF Init, MaterialInScope, InProgress
<1>2. MInv /\ MaterialInScope /\ [Next]_vars => MaterialInScope'
  BY MaterialStep
<1>3. MInv /\ MaterialInScope /\ [Next]_vars => [P]_vars
  <2> SUFFICES ASSUME MInv, MaterialInScope, [Next]_vars, Commits
               PROVE  CommitsReadable
    OBVIOUS
  <2>1. ~LogKept /\ ~Begins
    BY DEF Commits, LogKept, Begins, Log!Begin
  <2>2. MInv' /\ Ending
    BY <2>1, StepKeeps
  <2> QED
    BY <2>2, EndingIsReadable DEF MInv
<1>4. Spec => [][P]_vars
  BY <1>1, <1>2, <1>3, MemoryInvariance, PTL DEF Spec
<1> QED
  BY <1>4, PTL DEF CommittedMaterialAuthorized, CommitsReadable
-----------------------------------------------------------------------------
(* How much a Turn summarises. *)

\* Is there room for this many records beside a summary?
Fits(count) == RecordWeight * count + SummaryWeight <= ContextLimit

SmallestTaken(th) ==
  LET kept == Len(th.turn_records) IN Fits(kept) /\ ~Fits(kept + 1)

\* Compaction is entered with too much memory, and leaves the least it must.
PrefixInv ==
  InProgress(work) =>
    /\ next = "compact_context" => RequiresCompaction(thread)
    /\ thread.summary # base.summary => SmallestTaken(thread)

\* The prefix of a thread with too much memory is the smallest that makes room.
LEMMA PrefixSmallest ==
  ASSUME NEW th \in ThreadStates, th.turn_records # <<>>,
         RequiresCompaction(th)
  PROVE  LET kept == Len(th.turn_records) - CompactionPrefix(th)
         IN Fits(kept) /\ ~Fits(kept + 1)
<1> DEFINE n == Len(th.turn_records)
           k == CompactionPrefix(th)
           fits == {j \in 1..n : Fits(n - j)}
<1>1. n \in Nat /\ k \in 1..n
  BY PrefixRange DEF ThreadStates, ThreadsOver
<1>2. /\ RecordWeight \in Nat /\ SummaryWeight \in Nat /\ ContextLimit \in Nat
      /\ SummaryWeight < ContextLimit
  BY WeightAssumption
<1>3. n \in fits
  <2>1. RecordWeight * (n - n) = 0
    BY <1>1, <1>2
  <2> QED
    BY <1>1, <1>2, <2>1 DEF Fits
<1>4. k \in fits /\ \A j \in fits : k <= j
  <2>1. k = IF fits = {} THEN n ELSE CHOOSE i \in fits : \A j \in fits : i <= j
    BY DEF CompactionPrefix, Fits
  <2>2. \E i \in fits : \A j \in fits : i <= j
    <3>1. fits \in SUBSET Nat
      BY <1>1
    <3> HIDE DEF fits
    <3> QED
      BY <1>3, <3>1, LeastElement
  <2> HIDE DEF fits, k
  <2> QED
    BY <1>3, <2>1, <2>2
<1>5. ~Fits(n - k + 1)
  <2>1. CASE k = 1
    <3>1. Weight(th) \in {RecordWeight * n + 0, RecordWeight * n + SummaryWeight}
      BY DEF Weight
    <3>2. n - k + 1 = n
      BY <1>1, <2>1
    <3>3. RecordWeight * n \in Nat
      <4>1. \A a, b \in Nat : a * b \in Nat
        OBVIOUS
      <4> QED
        BY <1>1, <1>2, <4>1
    <3> HIDE DEF n, k
    <3> QED
      BY <1>2, <3>1, <3>2, <3>3 DEF RequiresCompaction, Fits
  <2>2. CASE k # 1
    <3>1. /\ k - 1 \in 1..n /\ ~(k <= k - 1)
          /\ n - (k - 1) = n - k + 1
      BY <1>1, <2>2
    <3> HIDE DEF k
    <3> QED
      BY <1>4, <3>1
  <2> QED
    BY <2>1, <2>2
<1> QED
  BY <1>4, <1>5

\* Memory decides what a thread weighs and what was taken from it.
LEMMA SameWeight ==
  ASSUME NEW a, NEW b, SameMemory(a, b)
  PROVE  /\ RequiresCompaction(a) = RequiresCompaction(b)
         /\ SmallestTaken(a) = SmallestTaken(b)
BY DEF SameMemory, RequiresCompaction, Weight, SmallestTaken

\* Compaction is entered, or tried again, with too much memory.
LEMMA UpdatingCrowds ==
  ASSUME MInv, PrefixInv, Updating, next' = "compact_context"
  PROVE  RequiresCompaction(thread) \/ RequiresCompaction(thread')
<1>1. CASE CaptureTurnAuthorization
  <2> DEFINE w == [work EXCEPT
                     !.stage = "authorized",
                     !.authorization_snapshot =
                       [principal_id |-> caller, revision |-> scope]]
             n == IF RequiresCompaction(Checkpointed(thread, w))
                  THEN "compact_context" ELSE "contextualize_turn"
  <2>1. Checkpoint(w, thread, n)
    BY <1>1 DEF CaptureTurnAuthorization
  <2> HIDE DEF w
  <2> QED
    BY <2>1 DEF Checkpoint
<1>2. CASE CompactionAttemptFails
  <2>1. next = "compact_context"
    BY <1>2 DEF CompactionAttemptFails, CompactionAllowed, Proceeds, AtNode
  <2> QED
    BY <2>1, UpdatingUpdates DEF PrefixInv
<1>3. CASE CaptureFails \/ CompactionRefused
  BY <1>3 DEF CaptureFails, CompactionRefused, Checkpoint
<1>4. CASE \/ ContextualizeFirstTurn \/ ContextualizationRefused
           \/ RewriteFails \/ ClarificationRequested \/ ContextualizeTurn
  BY <1>4 DEF ContextualizeFirstTurn, ContextualizationRefused, RewriteFails,
     ClarificationRequested, ContextualizeTurn, Checkpoint
<1>5. CASE EvidenceReady \/ ResearchConcludes \/ SubgraphRaises
  BY <1>5 DEF EvidenceReady, ResearchConcludes, SubgraphRaises, Checkpoint
<1>6. CASE AnswerReleased \/ AnswerWithheld
  BY <1>6 DEF AnswerReleased, AnswerWithheld, Checkpoint
<1> QED
  BY <1>1, <1>2, <1>3, <1>4, <1>5, <1>6 DEF Updating

\* Every commit is of the thread, or of one with the memory the Turn found.
LEMMA EndingCommits ==
  ASSUME MInv, Ending
  PROVE  /\ InProgress(work)
         /\ \E th, r : /\ Commit(th, r) /\ r.turn_id = work.turn_id
                       /\ OwnThread(th, work.turn_id)
                       /\ th = thread \/ SameMemory(th, base)
<1>1. CASE CompleteTurn
  <2> DEFINE r == [ResultRecord(work) EXCEPT !.citation_dependencies = {}]
  <2>1. Proceeds("complete_turn") /\ Commit(thread, r)
    BY <1>1 DEF CompleteTurn
  <2>2. InProgress(work) /\ OwnThread(thread, work.turn_id)
    BY <2>1, NodeFinds DEF MInv, Nodes
  <2>3. r.turn_id = work.turn_id
    BY DEF ResultRecord
  <2> HIDE DEF r
  <2> QED
    BY <2>1, <2>2, <2>3
<1>2. CASE GateUnavailable \/ GateFails \/ GateCommits
  <2> DEFINE back == RollbackThread(work, thread)
  <2>1. Proceeds("authorize_and_commit_turn")
    BY <1>2 DEF GateUnavailable, GateFails, GateCommits
  <2>2. /\ InProgress(work)
        /\ OwnThread(thread, work.turn_id) /\ OwnThread(back, work.turn_id)
        /\ SameMemory(back, base)
    BY <2>1, GateFinds
  <2>3. /\ ResultRecord(work).turn_id = work.turn_id
        /\ \A reason : FailureRecord(work, reason).turn_id = work.turn_id
    BY DEF ResultRecord, FailureRecord
  <2>4. \E th \in {thread, back} :
          \E r : Commit(th, r) /\ r.turn_id = work.turn_id
    BY <1>2, <2>3 DEF GateUnavailable, GateFails, GateCommits
  <2> QED
    BY <2>2, <2>4
<1> QED
  BY <1>1, <1>2 DEF Ending

\* Each step keeps the account of what was summarised.
LEMMA PrefixStep ==
  ASSUME MInv, PrefixInv, [Next]_vars PROVE PrefixInv'
<1>1. MInv' /\ thread \in ThreadStates
  BY StepKeeps DEF MInv, IInv, TypeOK
<1>2. CASE Updating
  <2>1. PICK w \in Works, n \in Nodes : Updates(w, n)
    BY <1>2, UpdatingUpdates
  <2>2. /\ thread' = Checkpointed(thread, w) /\ base' = base
        /\ InProgress(work)
    BY <1>2, <2>1, UpdatingUpdates DEF Updates, Checkpoint
  <2>3. SameMemory(thread', thread)
    BY <1>1, <2>2 DEF Checkpointed, SameMemory, ThreadStates, ThreadsOver
  <2>4. next' = "compact_context" => RequiresCompaction(thread')
    BY <1>2, <2>3, SameWeight, UpdatingCrowds
  <2>5. thread'.summary # base'.summary => SmallestTaken(thread')
    BY <2>2, <2>3, SameWeight DEF PrefixInv, SameMemory
  <2> QED
    BY <2>4, <2>5 DEF PrefixInv, RequiresCompaction, Weight, SmallestTaken, Fits
<1>3. CASE CompactContext
  <2> DEFINE k == CompactionPrefix(thread)
             n == Len(thread.turn_records)
  <2>1. /\ Proceeds("compact_context") /\ thread.turn_records # <<>>
        /\ next' = "contextualize_turn"
        /\ \E d, w : thread' = Checkpointed(Compacted(thread, k, d), w)
    BY <1>3 DEF CompactContext, CompactionAllowed, Checkpoint
  <2>2. RequiresCompaction(thread)
    BY <1>1, <1>3, <2>1, CompactContextKeeps
       DEF PrefixInv, Proceeds, AtNode, MInv
  <2>3. Fits(n - k) /\ ~Fits(n - k + 1)
    BY <1>1, <2>1, <2>2, PrefixSmallest
  <2>4. thread'.turn_records = SubSeq(thread.turn_records, k + 1, n)
    <3> HIDE DEF k
    <3> QED
      BY <1>1, <2>1 DEF Checkpointed, Compacted, ThreadStates, ThreadsOver
  <2>5. Len(thread'.turn_records) = n - k
    <3>1. /\ thread.turn_records \in Seq(TurnRecords)
          /\ n \in Nat /\ k \in 1..n
      BY <1>1, <2>1, PrefixRange DEF ThreadStates, ThreadsOver
    <3> HIDE DEF k
    <3> QED
      BY <2>4, <3>1
  <2> HIDE DEF k, n
  <2>6. SmallestTaken(thread')
    BY <2>3, <2>5 DEF SmallestTaken
  <2> QED
    BY <2>1, <2>6 DEF PrefixInv
<1>4. CASE GateRestarts \/ PrepareTurn
  <2>1. next' \in UncompactedNodes \/ ~InProgress(work')
    BY <1>4 DEF GateRestarts, Checkpoint, PrepareTurn, UncompactedNodes,
                InProgress
  <2>2. next' # "compact_context" \/ ~InProgress(work')
    BY <1>4 DEF GateRestarts, Checkpoint, PrepareTurn, InProgress
  <2>3. InProgress(work') => thread'.summary = base'.summary
    BY <1>1, <2>1
       DEF MInv, MemoryKept, Uncompacted, RollbackThread, SameMemory
  <2> QED
    BY <2>2, <2>3 DEF PrefixInv
<1>5. CASE Ending
  <2>1. ~InProgress(work')
    BY <1>5, EndingCommits DEF Commit, InProgress
  <2> QED
    BY <2>1 DEF PrefixInv
<1>6. CASE Outside
  BY <1>6, OutsideSteps DEF PrefixInv
<1> QED
  BY <1>2, <1>3, <1>4, <1>5, <1>6, StepKinds

\* A Turn that commits a new summary summarised exactly the oldest records that
\* had to leave, for every weight and limit.
THEOREM SmallestPrefixesCommitted == Spec => SmallestPrefixCommitted
<1> DEFINE kept == Len(thread'.turn_records) - 1
           P == (Commits /\ thread'.summary # base.summary) =>
                  /\ RecordWeight * kept + SummaryWeight <= ContextLimit
                  /\ RecordWeight * (kept + 1) + SummaryWeight > ContextLimit
<1>1. Init => PrefixInv
  BY DEF Init, PrefixInv, InProgress
<1>2. MInv /\ PrefixInv /\ [Next]_vars => PrefixInv'
  BY PrefixStep
<1>3. MInv /\ PrefixInv /\ [Next]_vars => [P]_vars
  <2> SUFFICES ASSUME MInv, PrefixInv, [Next]_vars, Commits,
                      thread'.summary # base.summary
               PROVE  P
    OBVIOUS
  <2>1. ~LogKept /\ ~Begins
    BY DEF Commits, LogKept, Begins, Log!Begin
  <2>2. Ending
    BY <2>1, StepKeeps
  <2>3. PICK th, r : /\ Commit(th, r) /\ r.turn_id = work.turn_id
                     /\ OwnThread(th, work.turn_id)
                     /\ th = thread \/ SameMemory(th, base)
    BY <2>2, EndingCommits
  <2>4. /\ thread'.summary = th.summary
        /\ thread'.turn_records = Append(th.turn_records, r)
    BY <2>3
       DEF Commit, Committed, OwnThread, ThreadStates, ThreadsOver
  <2>5. th = thread
    BY <2>3, <2>4 DEF SameMemory
  <2>6. SmallestTaken(thread)
    BY <2>2, <2>4, <2>5, EndingCommits DEF PrefixInv
  <2>7. kept = Len(thread.turn_records) /\ Len(thread.turn_records) \in Nat
    BY <2>4, <2>5 DEF MInv, IInv, TypeOK, ThreadStates, ThreadsOver
  <2>8. /\ RecordWeight * kept + SummaryWeight <= ContextLimit
        /\ ~(RecordWeight * (kept + 1) + SummaryWeight <= ContextLimit)
    BY <2>6, <2>7 DEF SmallestTaken, Fits
  <2>9. RecordWeight * (kept + 1) + SummaryWeight \in Nat
    <3>1. \A a, b \in Nat : a * b \in Nat
      OBVIOUS
    <3>2. kept + 1 \in Nat
      BY <2>7
    <3> QED
      BY <3>1, <3>2, WeightAssumption
  <2> HIDE DEF kept
  <2> QED
    BY <2>8, <2>9, WeightAssumption
<1>4. Spec => [][P]_vars
  BY <1>1, <1>2, <1>3, MemoryInvariance, PTL DEF Spec
<1> QED
  BY <1>4, PTL DEF SmallestPrefixCommitted
=============================================================================
