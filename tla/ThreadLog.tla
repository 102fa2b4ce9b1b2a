----------------------------- MODULE ThreadLog -----------------------------
(***************************************************************************)
(* What a Conversation Thread promises its caller, whatever happens inside *)
(* a Turn: a log of terminal Turn Records that only ever grows at its end, *)
(* one record for each activation of a Turn, and never two active Turns.   *)
(*                                                                         *)
(* Compaction, restarts, rollbacks, crashes and resumes are invisible      *)
(* here: a record summarised out of active Memory stays in the log.        *)
(***************************************************************************)
EXTENDS Naturals, Sequences

CONSTANTS TurnIds,     \* identities a caller may give a Turn
          Records,     \* terminal Turn Records, each with a turn_id
          NoTurn       \* no Turn is active

VARIABLES log,         \* every record committed so far, oldest first
          active       \* the Turn that may append next, or NoTurn

logVars == <<log, active>>

LogInit == log = <<>> /\ active = NoTurn

Begin(t) ==
  /\ active = NoTurn
  /\ active' = t
  /\ UNCHANGED log

Commit(r) ==
  /\ active # NoTurn
  /\ r.turn_id = active
  /\ log' = Append(log, r)
  /\ active' = NoTurn

\* The record a step appends can only be the newest of the log it leaves.
CommitNewest ==
  /\ log' # <<>>
  /\ LET r == log'[Len(log')] IN r \in Records /\ Commit(r)

LogNext ==
  \/ \E t \in TurnIds : Begin(t)
  \/ CommitNewest

LogSpec == LogInit /\ [][LogNext]_logVars
=============================================================================
