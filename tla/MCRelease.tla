------------------------------ MODULE MCRelease ------------------------------
(* A small instance of Release for TLC. *)
EXTENDS Release, TLC

CONSTANTS happy, poisoned_fact

MCReleaseExamples == <<happy>>
MCDiagnosticExamples == <<poisoned_fact>>

\* One is better and cheaper than the other; both pass the absolute thresholds.
MCMeasures == {[score |-> 1, cost |-> 1], [score |-> 2, cost |-> 0]}

\* Commands are interchangeable, and so are checkouts: neither is compared with
\* anything but its like.  The run checks safety only.
ReleaseSymmetry == Permutations(Commands) \cup Permutations(Checkouts)
=============================================================================
