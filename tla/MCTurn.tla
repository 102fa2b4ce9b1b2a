------------------------------- MODULE MCTurn -------------------------------
(* Small instances of Turn for TLC. *)
EXTENDS Turn, TLC

\* Documents are interchangeable in a run that checks safety only.
DocSymmetry == Permutations(Docs)
=============================================================================
