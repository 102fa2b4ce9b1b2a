----------------------------- MODULE MCResearch -----------------------------
(* Small instances of Research for TLC. *)
EXTENDS Research, TLC

\* Sources, paths and revisions are interchangeable in a run that checks safety
\* only.
DataSymmetry ==
  Permutations(Sources) \cup Permutations(Paths) \cup Permutations(Revisions)
=============================================================================
