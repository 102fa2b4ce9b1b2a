---------------------------- MODULE MCCorpusSync ----------------------------
(* A small instance of CorpusSync for TLC. *)
EXTENDS CorpusSync, TLC

CONSTANTS s1, s2, c1, c2

\* Two calls that race under different Processing Revisions.
MCConfiguration == (s1 :> c1) @@ (s2 :> c2)
=============================================================================
