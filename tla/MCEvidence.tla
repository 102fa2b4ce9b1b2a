----------------------------- MODULE MCEvidence -----------------------------
(* A small instance of Evidence for TLC. *)
EXTENDS Evidence, TLC

CONSTANTS docs, runbooks

MCKnowledgeSources == <<docs, runbooks>>
MCRevisions == (1 :> {1}) @@ (2 :> {1}) @@ (3 :> {1, 2})
MCSourceOf == (1 :> docs) @@ (2 :> docs) @@ (3 :> runbooks)

\* Three sections whose joined text rounds differently from its parts; one of a
\* document that is only there to change the corpus; one in another source that
\* does not fit beside the longest of them.
MCLengths == (1 :> <<4, 5, 3>>) @@ (2 :> <<9>>) @@ (3 :> <<13>>)
=============================================================================
