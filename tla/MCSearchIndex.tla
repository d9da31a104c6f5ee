---------------------------- MODULE MCSearchIndex ----------------------------
(***************************************************************************)
(* Small instances of SearchIndex for TLC.                                  *)
(***************************************************************************)
EXTENDS SearchIndex, TLC

CONSTANTS s1, s2, q1, q2

\* Segments and clients are interchangeable.
Interchangeable == Permutations(Sources) \union Permutations(Queries)
=============================================================================
