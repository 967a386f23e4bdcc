-------------------------- MODULE MCSessionTokens --------------------------
(***************************************************************************)
(* SessionTokens for TLC.                                                  *)
(***************************************************************************)
EXTENDS SessionTokens, TLC

\* Ids of a set that a definition does not tell apart may be permuted.
Symmetry == Permutations(CreatorRequests) \cup Permutations(Sessions)
=============================================================================
