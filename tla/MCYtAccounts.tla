---------------------------- MODULE MCYtAccounts ----------------------------
(***************************************************************************)
(* YtAccounts for TLC.                                                     *)
(***************************************************************************)
EXTENDS YtAccounts, TLC

\* Channels, rows and requests are told apart by nothing but their names.
Symmetry == Permutations(Channels) \cup Permutations(Rows) \cup Permutations(Requests)
=============================================================================
