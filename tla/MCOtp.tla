------------------------------- MODULE MCOtp -------------------------------
(***************************************************************************)
(* Otp for TLC.                                                            *)
(***************************************************************************)
EXTENDS Otp, TLC

\* Sends and requests differ in nothing but their names.
Symmetry == Permutations(Sends) \cup Permutations(Requests)
=============================================================================
