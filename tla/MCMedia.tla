------------------------------ MODULE MCMedia ------------------------------
(***************************************************************************)
(* MediaStore for TLC.                                                     *)
(***************************************************************************)
EXTENDS MediaStore, TLC
=============================================================================
