------------------------------ MODULE MCLogins ------------------------------
(***************************************************************************)
(* Logins for TLC.                                                         *)
(***************************************************************************)
EXTENDS Logins, TLC

\* Two points for the mail address, which has two uses, one for the others.
MCPoints == [k \in Keys |-> IF k = "mail" THEN 2 ELSE 1]
MCDuration == [k \in Keys |-> IF k = "mail" THEN 2 ELSE 1]
MCBlockDuration == [k \in Keys |-> 2]

Symmetry == Permutations(Requests)
=============================================================================
