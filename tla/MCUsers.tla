------------------------------ MODULE MCUsers -------------------------------
(***************************************************************************)
(* Users for TLC.                                                          *)
(***************************************************************************)
EXTENDS Users, TLC

\* Updates that ask for a mail address or another column.
EmailOrName ==
  {[NoRow EXCEPT !.email = e] : e \in Emails} \cup {[NoRow EXCEPT !.name = n] : n \in Names}

\* Users of a table, identifiers, names and requests differ in nothing but their names.
Symmetry ==
  Permutations(Creators) \cup Permutations(Editors) \cup Permutations(Emails)
  \cup Permutations(Mobiles) \cup Permutations(Names) \cup Permutations(Requests)
=============================================================================
