---------------------------- MODULE MCRadioUnits ----------------------------
(***************************************************************************)
(* RadioUnits with two admins, one radio ID more than the limit and both   *)
(* admins could add, and two processes, all of them interchangeable.       *)
(***************************************************************************)
EXTENDS RadioUnits, TLC

Symmetry ==
  Permutations(Radio) \cup Permutations(Admin) \cup Permutations(Process)
=============================================================================
