---------------------------- MODULE MCGrantRecords ----------------------------
(* Small instances of GrantRecords and GrantStateReplay: employees and   *)
(* terms are interchangeable model values.                                 *)
EXTENDS GrantStateReplay, TLC

Symmetry == Permutations(Employee) \cup Permutations(Terms)
=============================================================================
