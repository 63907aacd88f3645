---------------------------- MODULE MCEquitySystem ----------------------------
(* Small instances of EquitySystem and of its refinement for TLC.          *)
EXTENDS EquitySystem, TLC

CONSTANTS admin, e1, e2, vesting

TwoEmployees == {admin, e1, e2, vesting}
OneEmployee  == {admin, e1, vesting}

EmployeeSymmetry == Permutations({e1, e2})

=============================================================================
