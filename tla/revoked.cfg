SPECIFICATION ReplaySpec
CONSTANTS
  Id = {1, 2, 3}
  Employee = {e1}
  Terms = {t1}
  Form = {"payload"}
  Before = {}
  Practice = {"proofs"}
  MaxBlocks = 1
CHECK_DEADLOCK FALSE
INVARIANT RevokedIsNotActive
