SPECIFICATION Spec
CONSTANTS
  admin = admin
  e1 = e1
  e2 = e2
  vesting = vesting
  ZeroAddress = ZeroAddress
  Account <- TwoEmployees
  Deployer = admin
  Vesting = vesting
  NewAdmin = {}
  NewTokenAdmin = {vesting}
  Employee = {e1, e2}
  StatusUser = {e1, e2}
  StatusArg = {0, 1}
  MaxUint256 = 9
  MaxUint64 = 7
  GrantTotal = {4, 5}
  GrantTime = {0, 2, 4}
  GrantDuration = {1, 3}
  Amount = {}
  MaxTime = 5
SYMMETRY EmployeeSymmetry
CHECK_DEADLOCK FALSE
INVARIANTS IInv ReleasesFollowSchedule ScriptsAgree
