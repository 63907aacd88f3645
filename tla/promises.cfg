SPECIFICATION FairSpec
CONSTANTS
  admin = admin
  e1 = e1
  e2 = e2
  vesting = vesting
  ZeroAddress = ZeroAddress
  Account <- OneEmployee
  Deployer = admin
  Vesting = vesting
  NewAdmin = {e1, ZeroAddress}
  NewTokenAdmin = {e1, vesting, ZeroAddress}
  Employee = {e1, ZeroAddress}
  StatusUser = {admin, e1, ZeroAddress}
  StatusArg = {0, 1, 2, 3}
  MaxUint256 = 3
  MaxUint64 = 7
  GrantTotal = {2}
  GrantTime = {0, 1}
  GrantDuration = {1, 2}
  Amount = {0, 1, 2}
  MaxTime = 3
CHECK_DEADLOCK FALSE
INVARIANTS SuppliesAgree
PROPERTIES KeepsPromises VestedEventuallyReleased HoldingsAreSafe
