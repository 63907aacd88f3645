SPECIFICATION Spec
CONSTANTS
  admin = admin
  holder = holder
  freeze = freeze
  gate = gate
  min = min
  other = other
  ZeroAddress = ZeroAddress
  Account <- Everybody
  Deployer = admin
  FreezePolicy = freeze
  GatePolicy = gate
  MinPolicy = min
  Contract = {freeze, gate, min, other}
  Composite = other
  Person = {admin, holder}
  NewAdmin = {holder, ZeroAddress}
  StatusUser = {admin, holder}
  StatusArg = {0, 1}
  MinAmountArg = {0, 3}
  PolicyArg = {freeze, gate, holder}
  TokenPolicyArg = {gate, other}
  InitialStack <- GatedStacks
  MaxStack = 3
  Recipient = {admin, holder, ZeroAddress}
  Amount = {2}
  MaxUint256 = 2
CHECK_DEADLOCK FALSE
INVARIANTS LedgerHolds AuditTrailMatchesStack ObserversAreTold
PROPERTIES FreezeHoldsTransfers GateHolds
