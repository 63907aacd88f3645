SPECIFICATION RotationSpec
CONSTANTS
  admin = admin
  safe = safe
  Safe = safe
  Rotations <- RotationScripts
  Tokens = {TRUE, FALSE}
  MaxRotationCrashes = 1
  freeze = freeze
  gate = gate
  min = min
  ZeroAddress = ZeroAddress
  Account <- Everybody
  Deployer = admin
  NewAdmin = {}
  Contract = {freeze, gate, min}
  MaxStack = 6
  Desired <- FreezeThenGate
  StartStack <- SmallStacks
  MaxCrashes = 1
CHECK_DEADLOCK FALSE
INVARIANTS RunsAreSound HandedOverInOrder
PROPERTIES DesiredStaysInForce ScriptsComplete
