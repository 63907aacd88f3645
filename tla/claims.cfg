SPECIFICATION ClaimSpec
CONSTANTS
  ZeroAddress = ZeroAddress
  Account = {admin, e1, vesting}
  Deployer = admin
  Vesting = vesting
  Beneficiary = e1
  Shareholder = {admin}
  NewAdmin = {}
  NewTokenAdmin = {}
  Employee = {e1}
  StatusUser = {e1}
  StatusArg = {0}
  MaxUint256 = 15
  MaxUint64 = 7
  GrantTotal = {5}
  GrantTime = {0}
  GrantDuration = {3}
  Amount = {1}
  MaxTime = 4
  Lookback = 0
  MaxClaims = 2
  MaxFiles = 3
CHECK_DEADLOCK FALSE
INVARIANTS DifferencesAreClaims ClaimsAreAsWritten SummaryFailsByTransfersOnly
PROPERTIES PrestateNeverOverstates
