SPECIFICATION LifecycleSpec
CONSTANTS
  GrantId = {g1, g2}
  TrustHash = {h1}
  EventId = {1, 2}
  EffectiveAt = {0, 1}
  EventType = {"vesting", "exercise", "transition"}
  Quantity = {3}
  MaxExact = 4
  MaxEvents = 2
  MaxEarly = 7
  MaxLater = 5
SYMMETRY Symmetry
CHECK_DEADLOCK FALSE
INVARIANTS ChainIsWhatWasStated SnapshotIsPresentState StatusIsExact
