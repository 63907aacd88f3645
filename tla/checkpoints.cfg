SPECIFICATION Spec
CONSTANTS
  Artifact = {a1}
  Witness = {w1, w2}
  Keyring <- BothOrOne
  Threshold = {1, 2}
  Stamp = {1, 2}
  MaxEntries = 2
  MaxRuns = 9
SYMMETRY Symmetry
CHECK_DEADLOCK FALSE
INVARIANTS AcceptedChainIsWitnessed AnchorIsBacked BridgeShowsExtension
