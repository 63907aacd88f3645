SPECIFICATION ReceiptsSpec
CONSTANTS
  Artifact = {a1, a2}
  Process = {p1, p2}
  MaxEntries = 3
  MaxRuns = 6
CHECK_DEADLOCK FALSE
INVARIANTS AnchoringHolds ProofsHold
PROPERTIES FreshReplayProofVerifies
