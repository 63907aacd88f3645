SPECIFICATION Spec
CONSTANTS
  Inputs = {i1, i2}
  Commit = {c1, c2}
  Signer = {"a1", "a2"}
  Key = {"k1", "k2"}
  Policy <- Policies
  MaxAge = 0
  MaxDay = 1
  MaxRuns = 7
SYMMETRY Symmetry
CHECK_DEADLOCK FALSE
INVARIANTS PacketIsItsInputs AcceptedPacketIsAttested PublicationStands
PROPERTIES LateAttestation
