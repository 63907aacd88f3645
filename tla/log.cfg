SPECIFICATION Spec
CONSTANTS
  Artifact = {a1, a2}
  Process = {p1, p2}
  Practice <- SerialOrWriters
  MaxEntries = 3
CHECK_DEADLOCK FALSE
SYMMETRY Symmetry
INVARIANTS FileIsSound CommitmentsStand
PROPERTIES AppendOnly
