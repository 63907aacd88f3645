SPECIFICATION ReplaySpec
CONSTANTS
  Id = {1, 2, 3}
  Employee = {e1, e2}
  Terms = {t1}
  Form = {"payload", "flat"}
  Before = {2}
  Practice = {"proofs", "snapshots"}
  MaxBlocks = 2
SYMMETRY Symmetry
CHECK_DEADLOCK FALSE
INVARIANTS ChainIsOnRecord ProofsFollowRegistry
PROPERTIES FilesFollowLedger
