--------------------------- MODULE GrantStateReplay ---------------------------
(***************************************************************************)
(* build-grant-state-snapshot.mjs and verify-grant-state-replay.mjs: for   *)
(* every grant of the ledger, whether its beneficiary is verified at a     *)
(* block; the verifier reads ledger and chain again and compares the whole *)
(* document.  A ledger entry names no beneficiary: both search the         *)
(* directory for a file that has grantId and beneficiary, which only       *)
(* registry.json does, and the file found is part of the document.         *)
(***************************************************************************)
EXTENDS GrantRecords

CONSTANTS
  Practice,   \* what is done with the records: "proofs", "snapshots"
  MaxBlocks   \* bound on blocks

ASSUME ReplayAssumption == Practice \subseteq {"proofs", "snapshots"} /\ MaxBlocks \in Nat

VARIABLES
  practice,   \* one of Practice
  blocks,     \* by block number, who was restricted at its end
  snapshot    \* snapshot.json

replayVars == <<vars, practice, blocks, snapshot>>

ReplayInit ==
  /\ Init
  /\ practice \in Practice /\ blocks = <<restricted>> /\ snapshot = Missing

-----------------------------------------------------------------------------
CloseBlock ==
  /\ Len(blocks) < MaxBlocks
  /\ blocks' = Append(blocks, restricted)
  /\ UNCHANGED <<vars, practice, snapshot>>

\* findBeneficiaryBySearchingRepo: the rows of the grant in registry.json.
RowsOf(id) ==
  IF registry = Missing THEN {}
  ELSE {n \in DOMAIN registry.grants : registry.grants[n].grantId = id}

\* loadGrantList throws without a beneficiary, as for a stray.
GrantsFound ==
  ledger # Missing /\ ledger.strays = {} /\ \A id \in DOMAIN ledger.grants : RowsOf(id) # {}

Beneficiary(id) == registry.grants[CHOOSE n \in RowsOf(id) : TRUE].beneficiary

\* readGrantState at the block.
State(id, block) ==
  [beneficiary |-> Beneficiary(id), verified |-> Beneficiary(id) \notin blocks[block]]

SnapshotAt(block) ==
  [block |-> block, grants |-> [id \in DOMAIN ledger.grants |-> State(id, block)]]

BuildSnapshot ==
  /\ GrantsFound
  /\ \E block \in DOMAIN blocks : snapshot' = SnapshotAt(block)
  /\ UNCHANGED <<vars, practice, blocks>>

\* Mutant: the state is read at the latest block.
ReplayVerifiesUnpinned ==
  /\ snapshot # Missing /\ GrantsFound
  /\ snapshot.grants = SnapshotAt(Len(blocks)).grants

ReplayVerifies ==
  /\ snapshot # Missing /\ GrantsFound
  /\ snapshot = SnapshotAt(snapshot.block)

-----------------------------------------------------------------------------
ReplayNext ==
  \/ RecordsNext /\ UNCHANGED <<practice, blocks, snapshot>>
  \/ practice = "proofs" /\ ProofsNext /\ UNCHANGED <<practice, blocks, snapshot>>
  \/ practice = "snapshots" /\ (CloseBlock \/ BuildSnapshot)

ReplaySpec == ReplayInit /\ [][ReplayNext]_replayVars

-----------------------------------------------------------------------------
(* A snapshot that verifies goes on doing so, whatever happens on the      *)
(* chain and to the other files, until the ledger is another one: a        *)
(* registry built anew names the same beneficiaries.                       *)
SnapshotStands ==
  [][snapshot # Missing /\ snapshot' = snapshot /\ ledger' = ledger
     => (ReplayVerifies => ReplayVerifies')]_replayVars

(* The files built from a ledger say the same for as long as it is the     *)
(* ledger: the registry's rows, and the state snapshot's verdict.          *)
FilesFollowLedger == RegistryFollowsLedger /\ SnapshotStands
=============================================================================
