# Verification of onchain-equity-mvp

TLA+ models of the equity contracts of this repository, of the scripts that
administer them and claim from them, and of the evidence files these scripts
derive from each other, with TLC configurations and TLAPS proofs. Paths below are
relative to the repository's root unless they name a file of this directory.

    tlc -workers 2 -config grants.cfg MCEquitySystem.tla
    tlapm EquitySystemProofs.tla

## 1. The system

Two deployments of contracts, a set of Node scripts that read and administer
them, and JSON files under `contracts/evidence` and `manifests` that the scripts
derive from each other.

| Part | State | Operations | What is hard | What makes it correct |
|---|---|---|---|---|
| `IdentityRegistry.sol` | admin, status of each address | setAdmin, setStatus, isVerified | a status can change between any two calls of others | a restriction binds the very next call |
| `EquityToken.sol` | admin, balances, totalSupply | setAdmin, mint, burn, transfer | the admin is first a person, then the vesting contract; checked arithmetic at the limit; transfers to oneself | balances add up to the supply; the handover is final; unverified holdings are frozen |
| `VestingContract.sol` | admin, one grant per employee | createGrant, revokeGrant, release, setAdmin, vestedAmount | release and revocation in one block in either order; cliff, end and overflow boundaries; a cliff after the end | nothing beyond what has vested is paid, a revocation cancels exactly the rest, everything vested gets paid in the end |
| Leaf policies (`EmergencyFreezePolicyV2`, `ComplianceGatedPolicyV1`, `MinAmountPolicyV1`) | an admin each; frozen, requireSenderVerified, minAmount | their setters; canTransfer | five administrators act while transfers run | a freeze or gate in force binds every transfer |
| `CompositePolicy.sol`, `CompositePolicyV111.sol` | admin, ordered stack of policies, event log | add, insert, remove, move, replace, setAdmin; canTransfer, canTransferTrace | shifting loops, swap-and-pop; members that revert | the stack is what its events say; evaluation is a conjunction that stops at the first objection |
| `EquityTokenV2.sol` | admin, transferPolicy, balances | setTransferPolicy, transfer, mint | unchecked arithmetic; the policy can be exchanged | no wrap, the policy is asked |
| `composite-set-stack-esm.js` | what main() has read, its loop variables, its pending transaction | reads, transactions, receipts, crash, rerun | decides from stale positions; crashes leave transactions pending | a quiet run installs the desired stack and never drops a desired member on the way |
| Admin rotation scripts | the admins of four contracts | setAdmin, one after the other | a failure between two, under the key another script uses | a fixed order; the rerun finishes where it can |
| Transparency log (three writers, verifier) | one JSON file | whole-file read, compute, whole-file write | no lock, torn writes, three hash formulas in one file | append-only, verifiable |
| Log proofs, index, on-chain anchor (`TransparencyLogAnchor.sol`) | a file per proof, a receipt, the contract's events | build, verify, anchor | the log grows between reads; anchoring is several RPC calls by several processes | what verifies is in the log; an anchor is one state of it |
| Checkpoint chain: checkpoint, witnesses, finalization, rebinding, external anchor, bridge | a file each | build, sign, verify | every file may be older than what it is derived from | what is accepted at the end fits together |
| Grant issuance and issuance anchor | a file each | build, verify | two formats of the finalization | an issuance names one checkpoint, which its scripts do not see to |
| Lifecycle events, chain, snapshot, reconciliation, its log entry | a file each | state, upsert and rehash, sum, replay, log | events out of order, stated again or of another grant; JavaScript numbers; verifiers that read only some of the files | each summary is what was last stated |
| Claim tools: prestate, two executions, recovery, receipt, poststate, summary, pinned snapshots | evidence files | unpinned reads; simulate, send, wait; recover | other claims, transfers and burns in the same block, lost answers | the evidence describes the claim that happened |
| Vesting read-outs | none | read a grant at a block, compute the schedule off chain | a twin of the contract's arithmetic in BigInt | it agrees with the contract |
| Grant operations, ledger, registry, Merkle root and proofs, attestation | the files of `manifests/grants` | write a manifest and send; rebuild the directory's index and what hangs on it | a crash between manifest and transaction; files that are rebuilt separately | every grant on the chain is on record, every recorded grant can be proven |
| Grant state snapshot and replay | one file | build, verify | reads the chain and a directory that changes | a snapshot that verifies goes on doing so |
| Audit packets, signatures, attestations, trust policy, bundle, transparency manifest | a file each | build, sign, verify, publish | no script compares all of them | acceptance by all verifiers has a meaning |
| Deploy, sanity, demo and console scripts, static data | files | calls modelled above, print | none beyond I/O | — |

Interactions: the token and the vesting contract ask the registry; release mints
through the token, of which the vesting contract must be admin; EquityTokenV2
asks its transferPolicy, normally the composite, which asks its members in
order, one of which asks the registry. Scripts reach the contracts only by RPC
reads and transactions. The file scripts interact only through their files.

## 2. Modules

    Addresses ── IdentityRegistry ─┬─ EquityToken ── VestingContract ── EquitySystem ─┬─ ClaimTools
                                   │      VestingMath ──┘                             └─ EquityPromise (abstract)
                                   └─ TransferPolicies ─┬─ CompositePolicy ── EquityTokenV2 ─┬─ PolicySystem
    Addresses ── PolicyStack ─┬─────────────────────────┘                                    │
                              ├─ PolicyStackV111 ────────────────────────────────────────────┘
                              └─ SetStackScript ── AdminRotation
    LogFile ─┬─ LogDirectory ─┬─ TransparencyLog
             │                └─ LogReceipts
             └─ CheckpointChain
    GrantLifecycle
    MerkleTree ── GrantRecords ── GrantStateReplay
    AuditPackets
    SetSums: sums over sets, used by EquitySystem, PolicySystem and GrantLifecycle

    Proofs                     of
    EquitySystemProofs         EquitySystem, its refinement of EquityPromise, ClaimTools
    PolicySystemProofs         PolicySystem
    AdminRotationProofs        SetStackScript, AdminRotation
    TransparencyLogProofs      TransparencyLog, LogReceipts
    CheckpointChainProofs      CheckpointChain, GrantLifecycle
    GrantRecordsProofs         MerkleTree, GrantRecords, GrantStateReplay
    AuditPacketsProofs         AuditPackets
    DataInduction              induction over numbers and finite sets, sums

One module per contract holds its variables, its type and one operator per
external function whose first argument is `msg.sender`. `EquitySystem` and
`PolicySystem` compose them: each `Tx...` action is one transaction of a person
and says what stays unchanged elsewhere. The MC modules add the model values that
a cfg cannot write; other runs use the module itself.

Conventions for contracts.
- A call that reverts changes nothing, so it is a disabled action; each
  `require`, custom error and checked-arithmetic failure is a conjunct of the
  guard. Where the revert itself matters it has a name: `VestedAmountReverts`
  for the overflow of `total * elapsed`, the answer `Reverts` of a policy.
- Transactions are atomic, also where a contract calls another: the callee's
  operator is a conjunct of the caller's (`Release` contains `Mint`).
- `blockTimestamp` moves only in `NewBlock`; two transactions without a
  `NewBlock` between them share a block, in both orders.
- Integers have the width `MaxUint256` or `MaxUint64`. Solidity 0.8's checked
  arithmetic guards; `unchecked` blocks compute modulo `MaxUint256 + 1`.
- A position `i` of a stack stands for index `i - 1` of the code.
- Events are kept where somebody replays them: `revocationLog` holds the last
  `GrantRevoked` event of an employee, `replayed` the stack an auditor rebuilds
  from CompositePolicy's events, `named` the bag of members he rebuilds from
  V1.1.1's, whose removal reorders without saying so. Other events are left out.
- `directSupply`, `quiet`, `named`, `replayed`, `stated` and `received` are history
  variables: no action reads them.

`PolicySystem` has either composite at the address `Composite` (`version`).
V1.1 and `EmergencyFreezePolicyV1` answer interfaces nobody calls, so they are
among the contracts that revert (`other`).

`SetStackScript` has a program counter and the variables of `main()`. A
transaction goes into `mempool`, is mined in nonce order by `Mine`, whether or
not the script still runs, and its receipt is awaited. `Send` models viem's gas
estimation: a call that reverts on the present state throws and is not sent.
`Crash` stands for a dead process and for an RPC call that throws. `AdminRotation`
runs the rotation of administrators beside it, under the same key: a composite
handed over in the middle of a run makes the rest of that run fail.

Conventions for files. The hash of a document is the document, or a term (the
formula and the hashed content) where several formulas meet: hashes without
collisions. A signature is the signed text with its key. A derived file holds
what it was derived from, so staleness is inequality. A builder that reads, checks
and writes one file is one step; where a run writes two files, or makes several
RPC calls, the steps between which others run, or the process dies, are actions.
Timestamps and paths are kept only where something is decided by them.

- `LogFile` is what the log's scripts compute, `LogDirectory` the log and checkpoint on
  disk with what is said of them, `TransparencyLog` how the scripts'
  runs meet: `Read`, then a whole-file write; `Die` is a process that ends before or
  inside it, the latter leaving a file no JSON parser accepts, which stops every
  later run until somebody restores it. A Merkle root of the log is the list of
  its leaves; the tree itself is modelled in `MerkleTree`, for the registry.
- `LogReceipts`: the three inclusion proofs with the index, and anchoring in steps
  (read the log, read the contract, send, wait, write the receipt).
- `CheckpointChain`, `GrantLifecycle`, `AuditPackets`: one action
  per builder, one `...Verifies` per verifier, edits of hand-written files. In
  `CheckpointChain` two thresholds must be kept apart: a keyring's, which
  sign-transparency-checkpoint-witness and its verifier count against, and the
  finalization policy's, which is hashed with the policy and otherwise ignored (see
  the disagreements below). In `GrantLifecycle` grant and trust chain of an event are
  free: they are arguments of the command line (build-grant-lifecycle-event.mjs:155,164),
  and no script compares them with an issuance or with the events already chained.
- `ClaimTools` extends `EquitySystem` with `past`, the closed blocks a script can
  ask for, and `claims`, the transactions and what each did. Between claims anybody
  may do what the contracts allow, transfers from and to the beneficiary included.
- `GrantRecords`: manifests, ledger, registry, root, proof, attestation beside a
  chain that mines or drops what was sent. `GrantStateReplay` adds phase 7.5.

`EquityPromise` is what an employee is promised: amounts accrue, what is paid is
what has accrued, cancelling takes away only what has not accrued. It has no
clock and no schedule. The last section of `EquitySystem` maps the contracts to it: accrued is
`vestedAmount` of the current block, paid is `released`, and the cap of a revoked
grant is what had vested.

## 3. Runs

A run names few properties; where several claims belong together, the property is
their conjunction and each claim is a definition of its own above it, with its
own comment (the parts are given in parentheses).

| Run | What it shows |
|---|---|
| `grants` | Two employees, grants with start, cliff and duration on both sides of each other, releases and revocations: types and the inductive invariant (`IInv`); `ReleasesFollowSchedule`: the contract's checked subtractions never fail (`ReleasedWithinVested`), a revocation's three parts add up and fix the entitlement (`ConservationAfterRevocation`), nothing is paid before the cliff (`NothingBeforeCliff`); `ScriptsAgree`: the off-chain twins agree (`ReadoutsAgree`) and verify-vesting-invariants.mjs fails only a grant whose cliff lies after its end (`VestingProofPasses`). |
| `promises` | Mints, burns, transfers, releases, statuses, handover, amounts up to the width: the contracts implement `EquityPromise` (`KeepsPromises`); what has vested is eventually released (`VestedEventuallyReleased`); `SuppliesAgree` (`BalancesSumToSupply`, `SupplyIsAccounted`); `HoldingsAreSafe` (`HandoverIsFinal`, `UnverifiedHoldingsFrozen`). |
| `policies` | Registry, leaf policies, either composite, token, administered all at once: the stack is what V1's events say (`AuditTrailMatchesStack`), with contracts that are no policies and, in V1.1.1, addresses that are no contracts; `ObserversAreTold`: V1.1.1's events name its members (`NamesMatchStack`), a freeze at the head answers even before a member that reverts (`HeadFreezeAnswers`); a freeze, or a gate that asks for sender and recipient, binds every transfer while it is in force (`FreezeHoldsTransfers`, `GateHolds`); `LedgerHolds`: types, and balances add up in spite of unchecked arithmetic. |
| `adminscripts` | The set-stack script on every start stack of up to three members, duplicates included, while the administrators of four contracts are rotated: a quiet run installs the desired stack (`RunsAreSound`) and drops no desired member on the way (`DesiredStaysInForce`), the contracts are handed over in order (`HandedOverInOrder`), both scripts finish after crashes (`ScriptsComplete`: `EventuallyDone`, `RotationCompletes`). |
| `log` | All six log scripts one at a time, with crashes, or the three writers two at a time: no entry is lost or reordered by a serial run and what the generic writer appends stays as it is (`AppendOnly`: `SubjectsKept`, `GenericAppendOnly`); a checkpoint never counts entries that are not there, and while only the generic writer appends every checkpoint and proof ever made stays good (`CommitmentsStand`: `CheckpointNotAhead`, `CheckpointIsPrefix`, `ProofStaysValid`); with two at once appends get lost, but the file stays counted and numbered, holds a lifecycle event once and verifies (`FileIsSound`: `TypeOK`, `LifecycleOnce`, `FileVerifies`). |
| `receipts` | Inclusion proofs of three kinds and anchoring by two processes while the log grows: receipts stay true and an anchor is one state of the log (`AnchoringHolds`: `ReceiptHolds`, `AnchorIsOneLog`); a proof that verifies speaks of what is in the log (`ProofsHold`: `PacketProofHolds`, `LifecycleProofHolds`), and a replay logged twice can still be proven (`FreshReplayProofVerifies`). |
| `checkpoints` | The chain from checkpoint to external anchor and bridge, built and gone stale in any order: what the verifiers accept at its end was signed by a whole keyring, whatever the policy's threshold (`AcceptedChainIsWitnessed`), finalization and external anchor are of the signed checkpoint (`AnchorIsBacked`: `FinalizedWasSigned`, `AnchoredRootIsFinalized`), a bridge shows an extension (`BridgeShowsExtension`). |
| `lifecycle` | Events of two grants stated in any order, twice or for another date: the chain holds what was last stated, in order of dates (`ChainIsWhatWasStated`), the snapshot is its present state (`SnapshotIsPresentState`), and the status of the replay means what it says, logged or not (`StatusIsExact`: `ReconciliationIsExact`, `LoggedReplayIsCoherent`). |
| `claims` | Claims by the scripts and by others, several in a block, killed, recovered, reverted, between transfers and burns: receipt and pinned difference are what claims paid (`DifferencesAreClaims`: `ReceiptVerifiesIffPaid`, `DeltaProofSumsClaims`), prestate and poststate are of the claim between them (`ClaimsAreAsWritten`: `ClaimPaysPrestate`, `PoststateMatchesClaim`), the summary of one claim's files fails exactly if other receipts and payments of the beneficiary in its block do not cancel out (`SummaryFailsByTransfersOnly`), an unpinned prestate never promises more than the grant has to give when the file is written (`PrestateNeverOverstates`). |
| `records` | Grants created, revoked and mined while ledger, registry, root, proof and attestation are rebuilt at any time: what is on the chain is on record (`ChainIsOnRecord`), what is proven was attested and everything attested can be proven (`ProofsFollowRegistry`: `ProvenGrantIsAttested`, `EveryGrantCanBeProven`), registries of one ledger have the same rows and a state snapshot that verifies goes on doing so (`FilesFollowLedger`: `RegistryFollowsLedger`, `SnapshotStands`). |
| `audits` | Packets, attestations, policy, bundle and transparency manifest written in any order while inputs, policy and keys change: a packet is a function of its inputs (`PacketIsItsInputs`), acceptance means that enough trusted auditors signed these inputs (`AcceptedPacketIsAttested`), what verified at publication still does while manifest and bundle do (`PublicationStands`), and a late attestation is noticed (`LateAttestation`). |

`revoked` expects a violation: in a ledger that validates, a grant revoked by
revoke-grant.mjs is still active. update-ledger.mjs:76 looks for the kind and line
178 for the grant's id at the top level of a manifest, where revoke-grant.mjs:103
does not write them; the revocation becomes a grant of its own.

### Other disagreements between code and words

Met while modelling; the models do what the code does.

- README.md:57 says createGrant requires a verified employee; it never asks the
  registry, only mint inside release does. "At any time" (README.md:56) of
  revokeGrant has an exception, an overflow of `total * elapsed`.
- verify-vesting-invariants.mjs:186 asserts `cliff <= end`, which createGrant does
  not require.
- composite-set-stack-esm.js:58 says it keeps the first occurrence of a duplicate;
  the loop runs from the end and keeps the last. A rerun after a crash can report
  success before a forgotten transaction changes the stack (hence `quiet`).
- rotate-protocol-admins-to-safe.js stops at its second contract every time when
  TOKEN is an EquityTokenV2, which has no setAdmin, and when EquityToken's admin
  is already the vesting contract.
- README.md:68 calls the log append-only; a generic append after a lifecycle append
  computes older hashes anew. verify-transparency-log.mjs:105 rejects every log with
  a lifecycle entry (hence `OneFormula`). Two overlapping appends lose one.
- append-lifecycle-replay-transparency-log.mjs looks for chain and snapshot hashes
  under names no reconciliation has, so the entry names the files of the moment of
  logging (`LoggedReplayIsCoherent` says what an auditor may conclude all the same).
- build-transparency-checkpoint-finalization.mjs writes neither finalized_at nor
  schema, so build-issuance-anchor.mjs:195 and build-grant-issuance.mjs refuse its
  output; only finalizations of the earlier format go on.
- The threshold of the finalization policy decides nothing. Builder (line 55) and
  verifier (line 56) of a finalization read `required_witness_threshold`; the committed
  policy (manifests/transparency/checkpoint-finalization-policy.json:6), and a schema that
  admits no other fields, call it `threshold`. A comparison with undefined is false, so no
  number of witnesses is refused, and the finalization records no threshold either.
  What remains is the threshold of the keyring, kept by the script that signs.
  `FinalizationVerifies => Cardinality(doc["witnesses"].signatures) >= policy`, in the
  model of `checkpoints`, fails after three steps.
- build-grant-issuance.mjs:146 means to compare the checkpoints of anchor and
  finalization, but lines 128-134 look for the finalization's hash where one that has
  the required schema field cannot have it, and verify-grant-issuance.mjs does not
  compare them: an issuance verifies under an anchor of another checkpoint.
- The grant and the trust chain of a lifecycle event are taken as given. A chain with
  events of two grants verifies, under the name of the one appended last, and its
  snapshot sums both; the committed event's trust chain is not the committed issuance's.
- The claim summary compares the promised amount with a difference of balances
  (build-claim-poststate.mjs:306, build-claim-execution-summary.mjs:56): it fails when the
  beneficiary also sends or receives units in the claim's block.
- A vesting event without a quantity is built with "0" and refused by
  verify-grant-lifecycle-event. verify-lifecycle-replay-reconciliation reads neither
  the snapshot's figures nor the status.
- wait-vested.mjs:67 and wait-vested-smart.mjs use an undefined `abiArtifact`.
  phase-6.2/execute-claim.mjs in recovery mode records the present transaction count
  as the nonce of the recovered transaction. The claim summary does not compare
  the transaction of the poststate with that of the receipt.
- Once registry.json, merkle-root.json or registry-attestation.json lie in
  manifests/grants, update-ledger lists them as grants and build-registry dies
  (build-registry.mjs:335); so `LedgerValidates(aside)` distinguishes whether they are
  kept elsewhere. The committed index.json lists one of eight manifests. No script
  compares the registry hash in merkle-root.json with the registry, so an attestation
  may join a registry with the root of an older one; `ProofsFollowRegistry` says what
  holds of an attestation whose root is of its registry.
- revoke-grant.mjs sets status 2 in the registry and does not call revokeGrant. The
  state snapshot contains an absolute path, so a replay in another checkout fails.
- The packet manifest's hash covers the four inputs only. No script compares an
  archive with attestations and policy, or a transparency manifest with a bundle. An
  attestation under a trusted id with a wrong key keeps the right signer out.

### Bounds

- Contracts: five or six clock ticks place now before, at and after start, cliff
  and end, and `NewBlock` may skip ticks. `MaxUint256 = 9` and `duration = 3` make
  the multiplication of a grant of 5 overflow inside its schedule, that of a grant
  of 4 fit, and two grants of 5 overrun the supply. Two employees appear where
  grants could be confused with each other, one where the token is in view. In
  `promises` amounts up to 2 with `MaxUint256 = 3` reach the limit of the supply in
  two mints, and an employee may be address(0).
- `policies`: three positions, with a policy before, behind and between others;
  the four of a longer move are covered by the proof. Units go between two people,
  either of whom may lose verification, and to address(0). `TokenPolicyArg` has one
  policy and one contract that reverts, `PolicyArg` an address without code.
- `adminscripts`: three members, six positions while the script works, one crash of
  either script, so that a forgotten transaction meets the rerun.
- `log`, `receipts`, `checkpoints`: three (two) entries give an old entry, a newer
  one and the head; two processes are enough for a lost update. `MaxRuns` of 6 and 9
  reach every builder after another of its inputs has been rebuilt.
- `lifecycle`: two ids, two dates, two grants, two runs of the event builder; either all
  files are missing (`MaxEarly`), or all scripts have run once (`InitLater`, 5 more
  runs, which reach a stale reconciliation that is logged). `MaxExact = 4`, in the place
  of 2^53, with a quantity of 3 and explicit deltas of 2: their sum is rounded.
- `claims`: two claims in three blocks, in one block or in two, three files; the
  administrator sends units to the beneficiary and gets units from it. The last
  block stays empty (`BlockOpen`), so that every transaction ends up in a closed one.
- `records`: three manifests, of which one may be there from the start, two blocks.
- `audits`: two contents, two commits, two auditors, two keys, seven runs.
- Symmetry is used for interchangeable model values in runs without liveness.
- Deadlock is not checked: with the clock at its end, the log full, the runs used
  up or the script done, the modelled world may stop.

### Fairness

- `promises`: blocks keep coming, and a payable release of each employee is
  eventually sent. `release` takes no permission (VestingContract.sol:179), so
  whoever gains may send it. Nothing is assumed of administrators: the property
  asks only for employees that stay verified, amounts that fit, and the vesting
  contract as the token's admin.
- `adminscripts`: the scripts go on, their transactions are mined, and the operator
  runs them again after a failure. Crashes are not fair and are bounded.
  `EventuallyDone` allows for the key that loses the composite to the rotation,
  `RotationCompletes` speaks of tokens that have setAdmin.

## 4. Proofs

Eight modules hold theorems, all for every value of the constants and from the named
assumptions only.

- Of the contracts: there are finitely many accounts, deployer and vesting contract
  are two of them and different from address(0) (`AccountAssumption` and those of the
  contract modules); widths are positive (`WidthAssumption`); arguments fit their types
  (`SystemAssumption`, `PolicySystemAssumption`), initial stacks the storage
  (`InitialStacksFit`).
- Of the scripts: the set-stack script has a list of distinct policies to install that
  leaves room for one more, and finds a stack that fits the storage (`ScriptAssumption`); a
  rotation lists each contract once (`RotationAssumption`); the claimant is an
  employee and not the vesting contract (`ClaimAssumption`).
- Of the files: a keyring does not require more signatures than it has members
  (`ChainAssumption`), ids, dates and quantities of events are natural numbers or left
  out (`LifecycleAssumption`), there are finitely many auditors (`AuditAssumption`) and grants
  (`RecordsAssumption`), a practice of the log names its scripts (`LogAssumption`).
- Bounds of runs, entries and clocks are natural numbers.

Induction over data takes a predicate, which the provers cannot instantiate.
`DataInduction` states it of sets instead (`NumberInduction`, `FiniteInduction`: a set
that contains 0, or {}, and is closed under the next, contains all), from which follow
the least element of a set of numbers and what a sum over a finite set does when one
term, or the set, changes (`SumChange`, `SumPlus`, `SumSame`, `SumOfSubset`). A function
defined by recursion is shown to exist in the same way.

### EquitySystemProofs

`TypeCorrect`, `ReleasesAreVested`, `RevocationConserves`, `ReadoutsAreRight`,
`VestingProofIsRight`, `CliffIsRespected`, `HandoverHolds`, `UnverifiedFrozen`;
`Invariance`, `SchedulesAreKept`, `ScriptsAreRight` and `HoldingsStaySafe` state them in
the form the runs check.

Division keeps order (`DivMonotone`) and a part of the total is at most the total
(`PartOfTotal`), so the schedule is bounded and grows with time (`ScheduleBounds`,
`ScheduleMonotone`), and so does what has vested, revoked grants included
(`VestedMonotone`). `ReleasedWithinVested` alone is not inductive: a revocation
moves the effective time, so the step needs that `revokedAt` lies in the past, and
`ConservationAfterRevocation` speaks of an event long gone, so the invariant must
tie the event to the schedule at `revokedAt`. `GrantOK` adds both, and that a slot
is either untouched or a record that createGrant accepts; `IInv` is `TypeOK` and
`GrantOK` of every account. Initial states satisfy it, every action keeps it (one
lemma per action that touches grants, one for the rest), and each invariant follows
from it. The read-outs rest on `TwinsOfSchedule`: the scripts test `t >= end`, the
contract `elapsed >= duration`, and the early returns come in another order; they
agree because a created grant has `start <= cliff`.

`SuppliesAlwaysAgree`: balances add up to the supply, and so do direct mints and
releases. Each action changes one or two terms of a sum (`SumMoves`), a transfer to
oneself none; the invariant is inductive given the types.

`Refinement`: `EquitySystem` implements `EquityPromise`. Release maps to `Pay`,
revokeGrant to `Cancel`, createGrant to `Promise` (part may accrue at once, as a
schedule may start in the past), `NewBlock` to `Accrue`, all else to a stutter.

`ClaimInvariance`, `DifferencesAlwaysClaims`, `ClaimsAlwaysAsWritten`,
`SummaryAlwaysTellsTransfers`, `PrestatesNeverOverstate`, for any number of claims, scripts and
blocks. What a file says is decided by claims of other people in the same block, so
`ClaimInv` relates the closed blocks to the list of claims: the `released` counter of
a closed block is what the claims up to it paid, at most one claim of a block pays, and
that one paid all there was; a grant seen in a snapshot outlives it, with counter and
entitlement only growing (`Outlives`, `EntitlementStands`); and each file was written
of a closed block or of a claim that paid. The difference of two snapshots is then the
sum of the claims between them (`DeltaIsSum`). Balances move by transfers too: of a
closed block the invariant says that the balance is what was released and `received`,
so a poststate's difference is the claim plus what else came and went in its block.

### PolicySystemProofs

`PolicyTypeCorrect`, `AuditTrail` (the shifting loops of insert, remove and move leave in
storage what the events say, for stacks of any length), `FreezeHolds`,
`GateHoldsAlways`, `LedgerAlwaysHolds`, `ObserversAreAlwaysTold`. The stack operations are
functions on positions; one lemma each says that the loop's result is a sequence of the
right length over the right members, and that it is the one an auditor computes.
`AuditTrailMatchesStack` is inductive once types are known. For freeze and gate,
evaluation is a conjunction: the first member that does not allow decides
(`EveryMemberDecides`), so a transfer that changes balances found every policy in force
allowing, the freeze or the gate among them (`AllowedByPolicyInForce`). The composite
calling itself from within its stack is a revert. The ledger is a sum in which the
unchecked addition cannot wrap, since it stays below the supply. For V1.1.1, whose
removal swaps the last member into the gap, the bag of names is compared by
counting positions (`CountAppend`, `CountReplace`, `CountSwapAndPop`).

### AdminRotationProofs

`RotationInOrder`: the set of contracts handed over is a prefix of the list; `OrderInv`
ties the script's position (`PositionInv`) and the transactions under way, forgotten
ones of a crashed run included (`PoolInv`), to that prefix, for any list.

`RunInvariance`, `RunsAlwaysSound`, `DesiredAlwaysStays`: the set-stack script, for any
start stack, any desired list and any number of crashes, with the rotation beside it.
The script decides from the stack it has read and waits while the chain may differ.
`QuietInv` therefore states what the script counts on, part by part of `main()`
(`Ready`: each policy once above the position, the first k desired present, the first
k in place, ...), of the stack as the transaction under way will leave it, and that this
transaction drops no desired policy (`Keeps`). When it is mined the same holds of the
stack itself. One lemma each says what adding, moving, trimming and removing a
duplicate make of such a list. A run that a forgotten transaction disturbs is not quiet,
and nothing is claimed of it.

### TransparencyLogProofs

`LogInvariance`, `FilesAreSound`, for any number of processes. Writers overwrite the whole
file, so a run that read an old log may undo what others wrote, but what it writes
depends only on what it read. A log is `Good` when it is counted and numbered, names
each lifecycle event once, and verifies if all its entries are generic; each of the
four writers turns a good log into a good one (`WrittenIsGood`; a generic run that
rebuilds every entry rests on `Rebuilt`). `LogInv` says that the log on disk and every log
a run has read are good, which no interleaving and no crash disturbs.

`CommitmentsAlwaysStand`, `LogIsAppendOnly`: these relate two versions of the file and
hold only where scripts run one at a time. `Serial` adds what that means: at most one run
is under way and it has read the log on disk. Rebuilding keeps the subjects of all
entries, and those of a log with one formula altogether (`RebuildKeeps`, `WrittenGrows`).

`ReceiptsInvariance`, `AnchoringAlwaysHolds`, `ProofsAlwaysHold`,
`FreshReplayAlwaysVerifies`: of `LogReceipts`, for any number of anchoring processes. The
contract stores a root and what the sender says of head and count; that an anchor is of
one log needs that the root of a log decides both (`OneLog`, `RootTells`), in spite of
the three ways in which writers make leaves (`Rooted`). `ReceiptsInv` says this of the
log, of every anchor, receipt and process under way, and that the index and the
leaves of each proof are the first hashes of the log.

### CheckpointChainProofs

`AnchorsAreBacked`, `AcceptedIsWitnessed`. Files are rebuilt in any order, so none can be
related to the present content of another. `ChainInv` says of each file only that it is
right about the files embedded in it, as its builder found them: signatures are those
of all members of a keyring over the checkpoint they name, a finalization is of such
signatures, a rebinding and an external anchor carry the root of their checkpoint.
The verifiers compare the embedded files with those in place, which closes the gap. That a keyring
leaves as many signatures as it has members is a bijection (`FS_Bijection`). The
policy's threshold is in no statement: it decides nothing.

`BridgesShowExtension`: `BridgeInv` adds that the log counts its entries and that both
roots of a consistency proof, also of the one inside a bridge, are of beginnings of one
list (`OfOneList`); of two such beginnings the shorter is a prefix of the longer
(`Beginnings`).

`LifecycleInvariance`, `ChainAlwaysWhatWasStated`, `SnapshotAlwaysPresentState`,
`StatusAlwaysExact`, of `GrantLifecycle`, for any number of events,
dates and grants. `LifecycleInv` says that the chain is one of a list of well-formed
events, in order of dates, that holds exactly what was last stated (`Holds`); of
snapshot and reconciliation only that they were made of some totals. Sorting is any
list of the same entries in which none is before an earlier one; that there is one
(`EventsCanBeSorted`), that it repeats and loses nothing (`SortedList`) and that appending
replaces exactly the entry of the same id (`UpsertReplaces`) make the chain's invariant
inductive. Events stated under ids and events chained by date have one sum
(`SumReindexed`). The replay adds up JavaScript numbers; of them is used only that a sum
above 2^53 is never rounded below it (`NumberIsExact`), so that a result that is a safe
integer was exact all the way (`ReplayIsExact`, by induction over the chain).

### GrantRecordsProofs

`RecordsInvariance`, `ChainAlwaysOnRecord`, `ProofsAlwaysFollow`, `ReplayInvariance`,
`FilesAlwaysFollowLedger`, for any number of grants. First the Merkle tree, of any
size: a proof built for a leaf climbs to the root (`LeavesClimb`), and what climbs to the
root is a leaf (`OnlyLeavesClimb`); an odd node is paired with itself, so neither is
obvious. Then the files: `RecordsInv` says that every grant, restriction and transaction
under way has its manifest (`ChainFollows`), that the rows of a ledger are manifests that
are still there, that a registry lists the rows of its ledger in one order
(`InOrderLists`), and that a root is of the tree over such a registry (`FilesFollow`).
Manifests are never removed, which carries an old file's statement to the present. A
snapshot that verifies names a closed block, and closed blocks do not change
(`ReplayInv`).

### AuditPacketsProofs

`PacketsAreInputs`, `AcceptedIsAttested`, `PublicationsStand`, `LateIsNoticed`. `AuditInv`
gives the shape of every file and, of the bundle a manifest was published for, that it
is complete and its attestations satisfy its policy. The last theorem is an action
property that follows from the invariant before the step.

### Only model-checked

Liveness under fairness (`VestedEventuallyReleased`, `ScriptsComplete`), which is beyond
the provers.

## 5. Not modelled

Listed with a reason in PROJECT.json: deployment, one-off transactions and console
reports, scripts that wrap one modelled call with a look before and after (freeze
and policy scripts, rotate-emergency-admin.js), grant issuance and its anchor (their
verifiers compare fields with files, and the relation worth having between two of the
files does not hold), evidence folders and the demo flow,
which chains modelled scripts, static data and its schemas, cryptography (signatures,
hash functions). V1.1.1's label `policyStackId` is read by nobody on chain. Blocks
are final: reorganisations of the chain are left out.

## 6. Plan

1. The demo flow, whose summary is rewritten in an existing bundle when
   build-bundle fails, so that two runs mix; attest-manifest and verify-attestation.
2. phase-8.4.C, which collects evidence after transactions.
