------------------------------ MODULE ClaimTools ------------------------------
(***************************************************************************)
(* The scripts that claim vested shares and write the evidence of it: two  *)
(* generations of execute-claim (scripts/ops/grants and phase-6.2), the    *)
(* prestate before, the poststate and the summary after, the recovery from *)
(* the chain, the verifier, and the pinned snapshots of phase-6.1.I.       *)
(*                                                                         *)
(* The contracts are those of EquitySystem; a script sees closed blocks    *)
(* only, of which past keeps what it can ask for.  Blocks are final.       *)
(***************************************************************************)
EXTENDS EquitySystem, SequencesExt

CONSTANTS
  Beneficiary,  \* the employee the scripts are about
  Shareholder,  \* others who are verified from the start
  Lookback,     \* --lookback of recover-claim-receipt.mjs, in blocks
  MaxClaims,    \* bound on release transactions
  MaxFiles      \* bound on files written

ASSUME ClaimAssumption ==
  /\ Beneficiary \in Account \ {Vesting}
  /\ Beneficiary \in Employee /\ Shareholder \subseteq Account
  /\ Lookback \in Nat /\ MaxClaims \in Nat /\ MaxFiles \in Nat

VARIABLES
  past,      \* by block number, the beneficiary's state at its end
  received,  \* history: what it got by other than its own releases, less what it gave away
  claims,    \* its release transactions mined, in order: index is the hash
  job,       \* what each script is doing
  prestate, receipt, poststate,   \* files of phase-8.2
  written    \* files written so far

chain == <<vars, past, received, claims>>
files == <<prestate, receipt, poststate>>
claimVars == <<chain, job, files, written>>

Tool    == {"grants", "prestate"}
Missing == [missing |-> TRUE]
Idle    == [at |-> "idle"]

-----------------------------------------------------------------------------
(* The chain                                                               *)

\* What release(beneficiary) would pay in the present block, 0 if it reverts.
Payable ==
  LET g == grants[Beneficiary] IN
  IF /\ g.exists /\ IsVerified(Beneficiary) /\ tokenAdmin = Vesting
     /\ ~ VestedAmountReverts(Beneficiary)
     /\ totalSupply + VestedAmount(Beneficiary) - g.released <= MaxUint256
  THEN VestedAmount(Beneficiary) - g.released ELSE 0

Snapshot == [time |-> blockTimestamp, grant |-> grants[Beneficiary],
             balance |-> balances[Beneficiary], received |-> received, payable |-> Payable]

Latest == Last(past)

CloseBlock ==
  /\ NewBlock
  /\ past' = Append(past, Snapshot)
  /\ UNCHANGED <<received, claims, job, files, written>>

\* Bound: the last block has no transactions, so that all others get closed.
BlockOpen == blockTimestamp < MaxTime

\* A release transaction by is mined: it pays, or reverts.
MinedClaim(by) ==
  /\ BlockOpen /\ Len(claims) < MaxClaims
  /\ \/ TxRelease(Beneficiary)
     \/ Payable = 0 /\ UNCHANGED vars
  /\ claims' = Append(claims, [by |-> by, block |-> Len(past) + 1, paid |-> Payable])
  /\ UNCHANGED <<past, received>>

Succeeded(tx) == claims[tx].paid > 0

\* Anybody may claim for the beneficiary: the Safe, the operator of phase-6.2.
OtherClaim == MinedClaim("other") /\ UNCHANGED <<job, files, written>>

\* Any other transaction: of the administrators, and transfers of anybody who
\* holds units, to or by the beneficiary too.
OtherTx ==
  /\ BlockOpen
  /\ \/ AdminTx
     \/ TokenTx
     \/ GrantTx /\ grants'[Beneficiary].released = grants[Beneficiary].released
  /\ received' = received + (balances'[Beneficiary] - balances[Beneficiary])
  /\ UNCHANGED <<past, claims, job, files, written>>

-----------------------------------------------------------------------------
(* build-claim-prestate.mjs: two calls, each for the latest block.         *)

WriteFile == written < MaxFiles /\ written' = written + 1

\* Mutant: the pending block's time instead of the latest's.
ReadPendingBlock ==
  /\ job["prestate"] = Idle
  /\ job' = [job EXCEPT !["prestate"] = [at |-> "block", number |-> Len(past), time |-> Latest.time + 1]]
  /\ UNCHANGED <<chain, files, written>>

ReadPrestateBlock ==
  /\ job["prestate"] = Idle
  /\ job' = [job EXCEPT !["prestate"] = [at |-> "block", number |-> Len(past), time |-> Latest.time]]
  /\ UNCHANGED <<chain, files, written>>

\* Mutant: what has been released is not subtracted.
ExpectedVestedOnly(g, t) ==
  ComputeVested(g.total, g.start, g.cliff, g.start + g.duration, EffectiveTime(g, t))

ExpectedClaimable(g, t) ==
  Clamp0(ComputeVested(g.total, g.start, g.cliff, g.start + g.duration, EffectiveTime(g, t))
           - g.released)

BuildPrestate ==
  LET g == Latest.grant IN
  /\ job["prestate"].at = "block"
  /\ job' = [job EXCEPT !["prestate"] = Idle]
  /\ IF g.exists
     THEN /\ WriteFile
          /\ prestate' = [block |-> job["prestate"].number, grant |-> g,
                          claimable |-> ExpectedClaimable(g, job["prestate"].time)]
     ELSE UNCHANGED <<prestate, written>>
  /\ UNCHANGED <<chain, receipt, poststate>>

-----------------------------------------------------------------------------
(* execute-claim.mjs: simulate and send; wait; write.                      *)

\* The simulation runs on the latest block and throws on a revert.
SendClaim ==
  /\ job["grants"] = Idle
  /\ Latest.payable > 0
  /\ job' = [job EXCEPT !["grants"] = [at |-> "sent"]]
  /\ UNCHANGED <<chain, files, written>>

\* The script runs with the beneficiary's key only.
MineClaim ==
  /\ job["grants"].at \in {"sent", "orphan"}
  /\ MinedClaim("beneficiary")
  /\ job' = [job EXCEPT !["grants"] = IF @.at = "sent" THEN [at |-> "mined", tx |-> Len(claims')]
                                     ELSE Idle]
  /\ UNCHANGED <<files, written>>

Closed(tx) == claims[tx].block <= Len(past)

ReceiptArtifact(tx) == [tx |-> tx, block |-> claims[tx].block]

\* scripts/ops/grants/execute-claim.mjs: no file for a reverted transaction.
WriteReceipt ==
  LET tx == job["grants"].tx IN
  /\ job["grants"].at = "mined" /\ Closed(tx)
  /\ job' = [job EXCEPT !["grants"] = Idle]
  /\ IF Succeeded(tx) THEN receipt' = ReceiptArtifact(tx) /\ WriteFile
     ELSE UNCHANGED <<receipt, written>>
  /\ UNCHANGED <<chain, prestate, poststate>>

\* Mutant: the status of the transaction is not looked at.
RecoverReceiptAnyStatus ==
  LET found == {tx \in DOMAIN claims : /\ claims[tx].by = "beneficiary" /\ Closed(tx)
                                       /\ claims[tx].block >= Len(past) - Lookback} IN
  /\ found # {}
  /\ receipt' = ReceiptArtifact(Max(found)) /\ WriteFile
  /\ UNCHANGED <<chain, job, prestate, poststate>>

\* recover-claim-receipt.mjs: the newest success of the beneficiary's own.
RecoverReceipt ==
  LET found == {tx \in DOMAIN claims : /\ claims[tx].by = "beneficiary" /\ Closed(tx)
                                       /\ claims[tx].block >= Len(past) - Lookback
                                       /\ Succeeded(tx)} IN
  /\ found # {}
  /\ receipt' = ReceiptArtifact(Max(found)) /\ WriteFile
  /\ UNCHANGED <<chain, job, prestate, poststate>>

\* The script is killed, or its answer lost; what it sent is mined or not all the same.
Kill ==
  /\ job["grants"].at = "sent"
  /\ job' = [job EXCEPT !["grants"] = [at |-> "orphan"]]
  /\ UNCHANGED <<chain, files, written>>

-----------------------------------------------------------------------------
(* build-claim-poststate.mjs and build-claim-execution-summary.mjs         *)

\* readReleasedFromGrants, at a block.
Released(block) == past[block].grant.released

\* Mutant: the state after the claim is read at the latest block.
BuildPoststateUnpinned ==
  /\ receipt # Missing
  /\ LET b == receipt.block IN
     poststate' = [tx |-> receipt.tx, delta |-> Latest.grant.released - Released(b - 1),
                   event |-> claims[receipt.tx].paid, mint |-> claims[receipt.tx].paid,
                   balance |-> Latest.balance - past[b - 1].balance]
  /\ WriteFile
  /\ UNCHANGED <<chain, job, prestate, receipt>>

BuildPoststate ==
  /\ receipt # Missing
  /\ LET b == receipt.block IN
     poststate' = [tx |-> receipt.tx, delta |-> Released(b) - Released(b - 1),
                   event |-> claims[receipt.tx].paid, mint |-> claims[receipt.tx].paid,
                   balance |-> past[b].balance - past[b - 1].balance]
  /\ WriteFile
  /\ UNCHANGED <<chain, job, prestate, receipt>>

\* The summary of the three files on disk, of one claim or not.
Summary ==
  [tx |-> receipt.tx, delta |-> poststate.delta,
   pass |-> /\ prestate.claimable > 0
            /\ poststate.delta > 0
            /\ poststate.event = poststate.delta /\ poststate.mint = poststate.delta
            /\ poststate.balance = poststate.delta]

-----------------------------------------------------------------------------
(* Readers of closed blocks.                                               *)

\* Mutant: the state before is read at the block of the claim.
ClaimReceiptSameBlock(tx) ==
  [tx |-> tx, block |-> claims[tx].block, tokens |-> claims[tx].paid,
   increase |-> Released(claims[tx].block) - Released(claims[tx].block)]

(* What phase-6.2/execute-claim.mjs writes of the transaction it has sent, *)
(* or of TX=0x..., whatever its status: the state at blockNumber - 1 and   *)
(* blockNumber never changes, so it does not matter when it is written.    *)
ClaimReceipt(tx) ==
  [tx |-> tx, block |-> claims[tx].block, tokens |-> claims[tx].paid,
   increase |-> Released(claims[tx].block) - Released(claims[tx].block - 1)]

\* verify-claim-receipt.mjs over such a file: exit code 0.
ClaimReceiptVerifies(f) ==
  Succeeded(f.tx) /\ f.increase > 0 /\ f.tokens = f.increase

\* pinned-snapshot.mjs for two blocks the operator names, and delta-proof.mjs.
DeltaProof(pre, post) == [pre |-> pre, post |-> post, released |-> Released(post) - Released(pre)]

-----------------------------------------------------------------------------
\* The system has been handed over and the beneficiary is verified.
ClaimInit ==
  /\ registryAdmin = Deployer
  /\ status = [a \in Account |-> IF a \in {Beneficiary} \cup Shareholder THEN Verified ELSE Unverified]
  /\ totalSupply = 0 /\ balances = [a \in Account |-> 0] /\ tokenAdmin = Vesting
  /\ VestingInit
  /\ blockTimestamp = 1 /\ directSupply = 0
  /\ received = 0 /\ past = <<[Snapshot EXCEPT !.time = 0]>> /\ claims = <<>>
  /\ job = [t \in Tool |-> Idle]
  /\ prestate = Missing /\ receipt = Missing /\ poststate = Missing
  /\ written = 0

ClaimNext ==
  \/ CloseBlock \/ OtherTx \/ OtherClaim
  \/ ReadPrestateBlock \/ BuildPrestate
  \/ SendClaim \/ MineClaim \/ Kill
  \/ WriteReceipt \/ RecoverReceipt
  \/ BuildPoststate

ClaimSpec == ClaimInit /\ [][ClaimNext]_claimVars

-----------------------------------------------------------------------------
(* The prestate reads the time of one block and the grant of a later one.  *)
(* Whatever happened in between (claims, a revocation), it never promises  *)
(* more than the grant has to give when the file is written.               *)
PrestateNeverOverstates ==
  [][prestate' # prestate =>
       prestate'.claimable <= Clamp0(VestedAmountAt(Latest.grant, Latest.time)
                                       - Latest.grant.released)]_claimVars

(* A claim that finds the grant as the prestate found it pays at least     *)
(* what the prestate expected.                                             *)
ClaimPaysPrestate ==
  \A tx \in DOMAIN claims :
    (/\ prestate # Missing /\ Succeeded(tx)
     /\ claims[tx].block > prestate.block
     /\ Released(claims[tx].block - 1) = prestate.grant.released)
      => claims[tx].paid >= prestate.claimable

(* phase-6.2 compares the transfers of one transaction with the released   *)
(* counter at the ends of its block.  In spite of other claims and of      *)
(* changes to the grant in that block the receipt verifies exactly if its  *)
(* transaction paid.                                                       *)
ReceiptVerifiesIffPaid ==
  \A tx \in DOMAIN claims :
    Closed(tx) => (ClaimReceiptVerifies(ClaimReceipt(tx)) <=> Succeeded(tx))

(* Likewise for phase-8.2, recovered receipts included: event and mint of  *)
(* the transaction are the difference of the counter over its block; the   *)
(* balance alone may have moved for other reasons.                         *)
PoststateMatchesClaim ==
  poststate # Missing =>
    /\ poststate.delta > 0 /\ poststate.event = poststate.delta
    /\ poststate.delta = claims[poststate.tx].paid

(* The difference of two pinned snapshots is the sum of the claims paid in *)
(* the blocks between, whoever sent them.                                  *)
DeltaProofSumsClaims ==
  \A pre, post \in DOMAIN past :
    pre < post =>
      DeltaProof(pre, post).released =
        SumOver(DOMAIN claims, [tx \in DOMAIN claims |-> IF claims[tx].block \in pre + 1 .. post
                                                        THEN claims[tx].paid ELSE 0])

(* Where the tools take differences of the released counter, over a block  *)
(* or between two snapshots, these are the claims.                         *)
DifferencesAreClaims == ReceiptVerifiesIffPaid /\ DeltaProofSumsClaims

(* The files of phase-8.2 around one claim say what it paid: the prestate  *)
(* promises no more, the poststate shows exactly that.                     *)
ClaimsAreAsWritten == ClaimPaysPrestate /\ PoststateMatchesClaim

(* The summary looks at the beneficiary's balance as well, which transfers *)
(* of others in the same block move too.  For receipt and poststate of one *)
(* transaction it passes exactly if the prestate promised something and    *)
(* what the beneficiary received and gave away in that block cancel out:   *)
(* other claims, a revocation, a restriction or a late recovery never make *)
(* it fail.  Its figures are those of the transaction it names.            *)
SummaryFailsByTransfersOnly ==
  Missing \notin {prestate, receipt, poststate} /\ poststate.tx = receipt.tx =>
    LET b == claims[Summary.tx].block IN
    /\ Summary.pass <=> prestate.claimable > 0 /\ past[b].received = past[b - 1].received
    /\ Summary.delta = claims[Summary.tx].paid

-----------------------------------------------------------------------------
(* The inductive invariant behind the theorems of EquitySystemProofs       *)

\* What was paid in blocks up to i.
PaidUpTo(c, i) ==
  SumOver(DOMAIN c, [tx \in DOMAIN c |-> IF c[tx].block <= i THEN c[tx].paid ELSE 0])

(* What a grant h may have become since a snapshot s showed it: its terms  *)
(* stay, so does a revocation, and a later one takes effect later.         *)
Outlives(s, h) ==
  s.grant.exists =>
    /\ h.exists /\ s.grant.released <= h.released
    /\ h.total = s.grant.total /\ h.start = s.grant.start
    /\ h.cliff = s.grant.cliff /\ h.duration = s.grant.duration
    /\ s.grant.revoked => h.revoked /\ h.revokedAt = s.grant.revokedAt
    /\ ~ s.grant.revoked /\ h.revoked => s.time < h.revokedAt

SnapshotRecord ==
  [time : Uint64, grant : Grant, balance : Uint256, received : Int, payable : Nat]
ClaimRecord    == [by : {"other", "beneficiary"}, block : Nat, paid : Nat]

\* Closed blocks follow each other in time; the balance has two sources.
PastInv(p) ==
  /\ p \in Seq(SnapshotRecord)
  /\ p # <<>>
  /\ \A i \in DOMAIN p : /\ p[i].grant = NoGrant \/ Created(p[i].grant)
                        /\ p[i].balance = p[i].grant.released + p[i].received
  /\ \A i, j \in DOMAIN p : i < j => p[i].time < p[j].time /\ Outlives(p[i], p[j].grant)

(* The released counter of every closed block is what was paid so far, a   *)
(* block has one claim that paid at most, and that paid all there was: at  *)
(* least what any earlier block showed as vested.                          *)
ClaimsInv(p, c) ==
  /\ c \in Seq(ClaimRecord)
  /\ \A tx \in DOMAIN c : c[tx].block \in 2 .. Len(p) + 1
  /\ \A i \in DOMAIN p : p[i].grant.released = PaidUpTo(c, i)
  /\ \A t, u \in DOMAIN c : t # u /\ c[t].paid > 0 /\ c[u].paid > 0 => c[t].block # c[u].block
  /\ \A tx \in DOMAIN c : \A i \in DOMAIN p :
       c[tx].paid > 0 /\ i < c[tx].block /\ p[i].grant.exists
         => VestedAmountAt(p[i].grant, p[i].time) <= p[c[tx].block - 1].grant.released + c[tx].paid

\* The same of the present block: the grant is g, of the balance b was released.
PresentInv(p, c, g, b, now) ==
  /\ b = g.released /\ g.released = PaidUpTo(c, Len(p) + 1)
  /\ \A i \in DOMAIN p : p[i].time < now /\ Outlives(p[i], g)
  /\ (\E tx \in DOMAIN c : c[tx].block = Len(p) + 1 /\ c[tx].paid > 0)
       => g.exists /\ g.released = VestedAmountAt(g, now)

JobInv(p, c, j) ==
  /\ j["prestate"] = Idle
     \/ \E n \in DOMAIN p : j["prestate"] = [at |-> "block", number |-> n, time |-> p[n].time]
  /\ \/ j["grants"] \in {Idle, [at |-> "sent"], [at |-> "orphan"]}
     \/ \E tx \in DOMAIN c : j["grants"] = [at |-> "mined", tx |-> tx]

\* The prestate has the time of block n and the grant of block w.
PrestateInv(p, f) ==
  f # Missing =>
    \E n, w \in DOMAIN p :
      /\ n <= w /\ p[w].grant.exists
      /\ f = [block |-> n, grant |-> p[w].grant,
              claimable |-> ExpectedClaimable(p[w].grant, p[n].time)]

\* A receipt and a poststate are of one closed transaction that paid.
ReceiptInv(p, c, r, f) ==
  /\ r # Missing => \E tx \in DOMAIN c : /\ c[tx].paid > 0 /\ c[tx].block <= Len(p)
                                        /\ r = [tx |-> tx, block |-> c[tx].block]
  /\ f # Missing => \E tx \in DOMAIN c : LET b == c[tx].block IN
                      /\ c[tx].paid > 0 /\ b \in 2 .. Len(p)
                      /\ f = [tx |-> tx, delta |-> c[tx].paid,
                              event |-> c[tx].paid, mint |-> c[tx].paid,
                              balance |-> p[b].balance - p[b - 1].balance]

ClaimInv ==
  /\ IInv
  /\ PastInv(past) /\ ClaimsInv(past, claims)
  /\ received \in Int
  /\ PresentInv(past, claims, grants[Beneficiary], balances[Beneficiary] - received, blockTimestamp)
  /\ job = [t \in Tool |-> job[t]] /\ JobInv(past, claims, job)
  /\ PrestateInv(past, prestate) /\ ReceiptInv(past, claims, receipt, poststate)
=============================================================================
