----------------------------- MODULE EquitySystem -----------------------------
(***************************************************************************)
(* The canonical deployment: IdentityRegistry, EquityToken and             *)
(* VestingContract on one chain.  A step is one external call by an        *)
(* externally owned account (or the Safe), executed atomically, or a new   *)
(* block.  Calls between two blocks share block.timestamp, so both orders  *)
(* of a MultiSend batch (release + revoke, revoke + release) are pairs of  *)
(* steps without a NewBlock between them.                                  *)
(***************************************************************************)
EXTENDS VestingContract, SetSums

CONSTANTS
  Employee,                               \* the addresses createGrant is called for
  GrantTotal, GrantTime, GrantDuration,   \* arguments of createGrant
  Amount,                                 \* arguments of mint, burn, transfer
  MaxTime                                 \* bound on the block clock

ASSUME SystemAssumption ==
  /\ Employee \subseteq Account \cup {ZeroAddress}
  /\ GrantTotal \subseteq Uint256
  /\ GrantTime \subseteq Uint64
  /\ GrantDuration \subseteq Uint64
  /\ Amount \subseteq Uint256
  /\ MaxTime \in Uint64 \ {0}

VARIABLE
  directSupply   \* history: supply minted by mint and not burned, outside release

vars == <<registryVars, tokenVars, vestingVars, blockTimestamp, directSupply>>

Address == Account \cup {ZeroAddress}

\* The vesting contract sends no call of its own: it only mints inside release.
Sender == Account \ {Vesting}

Init ==
  /\ RegistryInit /\ TokenInit /\ VestingInit
  /\ blockTimestamp = 1
  /\ directSupply = 0

-----------------------------------------------------------------------------
(* Transactions                                                            *)

TxRegistrySetAdmin(s, a) ==
  RegistrySetAdmin(s, a) /\ UNCHANGED <<tokenVars, vestingVars, blockTimestamp, directSupply>>

TxSetStatus(s, user, st) ==
  SetStatus(s, user, st) /\ UNCHANGED <<tokenVars, vestingVars, blockTimestamp, directSupply>>

TxTokenSetAdmin(s, a) ==
  TokenSetAdmin(s, a) /\ UNCHANGED <<registryVars, vestingVars, blockTimestamp, directSupply>>

TxMint(s, to, n) ==
  /\ Mint(s, to, n)
  /\ directSupply' = directSupply + n
  /\ UNCHANGED <<registryVars, vestingVars, blockTimestamp>>

TxBurn(s, from, n) ==
  /\ Burn(s, from, n)
  /\ directSupply' = directSupply - n
  /\ UNCHANGED <<registryVars, vestingVars, blockTimestamp>>

TxTransfer(s, to, n) ==
  Transfer(s, to, n) /\ UNCHANGED <<registryVars, vestingVars, blockTimestamp, directSupply>>

TxVestingSetAdmin(s, a) ==
  VestingSetAdmin(s, a) /\ UNCHANGED <<registryVars, tokenVars, blockTimestamp, directSupply>>

TxCreateGrant(s, e, total, start, cliff, duration) ==
  /\ CreateGrant(s, e, total, start, cliff, duration)
  /\ UNCHANGED <<registryVars, tokenVars, blockTimestamp, directSupply>>

TxRevokeGrant(s, e) ==
  RevokeGrant(s, e) /\ UNCHANGED <<registryVars, tokenVars, blockTimestamp, directSupply>>

TxRelease(e) ==
  Release(e) /\ UNCHANGED <<registryVars, blockTimestamp, directSupply>>

\* Consecutive blocks have strictly increasing timestamps.
NewBlock ==
  /\ \E t \in (blockTimestamp + 1) .. MaxTime : blockTimestamp' = t
  /\ UNCHANGED <<registryVars, tokenVars, vestingVars, directSupply>>

AdminTx ==
  \E s \in Sender :
    \/ \E a \in NewAdmin : TxRegistrySetAdmin(s, a) \/ TxVestingSetAdmin(s, a)
    \/ \E a \in NewTokenAdmin : TxTokenSetAdmin(s, a)
    \/ \E u \in StatusUser, st \in StatusArg : TxSetStatus(s, u, st)

TokenTx ==
  \E s \in Sender, a \in Address, n \in Amount :
    TxMint(s, a, n) \/ TxBurn(s, a, n) \/ TxTransfer(s, a, n)

GrantTx ==
  \/ \E e \in Employee, s \in Sender, total \in GrantTotal,
        start, cliff \in GrantTime, duration \in GrantDuration :
       TxCreateGrant(s, e, total, start, cliff, duration)
  \/ \E e \in Account, s \in Sender : TxRevokeGrant(s, e)
  \/ \E e \in Account : TxRelease(e)

Next == AdminTx \/ TokenTx \/ GrantTx \/ NewBlock

Spec == Init /\ [][Next]_vars

(* Blocks keep coming up to the bound, and a payable release of every      *)
(* employee is eventually sent: anyone may send it, the employee gains.    *)
Fairness ==
  /\ WF_vars(NewBlock)
  /\ \A e \in Account : WF_vars(TxRelease(e))

FairSpec == Spec /\ Fairness

-----------------------------------------------------------------------------
(* What the system promises                                                *)

TypeOK ==
  /\ RegistryTypeOK /\ TokenTypeOK /\ VestingTypeOK
  /\ directSupply \in Int

ReleasedTotal == SumOver(Account, [e \in Account |-> grants[e].released])

(* VestingContract.sol:158,159,184 subtract with checked arithmetic.  The  *)
(* subtractions never underflow, whatever the order of release, revocation *)
(* and blocks: otherwise release and revokeGrant would revert for good.    *)
ReleasedWithinVested ==
  \A e \in Account :
    /\ grants[e].released <= VestedAmount(e)
    /\ VestedAmount(e) <= grants[e].total

(* Conservation (revokeGrant, the GrantRevoked event): what had been       *)
(* released, what stayed claimable and what was canceled add up to the     *)
(* grant, and ever after the employee's entitlement is exactly the part    *)
(* that was not canceled, however much of it has been claimed since.       *)
ConservationAfterRevocation ==
  \A e \in Account : LET g == grants[e]  log == revocationLog[e] IN
    g.revoked =>
      /\ log.released + log.claimable + log.canceled = g.total
      /\ VestedAmount(e) = g.total - log.canceled
      /\ log.released <= g.released /\ g.released <= g.total - log.canceled

(* Before the cliff nothing has been released, and a grant revoked before  *)
(* its cliff never pays anything (_vestedAmountAt's cliff branch).         *)
NothingBeforeCliff ==
  \A e \in Account : LET g == grants[e] IN
    g.exists /\ (blockTimestamp < g.cliff \/ (g.revoked /\ g.revokedAt < g.cliff))
      => g.released = 0

(* What VestingContract.sol pays and cancels follows the schedule in three *)
(* ways: its subtractions never fail, a revocation cancels exactly what    *)
(* never vests, and nothing is paid before the cliff.                      *)
ReleasesFollowSchedule ==
  /\ ReleasedWithinVested
  /\ ConservationAfterRevocation
  /\ NothingBeforeCliff

(* EquityToken.sol: the ledger adds up to the supply through mints, burns, *)
(* transfers (to oneself too) and releases.                                *)
BalancesSumToSupply == SumOver(Account, balances) = totalSupply

(* The released counters of VestingContract.sol and the supply of          *)
(* EquityToken.sol agree: every unit was released once to an employee or   *)
(* minted directly by an earlier token admin.                              *)
SupplyIsAccounted == totalSupply = directSupply + ReleasedTotal

(* The supply of EquityToken.sol is what is held, and also what was        *)
(* released by the vesting contract or minted by an earlier admin.         *)
SuppliesAgree == BalancesSumToSupply /\ SupplyIsAccounted

\* What the read-out scripts compute for a grant of the pinned block.
VestedScript(e) == LET g == grants[e] IN
  VestedLinearWithCliff(g.total, g.start, g.cliff, g.start + g.duration,
                        EffectiveTime(g, blockTimestamp))

ReleasableScript(e) == Clamp0(VestedScript(e) - grants[e].released)

ExpectedVested(e) == LET g == grants[e] IN
  ComputeVested(g.total, g.start, g.cliff, g.start + g.duration,
                EffectiveTime(g, blockTimestamp))

(* Pinned to one block, verify-vesting-invariants.mjs and build-claim-     *)
(* prestate.mjs compute what the contract answers, revoked grants and a    *)
(* cliff after the end included, and what they call releasable is what     *)
(* release would pay; only where the contract's multiplication overflows   *)
(* do they have a number and the contract none.                            *)
ReadoutsAgree ==
  \A e \in Account :
    grants[e].exists /\ ~ VestedAmountReverts(e) =>
      /\ VestedScript(e) = VestedAmount(e)
      /\ ExpectedVested(e) = VestedAmount(e)
      /\ ReleasableScript(e) = VestedAmount(e) - grants[e].released

\* The checks of verify-vesting-invariants.mjs that are no tautologies.
VestingInvariants(e) ==
  LET g == grants[e] IN
  /\ g.exists
  /\ g.total > 0 /\ g.start <= g.cliff /\ g.cliff <= g.start + g.duration
  /\ g.released <= g.total
  /\ VestedScript(e) >= 0 /\ VestedScript(e) <= g.total
  /\ VestedAmount(e) = VestedScript(e)
  /\ IF g.revoked THEN g.revokedAt > 0 ELSE g.revokedAt = 0

(* verify-vesting-invariants.mjs passes every grant the contract can hold, *)
(* at every block and after a revocation in any block, but for a cliff     *)
(* after the end, which the script refuses and createGrant accepts, and a  *)
(* revocation at timestamp 0, which no chain has.                          *)
VestingProofPasses ==
  \A e \in Account : LET g == grants[e] IN
    g.exists /\ ~ VestedAmountReverts(e) =>
      (VestingInvariants(e) <=>
         g.cliff <= g.start + g.duration /\ (g.revoked => g.revokedAt > 0))

(* The read-outs of the scripts agree with VestingContract.sol, and the    *)
(* repository's own checks refuse nothing of it but a cliff after the end. *)
ScriptsAgree == ReadoutsAgree /\ VestingProofPasses

(* Once the vesting contract is the token's admin nobody can take the role *)
(* back (it has no call to setAdmin) and nothing is burned any more.       *)
HandoverIsFinal ==
  [][tokenAdmin = Vesting => tokenAdmin' = Vesting /\ totalSupply' >= totalSupply
                             /\ directSupply' = directSupply]_vars

(* The holdings of an address that is not verified are frozen: neither a   *)
(* transfer, a mint nor a release changes them, only the token admin's     *)
(* burn, which the vesting contract as admin never sends.                  *)
UnverifiedHoldingsFrozen ==
  [][\A a \in Account : ~ IsVerified(a) /\ balances'[a] # balances[a] =>
       tokenAdmin # Vesting /\ balances'[a] < balances[a] /\ totalSupply' < totalSupply]_vars

(* Nobody takes holdings away: no admin after the handover to the vesting  *)
(* contract, nobody from an address that is not verified.                  *)
HoldingsAreSafe == HandoverIsFinal /\ UnverifiedHoldingsFrozen

(* An employee that stays verified, once the vesting contract stays the    *)
(* token admin and the amounts fit, is again and again paid up: everything *)
(* that has vested gets released, for revoked grants too.                  *)
VestedEventuallyReleased ==
  \A e \in Account :
    <>[](/\ grants[e].exists /\ IsVerified(e) /\ tokenAdmin = Vesting
         /\ ~ VestedAmountReverts(e)
         /\ totalSupply + VestedAmount(e) - grants[e].released <= MaxUint256)
      => []<>(grants[e].released = VestedAmount(e))

-----------------------------------------------------------------------------
(* The inductive invariant behind the theorems of EquitySystemProofs       *)

\* A grant record that createGrant can have written, released from and revoked.
Created(g) ==
  /\ g \in Grant
  /\ g.exists
  /\ g.total > 0 /\ g.duration > 0 /\ g.start <= g.cliff
  /\ ~ g.revoked => g.revokedAt = 0

(* A slot of grants is untouched or a valid grant, a revocation lies in    *)
(* the past, and the event of a revocation fixes the entitlement: the      *)
(* schedule at revokedAt is the grant without the canceled part.           *)
GrantOK(e) ==
  LET g == grants[e]  log == revocationLog[e] IN
  \/ g = NoGrant
  \/ /\ Created(g)
     /\ g.released <= VestedAmountAt(g, blockTimestamp)
     /\ g.revoked => /\ g.revokedAt <= blockTimestamp
                     /\ log.released + log.claimable + log.canceled = g.total
                     /\ log.released + log.claimable = Schedule(g, g.revokedAt)
                     /\ log.released <= g.released

IInv ==
  /\ TypeOK
  /\ \A e \in Account : GrantOK(e)

-----------------------------------------------------------------------------
(* The three contracts implement EquityPromise: accrued is vestedAmount of *)
(* the current block, paid is Grant.released, and a revoked grant's cap is *)
(* what had vested when it was revoked.                                    *)

grantedBar == [e \in Account |-> grants[e].exists]
closedBar  == [e \in Account |-> grants[e].revoked]
accruedBar == [e \in Account |-> VestedAmount(e)]
paidBar    == [e \in Account |-> grants[e].released]
capBar     == [e \in Account |-> IF closedBar[e] THEN accruedBar[e] ELSE grants[e].total]

Promised == INSTANCE EquityPromise WITH
  Units <- Uint256, granted <- grantedBar, closed <- closedBar,
  cap <- capBar, accrued <- accruedBar, paid <- paidBar

(* Every step of the contracts is a promise, an accrual, a cancellation of *)
(* what has not vested, a payment of exactly what has vested, or leaves    *)
(* the promises alone: no clawback, no double payment, no payment beyond   *)
(* the grant (createGrant, revokeGrant, release, vestedAmount).            *)
KeepsPromises == Promised!Spec

=============================================================================
