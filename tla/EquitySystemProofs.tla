-------------------------- MODULE EquitySystemProofs --------------------------
(***************************************************************************)
(* Theorems about EquitySystem, for every value of its constants.  The     *)
(* first part is arithmetic of the vesting schedule, the second the type   *)
(* invariant with the shape of a grant record it needs, the third the      *)
(* safety of vesting, the fourth the sums behind the supply, the fifth the *)
(* refinement of EquityPromise, the last the tools that claim, ClaimTools. *)
(***************************************************************************)
EXTENDS ClaimTools, DataInduction

USE WidthAssumption DEF Uint256, Uint64

-----------------------------------------------------------------------------
(* The schedule                                                            *)

\* Floor division keeps order, and a part of a whole stays a part of it.
LEMMA DivMonotone ==
  ASSUME NEW a \in Nat, NEW b \in Nat, NEW d \in Nat \ {0}, a <= b
  PROVE  a \div d <= b \div d
OBVIOUS

LEMMA PartOfTotal ==
  ASSUME NEW a \in Nat, NEW e \in Nat, NEW d \in Nat \ {0}, e <= d
  PROVE  (a * e) \div d \in Nat /\ (a * e) \div d <= a
<1> DEFINE q == (a * e) \div d
<1>1. a * e \in Nat /\ a * e <= a * d
  OBVIOUS
<1>2. q \in Nat /\ q * d <= a * e
  BY <1>1
<1>3. q <= a
  <2> SUFFICES ASSUME q >= a + 1 PROVE FALSE
    BY <1>2
  <2> HIDE DEF q
  <2>1. q * d >= (a + 1) * d
    BY <1>2
  <2> QED
    BY <2>1, <1>1, <1>2
<1> QED
  BY <1>2, <1>3

LEMMA ScheduleBounds ==
  ASSUME NEW g, Created(g), NEW t \in Nat
  PROVE  Schedule(g, t) \in Nat /\ Schedule(g, t) <= g.total
<1>1. g.total \in Nat /\ g.duration \in Nat \ {0} /\ g.start \in Nat /\ g.cliff \in Nat
  BY DEF Created, Grant
<1>2. Elapsed(g, t) \in Nat
  BY <1>1 DEF Elapsed
<1>3. Elapsed(g, t) < g.duration =>
        /\ (g.total * Elapsed(g, t)) \div g.duration \in Nat
        /\ (g.total * Elapsed(g, t)) \div g.duration <= g.total
  BY <1>1, <1>2, PartOfTotal
<1> QED
  BY <1>1, <1>2, <1>3 DEF Schedule

LEMMA ScheduleMonotone ==
  ASSUME NEW g, Created(g), NEW t \in Nat, NEW u \in Nat, t <= u
  PROVE  Schedule(g, t) <= Schedule(g, u)
<1>1. g.total \in Nat /\ g.duration \in Nat \ {0} /\ g.start \in Nat /\ g.cliff \in Nat
  BY DEF Created, Grant
<1> DEFINE et == Elapsed(g, t)  eu == Elapsed(g, u)
<1>2. et \in Nat /\ eu \in Nat /\ et <= eu
  BY <1>1 DEF Elapsed
<1>3. CASE t < g.cliff
  BY <1>3, ScheduleBounds DEF Schedule
<1>4. CASE t >= g.cliff /\ eu >= g.duration
  <2>1. Schedule(g, u) = g.total
    BY <1>1, <1>4 DEF Schedule
  <2> QED
    BY <2>1, ScheduleBounds
<1>5. CASE t >= g.cliff /\ eu < g.duration
  <2> HIDE DEF et, eu
  <2>1. /\ g.total * et \in Nat /\ g.total * eu \in Nat
        /\ g.total * et <= g.total * eu
    BY <1>1, <1>2
  <2>2. (g.total * et) \div g.duration <= (g.total * eu) \div g.duration
    BY <1>1, <2>1, DivMonotone
  <2>3. /\ Schedule(g, t) = (g.total * et) \div g.duration
        /\ Schedule(g, u) = (g.total * eu) \div g.duration
    BY <1>1, <1>2, <1>5 DEF Schedule, et, eu
  <2> QED
    BY <2>2, <2>3
<1> QED
  BY <1>1, <1>2, <1>3, <1>4, <1>5

(* Vesting of a created grant: within the grant, growing with time, and    *)
(* constant from the moment of a revocation on.                            *)
LEMMA VestedBounds ==
  ASSUME NEW g, Created(g), NEW t \in Nat
  PROVE  /\ EffectiveTime(g, t) \in Nat
         /\ VestedAmountAt(g, t) \in Nat
         /\ VestedAmountAt(g, t) <= g.total
<1>1. g.revokedAt \in Nat
  BY DEF Created, Grant
<1>2. EffectiveTime(g, t) \in Nat
  BY <1>1 DEF EffectiveTime
<1> QED
  BY <1>2, ScheduleBounds DEF VestedAmountAt

LEMMA VestedMonotone ==
  ASSUME NEW g, Created(g), NEW t \in Nat, NEW u \in Nat, t <= u
  PROVE  VestedAmountAt(g, t) <= VestedAmountAt(g, u)
<1>1. g.revokedAt \in Nat
  BY DEF Created, Grant
<1>2. /\ EffectiveTime(g, t) \in Nat /\ EffectiveTime(g, u) \in Nat
      /\ EffectiveTime(g, t) <= EffectiveTime(g, u)
  BY <1>1 DEF EffectiveTime
<1> QED
  BY <1>2, ScheduleMonotone DEF VestedAmountAt

LEMMA VestedAfterRevocation ==
  ASSUME NEW g, Created(g), g.revoked, NEW t \in Nat, g.revokedAt <= t
  PROVE  VestedAmountAt(g, t) = Schedule(g, g.revokedAt)
<1>1. g.revokedAt \in Nat
  BY DEF Created, Grant
<1>2. EffectiveTime(g, t) = g.revokedAt
  BY <1>1 DEF EffectiveTime
<1> QED
  BY <1>2 DEF VestedAmountAt

\* The schedule reads the terms of a grant, not its bookkeeping.
LEMMA ScheduleSameTerms ==
  ASSUME NEW g, NEW h, NEW t,
         h.total = g.total, h.start = g.start, h.cliff = g.cliff, h.duration = g.duration
  PROVE  Schedule(h, t) = Schedule(g, t)
BY DEF Schedule, Elapsed

\* The twins evaluate the schedule where the cliff is not before the start.
LEMMA TwinsOfSchedule ==
  ASSUME NEW g, Created(g), NEW t \in Nat
  PROVE  /\ VestedLinearWithCliff(g.total, g.start, g.cliff, g.start + g.duration, t) = Schedule(g, t)
         /\ ComputeVested(g.total, g.start, g.cliff, g.start + g.duration, t) = Schedule(g, t)
<1>1. /\ g.total \in Nat /\ g.duration \in Nat \ {0} /\ g.start \in Nat /\ g.cliff \in Nat
      /\ g.start <= g.cliff
  BY DEF Created, Grant
<1>2. CASE t < g.cliff
  BY <1>2 DEF VestedLinearWithCliff, ComputeVested, Schedule
<1>3. CASE t >= g.cliff /\ t = g.start
  <2>1. Elapsed(g, t) = 0 /\ ~ (0 >= g.duration) /\ ~ (t >= g.start + g.duration)
    BY <1>1, <1>3 DEF Elapsed
  <2>2. (g.total * 0) \div g.duration = 0
    BY <1>1
  <2>3. Schedule(g, t) = 0
    BY <1>1, <1>3, <2>1, <2>2 DEF Schedule
  <2> QED
    BY <1>1, <1>3, <2>1, <2>3 DEF VestedLinearWithCliff, ComputeVested
<1>4. CASE t >= g.cliff /\ t > g.start
  <2>1. Elapsed(g, t) = t - g.start /\ (g.start + g.duration) - g.start = g.duration
    BY <1>1, <1>4 DEF Elapsed
  <2>2. t - g.start >= g.duration <=> t >= g.start + g.duration
    BY <1>1
  <2> QED
    BY <1>1, <1>4, <2>1, <2>2 DEF VestedLinearWithCliff, ComputeVested, Schedule
<1> QED
  BY <1>1, <1>2, <1>3, <1>4

-----------------------------------------------------------------------------
(* The inductive invariant                                                 *)

THEOREM InitInvariant == Init => IInv
<1> SUFFICES ASSUME Init PROVE IInv
  OBVIOUS
<1> USE DEF Init, RegistryInit, TokenInit, VestingInit
<1>1. NoGrant \in Grant /\ NoEvent \in [claimable : Uint256, canceled : Uint256, released : Uint256]
  BY DEF NoGrant, Grant, NoEvent
<1>2. TypeOK
  <2>1. RegistryTypeOK
    BY AccountAssumption DEF RegistryTypeOK, Unverified, Verified, Restricted
  <2>2. TokenTypeOK
    BY AccountAssumption DEF TokenTypeOK
  <2>3. VestingTypeOK
    BY <1>1, AccountAssumption DEF VestingTypeOK
  <2> QED
    BY <2>1, <2>2, <2>3 DEF TypeOK
<1>3. \A e \in Account : GrantOK(e)
  BY DEF GrantOK
<1> QED
  BY <1>2, <1>3 DEF IInv

\* Calls of the registry and of the token leave grants, log and clock alone.
ElsewhereTx ==
  \/ \E s \in Sender, a \in Account \cup {ZeroAddress} :
       \/ TxRegistrySetAdmin(s, a) \/ TxVestingSetAdmin(s, a) \/ TxTokenSetAdmin(s, a)
       \/ \E st \in StatusArg : TxSetStatus(s, a, st)
       \/ \E n \in Amount : TxMint(s, a, n) \/ TxBurn(s, a, n) \/ TxTransfer(s, a, n)

\* The steps of Next, one disjunct per kind the proofs distinguish.
LEMMA NextCases ==
  ASSUME Next
  PROVE  \/ ElsewhereTx
         \/ \E s \in Sender, e \in Account, total \in Uint256, start, cliff, duration \in Uint64 :
              TxCreateGrant(s, e, total, start, cliff, duration)
         \/ \E s \in Sender, e \in Account : TxRevokeGrant(s, e)
         \/ \E e \in Account : TxRelease(e)
         \/ NewBlock
<1>1. CASE AdminTx
  BY <1>1, AccountAssumption, RegistryAssumption, TokenAssumption DEF AdminTx, ElsewhereTx
<1>2. CASE TokenTx
  BY <1>2 DEF TokenTx, ElsewhereTx, Address
<1>3. CASE GrantTx
  <2>1. ASSUME NEW e \in Employee, NEW s \in Sender, NEW total \in GrantTotal,
               NEW start \in GrantTime, NEW cliff \in GrantTime, NEW duration \in GrantDuration,
               TxCreateGrant(s, e, total, start, cliff, duration)
        PROVE  e \in Account /\ total \in Uint256
               /\ start \in Uint64 /\ cliff \in Uint64 /\ duration \in Uint64
    BY <2>1, SystemAssumption DEF TxCreateGrant, CreateGrant
  <2> QED
    BY <1>3, <2>1 DEF GrantTx
<1>4. CASE NewBlock
  BY <1>4
<1> QED
  BY <1>1, <1>2, <1>3, <1>4 DEF Next

LEMMA OtherTxFrame ==
  ASSUME ElsewhereTx
  PROVE  UNCHANGED <<grants, revocationLog, blockTimestamp>>
BY DEF ElsewhereTx, TxRegistrySetAdmin, TxVestingSetAdmin, TxTokenSetAdmin, TxSetStatus,
       TxMint, TxBurn, TxTransfer, VestingSetAdmin, vestingVars

LEMMA OtherTxTypes ==
  ASSUME TypeOK, ElsewhereTx
  PROVE  TypeOK'
<1> USE DEF TypeOK, RegistryTypeOK, TokenTypeOK, VestingTypeOK, registryVars, tokenVars, vestingVars
<1>1. PICK s \in Sender, a \in Account \cup {ZeroAddress} :
        \/ TxRegistrySetAdmin(s, a) \/ TxVestingSetAdmin(s, a) \/ TxTokenSetAdmin(s, a)
        \/ \E st \in StatusArg : TxSetStatus(s, a, st)
        \/ \E n \in Amount : TxMint(s, a, n) \/ TxBurn(s, a, n) \/ TxTransfer(s, a, n)
  BY DEF ElsewhereTx
<1>2. CASE TxRegistrySetAdmin(s, a)
  BY <1>2 DEF TxRegistrySetAdmin, RegistrySetAdmin
<1>3. CASE TxVestingSetAdmin(s, a)
  BY <1>3 DEF TxVestingSetAdmin, VestingSetAdmin
<1>4. CASE TxTokenSetAdmin(s, a)
  BY <1>4 DEF TxTokenSetAdmin, TokenSetAdmin
<1>5. ASSUME NEW st \in StatusArg, TxSetStatus(s, a, st)
      PROVE  TypeOK'
  <2>1. st \in {Unverified, Verified, Restricted}
    BY <1>5, RegistryAssumption DEF TxSetStatus, SetStatus, Unverified, Verified, Restricted
  <2> QED
    BY <1>5, <2>1 DEF TxSetStatus, SetStatus
<1>6. ASSUME NEW n \in Amount, TxMint(s, a, n)
      PROVE  TypeOK'
  BY <1>6, SystemAssumption DEF TxMint, Mint
<1>7. ASSUME NEW n \in Amount, TxBurn(s, a, n)
      PROVE  TypeOK'
  BY <1>7, SystemAssumption DEF TxBurn, Burn
<1>8. ASSUME NEW n \in Amount, TxTransfer(s, a, n)
      PROVE  TypeOK'
  <2>1. s \in Account /\ a \in Account /\ n \in Nat
    BY <1>8, SystemAssumption DEF TxTransfer, Transfer, Sender
  <2> DEFINE debited == [balances EXCEPT ![s] = @ - n]
  <2>2. balances[s] - n \in Uint256
    BY <1>8, <2>1 DEF TxTransfer, Transfer
  <2>3. debited \in [Account -> Uint256]
    BY <2>1, <2>2
  <2>4. /\ debited[a] + n <= MaxUint256
        /\ balances' = [debited EXCEPT ![a] = @ + n]
        /\ UNCHANGED <<registryVars, totalSupply, tokenAdmin, vestingVars, blockTimestamp, directSupply>>
    BY <1>8 DEF TxTransfer, Transfer
  <2> HIDE DEF debited
  <2>5. debited[a] + n \in Uint256
    BY <2>1, <2>3, <2>4
  <2>6. balances' \in [Account -> Uint256]
    BY <2>1, <2>3, <2>4, <2>5
  <2> QED
    BY <2>4, <2>6
<1> QED
  BY <1>1, <1>2, <1>3, <1>4, <1>5, <1>6, <1>7, <1>8

LEMMA CreateStep ==
  ASSUME IInv, NEW s \in Sender, NEW e \in Account, NEW total \in Uint256,
         NEW start \in Uint64, NEW cliff \in Uint64, NEW duration \in Uint64,
         TxCreateGrant(s, e, total, start, cliff, duration)
  PROVE  IInv'
<1> DEFINE new == [total |-> total, released |-> 0, start |-> start, cliff |-> cliff,
                   duration |-> duration, exists |-> TRUE, revoked |-> FALSE, revokedAt |-> 0]
<1>1. /\ total > 0 /\ duration > 0 /\ cliff >= start
      /\ grants' = [grants EXCEPT ![e] = new]
      /\ UNCHANGED <<registryVars, tokenVars, vestingAdmin, revocationLog, blockTimestamp, directSupply>>
  BY DEF TxCreateGrant, CreateGrant, NewGrant
<1>2. new \in Grant
  BY DEF Grant
<1>3. Created(new)
  BY <1>1, <1>2 DEF Created
<1>4. grants \in [Account -> Grant] /\ blockTimestamp \in Nat
  BY DEF IInv, TypeOK, VestingTypeOK
<1>5. TypeOK'
  BY <1>1, <1>2 DEF IInv, TypeOK, RegistryTypeOK, TokenTypeOK, VestingTypeOK, registryVars, tokenVars
<1>6. ASSUME NEW d \in Account
      PROVE  GrantOK(d)'
  <2>1. CASE d = e
    <3>1. grants'[d] = new /\ blockTimestamp' = blockTimestamp
      BY <1>1, <1>4, <2>1
    <3>2. 0 <= VestedAmountAt(new, blockTimestamp) /\ new.released = 0 /\ ~ new.revoked
      BY <1>3, <1>4, VestedBounds
    <3> HIDE DEF new
    <3> QED
      BY <1>3, <3>1, <3>2 DEF GrantOK
  <2>2. CASE d # e
    <3>1. grants'[d] = grants[d] /\ revocationLog'[d] = revocationLog[d]
          /\ blockTimestamp' = blockTimestamp
      BY <1>1, <1>4, <2>2
    <3> QED
      BY <3>1 DEF IInv, GrantOK
  <2> QED
    BY <2>1, <2>2
<1> QED
  BY <1>5, <1>6 DEF IInv

LEMMA RevokeStep ==
  ASSUME IInv, NEW s \in Sender, NEW e \in Account, TxRevokeGrant(s, e)
  PROVE  IInv'
<1> DEFINE g      == grants[e]
           vested == VestedAmountAt(g, blockTimestamp)
           h      == [g EXCEPT !.revoked = TRUE, !.revokedAt = blockTimestamp]
           event  == [claimable |-> vested - g.released, canceled |-> g.total - vested,
                      released |-> g.released]
<1>1. /\ grants \in [Account -> Grant] /\ g \in Grant
      /\ blockTimestamp \in Uint64 /\ blockTimestamp \in Nat
      /\ revocationLog \in [Account -> [claimable : Uint256, canceled : Uint256, released : Uint256]]
  BY DEF IInv, TypeOK, VestingTypeOK
<1>2. blockTimestamp % (MaxUint64 + 1) = blockTimestamp
  BY <1>1
<1>3. /\ g.exists /\ ~ g.revoked
      /\ vested >= g.released /\ g.total >= vested
      /\ grants' = [grants EXCEPT ![e] = h]
      /\ revocationLog' = [revocationLog EXCEPT ![e] = event]
      /\ UNCHANGED <<registryVars, tokenVars, vestingAdmin, blockTimestamp, directSupply>>
  BY <1>1, <1>2 DEF TxRevokeGrant, RevokeGrant
<1>4. Created(g)
  BY <1>3 DEF IInv, GrantOK, NoGrant
<1>5. h \in Grant
  BY <1>1 DEF Grant
<1>6. /\ h.total = g.total /\ h.start = g.start /\ h.cliff = g.cliff /\ h.duration = g.duration
      /\ h.exists = g.exists /\ h.released = g.released /\ h.revoked /\ h.revokedAt = blockTimestamp
  BY <1>1 DEF Grant
<1>7. Created(h)
  BY <1>4, <1>5, <1>6 DEF Created
<1>8. vested \in Nat /\ vested <= g.total /\ g.total \in Uint256 /\ g.released \in Nat
  BY <1>1, <1>4, VestedBounds DEF Grant
<1>9. event \in [claimable : Uint256, canceled : Uint256, released : Uint256]
  BY <1>1, <1>3, <1>8 DEF Grant
<1>10. TypeOK'
  BY <1>1, <1>3, <1>5, <1>9 DEF IInv, TypeOK, RegistryTypeOK, TokenTypeOK, VestingTypeOK, registryVars, tokenVars
<1>11. /\ Schedule(h, blockTimestamp) = Schedule(g, blockTimestamp)
       /\ vested = Schedule(g, blockTimestamp)
       /\ VestedAmountAt(h, blockTimestamp) = Schedule(h, blockTimestamp)
  <2>1. vested = Schedule(g, blockTimestamp)
    BY <1>3 DEF VestedAmountAt, EffectiveTime
  <2> HIDE DEF h, g, vested
  <2>2. Schedule(h, blockTimestamp) = Schedule(g, blockTimestamp)
    BY <1>6, ScheduleSameTerms
  <2>3. VestedAmountAt(h, blockTimestamp) = Schedule(h, blockTimestamp)
    BY <1>1, <1>6, <1>7, VestedAfterRevocation
  <2> QED
    BY <2>1, <2>2, <2>3
<1>12. ASSUME NEW d \in Account
       PROVE  GrantOK(d)'
  <2>1. CASE d = e
    <3>1. grants'[d] = h /\ revocationLog'[d] = event /\ blockTimestamp' = blockTimestamp
      BY <1>1, <1>3, <2>1
    <3>2. /\ event.released = g.released /\ event.claimable = vested - g.released
          /\ event.canceled = g.total - vested
      OBVIOUS
    <3>3. /\ event.released + event.claimable + event.canceled = h.total
          /\ event.released + event.claimable = Schedule(h, h.revokedAt)
          /\ event.released <= h.released /\ h.released <= VestedAmountAt(h, blockTimestamp)
      BY <3>2, <1>3, <1>6, <1>8, <1>11
    <3> HIDE DEF h, event, g, vested
    <3> QED
      BY <1>1, <1>6, <1>7, <3>1, <3>3 DEF GrantOK
  <2>2. CASE d # e
    <3>1. grants'[d] = grants[d] /\ revocationLog'[d] = revocationLog[d]
          /\ blockTimestamp' = blockTimestamp
      BY <1>1, <1>3, <2>2
    <3> QED
      BY <3>1 DEF IInv, GrantOK
  <2> QED
    BY <2>1, <2>2
<1> QED
  BY <1>10, <1>12 DEF IInv

LEMMA ReleaseStep ==
  ASSUME IInv, NEW e \in Account, TxRelease(e)
  PROVE  IInv'
<1> DEFINE g      == grants[e]
           vested == VestedAmountAt(g, blockTimestamp)
           n      == vested - g.released
           h      == [g EXCEPT !.released = vested]
<1>1. /\ grants \in [Account -> Grant] /\ g \in Grant /\ blockTimestamp \in Nat
      /\ balances \in [Account -> Uint256] /\ totalSupply \in Uint256
  BY DEF IInv, TypeOK, VestingTypeOK, TokenTypeOK
<1>2. /\ g.exists /\ vested >= g.released
      /\ grants' = [grants EXCEPT ![e] = h]
      /\ totalSupply + n <= MaxUint256 /\ balances[e] + n <= MaxUint256
      /\ totalSupply' = totalSupply + n
      /\ balances' = [balances EXCEPT ![e] = @ + n]
      /\ UNCHANGED <<tokenAdmin, registryVars, vestingAdmin, revocationLog, blockTimestamp, directSupply>>
  BY <1>1 DEF TxRelease, Release, Mint, VestedAmount
<1>3. Created(g)
  BY <1>2 DEF IInv, GrantOK, NoGrant
<1>4. vested \in Nat /\ vested <= g.total /\ g.total \in Uint256 /\ g.released \in Nat
  BY <1>1, <1>3, VestedBounds DEF Grant
<1>5. h \in Grant
  BY <1>1, <1>4 DEF Grant
<1>6. /\ h.total = g.total /\ h.start = g.start /\ h.cliff = g.cliff /\ h.duration = g.duration
      /\ h.exists = g.exists /\ h.released = vested /\ h.revoked = g.revoked
      /\ h.revokedAt = g.revokedAt
  BY <1>1 DEF Grant
<1>7. Created(h)
  BY <1>3, <1>5, <1>6 DEF Created
<1>8. TypeOK'
  <2>1. n \in Nat
    BY <1>2, <1>4
  <2>2. balances' \in [Account -> Uint256] /\ totalSupply' \in Uint256
    BY <1>1, <1>2, <2>1
  <2>3. grants' \in [Account -> Grant]
    BY <1>1, <1>2, <1>5
  <2> QED
    BY <1>2, <2>2, <2>3 DEF IInv, TypeOK, RegistryTypeOK, TokenTypeOK, VestingTypeOK, registryVars
<1>9. \A t \in Nat : Schedule(h, t) = Schedule(g, t)
  BY <1>6, ScheduleSameTerms, ZenonT(60)
<1>10. VestedAmountAt(h, blockTimestamp) = vested
  <2>1. EffectiveTime(h, blockTimestamp) = EffectiveTime(g, blockTimestamp)
    BY <1>6 DEF EffectiveTime
  <2>2. EffectiveTime(g, blockTimestamp) \in Nat
    BY <1>1, <1>3, VestedBounds
  <2> QED
    BY <1>9, <2>1, <2>2 DEF VestedAmountAt
<1>11. ASSUME NEW d \in Account
       PROVE  GrantOK(d)'
  <2>1. CASE d = e
    <3>1. grants'[d] = h /\ revocationLog'[d] = revocationLog[e] /\ blockTimestamp' = blockTimestamp
      BY <1>1, <1>2, <2>1
    <3>2. GrantOK(e) /\ g # NoGrant
      BY <1>2 DEF IInv, NoGrant
    <3>3. h.revoked =>
            /\ h.revokedAt <= blockTimestamp
            /\ revocationLog[e].released + revocationLog[e].claimable + revocationLog[e].canceled = h.total
            /\ revocationLog[e].released + revocationLog[e].claimable = Schedule(h, h.revokedAt)
            /\ revocationLog[e].released <= g.released
      <4>1. g.revokedAt \in Nat
        BY <1>1 DEF Grant
      <4> HIDE DEF h
      <4> QED
        BY <1>6, <1>9, <3>2, <4>1 DEF GrantOK
    <3>4. revocationLog[e].released \in Nat
      BY DEF IInv, TypeOK, VestingTypeOK
    <3> HIDE DEF h, g, vested
    <3> QED
      BY <1>2, <1>4, <1>6, <1>7, <1>10, <3>1, <3>3, <3>4 DEF GrantOK
  <2>2. CASE d # e
    <3>1. grants'[d] = grants[d] /\ revocationLog'[d] = revocationLog[d]
          /\ blockTimestamp' = blockTimestamp
      BY <1>1, <1>2, <2>2
    <3> QED
      BY <3>1 DEF IInv, GrantOK
  <2> QED
    BY <2>1, <2>2
<1> QED
  BY <1>8, <1>11 DEF IInv

LEMMA NewBlockStep ==
  ASSUME IInv, NewBlock
  PROVE  IInv'
<1>1. /\ grants \in [Account -> Grant] /\ blockTimestamp \in Nat
      /\ blockTimestamp' \in Uint64 /\ blockTimestamp' \in Nat /\ blockTimestamp < blockTimestamp'
      /\ UNCHANGED <<registryVars, tokenVars, vestingVars, directSupply>>
  BY SystemAssumption DEF NewBlock, IInv, TypeOK, VestingTypeOK
<1>2. TypeOK'
  BY <1>1 DEF IInv, TypeOK, RegistryTypeOK, TokenTypeOK, VestingTypeOK, registryVars, tokenVars, vestingVars
<1>3. ASSUME NEW d \in Account
      PROVE  GrantOK(d)'
  <2>1. GrantOK(d) /\ grants'[d] = grants[d] /\ revocationLog'[d] = revocationLog[d]
    BY <1>1 DEF IInv, vestingVars
  <2>2. CASE grants[d] = NoGrant
    BY <2>1, <2>2 DEF GrantOK
  <2>3. CASE Created(grants[d])
    <3> DEFINE g == grants[d]
    <3>1. g \in Grant /\ g.released \in Nat /\ g.revokedAt \in Nat
      BY <1>1 DEF Grant
    <3>2. /\ VestedAmountAt(g, blockTimestamp) <= VestedAmountAt(g, blockTimestamp')
          /\ VestedAmountAt(g, blockTimestamp) \in Nat /\ VestedAmountAt(g, blockTimestamp') \in Nat
      BY <1>1, <2>3, VestedMonotone, VestedBounds
    <3>3. /\ g.released <= VestedAmountAt(g, blockTimestamp)
          /\ g.revoked => g.revokedAt <= blockTimestamp
      BY <2>1, <2>3 DEF GrantOK, Created, NoGrant
    <3> QED
      BY <1>1, <2>1, <2>3, <3>1, <3>2, <3>3 DEF GrantOK, NoGrant, Created
  <2> QED
    BY <2>1, <2>2, <2>3 DEF GrantOK
<1> QED
  BY <1>2, <1>3 DEF IInv

THEOREM StepInvariant == IInv /\ [Next]_vars => IInv'
<1> SUFFICES ASSUME IInv, [Next]_vars PROVE IInv'
  OBVIOUS
<1>1. CASE ElsewhereTx
  BY <1>1, OtherTxFrame, OtherTxTypes DEF IInv, GrantOK
<1>2. CASE UNCHANGED vars
  BY <1>2 DEF vars, registryVars, tokenVars, vestingVars, IInv, GrantOK,
              TypeOK, RegistryTypeOK, TokenTypeOK, VestingTypeOK
<1>3. CASE Next
  BY <1>1, <1>3, NextCases, CreateStep, RevokeStep, ReleaseStep, NewBlockStep
<1> QED
  BY <1>2, <1>3

\* IInv holds in every reachable state.
THEOREM Invariance == Spec => []IInv
BY InitInvariant, StepInvariant, PTL DEF Spec

-----------------------------------------------------------------------------
(* Safety of vesting                                                       *)

(* Every variable keeps its type: in particular no balance, supply or      *)
(* grant field leaves its uint width.                                      *)
THEOREM TypeCorrect == Spec => []TypeOK
<1>1. IInv => TypeOK
  BY DEF IInv
<1> QED
  BY <1>1, Invariance, PTL

(* The checked subtractions of release and revokeGrant never underflow.    *)
THEOREM ReleasesAreVested == Spec => []ReleasedWithinVested
<1>1. ASSUME IInv PROVE ReleasedWithinVested
  <2> SUFFICES ASSUME NEW e \in Account
               PROVE  grants[e].released <= VestedAmount(e) /\ VestedAmount(e) <= grants[e].total
    BY DEF ReleasedWithinVested
  <2>1. GrantOK(e) /\ blockTimestamp \in Nat
    BY <1>1 DEF IInv, TypeOK, VestingTypeOK
  <2>2. CASE grants[e] = NoGrant
    BY <2>2 DEF VestedAmount, NoGrant
  <2>3. CASE Created(grants[e])
    BY <2>1, <2>3, VestedBounds DEF VestedAmount, GrantOK, NoGrant, Created
  <2> QED
    BY <2>1, <2>2, <2>3 DEF GrantOK
<1> QED
  BY <1>1, Invariance, PTL

(* A revocation cancels exactly what never vests, for all later times.     *)
THEOREM RevocationConserves == Spec => []ConservationAfterRevocation
<1>1. ASSUME IInv PROVE ConservationAfterRevocation
  <2> SUFFICES ASSUME NEW e \in Account, grants[e].revoked
               PROVE  LET g == grants[e]  log == revocationLog[e] IN
                      /\ log.released + log.claimable + log.canceled = g.total
                      /\ VestedAmount(e) = g.total - log.canceled
                      /\ log.released <= g.released /\ g.released <= g.total - log.canceled
    BY DEF ConservationAfterRevocation
  <2> DEFINE g == grants[e]  log == revocationLog[e]
  <2>1. GrantOK(e) /\ Created(g) /\ blockTimestamp \in Nat
    BY <1>1 DEF IInv, TypeOK, VestingTypeOK, GrantOK, NoGrant
  <2>2. /\ log.released \in Nat /\ log.claimable \in Nat /\ log.canceled \in Nat
        /\ g.total \in Nat /\ g.released \in Nat /\ g.exists
    BY <1>1, <2>1 DEF IInv, TypeOK, VestingTypeOK, Created, Grant
  <2>3. /\ g.revokedAt <= blockTimestamp
        /\ log.released + log.claimable + log.canceled = g.total
        /\ log.released + log.claimable = Schedule(g, g.revokedAt)
        /\ log.released <= g.released /\ g.released <= VestedAmountAt(g, blockTimestamp)
    BY <2>1 DEF GrantOK, NoGrant
  <2>4. VestedAmount(e) = Schedule(g, g.revokedAt)
    BY <2>1, <2>2, <2>3, VestedAfterRevocation DEF VestedAmount
  <2>5. VestedAmountAt(g, blockTimestamp) = VestedAmount(e)
    BY <2>2 DEF VestedAmount
  <2> HIDE DEF g, log
  <2>6. VestedAmount(e) = g.total - log.canceled
    BY <2>2, <2>3, <2>4
  <2> QED
    BY <2>2, <2>3, <2>5, <2>6 DEF g, log
<1> QED
  BY <1>1, Invariance, PTL

(* The off-chain read-outs of a pinned block agree with the contract.      *)
THEOREM ReadoutsAreRight == Spec => []ReadoutsAgree
<1>1. ASSUME IInv PROVE ReadoutsAgree
  <2> SUFFICES ASSUME NEW e \in Account, grants[e].exists
               PROVE  /\ VestedScript(e) = VestedAmount(e)
                      /\ ExpectedVested(e) = VestedAmount(e)
                      /\ ReleasableScript(e) = VestedAmount(e) - grants[e].released
    BY DEF ReadoutsAgree
  <2>1. GrantOK(e) /\ Created(grants[e]) /\ blockTimestamp \in Nat
    BY <1>1 DEF IInv, TypeOK, VestingTypeOK, GrantOK, NoGrant
  <2>2. /\ EffectiveTime(grants[e], blockTimestamp) \in Nat
        /\ VestedAmountAt(grants[e], blockTimestamp) \in Nat
    BY <2>1, VestedBounds
  <2>3. VestedAmount(e) = Schedule(grants[e], EffectiveTime(grants[e], blockTimestamp))
    BY DEF VestedAmount, VestedAmountAt
  <2>4. VestedScript(e) = VestedAmount(e) /\ ExpectedVested(e) = VestedAmount(e)
    BY <2>1, <2>2, <2>3, TwinsOfSchedule DEF VestedScript, ExpectedVested
  <2>5. grants[e].released \in Nat /\ grants[e].released <= VestedAmount(e) /\ VestedAmount(e) \in Nat
    BY <2>1, <2>2 DEF GrantOK, NoGrant, Created, Grant, VestedAmount
  <2> QED
    BY <2>4, <2>5 DEF ReleasableScript, Clamp0
<1> QED
  BY <1>1, Invariance, PTL

(* verify-vesting-invariants.mjs fails no grant but one whose cliff lies    *)
(* after its end (or, which no chain has, one revoked at timestamp 0).     *)
THEOREM VestingProofIsRight == Spec => []VestingProofPasses
<1>1. ASSUME IInv PROVE VestingProofPasses
  <2> SUFFICES ASSUME NEW e \in Account, grants[e].exists
               PROVE  VestingInvariants(e) <=>
                        /\ grants[e].cliff <= grants[e].start + grants[e].duration
                        /\ grants[e].revoked => grants[e].revokedAt > 0
    BY DEF VestingProofPasses
  <2> DEFINE g == grants[e]
             t == EffectiveTime(g, blockTimestamp)
  <2>1. GrantOK(e) /\ Created(g) /\ blockTimestamp \in Nat
    BY <1>1 DEF IInv, TypeOK, VestingTypeOK, GrantOK, NoGrant
  <2>2. /\ t \in Nat
        /\ VestedAmountAt(g, blockTimestamp) \in Nat
        /\ VestedAmountAt(g, blockTimestamp) <= g.total
    BY <2>1, VestedBounds
  <2>3. VestedAmount(e) = Schedule(g, t)
    BY DEF VestedAmount, VestedAmountAt
  <2>4. VestedScript(e) = VestedAmount(e)
    BY <2>1, <2>2, <2>3, TwinsOfSchedule DEF VestedScript
  <2>5. g.released \in Nat /\ g.released <= VestedAmount(e) /\ g.total \in Nat
        /\ VestedAmount(e) \in Nat /\ VestedAmount(e) <= g.total
    BY <2>1, <2>2 DEF GrantOK, NoGrant, Created, Grant, VestedAmount
  <2>6. g.exists /\ g.total > 0 /\ g.start <= g.cliff /\ (~ g.revoked => g.revokedAt = 0)
    BY <2>1 DEF Created
  <2> QED
    BY <2>4, <2>5, <2>6 DEF VestingInvariants
<1> QED
  BY <1>1, Invariance, PTL

(* Nothing is paid before the cliff, nor on a grant revoked before it.     *)
THEOREM CliffIsRespected == Spec => []NothingBeforeCliff
<1>1. ASSUME IInv PROVE NothingBeforeCliff
  <2> SUFFICES ASSUME NEW e \in Account, grants[e].exists,
                      \/ blockTimestamp < grants[e].cliff
                      \/ grants[e].revoked /\ grants[e].revokedAt < grants[e].cliff
               PROVE  grants[e].released = 0
    BY DEF NothingBeforeCliff
  <2> DEFINE g == grants[e]
  <2>1. GrantOK(e) /\ Created(g) /\ blockTimestamp \in Nat
    BY <1>1 DEF IInv, TypeOK, VestingTypeOK, GrantOK, NoGrant
  <2>2. g.released \in Nat /\ g.released <= VestedAmountAt(g, blockTimestamp)
        /\ g.cliff \in Nat /\ g.revokedAt \in Nat
    BY <2>1 DEF GrantOK, NoGrant, Created, Grant
  <2>3. EffectiveTime(g, blockTimestamp) < g.cliff
    BY <2>1, <2>2 DEF EffectiveTime
  <2>4. VestedAmountAt(g, blockTimestamp) = 0
    BY <2>3 DEF VestedAmountAt, Schedule
  <2> QED
    BY <2>2, <2>4
<1> QED
  BY <1>1, Invariance, PTL

(* The vesting contract keeps the token's admin role, and with it nothing  *)
(* is burned and nothing minted outside release.                           *)
THEOREM HandoverHolds == Spec => HandoverIsFinal
<1> DEFINE Kept == tokenAdmin = Vesting => tokenAdmin' = Vesting /\ totalSupply' >= totalSupply
                                           /\ directSupply' = directSupply
<1>1. ASSUME IInv, [Next]_vars PROVE [Kept]_vars
  <2> SUFFICES ASSUME Next, tokenAdmin = Vesting PROVE Kept
    BY <1>1
  <2>1. totalSupply \in Nat /\ \A s \in Sender : s # tokenAdmin
    BY <1>1 DEF IInv, TypeOK, TokenTypeOK, Sender
  <2>2. CASE ElsewhereTx
    BY <2>1, <2>2 DEF ElsewhereTx, TxRegistrySetAdmin, TxVestingSetAdmin, TxTokenSetAdmin, TxSetStatus,
          TxMint, TxBurn, TxTransfer, TokenSetAdmin, Mint, Burn, Transfer, tokenVars
  <2>3. ASSUME NEW e \in Account, TxRelease(e) PROVE Kept
    <3> DEFINE n == VestedAmount(e) - grants[e].released
    <3>1. /\ VestedAmount(e) >= grants[e].released
          /\ totalSupply' = totalSupply + n
          /\ tokenAdmin' = tokenAdmin /\ directSupply' = directSupply
      BY <2>3 DEF TxRelease, Release, Mint
    <3>2. VestedAmount(e) \in Nat /\ grants[e].released \in Nat
      <4>1. Created(grants[e]) /\ blockTimestamp \in Nat /\ grants[e].exists
        BY <1>1, <2>3 DEF IInv, TypeOK, VestingTypeOK, GrantOK, NoGrant, TxRelease, Release
      <4> QED
        BY <4>1, VestedBounds DEF VestedAmount, Created, Grant
    <3>3. n \in Nat
      BY <3>1, <3>2
    <3> QED
      BY <2>1, <3>1, <3>3
  <2>4. CASE NewBlock
    BY <2>1, <2>4 DEF NewBlock, tokenVars
  <2>5. ASSUME NEW s \in Sender, NEW e \in Account, TxRevokeGrant(s, e) PROVE Kept
    BY <2>1, <2>5 DEF TxRevokeGrant, tokenVars
  <2>6. ASSUME NEW s \in Sender, NEW e \in Account, NEW total, NEW start, NEW cliff, NEW duration,
               TxCreateGrant(s, e, total, start, cliff, duration)
        PROVE  Kept
    BY <2>1, <2>6 DEF TxCreateGrant, tokenVars
  <2> QED
    BY <2>2, <2>3, <2>4, <2>5, <2>6, NextCases
<1> QED
  BY <1>1, Invariance, PTL DEF Spec, HandoverIsFinal

(* An unverified address keeps its balance, unless a token admin burns it. *)
THEOREM UnverifiedFrozen == Spec => UnverifiedHoldingsFrozen
<1> DEFINE Frozen(a) == ~ IsVerified(a) /\ balances'[a] # balances[a] =>
                          tokenAdmin # Vesting /\ balances'[a] < balances[a] /\ totalSupply' < totalSupply
<1>1. ASSUME IInv, [Next]_vars PROVE [\A a \in Account : Frozen(a)]_vars
  <2> SUFFICES ASSUME Next, NEW a \in Account, ~ IsVerified(a), balances'[a] # balances[a]
               PROVE  tokenAdmin # Vesting /\ balances'[a] < balances[a] /\ totalSupply' < totalSupply
    BY <1>1
  <2>1. balances \in [Account -> Nat] /\ totalSupply \in Nat /\ Amount \subseteq Nat
    BY <1>1, SystemAssumption DEF IInv, TypeOK, TokenTypeOK
  <2>2. ASSUME NEW s \in Sender, NEW b \in Account \cup {ZeroAddress}, NEW n \in Amount, TxMint(s, b, n)
        PROVE  FALSE
    BY <2>1, <2>2 DEF TxMint, Mint
  <2>3. ASSUME NEW s \in Sender, NEW b \in Account \cup {ZeroAddress}, NEW n \in Amount, TxTransfer(s, b, n)
        PROVE  FALSE
    <3>1. s \in Account /\ b \in Account /\ a # s /\ a # b
      BY <2>3 DEF TxTransfer, Transfer, Sender
    <3>2. balances' = [[balances EXCEPT ![s] = @ - n] EXCEPT ![b] = @ + n]
      BY <2>3 DEF TxTransfer, Transfer
    <3> QED
      BY <2>1, <3>1, <3>2
  <2>4. ASSUME NEW s \in Sender, NEW b \in Account \cup {ZeroAddress}, NEW n \in Amount, TxBurn(s, b, n)
        PROVE  tokenAdmin # Vesting /\ balances'[a] < balances[a] /\ totalSupply' < totalSupply
    <3>1. /\ s = tokenAdmin /\ s # Vesting /\ b \in Account /\ n \in Nat
          /\ balances[b] >= n /\ totalSupply >= n
          /\ balances' = [balances EXCEPT ![b] = @ - n] /\ totalSupply' = totalSupply - n
      BY <2>1, <2>4 DEF TxBurn, Burn, Sender
    <3>2. a = b /\ n # 0
      BY <2>1, <3>1
    <3> QED
      BY <2>1, <3>1, <3>2
  <2>5. ASSUME NEW e \in Account, TxRelease(e)
        PROVE  FALSE
    BY <2>1, <2>5 DEF TxRelease, Release, Mint
  <2>6. ~ UNCHANGED tokenVars
    BY DEF tokenVars
  <2>7. ~ UNCHANGED balances
    OBVIOUS
  <2>8. \E s \in Sender, b \in Account \cup {ZeroAddress}, n \in Amount :
          TxMint(s, b, n) \/ TxBurn(s, b, n) \/ TxTransfer(s, b, n)
    <3>1. ElsewhereTx
      BY <2>5, <2>6, NextCases DEF TxCreateGrant, TxRevokeGrant, NewBlock
    <3> QED
      BY <2>6, <2>7, <3>1 DEF ElsewhereTx, TxRegistrySetAdmin, TxVestingSetAdmin, TxTokenSetAdmin, TokenSetAdmin,
            TxSetStatus
  <2> QED
    BY <2>2, <2>3, <2>4, <2>8
<1> QED
  BY <1>1, Invariance, PTL DEF Spec, UnverifiedHoldingsFrozen

-----------------------------------------------------------------------------
(* What the runs check as one property                                     *)

(* The contracts pay and cancel by the schedule, for all grants and times. *)
THEOREM SchedulesAreKept == Spec => []ReleasesFollowSchedule
<1>1. ReleasedWithinVested /\ ConservationAfterRevocation /\ NothingBeforeCliff => ReleasesFollowSchedule
  BY DEF ReleasesFollowSchedule
<1> QED
  BY <1>1, ReleasesAreVested, RevocationConserves, CliffIsRespected, PTL

(* The off-chain computations and checks agree with the contracts.         *)
THEOREM ScriptsAreRight == Spec => []ScriptsAgree
<1>1. ReadoutsAgree /\ VestingProofPasses => ScriptsAgree
  BY DEF ScriptsAgree
<1> QED
  BY <1>1, ReadoutsAreRight, VestingProofIsRight, PTL

(* Neither the handover nor a restriction can be undone behind a holder.   *)
THEOREM HoldingsStaySafe == Spec => HoldingsAreSafe
BY HandoverHolds, UnverifiedFrozen DEF HoldingsAreSafe

-----------------------------------------------------------------------------
(* The supply                                                              *)

released == [e \in Account |-> grants[e].released]

LEMMA SumsAreInts ==
  ASSUME TypeOK
  PROVE  /\ IsFiniteSet(Account)
         /\ balances \in [Account -> Int] /\ totalSupply \in Int /\ directSupply \in Int
         /\ released \in [Account -> Int]
         /\ SumOver(Account, balances) \in Int /\ SumOver(Account, released) \in Int
<1>1. /\ IsFiniteSet(Account)
      /\ balances \in [Account -> Int] /\ totalSupply \in Int /\ directSupply \in Int
      /\ released \in [Account -> Int]
  BY AccountAssumption DEF TypeOK, TokenTypeOK, VestingTypeOK, Grant, released
<1> QED
  BY <1>1, SumIsInt

LEMMA SuppliesInit == Init => SuppliesAgree
<1> SUFFICES ASSUME Init PROVE SuppliesAgree
  OBVIOUS
<1>1. \A e \in Account : balances[e] = 0 /\ released[e] = 0
  BY DEF Init, TokenInit, VestingInit, NoGrant, released
<1>2. SumOver(Account, balances) = 0 /\ SumOver(Account, released) = 0
  BY <1>1, AccountAssumption, SumOfZeros
<1> QED
  BY <1>2 DEF SuppliesAgree, BalancesSumToSupply, SupplyIsAccounted, ReleasedTotal, released,
              Init, TokenInit

\* One balance, or one released counter, moves the sum by as much.
LEMMA SumMoves ==
  \A f \in [Account -> Int], a \in Account, v \in Int :
    SumOver(Account, [f EXCEPT ![a] = v]) = SumOver(Account, f) + v - f[a]
BY AccountAssumption, SumExcept

LEMMA SuppliesStep ==
  ASSUME IInv, SuppliesAgree, Next
  PROVE  SuppliesAgree'
<1> USE DEF SuppliesAgree, BalancesSumToSupply, SupplyIsAccounted, ReleasedTotal
<1>0. TypeOK
  BY DEF IInv
<1>1. /\ IsFiniteSet(Account)
      /\ balances \in [Account -> Int] /\ totalSupply \in Int /\ directSupply \in Int
      /\ released \in [Account -> Int]
      /\ SumOver(Account, balances) \in Int /\ SumOver(Account, released) \in Int
  BY <1>0, SumsAreInts
<1>2. Amount \subseteq Int
  BY SystemAssumption
<1>3. ReleasedTotal = SumOver(Account, released) /\ ReleasedTotal' = SumOver(Account, released')
  BY DEF released
<1>4. (\A e \in Account : grants'[e].released = grants[e].released) => released' = released
  BY DEF released
<1>5. ASSUME NEW s \in Sender, NEW to \in Account \cup {ZeroAddress}, NEW n \in Amount, TxMint(s, to, n)
      PROVE  SuppliesAgree'
  <2>1. /\ to \in Account /\ n \in Int
        /\ balances' = [balances EXCEPT ![to] = @ + n] /\ totalSupply' = totalSupply + n
        /\ directSupply' = directSupply + n /\ grants' = grants
    BY <1>2, <1>5 DEF TxMint, Mint, vestingVars
  <2>2. balances[to] \in Int /\ balances[to] + n \in Int
    BY <1>1, <2>1
  <2>3. SumOver(Account, balances') = SumOver(Account, balances) + (balances[to] + n) - balances[to]
    BY <1>1, <2>1, <2>2, SumMoves
  <2> QED
    BY <1>1, <1>3, <1>4, <2>1, <2>2, <2>3
<1>6. ASSUME NEW s \in Sender, NEW from \in Account \cup {ZeroAddress}, NEW n \in Amount, TxBurn(s, from, n)
      PROVE  SuppliesAgree'
  <2>1. /\ from \in Account /\ n \in Int
        /\ balances' = [balances EXCEPT ![from] = @ - n] /\ totalSupply' = totalSupply - n
        /\ directSupply' = directSupply - n /\ grants' = grants
    BY <1>2, <1>6 DEF TxBurn, Burn, vestingVars
  <2>2. balances[from] \in Int /\ balances[from] - n \in Int
    BY <1>1, <2>1
  <2>3. SumOver(Account, balances') = SumOver(Account, balances) + (balances[from] - n) - balances[from]
    BY <1>1, <2>1, <2>2, SumMoves
  <2> QED
    BY <1>1, <1>3, <1>4, <2>1, <2>2, <2>3
<1>7. ASSUME NEW s \in Sender, NEW to \in Account \cup {ZeroAddress}, NEW n \in Amount, TxTransfer(s, to, n)
      PROVE  SuppliesAgree'
  <2> DEFINE debited == [balances EXCEPT ![s] = balances[s] - n]
  <2>1. /\ s \in Account /\ to \in Account /\ n \in Int
        /\ balances' = [debited EXCEPT ![to] = debited[to] + n]
        /\ totalSupply' = totalSupply /\ directSupply' = directSupply /\ grants' = grants
    BY <1>2, <1>7 DEF TxTransfer, Transfer, vestingVars, Sender
  <2>2. /\ debited \in [Account -> Int] /\ debited[to] \in Int /\ balances[s] \in Int
        /\ balances[s] - n \in Int /\ debited[to] + n \in Int
    BY <1>1, <2>1
  <2>3. SumOver(Account, debited) = SumOver(Account, balances) + (balances[s] - n) - balances[s]
    BY <1>1, <2>1, <2>2, SumMoves
  <2> HIDE DEF debited
  <2>4. SumOver(Account, balances') = SumOver(Account, debited) + (debited[to] + n) - debited[to]
    BY <1>1, <2>1, <2>2, SumMoves
  <2>5. SumOver(Account, balances') = SumOver(Account, balances)
    BY <1>1, <2>1, <2>2, <2>3, <2>4
  <2> QED
    BY <1>1, <1>3, <1>4, <2>1, <2>5
<1>8. ASSUME NEW e \in Account, TxRelease(e)
      PROVE  SuppliesAgree'
  <2> DEFINE g == grants[e]
             n == VestedAmount(e) - g.released
  <2>1. /\ grants \in [Account -> Grant] /\ blockTimestamp \in Nat
        /\ g.exists
        /\ grants' = [grants EXCEPT ![e].released = VestedAmount(e)]
        /\ balances' = [balances EXCEPT ![e] = @ + n] /\ totalSupply' = totalSupply + n
        /\ directSupply' = directSupply
    BY <1>0, <1>8 DEF TxRelease, Release, Mint, TypeOK, VestingTypeOK
  <2>2. VestedAmount(e) \in Int /\ g.released \in Int
    <3>1. Created(g)
      BY <2>1 DEF IInv, GrantOK, NoGrant
    <3> QED
      BY <2>1, <3>1, VestedBounds DEF VestedAmount, Created, Grant
  <2>3. released' = [released EXCEPT ![e] = VestedAmount(e)]
    BY <2>1 DEF released, Grant
  <2>4. released[e] = g.released
    BY DEF released
  <2>5. SumOver(Account, released') = SumOver(Account, released) + VestedAmount(e) - g.released
    <3>1. SumOver(Account, [released EXCEPT ![e] = VestedAmount(e)])
            = SumOver(Account, released) + VestedAmount(e) - released[e]
      BY <1>1, <2>2, SumMoves
    <3> HIDE DEF g
    <3> QED
      BY <2>3, <2>4, <3>1
  <2>6. n \in Int
    BY <2>2
  <2>7. SumOver(Account, balances') = SumOver(Account, balances) + (balances[e] + n) - balances[e]
    <3> HIDE DEF n
    <3>1. balances[e] \in Int /\ balances[e] + n \in Int
      BY <1>1, <2>6
    <3> QED
      BY <1>1, <2>1, <3>1, SumMoves
  <2>8. balances[e] \in Int
    BY <1>1
  <2> HIDE DEF g
  <2> QED
    BY <1>1, <1>3, <2>1, <2>2, <2>5, <2>7, <2>8
<1>9. ASSUME UNCHANGED <<balances, totalSupply, directSupply>>,
             \A e \in Account : grants'[e].released = grants[e].released
      PROVE  SuppliesAgree'
  BY <1>3, <1>4, <1>9
<1>10. ASSUME NEW s \in Sender, NEW e \in Account, NEW total \in Uint256,
              NEW start \in Uint64, NEW cliff \in Uint64, NEW duration \in Uint64,
              TxCreateGrant(s, e, total, start, cliff, duration)
       PROVE  SuppliesAgree'
  <2>1. UNCHANGED <<balances, totalSupply, directSupply>>
    BY <1>10 DEF TxCreateGrant, tokenVars
  <2>2. grants[e] = NoGrant
    BY <1>10 DEF TxCreateGrant, CreateGrant, IInv, GrantOK, Created
  <2>3. \A d \in Account : grants'[d].released = grants[d].released
    BY <1>0, <1>10, <2>2 DEF TxCreateGrant, CreateGrant, NewGrant, NoGrant, TypeOK, VestingTypeOK
  <2> QED
    BY <1>9, <2>1, <2>3
<1>11. ASSUME NEW s \in Sender, NEW e \in Account, TxRevokeGrant(s, e)
       PROVE  SuppliesAgree'
  <2>1. UNCHANGED <<balances, totalSupply, directSupply>>
    BY <1>11 DEF TxRevokeGrant, tokenVars
  <2>2. \A d \in Account : grants'[d].released = grants[d].released
    BY <1>0, <1>11 DEF TxRevokeGrant, RevokeGrant, Grant, TypeOK, VestingTypeOK
  <2> QED
    BY <1>9, <2>1, <2>2
<1>12. CASE NewBlock
  BY <1>9, <1>12 DEF NewBlock, tokenVars, vestingVars
<1>13. CASE ElsewhereTx
  <2> PICK s \in Sender, a \in Account \cup {ZeroAddress} :
        \/ TxRegistrySetAdmin(s, a) \/ TxVestingSetAdmin(s, a) \/ TxTokenSetAdmin(s, a)
        \/ \E st \in StatusArg : TxSetStatus(s, a, st)
        \/ \E n \in Amount : TxMint(s, a, n) \/ TxBurn(s, a, n) \/ TxTransfer(s, a, n)
    BY <1>13 DEF ElsewhereTx
  <2>1. CASE \/ TxRegistrySetAdmin(s, a) \/ TxVestingSetAdmin(s, a) \/ TxTokenSetAdmin(s, a)
             \/ \E st \in StatusArg : TxSetStatus(s, a, st)
    <3>1. UNCHANGED <<balances, totalSupply, directSupply, grants>>
      BY <2>1 DEF TxRegistrySetAdmin, TxVestingSetAdmin, VestingSetAdmin, TxTokenSetAdmin, TokenSetAdmin,
                  TxSetStatus, tokenVars, vestingVars
    <3> QED
      BY <1>9, <3>1
  <2> QED
    BY <1>5, <1>6, <1>7, <2>1
<1> QED
  BY <1>8, <1>10, <1>11, <1>12, <1>13, NextCases

(* The balances of the ledger add up to the supply, and the supply is what *)
(* the vesting contract released and an earlier admin minted directly.     *)
THEOREM SuppliesAlwaysAgree == Spec => []SuppliesAgree
<1>1. ASSUME IInv, SuppliesAgree, [Next]_vars PROVE SuppliesAgree'
  <2>1. CASE UNCHANGED vars
    BY <1>1, <2>1 DEF vars, tokenVars, vestingVars, SuppliesAgree, BalancesSumToSupply,
                      SupplyIsAccounted, ReleasedTotal
  <2> QED
    BY <1>1, <2>1, SuppliesStep
<1> QED
  BY <1>1, SuppliesInit, Invariance, PTL DEF Spec

-----------------------------------------------------------------------------
(* Refinement: the initial states correspond, and every step is a step of  *)
(* EquityPromise or leaves its state alone.                                *)

\* What the mapping shows of an account whose slot, in this step, stays as it is.
LEMMA FrameMaps ==
  ASSUME NEW d \in Account, grants'[d] = grants[d], blockTimestamp' = blockTimestamp
  PROVE  /\ grantedBar'[d] = grantedBar[d] /\ closedBar'[d] = closedBar[d]
         /\ accruedBar'[d] = accruedBar[d] /\ paidBar'[d] = paidBar[d] /\ capBar'[d] = capBar[d]
BY DEF grantedBar, closedBar, accruedBar, paidBar, capBar, VestedAmount

\* A mapped variable that is unchanged at every account is unchanged.
LEMMA SameGranted == (\A d \in Account : grantedBar'[d] = grantedBar[d]) => grantedBar' = grantedBar
BY DEF grantedBar

LEMMA SameClosed == (\A d \in Account : closedBar'[d] = closedBar[d]) => closedBar' = closedBar
BY DEF closedBar

LEMMA SameCap == (\A d \in Account : capBar'[d] = capBar[d]) => capBar' = capBar
BY DEF capBar

LEMMA SameAccrued == (\A d \in Account : accruedBar'[d] = accruedBar[d]) => accruedBar' = accruedBar
BY DEF accruedBar

LEMMA SamePaid == (\A d \in Account : paidBar'[d] = paidBar[d]) => paidBar' = paidBar
BY DEF paidBar

LEMMA CreateMaps ==
  ASSUME IInv, NEW s \in Sender, NEW e \in Account, NEW total \in Uint256,
         NEW start \in Uint64, NEW cliff \in Uint64, NEW duration \in Uint64,
         TxCreateGrant(s, e, total, start, cliff, duration)
  PROVE  Promised!Next
<1> DEFINE new == [total |-> total, released |-> 0, start |-> start, cliff |-> cliff,
                   duration |-> duration, exists |-> TRUE, revoked |-> FALSE, revokedAt |-> 0]
           initial == VestedAmountAt(new, blockTimestamp)
<1>1. /\ total > 0 /\ duration > 0 /\ cliff >= start /\ ~ grants[e].exists
      /\ grants' = [grants EXCEPT ![e] = new]
      /\ blockTimestamp' = blockTimestamp
  BY DEF TxCreateGrant, CreateGrant, NewGrant
<1>2. grants \in [Account -> Grant] /\ blockTimestamp \in Nat
  BY DEF IInv, TypeOK, VestingTypeOK
<1>3. grants[e] = NoGrant
  BY <1>1 DEF IInv, GrantOK, Created
<1>4. Created(new)
  BY <1>1 DEF Created, Grant
<1>5. grants'[e] = new /\ \A d \in Account : d # e => grants'[d] = grants[d]
  BY <1>1, <1>2
<1>6. initial \in Uint256 /\ initial <= total
  BY <1>2, <1>4, VestedBounds
<1>7. /\ grantedBar[e] = FALSE /\ grantedBar'[e] = TRUE
      /\ closedBar'[e] = closedBar[e]
      /\ capBar'[e] = total /\ accruedBar'[e] = initial
      /\ paidBar'[e] = paidBar[e]
  <2>1. new.exists = TRUE /\ new.revoked = FALSE /\ new.total = total /\ new.released = 0
    OBVIOUS
  <2>2. /\ grants[e].exists = FALSE /\ grants[e].revoked = FALSE
        /\ grants[e].total = 0 /\ grants[e].released = 0
    BY <1>3 DEF NoGrant
  <2> HIDE DEF new
  <2> QED
    BY <1>1, <1>5, <2>1, <2>2 DEF grantedBar, closedBar, capBar, accruedBar, paidBar, VestedAmount
<1>8. ASSUME NEW d \in Account, d # e
      PROVE  /\ grantedBar'[d] = grantedBar[d] /\ closedBar'[d] = closedBar[d]
             /\ accruedBar'[d] = accruedBar[d] /\ paidBar'[d] = paidBar[d] /\ capBar'[d] = capBar[d]
  BY <1>1, <1>5, <1>8, FrameMaps
<1> HIDE DEF new, initial
<1>9. grantedBar' = [grantedBar EXCEPT ![e] = TRUE]
  BY <1>7, <1>8 DEF grantedBar
<1>10. capBar' = [capBar EXCEPT ![e] = total]
  BY <1>7, <1>8 DEF capBar
<1>11. accruedBar' = [accruedBar EXCEPT ![e] = initial]
  BY <1>7, <1>8 DEF accruedBar
<1>12. closedBar' = closedBar /\ paidBar' = paidBar
  <2>1. \A d \in Account : closedBar'[d] = closedBar[d] /\ paidBar'[d] = paidBar[d]
    BY <1>7, <1>8
  <2> QED
    BY <2>1, SameClosed, SamePaid
<1>13. Promised!Promise(e, total, initial)
  BY <1>6, <1>7, <1>9, <1>10, <1>11, <1>12 DEF Promised!Promise
<1> QED
  BY <1>1, <1>6, <1>13 DEF Promised!Next

LEMMA RevokeMaps ==
  ASSUME IInv, NEW s \in Sender, NEW e \in Account, TxRevokeGrant(s, e)
  PROVE  Promised!Next
<1> DEFINE g == grants[e]
           h == [g EXCEPT !.revoked = TRUE, !.revokedAt = blockTimestamp]
<1>1. /\ grants \in [Account -> Grant] /\ g \in Grant
      /\ blockTimestamp \in Uint64 /\ blockTimestamp \in Nat
  BY DEF IInv, TypeOK, VestingTypeOK
<1>2. blockTimestamp % (MaxUint64 + 1) = blockTimestamp
  BY <1>1
<1>3. /\ g.exists /\ ~ g.revoked
      /\ grants' = [grants EXCEPT ![e] = h]
      /\ blockTimestamp' = blockTimestamp
  BY <1>1, <1>2 DEF TxRevokeGrant, RevokeGrant
<1>4. grants'[e] = h /\ \A d \in Account : d # e => grants'[d] = grants[d]
  BY <1>1, <1>3
<1>5. /\ h.total = g.total /\ h.start = g.start /\ h.cliff = g.cliff /\ h.duration = g.duration
      /\ h.exists = g.exists /\ h.released = g.released
      /\ h.revoked = TRUE /\ h.revokedAt = blockTimestamp
  BY <1>1 DEF Grant
<1> HIDE DEF h
<1>6. VestedAmountAt(h, blockTimestamp) = VestedAmountAt(g, blockTimestamp)
  <2>1. EffectiveTime(h, blockTimestamp) = blockTimestamp /\ EffectiveTime(g, blockTimestamp) = blockTimestamp
    BY <1>1, <1>3, <1>5 DEF EffectiveTime
  <2> QED
    BY <1>5, <2>1, ScheduleSameTerms DEF VestedAmountAt
<1>7. /\ grantedBar[e] /\ grantedBar'[e] = grantedBar[e]
      /\ ~ closedBar[e] /\ closedBar'[e] = TRUE
      /\ accruedBar'[e] = accruedBar[e] /\ capBar'[e] = accruedBar[e]
      /\ paidBar'[e] = paidBar[e]
  BY <1>3, <1>4, <1>5, <1>6 DEF grantedBar, closedBar, capBar, accruedBar, paidBar, VestedAmount
<1>8. ASSUME NEW d \in Account, d # e
      PROVE  /\ grantedBar'[d] = grantedBar[d] /\ closedBar'[d] = closedBar[d]
             /\ accruedBar'[d] = accruedBar[d] /\ paidBar'[d] = paidBar[d] /\ capBar'[d] = capBar[d]
  BY <1>3, <1>4, <1>8, FrameMaps
<1>9. closedBar' = [closedBar EXCEPT ![e] = TRUE]
  BY <1>7, <1>8 DEF closedBar
<1>10. capBar' = [capBar EXCEPT ![e] = accruedBar[e]]
  BY <1>7, <1>8 DEF capBar
<1>11. grantedBar' = grantedBar /\ accruedBar' = accruedBar /\ paidBar' = paidBar
  <2>1. \A d \in Account : /\ grantedBar'[d] = grantedBar[d] /\ accruedBar'[d] = accruedBar[d]
                          /\ paidBar'[d] = paidBar[d]
    BY <1>7, <1>8
  <2> QED
    BY <2>1, SameGranted, SameAccrued, SamePaid
<1>12. Promised!Cancel(e)
  BY <1>7, <1>9, <1>10, <1>11 DEF Promised!Cancel
<1> QED
  BY <1>12 DEF Promised!Next

LEMMA ReleaseMaps ==
  ASSUME IInv, NEW e \in Account, TxRelease(e)
  PROVE  Promised!Next
<1> DEFINE g      == grants[e]
           vested == VestedAmountAt(g, blockTimestamp)
           h      == [g EXCEPT !.released = vested]
<1>1. grants \in [Account -> Grant] /\ g \in Grant /\ blockTimestamp \in Nat
  BY DEF IInv, TypeOK, VestingTypeOK
<1>2. /\ g.exists /\ vested >= g.released /\ vested - g.released # 0
      /\ grants' = [grants EXCEPT ![e] = h]
      /\ blockTimestamp' = blockTimestamp
  BY DEF TxRelease, Release, VestedAmount
<1>3. grants'[e] = h /\ \A d \in Account : d # e => grants'[d] = grants[d]
  BY <1>1, <1>2
<1>4. /\ h.total = g.total /\ h.start = g.start /\ h.cliff = g.cliff /\ h.duration = g.duration
      /\ h.exists = g.exists /\ h.released = vested
      /\ h.revoked = g.revoked /\ h.revokedAt = g.revokedAt
  BY <1>1 DEF Grant
<1>5. vested \in Nat /\ g.released \in Nat
  <2>1. Created(g)
    BY <1>2 DEF IInv, GrantOK, NoGrant
  <2> QED
    BY <1>1, <2>1, VestedBounds DEF Grant
<1> HIDE DEF h
<1>6. VestedAmountAt(h, blockTimestamp) = vested
  <2>1. EffectiveTime(h, blockTimestamp) = EffectiveTime(g, blockTimestamp)
    BY <1>4 DEF EffectiveTime
  <2> QED
    BY <1>4, <2>1, ScheduleSameTerms DEF VestedAmountAt
<1> HIDE DEF vested
<1>7. /\ grantedBar[e] /\ grantedBar'[e] = grantedBar[e] /\ closedBar'[e] = closedBar[e]
      /\ accruedBar[e] = vested /\ accruedBar'[e] = vested /\ capBar'[e] = capBar[e]
      /\ paidBar[e] = g.released /\ paidBar'[e] = vested
  BY <1>2, <1>3, <1>4, <1>6 DEF grantedBar, closedBar, capBar, accruedBar, paidBar, VestedAmount, vested
<1>8. ASSUME NEW d \in Account, d # e
      PROVE  /\ grantedBar'[d] = grantedBar[d] /\ closedBar'[d] = closedBar[d]
             /\ accruedBar'[d] = accruedBar[d] /\ paidBar'[d] = paidBar[d] /\ capBar'[d] = capBar[d]
  BY <1>2, <1>3, <1>8, FrameMaps
<1>9. paidBar' = [paidBar EXCEPT ![e] = accruedBar[e]]
  BY <1>7, <1>8 DEF paidBar
<1>10. grantedBar' = grantedBar /\ closedBar' = closedBar /\ capBar' = capBar /\ accruedBar' = accruedBar
  <2>1. \A d \in Account : /\ grantedBar'[d] = grantedBar[d] /\ closedBar'[d] = closedBar[d]
                          /\ capBar'[d] = capBar[d] /\ accruedBar'[d] = accruedBar[d]
    BY <1>7, <1>8
  <2> QED
    BY <2>1, SameGranted, SameClosed, SameCap, SameAccrued
<1>11. Promised!Pay(e)
  BY <1>2, <1>5, <1>7, <1>9, <1>10 DEF Promised!Pay
<1> QED
  BY <1>11 DEF Promised!Next

LEMMA NewBlockMaps ==
  ASSUME IInv, IInv', NewBlock
  PROVE  Promised!Next
<1>1. /\ grants \in [Account -> Grant] /\ blockTimestamp \in Nat /\ blockTimestamp' \in Nat
      /\ blockTimestamp < blockTimestamp' /\ grants' = grants
  BY DEF NewBlock, IInv, TypeOK, VestingTypeOK, vestingVars
<1>2. ASSUME NEW d \in Account
      PROVE  /\ accruedBar'[d] \in Uint256
             /\ accruedBar[d] <= accruedBar'[d] /\ accruedBar'[d] <= capBar[d]
             /\ closedBar[d] => accruedBar'[d] = accruedBar[d]
             /\ capBar'[d] = capBar[d]
  <2> DEFINE g == grants[d]
  <2>1. CASE g = NoGrant
    BY <1>1, <2>1 DEF accruedBar, closedBar, capBar, VestedAmount, NoGrant
  <2>2. CASE Created(g)
    <3>1. /\ accruedBar[d] = VestedAmountAt(g, blockTimestamp)
          /\ accruedBar'[d] = VestedAmountAt(g, blockTimestamp')
          /\ closedBar[d] = g.revoked /\ closedBar'[d] = g.revoked
          /\ g.total \in Uint256
      BY <1>1, <2>2 DEF accruedBar, closedBar, VestedAmount, Created, Grant
    <3>2. /\ accruedBar[d] \in Nat /\ accruedBar'[d] \in Nat
          /\ accruedBar[d] <= accruedBar'[d] /\ accruedBar'[d] <= g.total
      BY <1>1, <2>2, <3>1, VestedBounds, VestedMonotone
    <3>3. g.revoked => accruedBar'[d] = accruedBar[d]
      <4>1. g.revoked => g.revokedAt <= blockTimestamp /\ g.revokedAt \in Nat
        BY <2>2 DEF IInv, GrantOK, NoGrant, Created, Grant
      <4> QED
        BY <1>1, <2>2, <3>1, <4>1, VestedAfterRevocation
    <3>4. /\ capBar[d] = IF g.revoked THEN accruedBar[d] ELSE g.total
          /\ capBar'[d] = IF g.revoked THEN accruedBar'[d] ELSE g.total
      BY <1>1 DEF capBar, closedBar
    <3> QED
      BY <3>1, <3>2, <3>3, <3>4
  <2> QED
    BY <2>1, <2>2 DEF IInv, GrantOK
<1>3. accruedBar' \in [Account -> Uint256]
  BY <1>2 DEF accruedBar
<1>4. grantedBar' = grantedBar /\ closedBar' = closedBar /\ paidBar' = paidBar
  BY <1>1 DEF grantedBar, closedBar, paidBar
<1>5. capBar' = capBar
  BY <1>2, SameCap
<1>6. Promised!Accrue
  BY <1>2, <1>3, <1>4, <1>5 DEF Promised!Accrue
<1> QED
  BY <1>6 DEF Promised!Next

LEMMA StutterMaps ==
  ASSUME UNCHANGED <<grants, blockTimestamp>>
  PROVE  UNCHANGED Promised!promiseVars
BY DEF Promised!promiseVars, grantedBar, closedBar, capBar, accruedBar, paidBar, VestedAmount

(* The contracts implement EquityPromise: no clawback of what has vested,  *)
(* no second payment of it, no payment beyond the grant.                   *)
THEOREM Refinement == Spec => KeepsPromises
<1>1. Init => Promised!Init
  BY DEF Init, VestingInit, NoGrant, Promised!Init,
         grantedBar, closedBar, capBar, accruedBar, paidBar, VestedAmount
<1>2. ASSUME IInv, IInv', [Next]_vars
      PROVE  [Promised!Next]_(Promised!promiseVars)
  <2>1. CASE UNCHANGED vars
    BY <2>1, StutterMaps DEF vars, vestingVars
  <2>2. CASE ElsewhereTx
    BY <2>2, OtherTxFrame, StutterMaps
  <2>3. CASE Next /\ ~ ElsewhereTx
    BY <1>2, <2>3, NextCases, CreateMaps, RevokeMaps, ReleaseMaps, NewBlockMaps
  <2> QED
    BY <1>2, <2>1, <2>2, <2>3
<1> QED
  BY <1>1, <1>2, Invariance, PTL DEF Spec, KeepsPromises, Promised!Spec

-----------------------------------------------------------------------------
(* The tools that claim                                                    *)

\* What a snapshot shows as vested, the grant as it became does not take back.
LEMMA EntitlementStands ==
  ASSUME NEW s, NEW h, Created(s.grant), Created(h), Outlives(s, h), s.time \in Nat,
         NEW t \in Nat, t <= s.time, NEW u \in Nat, t <= u
  PROVE  VestedAmountAt(s.grant, t) <= VestedAmountAt(h, u)
<1> DEFINE g == s.grant
<1>1. g.revokedAt \in Nat /\ h.revokedAt \in Nat
  BY DEF Created, Grant
<1>2. /\ h.total = g.total /\ h.start = g.start /\ h.cliff = g.cliff /\ h.duration = g.duration
      /\ g.revoked => h.revoked /\ h.revokedAt = g.revokedAt
      /\ ~ g.revoked /\ h.revoked => s.time < h.revokedAt
  BY DEF Outlives, Created
<1>3. /\ EffectiveTime(g, t) \in Nat /\ EffectiveTime(h, u) \in Nat
      /\ EffectiveTime(g, t) <= EffectiveTime(h, u)
  BY <1>1, <1>2 DEF EffectiveTime
<1>4. Schedule(h, EffectiveTime(g, t)) <= Schedule(h, EffectiveTime(h, u))
  BY <1>3, ScheduleMonotone
<1>5. Schedule(h, EffectiveTime(g, t)) = Schedule(g, EffectiveTime(g, t))
  BY <1>2, ScheduleSameTerms
<1> QED
  BY <1>4, <1>5 DEF VestedAmountAt

\* What a claim adds to what was paid up to block i.
Counted(c, i) == [tx \in DOMAIN c |-> IF c[tx].block <= i THEN c[tx].paid ELSE 0]

LEMMA PaidCounted ==
  ASSUME NEW c \in Seq(ClaimRecord), NEW i
  PROVE  /\ IsFiniteSet(DOMAIN c)
         /\ PaidUpTo(c, i) = SumOver(DOMAIN c, Counted(c, i))
         /\ \A tx \in DOMAIN c : Counted(c, i)[tx] \in Nat /\ c[tx].paid \in Nat /\ c[tx].block \in Nat
         /\ PaidUpTo(c, i) \in Nat
<1>1. IsFiniteSet(DOMAIN c)
  BY FS_Interval
<1>2. PaidUpTo(c, i) = SumOver(DOMAIN c, Counted(c, i))
  BY DEF PaidUpTo, Counted
<1>3. \A tx \in DOMAIN c : Counted(c, i)[tx] \in Nat /\ c[tx].paid \in Nat /\ c[tx].block \in Nat
  <2> SUFFICES ASSUME NEW tx \in DOMAIN c
               PROVE  Counted(c, i)[tx] \in Nat /\ c[tx].paid \in Nat /\ c[tx].block \in Nat
    OBVIOUS
  <2>1. c[tx] \in ClaimRecord
    OBVIOUS
  <2>2. c[tx].paid \in Nat /\ c[tx].block \in Nat
    BY <2>1 DEF ClaimRecord
  <2> QED
    BY <2>2 DEF Counted
<1> QED
  BY <1>1, <1>2, <1>3, SumIsNat

\* Blocks without a claim that paid change nothing.
LEMMA NothingPaid ==
  ASSUME NEW c \in Seq(ClaimRecord), NEW i \in Nat, NEW j \in Nat, i <= j,
         \A tx \in DOMAIN c : c[tx].block > i /\ c[tx].block <= j => c[tx].paid = 0
  PROVE  PaidUpTo(c, j) = PaidUpTo(c, i)
<1>1. \A tx \in DOMAIN c : Counted(c, j)[tx] = Counted(c, i)[tx]
  <2>1. \A tx \in DOMAIN c : c[tx].block \in Nat
    BY PaidCounted
  <2> QED
    BY <2>1 DEF Counted
<1> QED
  <2>1. /\ IsFiniteSet(DOMAIN c)
        /\ PaidUpTo(c, i) = SumOver(DOMAIN c, Counted(c, i))
        /\ PaidUpTo(c, j) = SumOver(DOMAIN c, Counted(c, j))
    BY PaidCounted
  <2> QED
    BY <1>1, <2>1, SumSame

\* A new claim counts from its block on.
LEMMA PaidAppend ==
  ASSUME NEW c \in Seq(ClaimRecord), NEW x \in ClaimRecord, NEW i \in Nat
  PROVE  PaidUpTo(Append(c, x), i) = PaidUpTo(c, i) + (IF x.block <= i THEN x.paid ELSE 0)
<1> DEFINE d == Append(c, x)
           n == Len(c) + 1
<1>1. /\ d \in Seq(ClaimRecord) /\ DOMAIN d = DOMAIN c \cup {n} /\ n \notin DOMAIN c
      /\ d[n] = x /\ \A tx \in DOMAIN c : d[tx] = c[tx]
  OBVIOUS
<1> HIDE DEF d, n
<1>2. /\ IsFiniteSet(DOMAIN d) /\ IsFiniteSet(DOMAIN c) /\ PaidUpTo(c, i) \in Nat
      /\ PaidUpTo(d, i) = SumOver(DOMAIN d, Counted(d, i))
      /\ PaidUpTo(c, i) = SumOver(DOMAIN c, Counted(c, i))
      /\ \A tx \in DOMAIN d : Counted(d, i)[tx] \in Int
  BY <1>1, PaidCounted
<1>3. SumOver(DOMAIN d, Counted(d, i)) = Counted(d, i)[n] + SumOver(DOMAIN d \ {n}, Counted(d, i))
  BY <1>1, <1>2, SumRemove
<1>4. DOMAIN d \ {n} = DOMAIN c
  BY <1>1
<1>5. SumOver(DOMAIN c, Counted(d, i)) = SumOver(DOMAIN c, Counted(c, i))
  <2>1. \A tx \in DOMAIN c : Counted(d, i)[tx] = Counted(c, i)[tx]
    BY <1>1 DEF Counted
  <2> QED
    BY <1>2, <2>1, SumSame
<1>6. Counted(d, i)[n] = IF x.block <= i THEN x.paid ELSE 0
  BY <1>1 DEF Counted
<1>7. PaidUpTo(d, i) = PaidUpTo(c, i) + (IF x.block <= i THEN x.paid ELSE 0)
  <2>1. (IF x.block <= i THEN x.paid ELSE 0) \in Nat
    BY DEF ClaimRecord
  <2> QED
    BY <1>2, <1>3, <1>4, <1>5, <1>6, <2>1
<1> QED
  BY <1>7 DEF d

\* Over the block of a claim that paid, the released counter grows by it.
LEMMA IncreaseIsPaid ==
  ASSUME NEW p, NEW c, PastInv(p), ClaimsInv(p, c), NEW tx \in DOMAIN c,
         c[tx].paid > 0, c[tx].block <= Len(p)
  PROVE  /\ c[tx].block \in DOMAIN p /\ c[tx].block - 1 \in DOMAIN p
         /\ p[c[tx].block].grant.released - p[c[tx].block - 1].grant.released = c[tx].paid
         /\ p[c[tx].block].balance - p[c[tx].block - 1].balance
              = c[tx].paid + (p[c[tx].block].received - p[c[tx].block - 1].received)
         /\ p[c[tx].block].received \in Int /\ p[c[tx].block - 1].received \in Int
<1> DEFINE b == c[tx].block
           a == b - 1
<1>1. /\ c \in Seq(ClaimRecord) /\ b \in 2 .. Len(p) + 1 /\ Len(p) \in Nat /\ DOMAIN p = 1 .. Len(p)
      /\ \A i \in DOMAIN p : /\ p[i].grant.released = PaidUpTo(c, i) /\ p[i].received \in Int
                            /\ p[i].balance = p[i].grant.released + p[i].received
      /\ \A u \in DOMAIN c : u # tx /\ c[u].paid > 0 => c[u].block # b
  <2>1. c \in Seq(ClaimRecord)
    BY DEF ClaimsInv
  <2>2. Len(p) \in Nat /\ DOMAIN p = 1 .. Len(p)
    BY DEF PastInv
  <2>3. \A i \in DOMAIN p : /\ p[i].grant.released = PaidUpTo(c, i) /\ p[i].received \in Int
                            /\ p[i].balance = p[i].grant.released + p[i].received
    <3> SUFFICES ASSUME NEW i \in DOMAIN p
                 PROVE  /\ p[i].grant.released = PaidUpTo(c, i) /\ p[i].received \in Int
                        /\ p[i].balance = p[i].grant.released + p[i].received
      OBVIOUS
    <3>1. p[i] \in SnapshotRecord
      BY DEF PastInv
    <3> QED
      BY <3>1 DEF PastInv, ClaimsInv, SnapshotRecord
  <2>4. b \in 2 .. Len(p) + 1 /\ \A u \in DOMAIN c : u # tx /\ c[u].paid > 0 => c[u].block # b
    BY DEF ClaimsInv
  <2> QED
    BY <2>1, <2>2, <2>3, <2>4
<1>2. b \in DOMAIN p /\ a \in DOMAIN p /\ a \in Nat /\ b \in Nat /\ b = a + 1
  BY <1>1
<1> HIDE DEF a
<1>3. SumOver(DOMAIN c, Counted(c, b)) = SumOver(DOMAIN c, Counted(c, a)) + Counted(c, b)[tx] - Counted(c, a)[tx]
  <2>1. /\ IsFiniteSet(DOMAIN c)
        /\ \A u \in DOMAIN c : Counted(c, a)[u] \in Int /\ Counted(c, b)[u] \in Int
    BY <1>1, PaidCounted
  <2>2. \A u \in DOMAIN c \ {tx} : Counted(c, b)[u] = Counted(c, a)[u]
    <3>1. \A u \in DOMAIN c : c[u].paid \in Nat /\ c[u].block \in Nat
      BY <1>1, PaidCounted
    <3> HIDE DEF b
    <3> QED
      BY <1>1, <1>2, <3>1 DEF Counted
  <2> HIDE DEF b
  <2> QED
    BY <2>1, <2>2, SumChange
<1>4. Counted(c, b)[tx] = c[tx].paid /\ Counted(c, a)[tx] = 0 /\ c[tx].paid \in Nat
  <2>1. c[tx].paid \in Nat
    BY <1>1, PaidCounted
  <2> QED
    BY <1>2, <2>1 DEF Counted
<1>5. /\ PaidUpTo(c, b) = SumOver(DOMAIN c, Counted(c, b)) /\ PaidUpTo(c, b) \in Nat
      /\ PaidUpTo(c, a) = SumOver(DOMAIN c, Counted(c, a)) /\ PaidUpTo(c, a) \in Nat
  BY <1>1, PaidCounted
<1> HIDE DEF b
<1>6. PaidUpTo(c, b) - PaidUpTo(c, a) = c[tx].paid
  BY <1>3, <1>4, <1>5
<1>7. /\ p[b].grant.released = PaidUpTo(c, b) /\ p[b].balance = PaidUpTo(c, b) + p[b].received
      /\ p[a].grant.released = PaidUpTo(c, a) /\ p[a].balance = PaidUpTo(c, a) + p[a].received
      /\ p[a].received \in Int /\ p[b].received \in Int
  BY <1>1, <1>2
<1>8. /\ p[b].grant.released - p[a].grant.released = c[tx].paid
      /\ p[b].balance - p[a].balance = c[tx].paid + (p[b].received - p[a].received)
  BY <1>5, <1>6, <1>7
<1> QED
  BY <1>2, <1>7, <1>8 DEF a, b

\* A grant slot, and the snapshot of the present block.
Slot(g) == g = NoGrant \/ Created(g)

SnapshotOf(g, bal, r, now, pay) ==
  [time |-> now, grant |-> g, balance |-> bal, received |-> r, payable |-> pay]

LEMMA CloseStep ==
  ASSUME NEW p, NEW c, NEW g, NEW bal \in Uint256, NEW r \in Int, NEW b, b = bal - r,
         NEW now \in Uint64, NEW later \in Uint64, NEW pay \in Nat,
         PastInv(p), ClaimsInv(p, c), PresentInv(p, c, g, b, now), Slot(g), now < later
  PROVE  LET q == Append(p, SnapshotOf(g, bal, r, now, pay)) IN
         PastInv(q) /\ ClaimsInv(q, c) /\ PresentInv(q, c, g, b, later)
<1> DEFINE q == Append(p, SnapshotOf(g, bal, r, now, pay))
           x == SnapshotOf(g, bal, r, now, pay)
           n == Len(p)
<1>1. x \in SnapshotRecord /\ x.time = now /\ x.grant = g /\ x.balance = bal /\ x.received = r
  <2>1. g \in Grant
    <3>1. NoGrant \in Grant
      BY DEF NoGrant, Grant
    <3> QED
      BY <3>1 DEF Slot, Created
  <2> QED
    BY <2>1 DEF SnapshotOf, SnapshotRecord
<1>2. p \in Seq(SnapshotRecord) /\ n \in Nat \ {0} /\ DOMAIN p = 1 .. n
  BY DEF PastInv
<1> HIDE DEF x
<1>3. /\ q \in Seq(SnapshotRecord) /\ Len(q) = n + 1 /\ DOMAIN q = 1 .. n + 1 /\ q[n + 1] = x /\ q # <<>>
      /\ \A i \in DOMAIN p : q[i] = p[i]
  BY <1>1, <1>2 DEF x
<1> HIDE DEF q
<1>4. g.released = PaidUpTo(c, n + 1) /\ b = g.released /\ bal = g.released + r
  <2>1. b = g.released /\ g.released = PaidUpTo(c, n + 1)
    BY DEF PresentInv
  <2>2. bal \in Int
    BY DEF Uint256
  <2> QED
    BY <2>1, <2>2
<1>5. \A i \in DOMAIN p : p[i].time < now /\ p[i].time \in Nat /\ Outlives(p[i], g)
  <2> SUFFICES ASSUME NEW i \in DOMAIN p PROVE p[i].time < now /\ p[i].time \in Nat /\ Outlives(p[i], g)
    OBVIOUS
  <2>1. p[i] \in SnapshotRecord
    BY <1>2
  <2> QED
    BY <2>1 DEF PresentInv, SnapshotRecord
<1>6. Outlives(x, g)
  <2>1. g.released \in Int
    <3>1. NoGrant.released \in Int
      BY DEF NoGrant
    <3>2. Created(g) => g.released \in Int
      BY DEF Created, Grant
    <3> QED
      BY <3>1, <3>2 DEF Slot
  <2> QED
    BY <1>1, <2>1 DEF Outlives
<1>7. PastInv(q)
  <2>1. ASSUME NEW i \in DOMAIN q
        PROVE  /\ q[i].grant = NoGrant \/ Created(q[i].grant)
               /\ q[i].balance = q[i].grant.released + q[i].received
    <3>1. CASE i \in DOMAIN p
      BY <1>3, <3>1 DEF PastInv
    <3>2. CASE i = n + 1
      BY <1>1, <1>3, <1>4, <3>2 DEF Slot
    <3> QED
      BY <1>2, <1>3, <3>1, <3>2
  <2>2. ASSUME NEW i \in DOMAIN q, NEW j \in DOMAIN q, i < j
        PROVE  q[i].time < q[j].time /\ Outlives(q[i], q[j].grant)
    <3>1. i \in DOMAIN p
      BY <1>2, <1>3, <2>2
    <3>2. CASE j \in DOMAIN p
      BY <1>3, <2>2, <3>1, <3>2 DEF PastInv
    <3>3. CASE j = n + 1
      BY <1>1, <1>3, <1>5, <3>1, <3>3
    <3> QED
      BY <1>2, <1>3, <3>2, <3>3
  <2> QED
    BY <1>3, <2>1, <2>2 DEF PastInv, SnapshotRecord
<1>8. ClaimsInv(q, c)
  <2>1. c \in Seq(ClaimRecord)
        /\ \A t, u \in DOMAIN c : t # u /\ c[t].paid > 0 /\ c[u].paid > 0 => c[t].block # c[u].block
    BY DEF ClaimsInv
  <2>2. \A tx \in DOMAIN c : c[tx].block \in 2 .. n + 1
    BY DEF ClaimsInv
  <2>3. \A tx \in DOMAIN c : c[tx].block \in 2 .. Len(q) + 1
    BY <1>2, <1>3, <2>2
  <2>4. \A i \in DOMAIN q : q[i].grant.released = PaidUpTo(c, i)
    <3> SUFFICES ASSUME NEW i \in DOMAIN q PROVE q[i].grant.released = PaidUpTo(c, i)
      OBVIOUS
    <3>1. CASE i \in DOMAIN p
      BY <1>3, <3>1 DEF ClaimsInv
    <3>2. CASE i = n + 1
      BY <1>1, <1>3, <1>4, <3>2
    <3> QED
      BY <1>2, <1>3, <3>1, <3>2
  <2>5. ASSUME NEW tx \in DOMAIN c, NEW i \in DOMAIN q,
               c[tx].paid > 0, i < c[tx].block, q[i].grant.exists
        PROVE  VestedAmountAt(q[i].grant, q[i].time) <= q[c[tx].block - 1].grant.released + c[tx].paid
    <3>1. i \in DOMAIN p /\ c[tx].block - 1 \in DOMAIN p
      BY <1>2, <1>3, <2>2, <2>5
    <3> QED
      BY <1>3, <2>5, <3>1 DEF ClaimsInv
  <2> QED
    BY <2>1, <2>3, <2>4, <2>5 DEF ClaimsInv
<1>9. PresentInv(q, c, g, b, later)
  <2>1. c \in Seq(ClaimRecord) /\ \A tx \in DOMAIN c : c[tx].block \in 2 .. n + 1
    BY DEF ClaimsInv
  <2> DEFINE m == n + 1
  <2>2. m \in Nat /\ m + 1 \in Nat /\ m <= m + 1 /\ Len(q) = m
    BY <1>2, <1>3
  <2>3. \A tx \in DOMAIN c : c[tx].block <= m
    BY <1>2, <2>1
  <2>4. g.released = PaidUpTo(c, m)
    BY <1>4
  <2> HIDE DEF m
  <2>5. PaidUpTo(c, m + 1) = PaidUpTo(c, m)
    <3>1. \A tx \in DOMAIN c : c[tx].block \in Nat
      BY <2>1, <1>2
    <3>2. \A tx \in DOMAIN c : c[tx].block > m /\ c[tx].block <= m + 1 => c[tx].paid = 0
      BY <2>2, <2>3, <3>1
    <3> QED
      BY <2>1, <2>2, <3>2, NothingPaid
  <2>6. \A i \in DOMAIN q : q[i].time < later /\ Outlives(q[i], g)
    <3> SUFFICES ASSUME NEW i \in DOMAIN q PROVE q[i].time < later /\ Outlives(q[i], g)
      OBVIOUS
    <3>1. CASE i \in DOMAIN p
      BY <1>3, <1>5, <3>1
    <3>2. CASE i = n + 1
      BY <1>1, <1>3, <1>6, <3>2
    <3> QED
      BY <1>2, <1>3, <3>1, <3>2
  <2>7. ~ \E tx \in DOMAIN c : c[tx].block = Len(q) + 1 /\ c[tx].paid > 0
    <3>1. \A tx \in DOMAIN c : c[tx].block \in Nat
      BY <2>1, <1>2
    <3> QED
      BY <2>2, <2>3, <3>1
  <2> QED
    BY <1>4, <2>2, <2>4, <2>5, <2>6, <2>7 DEF PresentInv
<1> QED
  BY <1>7, <1>8, <1>9 DEF q

LEMMA SnapshotOK ==
  ASSUME NEW p, PastInv(p), NEW i \in DOMAIN p
  PROVE  /\ p[i].time \in Nat /\ p[i].grant \in Grant /\ p[i].grant.released \in Nat
         /\ p[i].grant.exists => Created(p[i].grant)
<1>1. p[i] \in SnapshotRecord
  BY DEF PastInv
<1>2. p[i].time \in Nat /\ p[i].grant \in Grant
  BY <1>1 DEF SnapshotRecord
<1>3. p[i].grant.released \in Nat
  BY <1>2 DEF Grant
<1>4. p[i].grant.exists => Created(p[i].grant)
  BY DEF PastInv, NoGrant
<1> QED
  BY <1>2, <1>3, <1>4

\* A claim is added: if it paid it is the only one of its block, and paid all there was.
LEMMA AddClaim ==
  ASSUME NEW p, NEW c, PastInv(p), ClaimsInv(p, c), NEW x \in ClaimRecord, x.block = Len(p) + 1,
         x.paid > 0 =>
           /\ \A tx \in DOMAIN c : c[tx].block = Len(p) + 1 => c[tx].paid = 0
           /\ \A i \in DOMAIN p : p[i].grant.exists =>
                VestedAmountAt(p[i].grant, p[i].time) <= p[Len(p)].grant.released + x.paid
  PROVE  ClaimsInv(p, Append(c, x))
<1> DEFINE d == Append(c, x)
           n == Len(p)
           k == Len(c) + 1
<1>1. n \in Nat \ {0} /\ DOMAIN p = 1 .. n
  BY DEF PastInv
<1>2. c \in Seq(ClaimRecord)
  BY DEF ClaimsInv
<1>3. /\ d \in Seq(ClaimRecord) /\ DOMAIN d = DOMAIN c \cup {k} /\ k \notin DOMAIN c
      /\ d[k] = x /\ \A tx \in DOMAIN c : d[tx] = c[tx]
  BY <1>2
<1> HIDE DEF k
<1>4. \A tx \in DOMAIN c : c[tx].block \in 2 .. n + 1 /\ c[tx].paid \in Nat
  BY <1>2, PaidCounted DEF ClaimsInv
<1>5. \A i \in DOMAIN p : PaidUpTo(d, i) = PaidUpTo(c, i)
  <2> SUFFICES ASSUME NEW i \in DOMAIN p PROVE PaidUpTo(d, i) = PaidUpTo(c, i)
    OBVIOUS
  <2>1. i \in Nat /\ ~ (x.block <= i)
    BY <1>1
  <2>2. PaidUpTo(c, i) \in Nat
    BY <1>2, PaidCounted
  <2>3. PaidUpTo(d, i) = PaidUpTo(c, i) + 0
    BY <1>2, <2>1, PaidAppend
  <2> HIDE DEF d
  <2> QED
    BY <2>2, <2>3
<1> HIDE DEF d
<1>6. \A tx \in DOMAIN d : d[tx].block \in 2 .. n + 1
  BY <1>1, <1>3, <1>4
<1>7. \A i \in DOMAIN p : p[i].grant.released = PaidUpTo(d, i)
  BY <1>5 DEF ClaimsInv
<1>8. ASSUME NEW t \in DOMAIN d, NEW u \in DOMAIN d, t # u, d[t].paid > 0, d[u].paid > 0
      PROVE  d[t].block # d[u].block
  <2>1. CASE t \in DOMAIN c /\ u \in DOMAIN c
    BY <1>3, <1>8, <2>1 DEF ClaimsInv
  <2>2. CASE t = k
    BY <1>3, <1>4, <1>8, <2>2
  <2>3. CASE u = k
    BY <1>3, <1>4, <1>8, <2>3
  <2> QED
    BY <1>3, <2>1, <2>2, <2>3
<1>9. ASSUME NEW tx \in DOMAIN d, NEW i \in DOMAIN p,
             d[tx].paid > 0, i < d[tx].block, p[i].grant.exists
      PROVE  VestedAmountAt(p[i].grant, p[i].time) <= p[d[tx].block - 1].grant.released + d[tx].paid
  <2>1. CASE tx \in DOMAIN c
    BY <1>3, <1>9, <2>1 DEF ClaimsInv
  <2>2. CASE tx = k
    <3>1. d[tx].block - 1 = n
      BY <1>1, <1>3, <2>2
    <3> QED
      BY <1>3, <1>9, <2>2, <3>1
  <2> QED
    BY <1>3, <2>1, <2>2
<1> QED
  BY <1>3, <1>6, <1>7, <1>8, <1>9 DEF ClaimsInv, ClaimRecord, d

LEMMA RevertStep ==
  ASSUME NEW p, NEW c, NEW g, NEW b, NEW now, PastInv(p), ClaimsInv(p, c), PresentInv(p, c, g, b, now),
         NEW x \in ClaimRecord, x.block = Len(p) + 1, x.paid = 0
  PROVE  ClaimsInv(p, Append(c, x)) /\ PresentInv(p, Append(c, x), g, b, now)
<1> DEFINE d == Append(c, x)
           m == Len(p) + 1
<1>1. m \in Nat /\ c \in Seq(ClaimRecord)
  BY DEF PastInv, ClaimsInv, ClaimRecord
<1>2. ClaimsInv(p, d)
  BY AddClaim
<1>3. PaidUpTo(d, m) = PaidUpTo(c, m)
  <2> HIDE DEF m
  <2>1. PaidUpTo(c, m) \in Nat
    BY <1>1, PaidCounted
  <2>2. PaidUpTo(d, m) = PaidUpTo(c, m) + (IF x.block <= m THEN x.paid ELSE 0)
    BY <1>1, PaidAppend
  <2> HIDE DEF d
  <2> QED
    BY <2>1, <2>2
<1>4. (\E tx \in DOMAIN d : d[tx].block = m /\ d[tx].paid > 0)
        => \E tx \in DOMAIN c : c[tx].block = m /\ c[tx].paid > 0
  BY <1>1
<1>5. PresentInv(p, d, g, b, now)
  <2> HIDE DEF d
  <2> QED
    BY <1>3, <1>4 DEF PresentInv
<1> QED
  BY <1>2, <1>5

LEMMA PayStep ==
  ASSUME NEW p, NEW c, NEW g, NEW b, NEW now \in Nat,
         PastInv(p), ClaimsInv(p, c), PresentInv(p, c, g, b, now),
         Created(g), g.released < VestedAmountAt(g, now),
         NEW x \in ClaimRecord, x.block = Len(p) + 1, x.paid = VestedAmountAt(g, now) - g.released,
         NEW h, h = [g EXCEPT !.released = VestedAmountAt(g, now)]
  PROVE  ClaimsInv(p, Append(c, x)) /\ PresentInv(p, Append(c, x), h, b + x.paid, now)
<1> DEFINE d == Append(c, x)
           n == Len(p)
           m == n + 1
           v == VestedAmountAt(g, now)
<1>1. n \in Nat \ {0} /\ m \in Nat /\ n \in DOMAIN p /\ DOMAIN p = 1 .. n /\ n <= m /\ c \in Seq(ClaimRecord)
  BY DEF PastInv, ClaimsInv, ClaimRecord
<1>2. v \in Nat /\ g.released \in Nat /\ x.paid \in Nat \ {0} /\ v = g.released + x.paid /\ g.exists
  BY VestedBounds, SMTT(60) DEF Created, Grant
<1>3. \A tx \in DOMAIN c : c[tx].block = m => c[tx].paid = 0
  <2>1. \A tx \in DOMAIN c : c[tx].paid \in Nat
    BY <1>1, PaidCounted
  <2> QED
    BY <1>2, <2>1 DEF PresentInv
<1>4. p[n].grant.released = g.released
  <2>1. \A tx \in DOMAIN c : c[tx].block \in Nat
    BY <1>1, PaidCounted
  <2>2. \A tx \in DOMAIN c : c[tx].block > n /\ c[tx].block <= m => c[tx].paid = 0
    BY <1>1, <1>3, <2>1
  <2>3. g.released = PaidUpTo(c, m)
    BY DEF PresentInv
  <2> HIDE DEF m
  <2>4. PaidUpTo(c, m) = PaidUpTo(c, n)
    BY <1>1, <2>2, NothingPaid
  <2> QED
    BY <1>1, <2>3, <2>4 DEF ClaimsInv
<1>5. ASSUME NEW i \in DOMAIN p, p[i].grant.exists
      PROVE  VestedAmountAt(p[i].grant, p[i].time) <= v
  <2>1. Created(p[i].grant) /\ p[i].time \in Nat
    BY <1>5, SnapshotOK
  <2>2. Outlives(p[i], g) /\ p[i].time < now
    BY DEF PresentInv
  <2> DEFINE s == p[i]
  <2> HIDE DEF s
  <2>3. VestedAmountAt(s.grant, s.time) <= VestedAmountAt(g, now)
    <3>1. Created(s.grant) /\ s.time \in Nat /\ Outlives(s, g) /\ s.time <= now
      BY <2>1, <2>2 DEF s
    <3> QED
      BY <3>1, EntitlementStands
  <2> QED
    BY <2>3 DEF s
<1>6. ClaimsInv(p, d)
  <2> HIDE DEF v
  <2>1. \A i \in DOMAIN p : p[i].grant.exists =>
          VestedAmountAt(p[i].grant, p[i].time) <= p[n].grant.released + x.paid
    BY <1>2, <1>4, <1>5
  <2> QED
    BY <1>3, <2>1, AddClaim
<1>7. /\ h.released = v /\ h.total = g.total /\ h.start = g.start /\ h.cliff = g.cliff
      /\ h.duration = g.duration /\ h.exists = g.exists
      /\ h.revoked = g.revoked /\ h.revokedAt = g.revokedAt
  BY DEF Created, Grant
<1>8. VestedAmountAt(h, now) = v
  <2>1. EffectiveTime(h, now) = EffectiveTime(g, now)
    BY <1>7 DEF EffectiveTime
  <2> HIDE DEF v
  <2>2. Schedule(h, EffectiveTime(g, now)) = Schedule(g, EffectiveTime(g, now))
    BY <1>7, ScheduleSameTerms
  <2> QED
    BY <2>1, <2>2 DEF VestedAmountAt, v
<1>9. PaidUpTo(d, m) = v
  <2>1. PaidUpTo(c, m) = g.released
    BY DEF PresentInv
  <2>2. PaidUpTo(d, m) = PaidUpTo(c, m) + (IF x.block <= m THEN x.paid ELSE 0)
    <3> HIDE DEF m
    <3> QED
      BY <1>1, PaidAppend
  <2> HIDE DEF d, v
  <2> QED
    BY <1>1, <1>2, <2>1, <2>2
<1>10. \A i \in DOMAIN p : p[i].time < now /\ Outlives(p[i], h)
  <2> SUFFICES ASSUME NEW i \in DOMAIN p PROVE p[i].time < now /\ Outlives(p[i], h)
    OBVIOUS
  <2>1. Outlives(p[i], g) /\ p[i].time < now
    BY DEF PresentInv
  <2>2. p[i].grant.exists => p[i].grant.released \in Nat
    BY SnapshotOK
  <2> HIDE DEF v
  <2> QED
    BY <1>2, <1>7, <2>1, <2>2, SMTT(60) DEF Outlives
<1>11. b + x.paid = h.released
  <2>1. b = g.released
    BY DEF PresentInv
  <2> HIDE DEF v
  <2> QED
    BY <1>2, <1>7, <2>1
<1>12. PresentInv(p, d, h, b + x.paid, now)
  <2> HIDE DEF d, v
  <2> QED
    BY <1>2, <1>7, <1>8, <1>9, <1>10, <1>11 DEF PresentInv
<1> QED
  BY <1>6, <1>12

\* The administrators' transactions keep what was paid and what was promised.
LEMMA GrantedStep ==
  ASSUME NEW p, NEW c, NEW g, NEW b, NEW now, PresentInv(p, c, g, b, now),
         ~ g.exists, g.released = 0, NEW h, h.released = 0
  PROVE  PresentInv(p, c, h, b, now)
BY DEF PresentInv, Outlives

\* Grant h is g, revoked now.
RevokedAt(g, h, now) ==
  /\ h.released = g.released /\ h.total = g.total /\ h.start = g.start /\ h.cliff = g.cliff
  /\ h.duration = g.duration /\ h.exists = g.exists /\ h.revoked /\ h.revokedAt = now

LEMMA RevokedStep ==
  ASSUME NEW p, NEW c, NEW g, NEW b, NEW now \in Nat, PresentInv(p, c, g, b, now), PastInv(p),
         Created(g), ~ g.revoked, NEW h, RevokedAt(g, h, now)
  PROVE  PresentInv(p, c, h, b, now)
<1>1. /\ h.released = g.released /\ h.total = g.total /\ h.start = g.start /\ h.cliff = g.cliff
      /\ h.duration = g.duration /\ h.exists = g.exists /\ h.revoked /\ h.revokedAt = now
  BY DEF RevokedAt
<1>2. VestedAmountAt(h, now) = VestedAmountAt(g, now)
  <2>1. EffectiveTime(h, now) = now /\ EffectiveTime(g, now) = now
    BY <1>1 DEF EffectiveTime
  <2>2. Schedule(h, now) = Schedule(g, now)
    BY <1>1 DEF Schedule, Elapsed
  <2> QED
    BY <2>1, <2>2 DEF VestedAmountAt
<1>3. \A i \in DOMAIN p : p[i].time < now /\ Outlives(p[i], h)
  BY <1>1 DEF PresentInv, Outlives
<1> QED
  BY <1>1, <1>2, <1>3 DEF PresentInv

\* Scripts and files speak of blocks and claims that stay.
LEMMA FilesStand ==
  ASSUME NEW p, NEW q, NEW c, NEW d, Len(p) \in Nat, Len(q) \in Nat, Len(p) <= Len(q),
         DOMAIN p = 1 .. Len(p), DOMAIN p \subseteq DOMAIN q, \A i \in DOMAIN p : q[i] = p[i],
         DOMAIN c \subseteq DOMAIN d, \A tx \in DOMAIN c : d[tx] = c[tx] /\ c[tx].block \in Nat
  PROVE  /\ \A j : JobInv(p, c, j) => JobInv(q, d, j)
         /\ \A f : PrestateInv(p, f) => PrestateInv(q, f)
         /\ \A r, f : ReceiptInv(p, c, r, f) => ReceiptInv(q, d, r, f)
<1>1. ASSUME NEW j, JobInv(p, c, j) PROVE JobInv(q, d, j)
  <2>1. (\E n \in DOMAIN p : j["prestate"] = [at |-> "block", number |-> n, time |-> p[n].time])
          => \E n \in DOMAIN q : j["prestate"] = [at |-> "block", number |-> n, time |-> q[n].time]
    OBVIOUS
  <2>2. (\E tx \in DOMAIN c : j["grants"] = [at |-> "mined", tx |-> tx])
          => \E tx \in DOMAIN d : j["grants"] = [at |-> "mined", tx |-> tx]
    OBVIOUS
  <2> QED
    BY <1>1, <2>1, <2>2 DEF JobInv
<1>2. ASSUME NEW f, PrestateInv(p, f) PROVE PrestateInv(q, f)
  BY <1>2 DEF PrestateInv
<1>3. ASSUME NEW r, NEW f, ReceiptInv(p, c, r, f) PROVE ReceiptInv(q, d, r, f)
  <2>1. ASSUME r # Missing
        PROVE  \E tx \in DOMAIN d : /\ d[tx].paid > 0 /\ d[tx].block <= Len(q)
                                    /\ r = [tx |-> tx, block |-> d[tx].block]
    <3>1. PICK tx \in DOMAIN c : /\ c[tx].paid > 0 /\ c[tx].block <= Len(p)
                                 /\ r = [tx |-> tx, block |-> c[tx].block]
      BY <1>3, <2>1 DEF ReceiptInv
    <3> QED
      BY <3>1
  <2>2. ASSUME f # Missing
        PROVE  \E tx \in DOMAIN d : LET b == d[tx].block IN
                 /\ d[tx].paid > 0 /\ b \in 2 .. Len(q)
                 /\ f = [tx |-> tx, delta |-> d[tx].paid, event |-> d[tx].paid, mint |-> d[tx].paid,
                         balance |-> q[b].balance - q[b - 1].balance]
    <3>1. PICK tx \in DOMAIN c : LET b == c[tx].block IN
            /\ c[tx].paid > 0 /\ b \in 2 .. Len(p)
            /\ f = [tx |-> tx, delta |-> c[tx].paid, event |-> c[tx].paid, mint |-> c[tx].paid,
                    balance |-> p[b].balance - p[b - 1].balance]
      BY <1>3, <2>2 DEF ReceiptInv
    <3> DEFINE b == c[tx].block
    <3>2. d[tx] = c[tx] /\ tx \in DOMAIN d
      BY <3>1
    <3>3. b \in 2 .. Len(p) /\ b \in 2 .. Len(q) /\ b \in DOMAIN p /\ b - 1 \in DOMAIN p
      BY <3>1
    <3>4. q[b] = p[b] /\ q[b - 1] = p[b - 1]
      BY <3>3
    <3> QED
      BY <3>1, <3>2, <3>3, <3>4
  <2> QED
    BY <2>1, <2>2 DEF ReceiptInv
<1> QED
  BY <1>1, <1>2, <1>3

ChainInv ==
  /\ IInv
  /\ PastInv(past) /\ ClaimsInv(past, claims)
  /\ received \in Int
  /\ PresentInv(past, claims, grants[Beneficiary], balances[Beneficiary] - received, blockTimestamp)

FilesInv ==
  /\ job = [t \in Tool |-> job[t]] /\ JobInv(past, claims, job)
  /\ PrestateInv(past, prestate) /\ ReceiptInv(past, claims, receipt, poststate)

LEMMA ChainFacts ==
  ASSUME IInv
  PROVE  /\ Beneficiary \in Account /\ Slot(grants[Beneficiary]) /\ grants[Beneficiary].released \in Nat
         /\ grants \in [Account -> Grant] /\ balances \in [Account -> Uint256] /\ blockTimestamp \in Uint64
         /\ Payable \in Nat
<1>1. /\ Beneficiary \in Account
      /\ grants \in [Account -> Grant] /\ balances \in [Account -> Uint256] /\ blockTimestamp \in Uint64
  BY ClaimAssumption DEF IInv, TypeOK, TokenTypeOK, VestingTypeOK
<1>2. Slot(grants[Beneficiary])
  BY <1>1 DEF IInv, GrantOK, Slot
<1>3. grants[Beneficiary].released \in Nat
  BY <1>1 DEF Grant
<1>4. Payable \in Nat
  <2>1. CASE grants[Beneficiary].exists
    <3>1. /\ VestedAmountAt(grants[Beneficiary], blockTimestamp) \in Nat
          /\ grants[Beneficiary].released <= VestedAmountAt(grants[Beneficiary], blockTimestamp)
      <4>1. Created(grants[Beneficiary])
        BY <1>2, <2>1 DEF Slot, NoGrant
      <4> QED
        BY <1>1, <2>1, <4>1, VestedBounds DEF IInv, GrantOK, NoGrant
    <3> QED
      BY <1>3, <2>1, <3>1 DEF Payable, VestedAmount
  <2>2. CASE ~ grants[Beneficiary].exists
    BY <2>2 DEF Payable
  <2> QED
    BY <2>1, <2>2
<1> QED
  BY <1>1, <1>2, <1>3, <1>4

LEMMA ChainExtends ==
  ASSUME PastInv(past), ClaimsInv(past, claims)
  PROVE  /\ past \in Seq(SnapshotRecord) /\ past # <<>> /\ Len(past) \in Nat
         /\ claims \in Seq(ClaimRecord) /\ \A tx \in DOMAIN claims : claims[tx].block \in Nat
<1>1. claims \in Seq(ClaimRecord) /\ \A tx \in DOMAIN claims : claims[tx].block \in Nat
  BY PaidCounted DEF ClaimsInv
<1> QED
  BY <1>1 DEF PastInv

LEMMA ClaimStarts == ClaimInit => ClaimInv
<1> SUFFICES ASSUME ClaimInit PROVE ClaimInv
  OBVIOUS
<1>1. IInv
  <2>1. NoGrant \in Grant /\ NoEvent \in [claimable : Uint256, canceled : Uint256, released : Uint256]
    BY DEF NoGrant, Grant, NoEvent
  <2>2. RegistryTypeOK
    BY AccountAssumption DEF ClaimInit, RegistryTypeOK, Unverified, Verified, Restricted
  <2>3. TokenTypeOK
    BY VestingAssumption DEF ClaimInit, TokenTypeOK
  <2>4. VestingTypeOK
    BY <2>1, AccountAssumption DEF ClaimInit, VestingInit, VestingTypeOK
  <2>5. \A e \in Account : GrantOK(e)
    BY DEF ClaimInit, VestingInit, GrantOK
  <2> QED
    BY <2>2, <2>3, <2>4, <2>5 DEF IInv, TypeOK, ClaimInit
<1>2. Beneficiary \in Account
  BY ClaimAssumption
<1>3. /\ grants[Beneficiary] = NoGrant /\ balances[Beneficiary] = 0 /\ received = 0 /\ blockTimestamp = 1
      /\ claims = <<>> /\ past = <<[Snapshot EXCEPT !.time = 0]>>
  BY <1>2 DEF ClaimInit, VestingInit
<1>4. /\ NoGrant.released = 0 /\ ~ NoGrant.exists /\ NoGrant \in Grant
  BY DEF NoGrant, Grant
<1>5. Payable = 0
  BY <1>3, <1>4 DEF Payable
<1> DEFINE x == [time |-> 0, grant |-> NoGrant, balance |-> 0, received |-> 0, payable |-> 0]
<1>6. past = <<x>>
  BY <1>3, <1>5 DEF Snapshot
<1>7. /\ x \in SnapshotRecord /\ x.time = 0 /\ x.grant = NoGrant /\ x.balance = 0 /\ x.received = 0
  BY <1>4 DEF SnapshotRecord
<1> HIDE DEF x
<1>8. /\ past \in Seq(SnapshotRecord) /\ past # <<>> /\ Len(past) = 1 /\ DOMAIN past = {1}
      /\ \A i \in DOMAIN past : past[i] = x
  BY <1>6, <1>7
<1>9. \A i : PaidUpTo(claims, i) = 0
  BY <1>3, SumEmpty DEF PaidUpTo
<1>10. PastInv(past)
  BY <1>4, <1>7, <1>8 DEF PastInv
<1>11. ClaimsInv(past, claims)
  BY <1>3, <1>4, <1>7, <1>8, <1>9 DEF ClaimsInv
<1>12. PresentInv(past, claims, NoGrant, 0, 1)
  BY <1>3, <1>4, <1>7, <1>8, <1>9 DEF PresentInv, Outlives
<1>13. job = [t \in Tool |-> job[t]] /\ JobInv(past, claims, job)
  <2>1. job = [t \in Tool |-> Idle]
    BY DEF ClaimInit
  <2>2. job["prestate"] = Idle /\ job["grants"] = Idle
    BY <2>1 DEF Tool
  <2> QED
    BY <2>1, <2>2 DEF JobInv
<1>14. PrestateInv(past, prestate) /\ ReceiptInv(past, claims, receipt, poststate)
  BY DEF ClaimInit, PrestateInv, ReceiptInv
<1> QED
  BY <1>1, <1>3, <1>10, <1>11, <1>12, <1>13, <1>14 DEF ClaimInv

LEMMA CloseBlockStep ==
  ASSUME ChainInv, CloseBlock
  PROVE  ChainInv'
<1>1. NewBlock /\ past' = Append(past, Snapshot) /\ claims' = claims /\ received' = received
  BY DEF CloseBlock
<1>2. IInv'
  BY <1>1, StepInvariant DEF ChainInv, Next
<1>3. /\ blockTimestamp \in Uint64 /\ blockTimestamp' \in Uint64 /\ blockTimestamp < blockTimestamp'
      /\ grants' = grants /\ balances' = balances
  <2>1. blockTimestamp \in Uint64 /\ blockTimestamp' \in Uint64
    BY <1>2 DEF ChainInv, IInv, TypeOK, VestingTypeOK
  <2> QED
    BY <1>1, <2>1 DEF NewBlock, tokenVars, vestingVars
<1> DEFINE g == grants[Beneficiary]
           bal == balances[Beneficiary]
           r == received
           b == bal - r
<1>4. Slot(g) /\ bal \in Uint256 /\ r \in Int /\ Payable \in Nat
  BY ChainFacts DEF ChainInv
<1>5. Snapshot = SnapshotOf(g, bal, r, blockTimestamp, Payable)
  BY DEF Snapshot, SnapshotOf
<1>6. PastInv(past) /\ ClaimsInv(past, claims) /\ PresentInv(past, claims, g, b, blockTimestamp)
  BY DEF ChainInv
<1> DEFINE q == Append(past, SnapshotOf(g, bal, r, blockTimestamp, Payable))
<1>7. PastInv(q) /\ ClaimsInv(q, claims) /\ PresentInv(q, claims, g, b, blockTimestamp')
  <2> DEFINE later == blockTimestamp'  now == blockTimestamp  pay == Payable
  <2>1. now \in Uint64 /\ later \in Uint64 /\ now < later /\ pay \in Nat /\ b = bal - r
    BY <1>3, <1>4
  <2> HIDE DEF later, now, pay, g, b, bal, r
  <2>2. /\ PastInv(Append(past, SnapshotOf(g, bal, r, now, pay)))
        /\ ClaimsInv(Append(past, SnapshotOf(g, bal, r, now, pay)), claims)
        /\ PresentInv(Append(past, SnapshotOf(g, bal, r, now, pay)), claims, g, b, later)
    <3>1. PresentInv(past, claims, g, b, now)
      BY <1>6 DEF now
    <3> QED
      BY <1>4, <1>6, <2>1, <3>1, CloseStep
  <2> QED
    BY <2>2 DEF later, now, pay
<1>8. /\ past' = q /\ grants'[Beneficiary] = g /\ received' \in Int
      /\ balances'[Beneficiary] - received' = b
  BY <1>1, <1>3, <1>4, <1>5
<1> HIDE DEF g, b, q
<1> QED
  BY <1>1, <1>2, <1>7, <1>8 DEF ChainInv

LEMMA MinedClaimStep ==
  ASSUME ChainInv, NEW by \in {"other", "beneficiary"}, MinedClaim(by)
  PROVE  ChainInv' /\ \E x \in ClaimRecord : claims' = Append(claims, x)
<1> DEFINE g == grants[Beneficiary]
           b == balances[Beneficiary] - received
           now == blockTimestamp
           x == [by |-> by, block |-> Len(past) + 1, paid |-> Payable]
<1>0. /\ past' = past /\ received' = received /\ claims' = Append(claims, x)
      /\ TxRelease(Beneficiary) \/ (Payable = 0 /\ UNCHANGED vars)
  BY DEF MinedClaim
<1>1. /\ Beneficiary \in Account /\ Slot(g) /\ g.released \in Nat /\ Payable \in Nat
      /\ grants \in [Account -> Grant] /\ balances \in [Account -> Uint256] /\ now \in Nat
  BY ChainFacts DEF ChainInv
<1>2. /\ IInv /\ PastInv(past) /\ ClaimsInv(past, claims) /\ PresentInv(past, claims, g, b, now)
      /\ received \in Int
  BY DEF ChainInv
<1>3. IInv'
  <2>1. TxRelease(Beneficiary) => Next
    BY <1>1 DEF Next, GrantTx
  <2> QED
    BY <1>0, <1>2, <2>1, StepInvariant
<1>4. x \in ClaimRecord /\ x.block = Len(past) + 1 /\ x.paid = Payable
  BY <1>1, <1>2, ChainExtends DEF ClaimRecord
<1>5. ASSUME Payable = 0, UNCHANGED vars
      PROVE  ChainInv'
  <2>1. grants' = grants /\ balances' = balances /\ blockTimestamp' = blockTimestamp
    BY <1>5 DEF vars, tokenVars, vestingVars
  <2> HIDE DEF x, g, b, now
  <2>2. ClaimsInv(past, Append(claims, x)) /\ PresentInv(past, Append(claims, x), g, b, now)
    BY <1>2, <1>4, <1>5, RevertStep
  <2>3. grants'[Beneficiary] = g /\ balances'[Beneficiary] - received' = b /\ blockTimestamp' = now
    BY <1>0, <2>1 DEF g, b, now
  <2> QED
    BY <1>0, <1>2, <1>3, <2>2, <2>3 DEF ChainInv
<1>6. ASSUME TxRelease(Beneficiary)
      PROVE  ChainInv'
  <2> DEFINE v == VestedAmountAt(g, now)
             h == [g EXCEPT !.released = v]
  <2>1. /\ g.exists /\ v >= g.released /\ v - g.released # 0 /\ IsVerified(Beneficiary)
        /\ ~ VestedAmountReverts(Beneficiary) /\ Vesting = tokenAdmin
        /\ totalSupply + (v - g.released) <= MaxUint256
        /\ grants' = [grants EXCEPT ![Beneficiary] = h]
        /\ balances' = [balances EXCEPT ![Beneficiary] = @ + (v - g.released)]
        /\ blockTimestamp' = now
    BY <1>1, <1>6 DEF TxRelease, Release, Mint, VestedAmount
  <2>2. Created(g)
    BY <1>1, <2>1 DEF Slot, NoGrant
  <2>3. v \in Nat /\ g.released < v
    <3>1. v \in Nat
      BY <1>1, <2>2, VestedBounds
    <3> HIDE DEF v
    <3> QED
      BY <1>1, <2>1, <3>1
  <2>4. Payable = v - g.released
    <3>1. totalSupply \in Int
      BY <1>2 DEF IInv, TypeOK, TokenTypeOK
    <3>2. VestedAmount(Beneficiary) = v
      BY <2>1 DEF VestedAmount
    <3> HIDE DEF v
    <3>3. totalSupply + v - g.released <= MaxUint256
      BY <1>1, <2>1, <2>3, <3>1
    <3> QED
      BY <2>1, <3>2, <3>3 DEF Payable
  <2>5. x.paid = v - g.released
    BY <1>4, <2>4
  <2>6. h = [g EXCEPT !.released = VestedAmountAt(g, now)] /\ g.released < VestedAmountAt(g, now)
        /\ x.paid = VestedAmountAt(g, now) - g.released
    BY <2>3, <2>5
  <2>7. grants'[Beneficiary] = h /\ balances'[Beneficiary] - received' = b + x.paid
    <3>1. grants'[Beneficiary] = h /\ balances'[Beneficiary] = balances[Beneficiary] + x.paid
      BY <1>1, <2>1, <2>5
    <3>2. balances[Beneficiary] \in Int /\ x.paid \in Int
      BY <1>1, <1>4 DEF Uint256
    <3> HIDE DEF h, x
    <3> QED
      BY <1>0, <1>2, <3>1, <3>2
  <2> HIDE DEF h, v, x, g, b, now
  <2>8. ClaimsInv(past, Append(claims, x)) /\ PresentInv(past, Append(claims, x), h, b + x.paid, now)
    BY <1>1, <1>2, <1>4, <2>2, <2>6, PayStep
  <2> QED
    BY <1>0, <1>2, <1>3, <2>1, <2>7, <2>8 DEF ChainInv
<1> QED
  BY <1>0, <1>4, <1>5, <1>6

\* Of the transactions by others, those that concern the beneficiary's grant.
LEMMA OtherGrantTx ==
  ASSUME ChainInv, OtherTx
  PROVE  /\ blockTimestamp' = blockTimestamp
         /\ \/ grants'[Beneficiary] = grants[Beneficiary]
            \/ \E s \in Sender, total \in GrantTotal, start, cliff \in GrantTime, duration \in GrantDuration :
                 TxCreateGrant(s, Beneficiary, total, start, cliff, duration)
            \/ \E s \in Sender : TxRevokeGrant(s, Beneficiary)
<1> DEFINE g == grants[Beneficiary]
<1>0. Beneficiary \in Account /\ grants \in [Account -> Grant]
  BY ChainFacts DEF ChainInv
<1>1. CASE AdminTx
  BY <1>1 DEF AdminTx, TxRegistrySetAdmin, TxVestingSetAdmin, VestingSetAdmin, TxTokenSetAdmin, TxSetStatus,
              vestingVars
<1>2. CASE TokenTx
  BY <1>2 DEF TokenTx, TxMint, TxBurn, TxTransfer, vestingVars
<1>3. CASE GrantTx /\ grants'[Beneficiary].released = g.released
  <2>1. ASSUME NEW e \in Employee, NEW s \in Sender, NEW total \in GrantTotal, NEW start \in GrantTime,
               NEW cliff \in GrantTime, NEW duration \in GrantDuration,
               TxCreateGrant(s, e, total, start, cliff, duration), e # Beneficiary
        PROVE  blockTimestamp' = blockTimestamp /\ grants'[Beneficiary] = g
    BY <1>0, <2>1 DEF TxCreateGrant, CreateGrant
  <2>2. ASSUME NEW e \in Account, NEW s \in Sender, TxRevokeGrant(s, e), e # Beneficiary
        PROVE  blockTimestamp' = blockTimestamp /\ grants'[Beneficiary] = g
    BY <1>0, <2>2 DEF TxRevokeGrant, RevokeGrant
  <2>3. ASSUME NEW e \in Account, TxRelease(e)
        PROVE  blockTimestamp' = blockTimestamp /\ grants'[Beneficiary] = g
    <3>1. CASE e # Beneficiary
      BY <1>0, <2>3, <3>1 DEF TxRelease, Release
    <3>2. CASE e = Beneficiary
      <4> DEFINE v == VestedAmountAt(g, blockTimestamp)
      <4>1. grants'[Beneficiary] = [g EXCEPT !.released = v] /\ v - g.released # 0
        BY <1>0, <2>3, <3>2 DEF TxRelease, Release, VestedAmount
      <4>2. g \in Grant
        BY <1>0
      <4>3. grants'[Beneficiary].released = v /\ g.released \in Nat
        BY <4>1, <4>2 DEF Grant
      <4> HIDE DEF v, g
      <4> QED
        BY <1>3, <4>1, <4>3
    <3> QED
      BY <3>1, <3>2
  <2>4. ASSUME NEW s \in Sender, TxRevokeGrant(s, Beneficiary)
        PROVE  blockTimestamp' = blockTimestamp
    BY <2>4 DEF TxRevokeGrant
  <2>5. ASSUME NEW s \in Sender, NEW total, NEW start, NEW cliff, NEW duration,
               TxCreateGrant(s, Beneficiary, total, start, cliff, duration)
        PROVE  blockTimestamp' = blockTimestamp
    BY <2>5 DEF TxCreateGrant
  <2> HIDE DEF g
  <2> QED
    BY <1>3, <2>1, <2>2, <2>3, <2>4, <2>5 DEF GrantTx, g
<1> QED
  BY <1>1, <1>2, <1>3 DEF OtherTx

LEMMA OtherTxStep ==
  ASSUME ChainInv, OtherTx
  PROVE  ChainInv'
<1> DEFINE g == grants[Beneficiary]
           b == balances[Beneficiary] - received
           now == blockTimestamp
           h == grants'[Beneficiary]
<1>0. past' = past /\ claims' = claims
  BY DEF OtherTx
<1>1. /\ Beneficiary \in Account /\ Slot(g) /\ now \in Uint64
      /\ grants \in [Account -> Grant] /\ balances \in [Account -> Uint256]
  BY ChainFacts DEF ChainInv
<1>2. /\ IInv /\ PastInv(past) /\ ClaimsInv(past, claims) /\ PresentInv(past, claims, g, b, now)
      /\ received \in Int
  BY DEF ChainInv
<1>3. /\ now' = now
      /\ \/ h = g
         \/ \E s \in Sender, total \in GrantTotal, start, cliff \in GrantTime, duration \in GrantDuration :
              TxCreateGrant(s, Beneficiary, total, start, cliff, duration)
         \/ \E s \in Sender : TxRevokeGrant(s, Beneficiary)
  BY OtherGrantTx
<1>4. IInv'
  <2>1. Next
    BY DEF OtherTx, Next
  <2> QED
    BY <1>2, <2>1, StepInvariant
<1>5. received' \in Int /\ balances'[Beneficiary] - received' = b
  <2> DEFINE old == balances[Beneficiary]
             new == balances'[Beneficiary]
  <2>1. balances' \in [Account -> Uint256]
    BY <1>4 DEF IInv, TypeOK, TokenTypeOK
  <2>2. old \in Int /\ new \in Int
    BY <1>1, <2>1 DEF Uint256
  <2>3. received' = received + (new - old)
    BY DEF OtherTx
  <2> HIDE DEF old, new
  <2>4. received' \in Int /\ new - received' = old - received
    BY <1>2, <2>2, <2>3
  <2> QED
    BY <2>4 DEF old, new
<1>6. PresentInv(past, claims, h, b, now)
  <2>1. ASSUME NEW s, NEW total, NEW start, NEW cliff, NEW duration,
               TxCreateGrant(s, Beneficiary, total, start, cliff, duration)
        PROVE  PresentInv(past, claims, h, b, now)
    <3>1. ~ g.exists /\ h = NewGrant(total, start, cliff, duration)
      BY <1>1, <2>1 DEF TxCreateGrant, CreateGrant
    <3>2. g.released = 0
      BY <1>1, <3>1 DEF Slot, Created, NoGrant
    <3>3. h.released = 0
      BY <3>1 DEF NewGrant
    <3> HIDE DEF g, b, now, h
    <3> QED
      BY <1>2, <3>1, <3>2, <3>3, GrantedStep
  <2>2. ASSUME NEW s, TxRevokeGrant(s, Beneficiary)
        PROVE  PresentInv(past, claims, h, b, now)
    <3>1. now % (MaxUint64 + 1) = now
      BY <1>1
    <3>2. g.exists /\ ~ g.revoked /\ h = [g EXCEPT !.revoked = TRUE, !.revokedAt = now]
      BY <1>1, <2>2, <3>1 DEF TxRevokeGrant, RevokeGrant
    <3>3. Created(g) /\ now \in Nat
      BY <1>1, <3>2 DEF Slot, NoGrant
    <3>4. ~ g.revoked /\ RevokedAt(g, h, now)
      BY <3>2, <3>3 DEF RevokedAt, Created, Grant
    <3>5. PresentInv(past, claims, g, b, now) /\ PastInv(past)
      BY <1>2
    <3> HIDE DEF g, b, now, h
    <3> QED
      BY <3>3, <3>4, <3>5, RevokedStep
  <2> HIDE DEF g, b, now, h
  <2> QED
    BY <1>2, <1>3, <2>1, <2>2
<1> HIDE DEF b
<1> QED
  BY <1>0, <1>2, <1>3, <1>4, <1>5, <1>6 DEF ChainInv

\* What a script that leaves the chain alone leaves alone.
LEMMA ChainStays ==
  ASSUME ChainInv, UNCHANGED chain
  PROVE  ChainInv'
<1>1. /\ UNCHANGED vars /\ past' = past /\ received' = received /\ claims' = claims
      /\ grants' = grants /\ balances' = balances /\ blockTimestamp' = blockTimestamp
  BY DEF chain, vars, tokenVars, vestingVars
<1>2. IInv'
  BY <1>1, StepInvariant DEF ChainInv
<1> QED
  BY <1>1, <1>2 DEF ChainInv

LEMMA JobStep ==
  ASSUME NEW t \in Tool, NEW v, job = [u \in Tool |-> job[u]], job' = [job EXCEPT ![t] = v]
  PROVE  job' = [u \in Tool |-> job'[u]] /\ \A u \in Tool : job'[u] = IF u = t THEN v ELSE job[u]
OBVIOUS

LEMMA FilesKept ==
  ASSUME ChainInv, FilesInv, UNCHANGED <<job, files>>,
         \/ past' = past /\ \E x \in ClaimRecord : claims' = Append(claims, x)
         \/ claims' = claims /\ \E x : past' = Append(past, x)
         \/ UNCHANGED <<past, claims>>
  PROVE  FilesInv'
<1>1. /\ past \in Seq(SnapshotRecord) /\ Len(past) \in Nat /\ claims \in Seq(ClaimRecord)
      /\ \A tx \in DOMAIN claims : claims[tx].block \in Nat
  BY ChainExtends DEF ChainInv
<1>2. /\ Len(past') \in Nat /\ Len(past) <= Len(past') /\ DOMAIN past \subseteq DOMAIN past'
      /\ \A i \in DOMAIN past : past'[i] = past[i]
      /\ DOMAIN past = 1 .. Len(past)
      /\ DOMAIN claims \subseteq DOMAIN claims' /\ \A tx \in DOMAIN claims : claims'[tx] = claims[tx]
  <2>1. ASSUME past' = past, NEW x \in ClaimRecord, claims' = Append(claims, x)
        PROVE  /\ DOMAIN claims \subseteq DOMAIN claims'
               /\ \A tx \in DOMAIN claims : claims'[tx] = claims[tx]
    BY <1>1, <2>1
  <2>2. ASSUME claims' = claims, NEW x, past' = Append(past, x)
        PROVE  /\ Len(past') \in Nat /\ Len(past) <= Len(past') /\ DOMAIN past \subseteq DOMAIN past'
               /\ \A i \in DOMAIN past : past'[i] = past[i]
    BY <1>1, <2>2
  <2> QED
    BY <1>1, <2>1, <2>2
<1>3. /\ \A j : JobInv(past, claims, j) => JobInv(past', claims', j)
      /\ \A f : PrestateInv(past, f) => PrestateInv(past', f)
      /\ \A r, f : ReceiptInv(past, claims, r, f) => ReceiptInv(past', claims', r, f)
  BY <1>1, <1>2, FilesStand
<1> QED
  BY <1>3 DEF FilesInv, files

LEMMA ToolStep ==
  ASSUME ChainInv, FilesInv,
         \/ ReadPrestateBlock \/ BuildPrestate \/ SendClaim \/ Kill
         \/ WriteReceipt \/ RecoverReceipt \/ BuildPoststate
  PROVE  FilesInv' /\ UNCHANGED chain
<1>0. /\ past \in Seq(SnapshotRecord) /\ past # <<>> /\ Len(past) \in Nat /\ Len(past) \in DOMAIN past
      /\ \A i \in DOMAIN past : i <= Len(past)
      /\ Latest = past[Len(past)] /\ claims \in Seq(ClaimRecord)
      /\ "grants" \in Tool /\ "prestate" \in Tool
  BY ChainExtends DEF ChainInv, Tool, Latest, Last
<1> USE DEF FilesInv, files
<1>1. CASE ReadPrestateBlock
  <2>1. /\ job' = [job EXCEPT !["prestate"] = [at |-> "block", number |-> Len(past), time |-> Latest.time]]
        /\ UNCHANGED <<chain, prestate, receipt, poststate>>
    BY <1>1 DEF ReadPrestateBlock
  <2>2. /\ job' = [t \in Tool |-> job'[t]] /\ job'["grants"] = job["grants"]
        /\ job'["prestate"] = [at |-> "block", number |-> Len(past), time |-> past[Len(past)].time]
    BY <1>0, <2>1, JobStep
  <2>3. JobInv(past, claims, job')
    BY <1>0, <2>2 DEF JobInv
  <2> QED
    BY <2>1, <2>2, <2>3 DEF chain
<1>2. CASE BuildPrestate
  <2>1. /\ job["prestate"].at = "block" /\ job' = [job EXCEPT !["prestate"] = Idle]
        /\ UNCHANGED <<chain, receipt, poststate>>
    BY <1>2 DEF BuildPrestate
  <2>2. job' = [t \in Tool |-> job'[t]] /\ job'["grants"] = job["grants"] /\ job'["prestate"] = Idle
    BY <1>0, <2>1, JobStep
  <2>3. JobInv(past, claims, job')
    BY <2>2 DEF JobInv
  <2>4. PICK n \in DOMAIN past : job["prestate"] = [at |-> "block", number |-> n, time |-> past[n].time]
    BY <2>1 DEF JobInv, Idle
  <2>5. PrestateInv(past, prestate')
    <3>1. CASE ~ Latest.grant.exists
      BY <1>2, <3>1 DEF BuildPrestate
    <3>2. CASE Latest.grant.exists
      <4>1. prestate' = [block |-> n, grant |-> Latest.grant,
                         claimable |-> ExpectedClaimable(Latest.grant, past[n].time)]
        BY <1>2, <2>4, <3>2 DEF BuildPrestate
      <4> QED
        BY <1>0, <3>2, <4>1 DEF PrestateInv
    <3> QED
      BY <3>1, <3>2
  <2> QED
    BY <2>1, <2>2, <2>3, <2>5 DEF chain
<1>3. CASE SendClaim
  <2>1. job' = [job EXCEPT !["grants"] = [at |-> "sent"]] /\ UNCHANGED <<chain, prestate, receipt, poststate>>
    BY <1>3 DEF SendClaim
  <2>2. /\ job' = [t \in Tool |-> job'[t]] /\ job'["prestate"] = job["prestate"]
        /\ job'["grants"] = [at |-> "sent"]
    BY <1>0, <2>1, JobStep
  <2>3. JobInv(past, claims, job')
    BY <2>2 DEF JobInv
  <2> QED
    BY <2>1, <2>2, <2>3 DEF chain
<1>4. CASE Kill
  <2>1. job' = [job EXCEPT !["grants"] = [at |-> "orphan"]] /\ UNCHANGED <<chain, prestate, receipt, poststate>>
    BY <1>4 DEF Kill
  <2>2. /\ job' = [t \in Tool |-> job'[t]] /\ job'["prestate"] = job["prestate"]
        /\ job'["grants"] = [at |-> "orphan"]
    BY <1>0, <2>1, JobStep
  <2>3. JobInv(past, claims, job')
    BY <2>2 DEF JobInv
  <2> QED
    BY <2>1, <2>2, <2>3 DEF chain
<1>5. CASE WriteReceipt
  <2>1. /\ job["grants"].at = "mined" /\ Closed(job["grants"].tx) /\ job' = [job EXCEPT !["grants"] = Idle]
        /\ UNCHANGED <<chain, prestate, poststate>>
        /\ \/ Succeeded(job["grants"].tx) /\ receipt' = ReceiptArtifact(job["grants"].tx)
           \/ UNCHANGED receipt
    BY <1>5 DEF WriteReceipt
  <2>2. /\ job' = [t \in Tool |-> job'[t]] /\ job'["prestate"] = job["prestate"] /\ job'["grants"] = Idle
    BY <1>0, <2>1, JobStep
  <2>3. JobInv(past, claims, job')
    BY <2>2 DEF JobInv
  <2>4. PICK tx \in DOMAIN claims : job["grants"] = [at |-> "mined", tx |-> tx]
    BY <2>1 DEF JobInv, Idle
  <2>5. ReceiptInv(past, claims, receipt', poststate)
    BY <2>1, <2>4 DEF ReceiptInv, ReceiptArtifact, Succeeded, Closed
  <2> QED
    BY <2>1, <2>2, <2>3, <2>5 DEF chain
<1>6. CASE RecoverReceipt
  <2> DEFINE found == {tx \in DOMAIN claims : /\ claims[tx].by = "beneficiary" /\ Closed(tx)
                                              /\ claims[tx].block >= Len(past) - Lookback
                                              /\ Succeeded(tx)}
  <2>1. /\ found # {} /\ receipt' = ReceiptArtifact(Max(found))
        /\ UNCHANGED <<chain, job, prestate, poststate>>
    BY <1>6 DEF RecoverReceipt
  <2>2. Max(found) \in found
    <3>1. found \in SUBSET (1 .. Len(claims)) /\ Len(claims) \in Nat
      BY <1>0
    <3> HIDE DEF found
    <3>2. \E m \in found : \A k \in found : k <= m
      BY <2>1, <3>1, GreatestBelow
    <3> QED
      BY <3>2 DEF Max
  <2>3. ReceiptInv(past, claims, receipt', poststate)
    <3> DEFINE tx == Max(found)
    <3>1. tx \in DOMAIN claims /\ Closed(tx) /\ Succeeded(tx)
      BY <2>2
    <3> HIDE DEF tx, found
    <3>2. receipt' = [tx |-> tx, block |-> claims[tx].block]
      BY <2>1 DEF tx, ReceiptArtifact
    <3> QED
      BY <3>1, <3>2 DEF ReceiptInv, Closed, Succeeded
  <2> QED
    BY <2>1, <2>3 DEF chain
<1>7. CASE BuildPoststate
  <2>1. PICK tx \in DOMAIN claims : /\ claims[tx].paid > 0 /\ claims[tx].block <= Len(past)
                                    /\ receipt = [tx |-> tx, block |-> claims[tx].block]
    BY <1>7 DEF BuildPoststate, ReceiptInv
  <2> DEFINE b == claims[tx].block
  <2>2. /\ poststate' = [tx |-> tx, delta |-> past[b].grant.released - past[b - 1].grant.released,
                         event |-> claims[tx].paid, mint |-> claims[tx].paid,
                         balance |-> past[b].balance - past[b - 1].balance]
        /\ UNCHANGED <<chain, job, prestate, receipt>>
    BY <1>7, <2>1 DEF BuildPoststate, Released
  <2>3. past[b].grant.released - past[b - 1].grant.released = claims[tx].paid /\ b \in 2 .. Len(past)
    <3>1. b \in 2 .. Len(past) + 1
      BY DEF ChainInv, ClaimsInv
    <3> QED
      BY <1>0, <2>1, <3>1, IncreaseIsPaid DEF ChainInv
  <2>4. poststate' = [tx |-> tx, delta |-> claims[tx].paid, event |-> claims[tx].paid, mint |-> claims[tx].paid,
                      balance |-> past[b].balance - past[b - 1].balance]
    <3> HIDE DEF b
    <3> QED
      BY <2>2, <2>3
  <2>5. ReceiptInv(past, claims, receipt, poststate')
    BY <2>1, <2>3, <2>4 DEF ReceiptInv
  <2> QED
    BY <2>2, <2>5 DEF chain
<1> QED
  BY <1>1, <1>2, <1>3, <1>4, <1>5, <1>6, <1>7

\* The transaction of the script, or of one that was killed, is mined.
LEMMA MineClaimStep ==
  ASSUME ChainInv, FilesInv, MineClaim
  PROVE  ChainInv' /\ FilesInv'
<1>1. /\ MinedClaim("beneficiary") /\ past' = past /\ UNCHANGED files
      /\ \/ job' = [job EXCEPT !["grants"] = [at |-> "mined", tx |-> Len(claims')]]
         \/ job' = [job EXCEPT !["grants"] = Idle]
  BY DEF MineClaim, MinedClaim
<1>2. ChainInv' /\ \E x \in ClaimRecord : claims' = Append(claims, x)
  BY <1>1, MinedClaimStep
<1>3. /\ past \in Seq(SnapshotRecord) /\ Len(past) \in Nat /\ claims \in Seq(ClaimRecord)
      /\ \A tx \in DOMAIN claims : claims[tx].block \in Nat
  BY ChainExtends DEF ChainInv
<1>4. /\ DOMAIN claims \subseteq DOMAIN claims' /\ \A tx \in DOMAIN claims : claims'[tx] = claims[tx]
      /\ Len(claims') \in DOMAIN claims'
  BY <1>2, <1>3
<1>5. /\ \A j : JobInv(past, claims, j) => JobInv(past, claims', j)
      /\ \A r, f : ReceiptInv(past, claims, r, f) => ReceiptInv(past, claims', r, f)
  <2>1. /\ Len(past) <= Len(past) /\ DOMAIN past \subseteq DOMAIN past /\ DOMAIN past = 1 .. Len(past)
        /\ \A i \in DOMAIN past : past[i] = past[i]
    BY <1>3
  <2>2. \A tx \in DOMAIN claims : claims'[tx] = claims[tx] /\ claims[tx].block \in Nat
    BY <1>3, <1>4
  <2> QED
    BY <1>3, <1>4, <2>1, <2>2, FilesStand
<1>6. JobInv(past, claims', job)
  BY <1>5 DEF FilesInv
<1>7. job' = [t \in Tool |-> job'[t]] /\ JobInv(past, claims', job')
  <2>1. "grants" \in Tool /\ "prestate" \in Tool
    BY DEF Tool
  <2>2. job = [t \in Tool |-> job[t]]
    BY DEF FilesInv
  <2>3. CASE job' = [job EXCEPT !["grants"] = Idle]
    <3>1. job' = [t \in Tool |-> job'[t]] /\ job'["prestate"] = job["prestate"] /\ job'["grants"] = Idle
      BY <2>1, <2>2, <2>3
    <3> QED
      BY <1>6, <3>1 DEF JobInv
  <2>4. CASE job' = [job EXCEPT !["grants"] = [at |-> "mined", tx |-> Len(claims')]]
    <3> DEFINE n == Len(claims')
    <3>1. /\ job' = [t \in Tool |-> job'[t]] /\ job'["prestate"] = job["prestate"]
          /\ job'["grants"] = [at |-> "mined", tx |-> n]
      BY <2>1, <2>2, <2>4
    <3> QED
      BY <1>4, <1>6, <3>1 DEF JobInv
  <2> QED
    BY <1>1, <2>3, <2>4
<1> QED
  BY <1>1, <1>2, <1>5, <1>7 DEF FilesInv, files

LEMMA ClaimStep == ClaimInv /\ [ClaimNext]_claimVars => ClaimInv'
<1> SUFFICES ASSUME ClaimInv, [ClaimNext]_claimVars PROVE ClaimInv'
  OBVIOUS
<1>0. ChainInv /\ FilesInv
  BY DEF ClaimInv, ChainInv, FilesInv
<1> SUFFICES ChainInv' /\ FilesInv'
  BY DEF ClaimInv, ChainInv, FilesInv
<1>1. CASE CloseBlock
  BY <1>0, <1>1, CloseBlockStep, FilesKept DEF CloseBlock
<1>2. CASE OtherTx
  BY <1>0, <1>2, OtherTxStep, FilesKept DEF OtherTx
<1>3. CASE OtherClaim
  <2>1. ChainInv' /\ \E x \in ClaimRecord : claims' = Append(claims, x)
    BY <1>0, <1>3, MinedClaimStep DEF OtherClaim
  <2>2. past' = past /\ UNCHANGED <<job, files>>
    BY <1>3 DEF OtherClaim, MinedClaim
  <2> QED
    BY <1>0, <2>1, <2>2, FilesKept
<1>4. CASE MineClaim
  BY <1>0, <1>4, MineClaimStep
<1>5. CASE \/ ReadPrestateBlock \/ BuildPrestate \/ SendClaim \/ Kill
           \/ WriteReceipt \/ RecoverReceipt \/ BuildPoststate
  BY <1>0, <1>5, ToolStep, ChainStays
<1>6. CASE UNCHANGED claimVars
  <2>1. UNCHANGED chain /\ UNCHANGED <<job, files, past, claims>>
    BY <1>6 DEF claimVars, chain
  <2> QED
    BY <1>0, <2>1, ChainStays, FilesKept
<1> QED
  BY <1>1, <1>2, <1>3, <1>4, <1>5, <1>6 DEF ClaimNext

\* ClaimInv holds whatever scripts, claimants and administrators do.
THEOREM ClaimInvariance == ClaimSpec => []ClaimInv
BY ClaimStarts, ClaimStep, PTL DEF ClaimSpec

LEMMA DeltaIsSum ==
  ASSUME ClaimInv
  PROVE  DeltaProofSumsClaims
<1> SUFFICES ASSUME NEW pre \in DOMAIN past, NEW post \in DOMAIN past, pre < post
             PROVE  DeltaProof(pre, post).released =
                      SumOver(DOMAIN claims,
                              [tx \in DOMAIN claims |-> IF claims[tx].block \in pre + 1 .. post
                                                        THEN claims[tx].paid ELSE 0])
  BY DEF DeltaProofSumsClaims
<1> DEFINE between == [tx \in DOMAIN claims |-> IF claims[tx].block \in pre + 1 .. post
                                                 THEN claims[tx].paid ELSE 0]
<1>1. /\ past \in Seq(SnapshotRecord) /\ claims \in Seq(ClaimRecord) /\ pre \in Nat /\ post \in Nat
      /\ past[pre].grant.released = PaidUpTo(claims, pre)
      /\ past[post].grant.released = PaidUpTo(claims, post)
  <2>1. past \in Seq(SnapshotRecord) /\ claims \in Seq(ClaimRecord)
    BY ChainExtends DEF ClaimInv
  <2> QED
    BY <2>1 DEF ClaimInv, ClaimsInv
<1>2. /\ IsFiniteSet(DOMAIN claims)
      /\ \A tx \in DOMAIN claims : claims[tx].paid \in Nat /\ claims[tx].block \in Nat
      /\ PaidUpTo(claims, pre) = SumOver(DOMAIN claims, Counted(claims, pre))
      /\ PaidUpTo(claims, pre) \in Nat
  BY <1>1, PaidCounted
<1>3. PaidUpTo(claims, post) = SumOver(DOMAIN claims, Counted(claims, post))
  BY <1>1, PaidCounted
<1>4. \A tx \in DOMAIN claims : /\ Counted(claims, pre)[tx] \in Int /\ between[tx] \in Int
                                /\ Counted(claims, post)[tx] = Counted(claims, pre)[tx] + between[tx]
  <2> SUFFICES ASSUME NEW tx \in DOMAIN claims
               PROVE  /\ Counted(claims, pre)[tx] \in Int /\ between[tx] \in Int
                      /\ Counted(claims, post)[tx] = Counted(claims, pre)[tx] + between[tx]
    OBVIOUS
  <2>1. claims[tx].paid \in Nat /\ claims[tx].block \in Nat
    BY <1>2
  <2> QED
    BY <1>1, <2>1 DEF Counted
<1> HIDE DEF between
<1>5. SumOver(DOMAIN claims, Counted(claims, post)) =
        SumOver(DOMAIN claims, Counted(claims, pre)) + SumOver(DOMAIN claims, between)
  BY <1>2, <1>4, SumPlus
<1>6. SumOver(DOMAIN claims, between) \in Int
  BY <1>2, <1>4, SumIsInt
<1>7. DeltaProof(pre, post).released = SumOver(DOMAIN claims, between)
  BY <1>1, <1>2, <1>3, <1>5, <1>6 DEF DeltaProof, Released
<1> QED
  BY <1>7 DEF between

(* The evidence of phase-6.2 and the pinned snapshots: differences of the  *)
(* released counter, over a block or between two, are the claims paid.     *)
THEOREM DifferencesAlwaysClaims == ClaimSpec => []DifferencesAreClaims
<1>1. ClaimInv => DifferencesAreClaims
  <2> SUFFICES ASSUME ClaimInv PROVE ReceiptVerifiesIffPaid
    BY DeltaIsSum DEF DifferencesAreClaims
  <2> SUFFICES ASSUME NEW tx \in DOMAIN claims, Closed(tx), Succeeded(tx)
               PROVE  ClaimReceiptVerifies(ClaimReceipt(tx))
    BY DEF ReceiptVerifiesIffPaid, ClaimReceiptVerifies, ClaimReceipt
  <2>1. past[claims[tx].block].grant.released - past[claims[tx].block - 1].grant.released = claims[tx].paid
    BY IncreaseIsPaid DEF ClaimInv, Closed, Succeeded
  <2> QED
    BY <2>1 DEF ClaimReceiptVerifies, ClaimReceipt, Released, Succeeded
<1> QED
  BY <1>1, ClaimInvariance, PTL

LEMMA PrestatePaid ==
  ASSUME ClaimInv
  PROVE  ClaimPaysPrestate
<1> SUFFICES ASSUME NEW tx \in DOMAIN claims, prestate # Missing, Succeeded(tx),
                    claims[tx].block > prestate.block,
                    Released(claims[tx].block - 1) = prestate.grant.released
             PROVE  claims[tx].paid >= prestate.claimable
  BY DEF ClaimPaysPrestate
<1>1. PICK n \in DOMAIN past, w \in DOMAIN past :
        /\ n <= w /\ past[w].grant.exists
        /\ prestate = [block |-> n, grant |-> past[w].grant,
                       claimable |-> ExpectedClaimable(past[w].grant, past[n].time)]
  BY DEF ClaimInv, PrestateInv
<1> DEFINE g == past[w].grant
           t == past[n].time
           b == claims[tx].block
           a == b - 1
           pay == claims[tx].paid
<1>2. /\ past \in Seq(SnapshotRecord) /\ claims \in Seq(ClaimRecord) /\ Len(past) \in Nat
      /\ n \in Nat /\ w \in Nat /\ w <= Len(past)
  BY ChainExtends DEF ClaimInv
<1>3. /\ Created(g) /\ g.released \in Nat /\ t \in Nat /\ past[w].time \in Nat /\ t <= past[w].time
  <2>1. PastInv(past)
    BY DEF ClaimInv
  <2>2. Created(g) /\ g.released \in Nat /\ t \in Nat /\ past[w].time \in Nat
    BY <1>1, <2>1, SnapshotOK
  <2>3. n < w => t < past[w].time
    BY <2>1 DEF PastInv
  <2> QED
    BY <1>1, <1>2, <2>2, <2>3
<1>4. /\ b \in 2 .. Len(past) + 1 /\ pay \in Nat \ {0} /\ a \in DOMAIN past
  <2>1. b \in 2 .. Len(past) + 1
    BY DEF ClaimInv, ClaimsInv
  <2>2. pay \in Nat
    BY <1>2, PaidCounted
  <2> QED
    BY <1>2, <2>1, <2>2 DEF Succeeded
<1>5. past[a].grant.released = g.released
  BY <1>1 DEF Released
<1>6. b > w
  <2> SUFFICES ASSUME b <= w PROVE FALSE
    BY <1>2, <1>4
  <2>1. b \in DOMAIN past /\ past[b].grant.released - past[a].grant.released = pay
    BY <1>2, <1>4, IncreaseIsPaid, SMTT(60) DEF ClaimInv, Succeeded
  <2>2. past[b].grant.released <= g.released /\ past[b].grant.released \in Nat
    <3>1. past[b].grant.released \in Nat /\ past[a].grant.released \in Nat
      BY <1>4, <2>1, SnapshotOK DEF ClaimInv
    <3>2. past[b].grant.exists
      <4>1. past[b].grant = NoGrant => past[b].grant.released = 0
        BY DEF NoGrant
      <4>2. past[b].grant.released # 0
        BY <1>4, <2>1, <3>1, SMTT(60)
      <4> QED
        BY <2>1, <4>1, <4>2 DEF ClaimInv, PastInv, Created
    <3>3. b < w => Outlives(past[b], g)
      BY <2>1 DEF ClaimInv, PastInv
    <3> QED
      BY <1>2, <1>4, <3>1, <3>2, <3>3 DEF Outlives
  <2>3. g.released = past[a].grant.released /\ past[a].grant.released \in Nat
    BY <1>3, <1>5
  <2> HIDE DEF g, a, b, pay
  <2> QED
    BY <1>4, <2>1, <2>2, <2>3
<1>7. VestedAmountAt(g, past[w].time) <= g.released + pay
  <2>1. VestedAmountAt(past[w].grant, past[w].time) <= past[claims[tx].block - 1].grant.released + claims[tx].paid
    BY <1>1, <1>6 DEF ClaimInv, ClaimsInv, Succeeded
  <2> QED
    BY <1>5, <2>1
<1> HIDE DEF g, t, a, b, pay
<1>8. VestedAmountAt(g, t) <= VestedAmountAt(g, past[w].time)
  BY <1>3, VestedMonotone
<1>9. /\ VestedAmountAt(g, t) \in Nat /\ VestedAmountAt(g, past[w].time) \in Nat
      /\ ExpectedClaimable(g, t) = Clamp0(VestedAmountAt(g, t) - g.released)
  <2>1. /\ VestedAmountAt(g, t) \in Nat /\ VestedAmountAt(g, past[w].time) \in Nat
        /\ EffectiveTime(g, t) \in Nat
    BY <1>3, VestedBounds
  <2>2. ComputeVested(g.total, g.start, g.cliff, g.start + g.duration, EffectiveTime(g, t))
          = Schedule(g, EffectiveTime(g, t))
    BY <1>3, <2>1, TwinsOfSchedule
  <2> QED
    BY <2>1, <2>2 DEF ExpectedClaimable, VestedAmountAt
<1>10. ExpectedClaimable(g, t) <= pay
  BY <1>3, <1>4, <1>7, <1>8, <1>9 DEF Clamp0
<1>11. prestate.claimable = ExpectedClaimable(g, t)
  BY <1>1 DEF g, t
<1>12. ExpectedClaimable(g, t) \in Int /\ pay \in Int
  BY <1>3, <1>4, <1>9 DEF Clamp0
<1> QED
  BY <1>10, <1>11, <1>12 DEF pay

LEMMA PoststateIsClaim ==
  ASSUME ClaimInv, poststate # Missing
  PROVE  LET paid == claims[poststate.tx].paid
             b == claims[poststate.tx].block
         IN  /\ poststate.tx \in DOMAIN claims /\ paid > 0
             /\ poststate.delta = paid /\ poststate.event = paid /\ poststate.mint = paid
             /\ poststate.balance = paid <=> past[b].received = past[b - 1].received
<1>1. PICK tx \in DOMAIN claims : LET b == claims[tx].block IN
        /\ claims[tx].paid > 0 /\ b \in 2 .. Len(past)
        /\ poststate = [tx |-> tx, delta |-> claims[tx].paid,
                        event |-> claims[tx].paid, mint |-> claims[tx].paid,
                        balance |-> past[b].balance - past[b - 1].balance]
  BY DEF ClaimInv, ReceiptInv
<1> DEFINE b == claims[tx].block
           pay == claims[tx].paid
           r == past[b].received
           q == past[b - 1].received
<1>2. poststate.tx = tx /\ poststate.delta = pay /\ poststate.event = pay /\ poststate.mint = pay
  BY <1>1
<1>3. past[b].balance - past[b - 1].balance = pay + (r - q) /\ r \in Int /\ q \in Int
  <2>1. claims[tx].block <= Len(past)
    BY <1>1
  <2> QED
    BY <1>1, <2>1, IncreaseIsPaid DEF ClaimInv
<1>4. pay \in Nat
  BY ChainExtends, PaidCounted DEF ClaimInv
<1>5. poststate.balance = pay + (r - q)
  BY <1>1, <1>3
<1> HIDE DEF pay, r, q
<1>6. poststate.balance = pay <=> r = q
  BY <1>3, <1>4, <1>5
<1> QED
  BY <1>1, <1>2, <1>6 DEF pay, r, q

(* The files of phase-8.2: a claim that finds the grant as the prestate    *)
(* did pays at least what it promised, and the poststate is of the claim.  *)
THEOREM ClaimsAlwaysAsWritten == ClaimSpec => []ClaimsAreAsWritten
<1>1. ClaimInv => ClaimsAreAsWritten
  <2> SUFFICES ASSUME ClaimInv PROVE ClaimPaysPrestate /\ PoststateMatchesClaim
    BY DEF ClaimsAreAsWritten
  <2>1. PoststateMatchesClaim
    BY PoststateIsClaim DEF PoststateMatchesClaim
  <2> QED
    BY <2>1, PrestatePaid
<1> QED
  BY <1>1, ClaimInvariance, PTL

(* build-claim-execution-summary.mjs fails the files of a claim only for   *)
(* transfers to or by the beneficiary in its block that do not cancel out, *)
(* or for a prestate that promised nothing.                                *)
THEOREM SummaryAlwaysTellsTransfers == ClaimSpec => []SummaryFailsByTransfersOnly
<1>1. ClaimInv => SummaryFailsByTransfersOnly
  <2> SUFFICES ASSUME ClaimInv, Missing \notin {prestate, receipt, poststate}, poststate.tx = receipt.tx
               PROVE  LET b == claims[poststate.tx].block IN
                      /\ Summary.pass <=> /\ prestate.claimable > 0
                                          /\ past[b].received = past[b - 1].received
                      /\ Summary.delta = claims[poststate.tx].paid
    BY DEF SummaryFailsByTransfersOnly, Summary
  <2> DEFINE b == claims[poststate.tx].block
             pay == claims[poststate.tx].paid
  <2>1. /\ pay > 0 /\ poststate.delta = pay /\ poststate.event = pay /\ poststate.mint = pay
        /\ poststate.balance = pay <=> past[b].received = past[b - 1].received
    BY PoststateIsClaim
  <2> HIDE DEF b, pay
  <2>2. /\ Summary.pass <=> prestate.claimable > 0 /\ past[b].received = past[b - 1].received
        /\ Summary.delta = pay
    BY <2>1 DEF Summary
  <2> QED
    BY <2>2 DEF b, pay
<1> QED
  BY <1>1, ClaimInvariance, PTL

(* build-claim-prestate.mjs reads the time of one block and the grant of a *)
(* later one, and still promises no more than the grant has to give.       *)
THEOREM PrestatesNeverOverstate == ClaimSpec => PrestateNeverOverstates
<1> DEFINE Step == prestate' # prestate =>
                     prestate'.claimable <= Clamp0(VestedAmountAt(Latest.grant, Latest.time)
                                                     - Latest.grant.released)
<1>1. ClaimInv /\ [ClaimNext]_claimVars => [Step]_claimVars
  <2> SUFFICES ASSUME ClaimInv, ClaimNext, prestate' # prestate PROVE Step
    OBVIOUS
  <2>1. BuildPrestate
    BY DEF ClaimNext, CloseBlock, OtherTx, OtherClaim, ReadPrestateBlock, SendClaim, MineClaim, Kill,
           WriteReceipt, RecoverReceipt, BuildPoststate, files
  <2> DEFINE g == Latest.grant
             t == job["prestate"].time
  <2>2. g.exists /\ prestate'.claimable = ExpectedClaimable(g, t)
    BY <2>1 DEF BuildPrestate
  <2>3. PICK n \in DOMAIN past : job["prestate"] = [at |-> "block", number |-> n, time |-> past[n].time]
    BY <2>1 DEF BuildPrestate, ClaimInv, JobInv, Idle
  <2>4. /\ Latest = past[Len(past)] /\ Len(past) \in DOMAIN past /\ n <= Len(past) /\ Len(past) \in Nat
        /\ n \in Nat
    BY ChainExtends DEF ClaimInv, Latest, Last
  <2>5. /\ Created(g) /\ g.released \in Nat /\ t \in Nat /\ Latest.time \in Nat /\ t <= Latest.time
    <3>1. PastInv(past)
      BY DEF ClaimInv
    <3>2. Created(g) /\ g.released \in Nat /\ past[n].time \in Nat /\ Latest.time \in Nat
      BY <2>2, <2>4, <3>1, SnapshotOK
    <3>3. n < Len(past) => past[n].time < Latest.time
      BY <2>4, <3>1 DEF PastInv
    <3> QED
      BY <2>3, <2>4, <3>2, <3>3
  <2> HIDE DEF g, t
  <2>6. /\ VestedAmountAt(g, t) \in Nat /\ VestedAmountAt(g, Latest.time) \in Nat
        /\ VestedAmountAt(g, t) <= VestedAmountAt(g, Latest.time) /\ EffectiveTime(g, t) \in Nat
    BY <2>5, VestedBounds, VestedMonotone
  <2>7. ExpectedClaimable(g, t) = Clamp0(VestedAmountAt(g, t) - g.released)
    <3>1. ComputeVested(g.total, g.start, g.cliff, g.start + g.duration, EffectiveTime(g, t))
            = Schedule(g, EffectiveTime(g, t))
      BY <2>5, <2>6, TwinsOfSchedule
    <3> QED
      BY <3>1 DEF ExpectedClaimable, VestedAmountAt
  <2>8. ExpectedClaimable(g, t) <= Clamp0(VestedAmountAt(g, Latest.time) - g.released)
    BY <2>5, <2>6, <2>7 DEF Clamp0
  <2> QED
    BY <2>2, <2>8 DEF g
<1> QED
  BY <1>1, ClaimInvariance, PTL DEF ClaimSpec, PrestateNeverOverstates

=============================================================================
