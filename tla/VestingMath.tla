---------------------------- MODULE VestingMath ----------------------------
(***************************************************************************)
(* The pure functions of VestingContract.sol (_effectiveTime and           *)
(* _vestedAmountAt) over a Grant record, and the off-chain twin that       *)
(* scripts/lib/vesting-math.mjs evaluates with unbounded BigInts.          *)
(*                                                                         *)
(* Solidity 0.8 arithmetic is checked: g.total * elapsed reverts when the  *)
(* product leaves uint256.  MulOverflows names that revert, so a caller    *)
(* that evaluates VestedAmountAt has ~MulOverflows among its guards.       *)
(***************************************************************************)
EXTENDS Integers

CONSTANTS
  MaxUint256,   \* largest value of a uint256 (2^256 - 1 on chain)
  MaxUint64     \* largest value of a uint64  (2^64 - 1 on chain)

ASSUME WidthAssumption == MaxUint256 \in Nat \ {0} /\ MaxUint64 \in Nat \ {0}

Uint256 == 0 .. MaxUint256
Uint64  == 0 .. MaxUint64

Grant == [total : Uint256, released : Uint256,
          start : Uint64, cliff : Uint64, duration : Uint64,
          exists : BOOLEAN, revoked : BOOLEAN, revokedAt : Uint64]

\* A mapping slot that was never written reads as zero.
NoGrant == [total |-> 0, released |-> 0, start |-> 0, cliff |-> 0, duration |-> 0,
            exists |-> FALSE, revoked |-> FALSE, revokedAt |-> 0]

\* Mutant: a revocation does not stop the schedule.
EffectiveTimeUncapped(g, t) == t

EffectiveTime(g, t) == IF g.revoked /\ t > g.revokedAt THEN g.revokedAt ELSE t

\* Seconds of the schedule that have run at an (already effective) time.
Elapsed(g, t) == IF t > g.start THEN t - g.start ELSE 0

InLinearPhase(g, t) == t >= g.cliff /\ Elapsed(g, t) < g.duration

\* Mutant: no cliff branch.
ScheduleWithoutCliff(g, t) ==
  IF Elapsed(g, t) >= g.duration THEN g.total ELSE (g.total * Elapsed(g, t)) \div g.duration

\* The branches of _vestedAmountAt, at an effective time.
Schedule(g, t) ==
  IF t < g.cliff THEN 0
  ELSE IF Elapsed(g, t) >= g.duration THEN g.total
  ELSE (g.total * Elapsed(g, t)) \div g.duration

VestedAmountAt(g, t) == Schedule(g, EffectiveTime(g, t))

\* The multiplication in the linear branch does not fit a uint256.
MulOverflows(g, t) ==
  LET eff == EffectiveTime(g, t)
  IN  InLinearPhase(g, eff) /\ g.total * Elapsed(g, eff) > MaxUint256

-----------------------------------------------------------------------------
(* The off-chain twins of the schedule: BigInts without a width, the end   *)
(* of the schedule as an argument.                                         *)

\* Mutant: the linear part runs from the cliff.
VestedFromCliff(total, start, cliff, end, t) ==
  IF t < cliff THEN 0
  ELSE IF t >= end THEN total
  ELSE (total * (t - cliff)) \div (end - start)

\* scripts/lib/vesting-math.mjs, with the order of its early returns.
VestedLinearWithCliff(total, start, cliff, end, t) ==
  IF t < cliff THEN 0
  ELSE IF t >= end THEN total
  ELSE IF t - start <= 0 THEN 0
  ELSE (total * (t - start)) \div (end - start)

\* scripts/ops/grants/build-claim-prestate.mjs, which asks for the start first.
ComputeVested(total, start, cliff, end, t) ==
  IF t < cliff \/ t <= start THEN 0
  ELSE IF t >= end THEN total
  ELSE (total * (t - start)) \div (end - start)

Clamp0(x) == IF x < 0 THEN 0 ELSE x

=============================================================================
