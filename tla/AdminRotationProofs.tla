------------------------- MODULE AdminRotationProofs -------------------------
(***************************************************************************)
(* The two administration scripts under one key, for every list of         *)
(* contracts, every stack and desired list, and any number of crashes.     *)
(*                                                                         *)
(* The rotation, HandedOverInOrder: Handed only grows, by the contract of  *)
(* a transaction in the pool, and that one is the first of the list that   *)
(* was not handed over when the script sent it.                            *)
(*                                                                         *)
(* The set-stack script, RunsAreSound and DesiredStaysInForce: while a     *)
(* transaction is under way, what the script counts on next holds of the   *)
(* list that the transaction will make of the stack.                       *)
(***************************************************************************)
EXTENDS AdminRotation, DataInduction

Handed == {c \in Rotated : AdminOf(c) = Safe}

\* The script has left behind it what has been handed over.
PositionInv ==
  /\ rotating.at \in 1 .. Len(list) + 1
  /\ rotating = [at |-> rotating.at, step |-> rotating.step]
  /\ \A i \in DOMAIN list : i < rotating.at => list[i] \in Handed

\* A transaction is under way only for a contract that had all before it handed over.
PoolInv ==
  /\ pool \in Seq(Rotated)
  /\ \A k \in DOMAIN pool, j \in DOMAIN list :
       pool[k] = list[j] => \A i \in DOMAIN list : i < j => list[i] \in Handed

InOrder ==
  \A i, j \in DOMAIN list : i < j /\ list[j] \in Handed => list[i] \in Handed

OrderInv ==
  /\ list \in Seq(Rotated) /\ IsInjective(list)
  /\ admins = [c \in Rotated \ {"composite"} |-> admins[c]]
  /\ PositionInv /\ PoolInv /\ InOrder

-----------------------------------------------------------------------------
(* What the actions do to Handed                                           *)

\* The set-stack script does not touch the administrator of the composite.
LEMMA StackKeepsAdmin == ASSUME Next PROVE UNCHANGED compositeAdmin
<1>1. CASE Main
  BY <1>1 DEF Main, Start, Dedupe, AddMissing, ReadAfterAdd, ReadBeforePlace, Move, Trim,
              TakeReceipt, Local, Send, stackVars
<1>2. CASE Mine
  BY <1>2 DEF Mine, Executes, AddPolicy, RemovePolicy, MovePolicy, stackVars, Succeeds
<1>3. CASE Crash \/ Rerun
  BY <1>3 DEF Crash, Rerun, stackVars
<1> QED
  BY <1>1, <1>2, <1>3 DEF Next

LEMMA SameAdminsSameHanded ==
  ASSUME UNCHANGED <<compositeAdmin, admins>> PROVE Handed' = Handed
BY DEF Handed, AdminOf

LEMMA MiningHandsOver ==
  ASSUME OrderInv, MineSetAdmin
  PROVE  /\ Handed \subseteq Handed' /\ Handed' \subseteq Handed \cup {Head(pool)}
         /\ admins' = [c \in Rotated \ {"composite"} |-> admins'[c]]
<1> USE DEF Handed, AdminOf
<1> DEFINE c == Head(pool)
<1>0. pool # <<>> /\ pool \in Seq(Rotated) /\ c \in Rotated
  BY DEF OrderInv, PoolInv, MineSetAdmin
<1>1. CASE UNCHANGED <<compositeAdmin, admins>>
  BY <1>1 DEF OrderInv
<1>2. CASE c = "composite" /\ CompositeSetAdmin(Deployer, Safe) /\ UNCHANGED admins
  BY <1>0, <1>2 DEF OrderInv, CompositeSetAdmin
<1>3. CASE /\ c # "composite" /\ UNCHANGED compositeAdmin
           /\ admins' = [admins EXCEPT ![c] = Safe]
  BY <1>0, <1>3 DEF OrderInv
<1> QED
  BY <1>1, <1>2, <1>3 DEF MineSetAdmin, stackVars

-----------------------------------------------------------------------------
LEMMA OrderInit == RotationInit => OrderInv
<1> SUFFICES ASSUME RotationInit PROVE OrderInv
  OBVIOUS
<1>1. list \in Seq(Rotated) /\ IsInjective(list)
  BY RotationAssumption DEF RotationInit
<1>2. Deployer # Safe
  BY RotationAssumption
<1>3. Handed = {}
  BY <1>2 DEF RotationInit, Init, StackInit, Handed, AdminOf, Rotated
<1> QED
  BY <1>1, <1>3 DEF OrderInv, RotationInit, PositionInv, PoolInv, InOrder

\* One case for what each action does to position, pool and Handed.
LEMMA OrderStep == OrderInv /\ [RotationNext]_allVars => OrderInv'
<1> SUFFICES ASSUME OrderInv, [RotationNext]_allVars PROVE OrderInv'
  OBVIOUS
<1>0. list' = list /\ list \in Seq(Rotated) /\ IsInjective(list)
  BY DEF OrderInv, RotationNext, rotationVars, MineSetAdmin, RotateOne, ReadAdmin, SendSetAdmin,
         ReadAdminAfter, RotationCrash, RotationRerun, RotationLocal, allVars
<1>1. CASE UNCHANGED <<compositeAdmin, admins, rotating, pool>>
  <2>1. Handed' = Handed
    BY <1>1, SameAdminsSameHanded
  <2> QED
    BY <1>0, <1>1, <2>1 DEF OrderInv, PositionInv, PoolInv, InOrder
<1>2. CASE MineSetAdmin
  <2>1. /\ pool # <<>> /\ pool' = Tail(pool) /\ rotating' = rotating
        /\ pool \in Seq(Rotated)
    BY <1>2 DEF MineSetAdmin, OrderInv, PoolInv
  <2>2. /\ Handed \subseteq Handed' /\ Handed' \subseteq Handed \cup {Head(pool)}
        /\ admins' = [c \in Rotated \ {"composite"} |-> admins'[c]]
    BY <1>2, MiningHandsOver
  <2>3. PositionInv'
    BY <1>0, <2>1, <2>2 DEF OrderInv, PositionInv
  <2>4. PoolInv'
    <3>1. pool' \in Seq(Rotated) /\ \A k \in DOMAIN pool' : k + 1 \in DOMAIN pool /\ pool'[k] = pool[k + 1]
      BY <2>1
    <3> QED
      BY <1>0, <2>2, <3>1 DEF OrderInv, PoolInv
  <2>5. InOrder'
    <3> SUFFICES ASSUME NEW i \in DOMAIN list, NEW j \in DOMAIN list, i < j, list[j] \in Handed'
                 PROVE  list[i] \in Handed'
      BY <1>0 DEF InOrder
    <3>1. CASE list[j] \in Handed
      BY <3>1, <2>2 DEF OrderInv, InOrder
    <3>2. CASE list[j] = Head(pool)
      <4>1. 1 \in DOMAIN pool /\ Head(pool) = pool[1]
        BY <2>1
      <4> QED
        BY <3>2, <4>1, <2>2 DEF OrderInv, PoolInv
    <3> QED
      BY <3>1, <3>2, <2>2
  <2> QED
    BY <1>0, <2>2, <2>3, <2>4, <2>5 DEF OrderInv
<1>3. CASE RotateOne \/ RotationCrash \/ RotationRerun
  <2>1. UNCHANGED <<compositeAdmin, admins>>
    BY <1>3 DEF RotateOne, ReadAdmin, SendSetAdmin, ReadAdminAfter, RotationCrash, RotationRerun,
                RotationLocal, vars, stackVars
  <2>2. Handed' = Handed
    BY <2>1, SameAdminsSameHanded
  <2>3. PositionInv'
    <3>1. CASE NextContract /\ AdminOf(Current) = Safe /\ rotating.at <= Len(list)
      <4>1. list[rotating.at] \in Handed
        BY <3>1, <1>0 DEF Current, Handed, OrderInv, PositionInv
      <4> QED
        BY <1>0, <2>2, <3>1, <4>1 DEF OrderInv, PositionInv, NextContract
    <3>2. CASE \E step : Goto(step)
      BY <1>0, <2>2, <3>2 DEF OrderInv, PositionInv, Goto
    <3>3. CASE RotationRerun
      BY <1>0, <2>2, <3>3 DEF OrderInv, PositionInv, RotationRerun
    <3> QED
      BY <1>3, <3>1, <3>2, <3>3 DEF RotateOne, ReadAdmin, SendSetAdmin, ReadAdminAfter, RotationCrash, At
  <2>4. PoolInv'
    <3>1. CASE pool' = pool
      BY <1>0, <2>2, <3>1 DEF OrderInv, PoolInv
    <3>2. CASE pool' = Append(pool, Current) /\ rotating.at <= Len(list)
      <4>1. rotating.at \in DOMAIN list /\ Current = list[rotating.at] /\ Current \in Rotated
        BY <1>0, <3>2 DEF OrderInv, PositionInv, Current
      <4>2. \A j \in DOMAIN list : Current = list[j] => j = rotating.at
        BY <1>0, <4>1 DEF IsInjective
      <4>3. /\ pool' \in Seq(Rotated)
            /\ \A k \in DOMAIN pool' : (k \in DOMAIN pool /\ pool'[k] = pool[k]) \/ pool'[k] = Current
        BY <3>2, <4>1 DEF OrderInv, PoolInv
      <4> QED
        BY <1>0, <2>2, <4>1, <4>2, <4>3 DEF OrderInv, PoolInv, PositionInv
    <3> QED
      BY <1>3, <3>1, <3>2 DEF RotateOne, ReadAdmin, SendSetAdmin, ReadAdminAfter, RotationCrash,
                              RotationRerun, At
  <2> QED
    BY <1>0, <2>1, <2>2, <2>3, <2>4 DEF OrderInv, InOrder
<1>4. CASE Next /\ UNCHANGED rotationVars
  BY <1>4, <1>1, StackKeepsAdmin DEF rotationVars
<1>5. CASE UNCHANGED allVars
  BY <1>5, <1>1 DEF allVars, vars, stackVars, rotationVars
<1> QED
  BY <1>2, <1>3, <1>4, <1>5 DEF RotationNext

(* The contracts handed over are the first of the list at all times: what  *)
(* rotate-protocol-admins-to-safe.js leaves behind when it stops.          *)
THEOREM RotationInOrder == RotationSpec => []HandedOverInOrder
<1>1. OrderInv => HandedOverInOrder
  BY DEF OrderInv, InOrder, HandedOverInOrder, Handed
<1> QED
  BY <1>1, OrderInit, OrderStep, PTL DEF RotationSpec

-----------------------------------------------------------------------------
(* The set-stack script: types                                             *)

Call ==
  [fn : {"add"}, policy : Contract] \cup [fn : {"remove"}, from : Nat \ {0}]
    \cup [fn : {"move"}, from : Nat \ {0}, to : Nat \ {0}]

\* Each crash leaves at most one transaction behind.
UnderWay == crashes + IF receipt = Awaited THEN 1 ELSE 0

\* The position k that a part of main() is at, in the list s it has read.
Within(part, s, k) ==
  /\ k \in 0 .. MaxStack
  /\ part = "dedupe" => k <= Len(s)
  /\ part \in {"add", "added", "place", "move"} => k \in 1 .. Len(Desired) + 1
  /\ part \in {"added", "move"} => k <= Len(Desired)

ScriptInv ==
  /\ StackTypeOK
  /\ pc \in Phase
  /\ stack \in Seq(Contract) /\ seen \subseteq Contract
  /\ Within(pc, stack, at)
  /\ mempool \in Seq(Call)
  /\ crashes \in 0 .. MaxCrashes /\ Len(mempool) <= UnderWay
  /\ receipt \in {None, Awaited, Success, Reverted}
  /\ receipt = Awaited => mempool # <<>>
  /\ pc = "done" => receipt = None

-----------------------------------------------------------------------------
(* The set-stack script: what a quiet run has achieved so far              *)

\* What an administrator's call makes of the list p.
Effect(p, t) ==
  CASE t.fn = "add"    -> Append(p, t.policy)
    [] t.fn = "remove" -> [i \in 1 .. Len(p) - 1 |-> IF i < t.from THEN p[i] ELSE p[i + 1]]
    [] OTHER           -> [i \in DOMAIN p |->
                             CASE i = t.to                     -> p[t.from]
                               [] t.from <= i /\ i < t.to      -> p[i + 1]
                               [] t.to < i /\ i <= t.from      -> p[i - 1]
                               [] OTHER                        -> p[i]]

\* A desired policy in the list stays in it.
Keeps(p, t) == \A d \in Range(Desired) : d \in Range(p) => d \in Range(Effect(p, t))

\* Above k each policy is once in p, up to k it is the list read at the start.
Deduped(p, s, k, found) ==
  /\ k \in 0 .. Len(s) /\ k <= Len(p)
  /\ \A i \in 1 .. k : p[i] = s[i]
  /\ \A i, j \in k + 1 .. Len(p) : p[i] = p[j] => i = j
  /\ found = {p[i] : i \in k + 1 .. Len(p)}

\* The first k desired policies are in p.
Holding(p, k) == IsInjective(p) /\ \A j \in 1 .. k : Desired[j] \in Range(p)

\* All are, and the first k where they belong.
Placed(p, k) ==
  /\ Holding(p, Len(Desired))
  /\ k <= Len(p) /\ \A j \in 1 .. k : p[j] = Desired[j]

\* What a part of main() counts on, with p the list on the chain.
Ready(part, p, s, k, found) ==
  /\ part = "dedupe" => Deduped(p, s, k, found)
  /\ part = "add"    => s = p /\ Holding(p, k - 1)
  /\ part = "added"  => Holding(p, k)
  /\ part = "place"  => Placed(p, k - 1)
  /\ part = "move"   => s = p /\ Placed(p, k - 1)
  /\ part = "trim"   => Placed(p, Len(Desired)) /\ Len(p) = k
  /\ part = "done"   => p = Desired

Over == {"start", "failed"}

\* A quiet run has no more than the transaction it waits for under way; its
\* effect is what the script will count on next.
QuietInv ==
  quiet =>
    /\ mempool = <<>> \/ (Len(mempool) = 1 /\ Keeps(policies, mempool[1]))
    /\ pc \notin Over =>
         /\ receipt = Awaited => Ready(pc, Effect(policies, mempool[1]), stack, at, seen)
         /\ receipt # Awaited => mempool = <<>>
         /\ receipt \in {None, Success} => Ready(pc, policies, stack, at, seen)

RunInv == ScriptInv /\ QuietInv

-----------------------------------------------------------------------------
(* The set-stack script: the calls on a list                               *)

LEMMA EffectOfAdd ==
  ASSUME NEW S, NEW p \in Seq(S), NEW c \in S
  PROVE  LET q == Effect(p, AddCall(c)) IN
         q \in Seq(S) /\ q = Append(p, c)
<1>1. Effect(p, AddCall(c)) = Append(p, c)
  BY DEF Effect, AddCall
<1> QED
  BY <1>1

LEMMA EffectOfRemove ==
  ASSUME NEW S, NEW p \in Seq(S), NEW k \in 1 .. Len(p)
  PROVE  LET q == Effect(p, RemoveCall(k)) IN
         /\ q \in Seq(S) /\ Len(q) = Len(p) - 1
         /\ \A i \in 1 .. Len(p) - 1 : q[i] = IF i < k THEN p[i] ELSE p[i + 1]
<1> DEFINE q == [i \in 1 .. Len(p) - 1 |-> IF i < k THEN p[i] ELSE p[i + 1]]
<1>1. Effect(p, RemoveCall(k)) = q
  BY DEF Effect, RemoveCall
<1>2. Len(p) - 1 \in Nat /\ \A i \in 1 .. Len(p) - 1 : (IF i < k THEN p[i] ELSE p[i + 1]) \in S
  OBVIOUS
<1>3. q \in Seq(S) /\ Len(q) = Len(p) - 1
  BY <1>2
<1> QED
  BY <1>1, <1>3

LEMMA EffectOfMove ==
  ASSUME NEW S, NEW p \in Seq(S), NEW k \in 1 .. Len(p), NEW n \in 1 .. Len(p)
  PROVE  LET q == Effect(p, MoveCall(k, n)) IN
         /\ q \in Seq(S) /\ Len(q) = Len(p)
         /\ \A i \in 1 .. Len(p) : q[i] = CASE i = n                -> p[k]
                                            [] k <= i /\ i < n      -> p[i + 1]
                                            [] n < i /\ i <= k      -> p[i - 1]
                                            [] OTHER                -> p[i]
<1> DEFINE moved(i) == CASE i = n             -> p[k]
                         [] k <= i /\ i < n   -> p[i + 1]
                         [] n < i /\ i <= k   -> p[i - 1]
                         [] OTHER             -> p[i]
           q == [i \in DOMAIN p |-> moved(i)]
<1>1. Effect(p, MoveCall(k, n)) = q
  BY DEF Effect, MoveCall
<1>2. \A i \in 1 .. Len(p) : moved(i) \in S
  OBVIOUS
<1>3. q = [i \in 1 .. Len(p) |-> moved(i)]
  OBVIOUS
<1> HIDE DEF moved
<1>4. q \in Seq(S) /\ Len(q) = Len(p)
  BY <1>2, <1>3
<1>5. \A i \in 1 .. Len(p) : q[i] = moved(i)
  BY <1>3
<1> QED
  BY <1>1, <1>4, <1>5 DEF moved

\* A duplicate found on the way down goes, and is still there above.
LEMMA RemoveDuplicate ==
  ASSUME NEW p \in Seq(Contract), NEW s, NEW found, NEW k \in Nat \ {0},
         Deduped(p, s, k, found), s[k] \in found, Len(s) \in Nat
  PROVE  /\ Deduped(Effect(p, RemoveCall(k)), s, k - 1, found)
         /\ Keeps(p, RemoveCall(k))
<1> DEFINE q == Effect(p, RemoveCall(k))
           n == Len(p)
<1>1. /\ k \in 1 .. n /\ k \in 0 .. Len(s) /\ n \in Nat
      /\ \A i \in 1 .. k : p[i] = s[i]
      /\ \A i, j \in k + 1 .. n : p[i] = p[j] => i = j
      /\ found = {p[i] : i \in k + 1 .. n}
  BY SMTT(60) DEF Deduped
<1>2. /\ q \in Seq(Contract) /\ Len(q) = n - 1
      /\ \A i \in 1 .. n - 1 : q[i] = IF i < k THEN p[i] ELSE p[i + 1]
  BY <1>1, EffectOfRemove
<1> HIDE DEF q
<1>3. found = {q[i] : i \in k .. n - 1}
  <2>1. ASSUME NEW i \in k + 1 .. n PROVE \E j \in k .. n - 1 : q[j] = p[i]
    <3>1. i - 1 \in k .. n - 1 /\ q[i - 1] = p[i]
      BY <1>1, <1>2
    <3> QED
      BY <3>1
  <2>2. ASSUME NEW j \in k .. n - 1 PROVE \E i \in k + 1 .. n : q[j] = p[i]
    <3>1. j + 1 \in k + 1 .. n /\ q[j] = p[j + 1]
      BY <1>1, <1>2
    <3> QED
      BY <3>1
  <2>3. \A x : (\E i \in k + 1 .. n : p[i] = x) <=> \E j \in k .. n - 1 : q[j] = x
    BY <2>1, <2>2
  <2>4. \A x : x \in found <=> \E i \in k + 1 .. n : p[i] = x
    BY <1>1
  <2>5. \A x : x \in found <=> \E j \in k .. n - 1 : q[j] = x
    BY <2>3, <2>4
  <2> QED
    BY <2>5
<1>4. \A i, j \in k .. n - 1 : q[i] = q[j] => i = j
  <2> SUFFICES ASSUME NEW i \in k .. n - 1, NEW j \in k .. n - 1, q[i] = q[j] PROVE i = j
    OBVIOUS
  <2>1. i + 1 \in k + 1 .. n /\ j + 1 \in k + 1 .. n /\ p[i + 1] = p[j + 1]
    BY <1>1, <1>2
  <2>2. i + 1 = j + 1
    BY <1>1, <2>1
  <2> QED
    BY <2>2
<1>5. Deduped(q, s, k - 1, found)
  <2> DEFINE low == k - 1
             last == n - 1
  <2>1. low + 1 = k /\ Len(q) = last
    BY <1>2
  <2>2. low \in 0 .. Len(s) /\ low <= last /\ \A i \in 1 .. low : q[i] = s[i]
    BY <1>1, <1>2
  <2>3. found = {q[i] : i \in low + 1 .. Len(q)}
    BY <1>3, <2>1
  <2>4. \A i, j \in low + 1 .. Len(q) : q[i] = q[j] => i = j
    BY <1>4, <2>1
  <2> HIDE DEF low, last
  <2>5. Deduped(q, s, low, found)
    BY <2>1, <2>2, <2>3, <2>4 DEF Deduped
  <2> QED
    BY <2>5 DEF low
<1>6. ASSUME NEW d \in Range(p) PROVE d \in Range(q)
  <2>1. PICK i \in 1 .. n : p[i] = d
    BY DEF Range
  <2>2. DOMAIN q = 1 .. n - 1
    BY <1>2
  <2>3. CASE i < k
    <3>1. n \in Nat /\ k \in Nat /\ k <= n
      BY <1>1
    <3>2. i \in 1 .. n - 1
      BY <2>3, <3>1
    <3>3. q[i] = p[i]
      BY <1>2, <2>3, <3>2
    <3> QED
      BY <2>1, <2>2, <3>2, <3>3 DEF Range
  <2>4. CASE i > k
    <3>1. i - 1 \in 1 .. n - 1 /\ q[i - 1] = p[i]
      BY <1>1, <1>2, <2>4
    <3> QED
      BY <2>1, <2>2, <3>1 DEF Range
  <2>5. CASE i = k
    <3>1. d \in found
      BY <1>1, <2>1, <2>5
    <3>2. PICK j \in k .. n - 1 : q[j] = d
      BY <1>3, <3>1
    <3>3. j \in DOMAIN q
      BY <1>1, <2>2
    <3> QED
      BY <3>2, <3>3 DEF Range
  <2> QED
    BY <2>3, <2>4, <2>5
<1> QED
  BY <1>5, <1>6 DEF Keeps, q

\* A missing policy is added once.
LEMMA AddOne ==
  ASSUME NEW p \in Seq(Contract), NEW k \in 1 .. Len(Desired),
         Holding(p, k - 1), Desired[k] \notin Range(p)
  PROVE  /\ Holding(Effect(p, AddCall(Desired[k])), k)
         /\ Keeps(p, AddCall(Desired[k]))
<1> DEFINE d == Desired[k]
           q == Effect(p, AddCall(d))
<1>1. d \in Contract
  BY ScriptAssumption
<1>2. q \in Seq(Contract) /\ q = Append(p, d)
  BY <1>1, EffectOfAdd
<1> HIDE DEF d, q
<1>3. /\ DOMAIN q = 1 .. Len(p) + 1 /\ DOMAIN p = 1 .. Len(p) /\ Len(p) \in Nat
      /\ q[Len(p) + 1] = d /\ \A i \in 1 .. Len(p) : q[i] = p[i]
  BY <1>2
<1>4. \A x : x \in Range(p) \/ x = d => x \in Range(q)
  BY <1>3 DEF Range
<1>5. IsInjective(q)
  <2> SUFFICES ASSUME NEW i \in DOMAIN q, NEW j \in DOMAIN q, q[i] = q[j], i < j PROVE FALSE
    BY <1>3 DEF IsInjective
  <2>1. i \in DOMAIN p /\ q[i] = p[i]
    BY <1>3
  <2>2. CASE j = Len(p) + 1
    BY <1>3, <2>1, <2>2 DEF Range, d
  <2>3. CASE j # Len(p) + 1
    <3>0. j \in 1 .. Len(p)
      BY <1>3, <2>3
    <3>1. j \in DOMAIN p /\ p[i] = p[j]
      BY <1>3, <2>1, <3>0
    <3> QED
      BY <2>1, <3>1 DEF Holding, IsInjective
  <2> QED
    BY <2>2, <2>3
<1>6. \A j \in 1 .. k : Desired[j] \in Range(q)
  BY <1>4 DEF Holding, d
<1>7. Holding(q, k) /\ Keeps(p, AddCall(d))
  BY <1>4, <1>5, <1>6 DEF Holding, Keeps, q
<1> QED
  BY <1>7 DEF d, q

\* A policy further up is moved to where it belongs.
LEMMA MoveOne ==
  ASSUME NEW p \in Seq(Contract), NEW k \in 1 .. Len(Desired), Placed(p, k - 1),
         NEW f \in 1 .. Len(p), p[f] = Desired[k]
  PROVE  /\ f >= k
         /\ Placed(Effect(p, MoveCall(f, k)), k)
         /\ Keeps(p, MoveCall(f, k))
<1> DEFINE q == Effect(p, MoveCall(f, k))
           n == Len(p)
<1>0. /\ Holding(p, Len(Desired)) /\ n \in Nat /\ k - 1 <= n
      /\ \A j \in 1 .. k - 1 : p[j] = Desired[j]
      /\ \A i, j \in 1 .. n : p[i] = p[j] => i = j
  BY DEF Placed, Holding, IsInjective
<1>1. f >= k
  <2> SUFFICES ASSUME f < k PROVE FALSE
    OBVIOUS
  <2>1. Desired[f] = Desired[k] /\ f \in DOMAIN Desired /\ k \in DOMAIN Desired
    BY <1>0, ScriptAssumption
  <2> QED
    BY <2>1, ScriptAssumption DEF IsInjective
<1>2. /\ q \in Seq(Contract) /\ Len(q) = n
      /\ \A i \in 1 .. n : q[i] = CASE i = k                -> p[f]
                                    [] f <= i /\ i < k      -> p[i + 1]
                                    [] k < i /\ i <= f      -> p[i - 1]
                                    [] OTHER                -> p[i]
  <2>1. k \in 1 .. Len(p)
    BY <1>1
  <2>2. Desired[k] \in Contract
    BY ScriptAssumption
  <2> QED
    BY <2>1, EffectOfMove, ZenonT(60)
<1> HIDE DEF q
<1>3. \A i \in 1 .. n : q[i] = IF i = k THEN p[f] ELSE IF k < i /\ i <= f THEN p[i - 1] ELSE p[i]
  BY <1>1, <1>2
<1> DEFINE from(i) == IF i = k THEN f ELSE IF k < i /\ i <= f THEN i - 1 ELSE i
<1>4. \A i \in 1 .. n : from(i) \in 1 .. n /\ q[i] = p[from(i)]
  BY <1>1, <1>3
<1>5. \A i, j \in 1 .. n : from(i) = from(j) => i = j
  BY <1>1
<1>6. \A j \in 1 .. n : \E i \in 1 .. n : from(i) = j
  <2> SUFFICES ASSUME NEW j \in 1 .. n PROVE \E i \in 1 .. n : from(i) = j
    OBVIOUS
  <2>1. CASE j < k \/ j > f
    <3>1. from(j) = j
      BY <1>1, <2>1
    <3> QED
      BY <3>1
  <2>2. CASE j = f
    <3>1. k \in 1 .. n /\ from(k) = j
      BY <1>1, <2>2
    <3> QED
      BY <3>1
  <2>3. CASE k <= j /\ j < f
    <3>1. j + 1 \in 1 .. n /\ from(j + 1) = j
      BY <1>1, <2>3
    <3> QED
      BY <3>1
  <2> QED
    BY <2>1, <2>2, <2>3
<1>7. \A j \in 1 .. k - 1 : from(j) = j
  BY <1>1
<1>8. from(k) = f
  OBVIOUS
<1> HIDE DEF from
<1>9. DOMAIN q = 1 .. n /\ DOMAIN p = 1 .. n
  BY <1>2
<1>10. IsInjective(q)
  BY <1>0, <1>4, <1>5, <1>9 DEF IsInjective
<1>11. ASSUME NEW x \in Range(p) PROVE x \in Range(q)
  <2>1. PICK j \in 1 .. n : p[j] = x
    BY <1>9 DEF Range
  <2>2. PICK i \in 1 .. n : from(i) = j
    BY <1>6
  <2> QED
    BY <1>4, <1>9, <2>1, <2>2 DEF Range
<1>12. Holding(q, Len(Desired))
  BY <1>0, <1>10, <1>11 DEF Holding
<1>13. k <= n /\ \A j \in 1 .. k : q[j] = Desired[j]
  <2>1. k \in 1 .. n
    BY <1>1
  <2>2. \A j \in 1 .. k - 1 : j \in 1 .. n /\ q[j] = Desired[j]
    <3> SUFFICES ASSUME NEW j \in 1 .. k - 1 PROVE j \in 1 .. n /\ q[j] = Desired[j]
      OBVIOUS
    <3>1. j \in 1 .. n
      BY <2>1
    <3>2. q[j] = p[j]
      BY <1>4, <1>7, <3>1
    <3> QED
      BY <1>0, <3>1, <3>2
  <2>3. q[k] = Desired[k]
    BY <1>4, <1>8, <2>1
  <2> QED
    BY <2>1, <2>2, <2>3
<1>14. Placed(q, k)
  BY <1>2, <1>12, <1>13 DEF Placed
<1> QED
  BY <1>1, <1>11, <1>14 DEF Keeps, q

\* What is beyond the desired list is not on it.
LEMMA TrimOne ==
  ASSUME NEW p \in Seq(Contract), Placed(p, Len(Desired)), Len(p) > Len(Desired)
  PROVE  LET q == Effect(p, RemoveCall(Len(p))) IN
         Placed(q, Len(Desired)) /\ Len(q) = Len(p) - 1 /\ Keeps(p, RemoveCall(Len(p)))
<1> DEFINE n == Len(p)
           m == Len(Desired)
           q == Effect(p, RemoveCall(n))
<1>1. m \in Nat /\ n \in 1 .. n /\ n \in Nat
  BY ScriptAssumption
<1>2. /\ q \in Seq(Contract) /\ Len(q) = n - 1
      /\ \A i \in 1 .. n - 1 : q[i] = IF i < n THEN p[i] ELSE p[i + 1]
  BY <1>1, EffectOfRemove
<1> HIDE DEF q
<1>3. \A i \in 1 .. n - 1 : q[i] = p[i]
  BY <1>1, <1>2
<1>4. m <= n - 1 /\ \A j \in 1 .. m : q[j] = Desired[j]
  BY <1>1, <1>3 DEF Placed
<1>5. DOMAIN q = 1 .. n - 1 /\ DOMAIN p = 1 .. n /\ DOMAIN Desired = 1 .. m
  BY <1>2, ScriptAssumption
<1>6. \A j \in 1 .. m : Desired[j] \in Range(q)
  BY <1>1, <1>4, <1>5 DEF Range
<1>7. IsInjective(q)
  BY <1>1, <1>3, <1>5 DEF IsInjective, Placed, Holding
<1>8. Placed(q, m)
  BY <1>2, <1>4, <1>6, <1>7 DEF Placed, Holding
<1>9. \A d \in Range(Desired) : d \in Range(q)
  BY <1>5, <1>6 DEF Range
<1> QED
  BY <1>2, <1>8, <1>9 DEF Keeps, q

-----------------------------------------------------------------------------
(* The set-stack script: its steps                                         *)

LEMMA ScriptInit == Init => RunInv
<1> SUFFICES ASSUME Init PROVE RunInv
  OBVIOUS
<1>1. PICK s \in StartStack : StackInit(s)
  BY DEF Init
<1>2. StackTypeOK
  BY <1>1, ScriptAssumption, AccountAssumption DEF StackTypeOK, StackInit
<1>3. /\ pc = "start" /\ stack = <<>> /\ at = 0 /\ seen = {} /\ mempool = <<>>
      /\ receipt = None /\ crashes = 0 /\ quiet = TRUE
  BY DEF Init
<1>4. ScriptInv
  BY <1>2, <1>3, ScriptAssumption, StackAssumption
     DEF ScriptInv, Within, UnderWay, Phase, None, Awaited, Success, Reverted
<1>5. QuietInv
  BY <1>3 DEF QuietInv, Over
<1> QED
  BY <1>4, <1>5 DEF RunInv

LEMMA Receipts ==
  /\ None # Awaited /\ None # Success /\ None # Reverted
  /\ Awaited # Success /\ Awaited # Reverted /\ Success # Reverted
BY DEF None, Awaited, Success, Reverted

\* What main() does by itself.
LEMMA LocalStep ==
  ASSUME RunInv, receipt = None, Local, crashes' = crashes,
         pc' \in Phase, stack' \in Seq(Contract), seen' \subseteq Contract,
         Within(pc', stack', at'),
         quiet' => (pc' \notin Over => mempool = <<>>) /\ (mempool = <<>> \/ quiet)
                   /\ Ready(pc', policies, stack', at', seen')
  PROVE  RunInv'
<1>1. UNCHANGED <<policies, compositeAdmin, mempool, receipt, crashes>>
  BY DEF Local, stackVars
<1>2. ScriptInv'
  BY <1>1, Receipts DEF RunInv, ScriptInv, StackTypeOK, UnderWay
<1>3. QuietInv'
  BY <1>1, Receipts DEF RunInv, QuietInv
<1> QED
  BY <1>2, <1>3 DEF RunInv

\* What main() sends, to wait for it or to fail.
LEMMA SendStep ==
  ASSUME RunInv, receipt = None, NEW t \in Call, NEW next \in Phase \ {"start", "failed", "done"},
         Send(t, next), UNCHANGED <<crashes, quiet, stack, seen>>, pc \notin Over,
         Within(next, stack, at'),
         quiet => Keeps(policies, t) /\ Ready(next, Effect(policies, t), stack, at', seen)
  PROVE  RunInv'
<1>1. /\ UNCHANGED <<policies, compositeAdmin>>
      /\ \/ pc' = next /\ mempool' = Append(mempool, t) /\ receipt' = Awaited
         \/ pc' = "failed" /\ UNCHANGED <<mempool, receipt>>
  BY DEF Send, stackVars
<1>2. mempool \in Seq(Call) /\ Len(mempool) <= crashes /\ crashes \in 0 .. MaxCrashes /\ ScriptInv
  BY Receipts DEF RunInv, ScriptInv, UnderWay
<1>3. CASE pc' = next /\ mempool' = Append(mempool, t) /\ receipt' = Awaited
  <2>1. mempool' \in Seq(Call) /\ Len(mempool') = Len(mempool) + 1 /\ mempool' # <<>>
    BY <1>2, <1>3
  <2>2. ScriptInv'
    BY <1>1, <1>2, <1>3, <2>1, Receipts, ScriptAssumption DEF ScriptInv, StackTypeOK, UnderWay
  <2>3. ASSUME quiet PROVE Len(mempool') = 1 /\ mempool'[1] = t
    <3>1. mempool = <<>>
      BY <2>3, Receipts DEF RunInv, QuietInv
    <3> QED
      BY <1>3, <3>1
  <2>4. QuietInv'
    BY <1>1, <1>3, <2>3, Receipts DEF QuietInv
  <2> QED
    BY <2>2, <2>4 DEF RunInv
<1>4. CASE pc' = "failed" /\ UNCHANGED <<mempool, receipt>>
  <2>1. Within("failed", stack, at')
    BY DEF Within
  <2>2. ScriptInv'
    BY <1>1, <1>2, <1>4, <2>1, Receipts DEF ScriptInv, StackTypeOK, UnderWay, Phase
  <2>3. QuietInv'
    BY <1>1, <1>4 DEF RunInv, QuietInv, Over
  <2> QED
    BY <2>2, <2>3 DEF RunInv
<1> QED
  BY <1>1, <1>3, <1>4

\* What a quiet run knows when it goes on.
LEMMA GoesOn ==
  ASSUME RunInv, receipt = None, pc \notin Over
  PROVE  /\ policies \in Seq(Contract) /\ Len(policies) \in 0 .. MaxStack
         /\ quiet => mempool = <<>> /\ Ready(pc, policies, stack, at, seen)
BY Receipts DEF RunInv, ScriptInv, QuietInv, StackTypeOK

LEMMA StartStep == ASSUME RunInv, receipt = None, Start PROVE RunInv'
<1>1. /\ pc = "start" /\ pc' = "dedupe" /\ stack' = policies /\ at' = Len(policies) /\ seen' = {}
      /\ quiet' = (mempool = <<>>) /\ Local /\ crashes' = crashes
  BY DEF Start
<1>2. policies \in Seq(Contract) /\ Len(policies) \in 0 .. MaxStack
  BY StackAssumption DEF RunInv, ScriptInv, StackTypeOK
<1>3. Within("dedupe", policies, Len(policies))
  BY <1>2 DEF Within
<1>4. Deduped(policies, policies, Len(policies), {})
  BY <1>2 DEF Deduped
<1>5. Ready("dedupe", policies, policies, Len(policies), {})
  BY <1>4 DEF Ready
<1> QED
  BY <1>1, <1>2, <1>3, <1>5, LocalStep DEF Phase

LEMMA DedupeStep == ASSUME RunInv, receipt = None, Dedupe PROVE RunInv'
<1>0. /\ pc = "dedupe" /\ pc \notin Over /\ UNCHANGED <<crashes, quiet>>
      /\ at \in 0 .. Len(stack) /\ at <= MaxStack /\ stack \in Seq(Contract) /\ seen \subseteq Contract
  BY StackAssumption DEF Dedupe, Over, RunInv, ScriptInv, Within
<1>1. /\ policies \in Seq(Contract) /\ Len(policies) \in 0 .. MaxStack
      /\ quiet => mempool = <<>> /\ Deduped(policies, stack, at, seen)
  BY <1>0, GoesOn DEF Ready
<1>2. CASE /\ at > 0 /\ stack[at] \in seen
           /\ Send(RemoveCall(at), "dedupe")
           /\ at' = at - 1 /\ UNCHANGED <<stack, seen>>
  <2>1. RemoveCall(at) \in Call /\ Within("dedupe", stack, at - 1)
    BY <1>0, <1>2, StackAssumption DEF Call, RemoveCall, Within
  <2>2. ASSUME quiet PROVE /\ Deduped(Effect(policies, RemoveCall(at)), stack, at - 1, seen)
                           /\ Keeps(policies, RemoveCall(at))
    BY <1>0, <1>1, <1>2, <2>2, RemoveDuplicate
  <2>3. quiet => Ready("dedupe", Effect(policies, RemoveCall(at)), stack, at - 1, seen)
    BY <2>2 DEF Ready
  <2> QED
    BY <1>0, <1>2, <2>1, <2>2, <2>3, SendStep DEF Phase
<1>3. CASE /\ at > 0 /\ stack[at] \notin seen
           /\ seen' = seen \cup {stack[at]}
           /\ at' = at - 1 /\ UNCHANGED <<pc, stack>> /\ Local
  <2>1. stack[at] \in Contract /\ Within("dedupe", stack, at - 1)
    BY <1>0, <1>3, StackAssumption DEF Within
  <2>2. ASSUME quiet PROVE Deduped(policies, stack, at - 1, seen \cup {stack[at]})
    <3> DEFINE low == at - 1
               n == Len(policies)
    <3>1. /\ at \in 1 .. n /\ policies[at] = stack[at]
          /\ \A i \in 1 .. at : policies[i] = stack[i]
          /\ \A i, j \in at + 1 .. n : policies[i] = policies[j] => i = j
          /\ seen = {policies[i] : i \in at + 1 .. n}
      BY <1>0, <1>1, <1>3, <2>2 DEF Deduped
    <3>2. low + 1 = at /\ low \in 0 .. Len(stack) /\ low <= n /\ \A i \in 1 .. low : policies[i] = stack[i]
      BY <1>0, <3>1
    <3>3. at .. n = {at} \cup (at + 1 .. n)
      BY <3>1
    <3>4. seen \cup {stack[at]} = {policies[i] : i \in at .. n}
      BY <3>1, <3>3
    <3>5. \A i \in at + 1 .. n : policies[i] # policies[at]
      BY <1>3, <3>1
    <3>6. \A i, j \in at .. n : policies[i] = policies[j] => i = j
      BY <3>1, <3>3, <3>5
    <3> HIDE DEF low, n
    <3>7. Deduped(policies, stack, low, seen \cup {stack[at]})
      BY <3>2, <3>4, <3>6 DEF Deduped, n
    <3> QED
      BY <3>7 DEF low
  <2>3. quiet => Ready("dedupe", policies, stack, at - 1, seen \cup {stack[at]})
    BY <2>2 DEF Ready
  <2> QED
    BY <1>0, <1>1, <1>3, <2>1, <2>3, LocalStep DEF Phase
<1>4. CASE /\ at = 0
           /\ pc' = "add" /\ stack' = policies /\ at' = 1 /\ UNCHANGED seen /\ Local
  <2>1. Within("add", policies, 1)
    BY ScriptAssumption, StackAssumption DEF Within
  <2>2. ASSUME quiet PROVE Holding(policies, 0)
    <3>1. \A i, j \in 1 .. Len(policies) : policies[i] = policies[j] => i = j
      BY <1>1, <1>4, <2>2 DEF Deduped
    <3> QED
      BY <1>1, <3>1 DEF Holding, IsInjective
  <2>3. quiet => Ready("add", policies, policies, 1, seen)
    BY <2>2 DEF Ready
  <2> QED
    BY <1>0, <1>1, <1>4, <2>1, <2>3, LocalStep DEF Phase
<1> QED
  BY <1>2, <1>3, <1>4 DEF Dedupe

\* What counts at the next position is what has been done up to this one.
LEMMA NextPosition ==
  ASSUME NEW k \in Nat, NEW p, NEW s, NEW found
  PROVE  /\ s = p /\ Holding(p, k) => Ready("add", p, s, k + 1, found)
         /\ Placed(p, k) => Ready("place", p, s, k + 1, found)
<1> DEFINE n == k + 1
<1>1. n - 1 = k
  OBVIOUS
<1> HIDE DEF n
<1>2. /\ s = p /\ Holding(p, k) => Ready("add", p, s, n, found)
      /\ Placed(p, k) => Ready("place", p, s, n, found)
  BY <1>1 DEF Ready
<1> QED
  BY <1>2 DEF n

LEMMA AddMissingStep == ASSUME RunInv, receipt = None, AddMissing PROVE RunInv'
<1>0. /\ pc = "add" /\ pc \notin Over /\ UNCHANGED <<crashes, quiet>>
      /\ at \in 1 .. Len(Desired) + 1 /\ stack \in Seq(Contract) /\ seen \subseteq Contract
      /\ Len(Desired) \in Nat /\ Len(Desired) < MaxStack /\ MaxStack \in Nat
  BY StackAssumption, ScriptAssumption DEF AddMissing, Over, RunInv, ScriptInv, Within
<1>1. /\ policies \in Seq(Contract)
      /\ quiet => mempool = <<>> /\ stack = policies /\ Holding(policies, at - 1)
  BY <1>0, GoesOn DEF Ready
<1>2. CASE /\ at <= Len(Desired) /\ Desired[at] \notin Range(stack)
           /\ Send(AddCall(Desired[at]), "added")
           /\ UNCHANGED <<stack, at, seen>>
  <2> DEFINE t == AddCall(Desired[at])
  <2>1. at \in 1 .. Len(Desired) /\ Desired[at] \in Contract
    BY <1>0, <1>2, ScriptAssumption
  <2>2. t \in Call /\ Within("added", stack, at)
    BY <1>0, <2>1 DEF Call, AddCall, Within
  <2>3. ASSUME quiet PROVE Holding(Effect(policies, t), at) /\ Keeps(policies, t)
    BY <1>1, <1>2, <2>1, <2>3, AddOne
  <2>4. quiet => Ready("added", Effect(policies, t), stack, at, seen)
    BY <2>3 DEF Ready
  <2> HIDE DEF t
  <2>5. Send(t, "added")
    BY <1>2 DEF t
  <2> QED
    BY <1>0, <1>2, <2>2, <2>3, <2>4, <2>5, SendStep DEF Phase
<1>3. CASE /\ at <= Len(Desired) /\ Desired[at] \in Range(stack)
           /\ at' = at + 1 /\ UNCHANGED <<pc, stack, seen>> /\ Local
  <2>1. Within("add", stack, at + 1)
    BY <1>0, <1>3 DEF Within
  <2>2. ASSUME quiet PROVE Holding(policies, at)
    BY <1>0, <1>1, <1>3, <2>2 DEF Holding
  <2>3. quiet => Ready("add", policies, stack, at + 1, seen)
    BY <1>0, <1>1, <2>2, NextPosition
  <2> QED
    BY <1>0, <1>1, <1>3, <2>1, <2>3, LocalStep DEF Phase
<1>4. CASE /\ at > Len(Desired)
           /\ pc' = "place" /\ at' = 1 /\ UNCHANGED <<stack, seen>> /\ Local
  <2>1. Within("place", stack, 1)
    BY <1>0 DEF Within
  <2>2. ASSUME quiet PROVE Placed(policies, 0)
    <3>1. at - 1 = Len(Desired)
      BY <1>0, <1>4
    <3>2. Holding(policies, Len(Desired))
      BY <1>1, <2>2, <3>1
    <3> QED
      BY <1>1, <3>2 DEF Placed
  <2>3. quiet => Ready("place", policies, stack, 1, seen)
    BY <2>2 DEF Ready
  <2> QED
    BY <1>0, <1>1, <1>4, <2>1, <2>3, LocalStep DEF Phase
<1> QED
  BY <1>2, <1>3, <1>4 DEF AddMissing

LEMMA ReadAfterAddStep == ASSUME RunInv, receipt = None, ReadAfterAdd PROVE RunInv'
<1>0. /\ pc = "added" /\ pc \notin Over /\ UNCHANGED <<crashes, quiet>>
      /\ at \in 1 .. Len(Desired) /\ seen \subseteq Contract
      /\ Len(Desired) \in Nat /\ Len(Desired) < MaxStack /\ MaxStack \in Nat
  BY StackAssumption, ScriptAssumption DEF ReadAfterAdd, Over, RunInv, ScriptInv, Within
<1>1. /\ policies \in Seq(Contract)
      /\ quiet => mempool = <<>> /\ Holding(policies, at)
  BY <1>0, GoesOn DEF Ready
<1>2. pc' = "add" /\ stack' = policies /\ at' = at + 1 /\ Local /\ UNCHANGED seen
  BY DEF ReadAfterAdd
<1>3. Within("add", policies, at + 1)
  BY <1>0 DEF Within
<1>4. quiet => Ready("add", policies, policies, at + 1, seen)
  BY <1>0, <1>1, NextPosition
<1> QED
  BY <1>0, <1>1, <1>2, <1>3, <1>4, LocalStep DEF Phase

LEMMA ReadBeforePlaceStep == ASSUME RunInv, receipt = None, ReadBeforePlace PROVE RunInv'
<1>0. /\ pc = "place" /\ pc \notin Over /\ UNCHANGED <<crashes, quiet, seen>>
      /\ at \in 1 .. Len(Desired) + 1 /\ seen \subseteq Contract
      /\ Len(Desired) \in Nat /\ Len(Desired) < MaxStack /\ MaxStack \in Nat
      /\ stack' = policies /\ Local
  BY StackAssumption, ScriptAssumption DEF ReadBeforePlace, Over, RunInv, ScriptInv, Within
<1>1. /\ policies \in Seq(Contract) /\ Len(policies) \in 0 .. MaxStack
      /\ quiet => mempool = <<>> /\ Placed(policies, at - 1)
  BY <1>0, GoesOn DEF Ready
<1>2. CASE at <= Len(Desired) /\ pc' = "move" /\ UNCHANGED at
  <2>1. Within("move", policies, at)
    BY <1>0, <1>2 DEF Within
  <2>2. quiet => Ready("move", policies, policies, at, seen)
    BY <1>1 DEF Ready
  <2> QED
    BY <1>0, <1>1, <1>2, <2>1, <2>2, LocalStep DEF Phase
<1>3. CASE ~ (at <= Len(Desired)) /\ pc' = "trim" /\ at' = Len(policies)
  <2>1. Within("trim", policies, Len(policies))
    BY <1>1 DEF Within
  <2>2. at - 1 = Len(Desired)
    BY <1>0, <1>3
  <2>3. quiet => Ready("trim", policies, policies, Len(policies), seen)
    BY <1>1, <2>2 DEF Ready
  <2> QED
    BY <1>0, <1>1, <1>3, <2>1, <2>3, LocalStep DEF Phase
<1> QED
  BY <1>2, <1>3 DEF ReadBeforePlace

\* indexOf: the policy is where it says.
LEMMA IndexOfFinds ==
  ASSUME NEW p \in Range(stack), stack \in Seq(Contract)
  PROVE  IndexOf(p) \in 1 .. Len(stack) /\ stack[IndexOf(p)] = p
<1> DEFINE S == {i \in DOMAIN stack : stack[i] = p}
<1>1. S \in SUBSET Nat /\ S # {}
  BY DEF Range
<1>2. Min(S) \in S
  BY <1>1, LeastOfNaturals
<1> QED
  BY <1>2 DEF IndexOf

LEMMA MoveStep == ASSUME RunInv, receipt = None, Move PROVE RunInv'
<1> DEFINE d == Desired[at]
           f == IndexOf(d)
<1>0. /\ pc = "move" /\ pc \notin Over /\ UNCHANGED <<crashes, quiet>>
      /\ at \in 1 .. Len(Desired) /\ stack \in Seq(Contract) /\ seen \subseteq Contract
      /\ Len(Desired) \in Nat /\ Len(Desired) < MaxStack /\ MaxStack \in Nat
  BY StackAssumption, ScriptAssumption DEF Move, Over, RunInv, ScriptInv, Within
<1>1. /\ policies \in Seq(Contract)
      /\ quiet => mempool = <<>> /\ stack = policies /\ Placed(policies, at - 1)
  BY <1>0, GoesOn DEF Ready
<1>2. CASE d \notin Range(stack) /\ pc' = "failed" /\ UNCHANGED <<stack, at, seen>> /\ Local
  <2>1. Within("failed", stack, at)
    BY <1>0 DEF Within
  <2>2. Ready("failed", policies, stack, at, seen)
    BY DEF Ready
  <2> QED
    BY <1>0, <1>1, <1>2, <2>1, <2>2, LocalStep DEF Phase
<1>3. CASE /\ d \in Range(stack) /\ f # at /\ Send(MoveCall(f, at), "place")
           /\ at' = at + 1 /\ UNCHANGED <<stack, seen>>
  <2>1. f \in 1 .. Len(stack) /\ stack[f] = d
    BY <1>0, <1>3, IndexOfFinds
  <2> HIDE DEF f
  <2> DEFINE t == MoveCall(f, at)
  <2>2. t \in Call /\ Within("place", stack, at + 1)
    BY <1>0, <2>1 DEF Call, MoveCall, Within
  <2>3. ASSUME quiet PROVE Placed(Effect(policies, t), at) /\ Keeps(policies, t)
    BY <1>0, <1>1, <2>1, <2>3, MoveOne
  <2>4. quiet => Ready("place", Effect(policies, t), stack, at + 1, seen)
    BY <1>0, <2>3, NextPosition
  <2>5. Send(t, "place")
    BY <1>3
  <2> HIDE DEF t
  <2> QED
    BY <1>0, <1>3, <2>2, <2>3, <2>4, <2>5, SendStep DEF Phase
<1>4. CASE /\ d \in Range(stack) /\ f = at
           /\ pc' = "place" /\ at' = at + 1 /\ UNCHANGED <<stack, seen>> /\ Local
  <2>1. at \in 1 .. Len(stack) /\ stack[at] = d
    BY <1>0, <1>4, IndexOfFinds
  <2>2. Within("place", stack, at + 1)
    BY <1>0 DEF Within
  <2>3. ASSUME quiet PROVE Placed(policies, at)
    <3>1. /\ Holding(policies, Len(Desired)) /\ at <= Len(policies)
          /\ \A j \in 1 .. at - 1 : policies[j] = Desired[j]
      BY <1>1, <2>1, <2>3 DEF Placed
    <3>2. policies[at] = Desired[at]
      BY <1>1, <2>1, <2>3
    <3>3. \A j \in 1 .. at : policies[j] = Desired[j]
      BY <1>0, <3>1, <3>2
    <3> QED
      BY <3>1, <3>3 DEF Placed
  <2>4. quiet => Ready("place", policies, stack, at + 1, seen)
    BY <1>0, <2>3, NextPosition
  <2> QED
    BY <1>0, <1>1, <1>4, <2>2, <2>4, LocalStep DEF Phase
<1> QED
  BY <1>2, <1>3, <1>4 DEF Move

LEMMA TrimStep == ASSUME RunInv, receipt = None, Trim PROVE RunInv'
<1>0. /\ pc = "trim" /\ pc \notin Over /\ UNCHANGED <<crashes, quiet>>
      /\ at \in 0 .. MaxStack /\ stack \in Seq(Contract) /\ seen \subseteq Contract
      /\ Len(Desired) \in Nat /\ MaxStack \in Nat /\ Desired \in Seq(Contract)
  BY StackAssumption, ScriptAssumption DEF Trim, Over, RunInv, ScriptInv, Within
<1>1. /\ policies \in Seq(Contract) /\ Len(policies) \in 0 .. MaxStack
      /\ quiet => mempool = <<>> /\ Placed(policies, Len(Desired)) /\ Len(policies) = at
  BY <1>0, GoesOn DEF Ready
<1>2. CASE /\ at > Len(Desired)
           /\ Send(RemoveCall(at), "trim")
           /\ at' = at - 1 /\ UNCHANGED <<stack, seen>>
  <2> DEFINE t == RemoveCall(at)
  <2>1. t \in Call /\ Within("trim", stack, at - 1)
    BY <1>0, <1>2 DEF Call, RemoveCall, Within
  <2>2. ASSUME quiet PROVE /\ Placed(Effect(policies, t), Len(Desired))
                           /\ Len(Effect(policies, t)) = at - 1
                           /\ Keeps(policies, t)
    BY <1>1, <1>2, <2>2, TrimOne
  <2>3. quiet => Ready("trim", Effect(policies, t), stack, at - 1, seen)
    BY <2>2 DEF Ready
  <2>4. Send(t, "trim")
    BY <1>2
  <2> HIDE DEF t
  <2> QED
    BY <1>0, <1>2, <2>1, <2>2, <2>3, <2>4, SendStep DEF Phase
<1>3. CASE /\ at <= Len(Desired)
           /\ pc' = "done" /\ stack' = policies /\ UNCHANGED <<at, seen>> /\ Local
  <2>1. Within("done", policies, at)
    BY <1>0 DEF Within
  <2>2. ASSUME quiet PROVE policies = Desired
    <3>1. Len(policies) = Len(Desired) /\ \A j \in 1 .. Len(Desired) : policies[j] = Desired[j]
      BY <1>0, <1>1, <1>3, <2>2 DEF Placed
    <3> QED
      BY <1>0, <1>1, <3>1
  <2>3. quiet => Ready("done", policies, policies, at, seen)
    BY <2>2 DEF Ready
  <2> QED
    BY <1>0, <1>1, <1>3, <2>1, <2>3, LocalStep DEF Phase
<1> QED
  BY <1>2, <1>3 DEF Trim

\* A mined transaction has its effect, or reverts.
LEMMA MinedEffect ==
  ASSUME RunInv, Mine
  PROVE  /\ mempool # <<>> /\ mempool[1] = Head(mempool)
         /\ compositeAdmin' = compositeAdmin
         /\ policies' \in Seq(Contract) /\ Len(policies') <= MaxStack
         /\ policies' = IF Succeeds(Head(mempool)) THEN Effect(policies, Head(mempool)) ELSE policies
<1> DEFINE t == Head(mempool)
<1>1. /\ mempool # <<>> /\ mempool \in Seq(Call)
      /\ policies \in Seq(Contract) /\ Len(policies) <= MaxStack
  BY DEF Mine, RunInv, ScriptInv, StackTypeOK
<1>2. t \in Call /\ mempool[1] = t
  BY <1>1
<1> HIDE DEF t
<1>3. CASE ~ Succeeds(t)
  <2>1. UNCHANGED stackVars
    BY <1>3 DEF Mine, t
  <2> QED
    BY <1>1, <1>2, <1>3, <2>1 DEF stackVars, t
<1>4. CASE Succeeds(t) /\ t.fn = "add"
  <2>1. AddPolicy(Deployer, t.policy)
    BY <1>4 DEF Mine, Executes, t
  <2>2. t = AddCall(t.policy) /\ t.policy \in Contract
    BY <1>2, <1>4 DEF Call, AddCall
  <2>3. policies' = Append(policies, t.policy) /\ Len(policies) < MaxStack /\ compositeAdmin' = compositeAdmin
    BY <2>1 DEF AddPolicy
  <2>4. Effect(policies, t) = Append(policies, t.policy)
    BY <1>1, <2>2, EffectOfAdd
  <2>5. Append(policies, t.policy) \in Seq(Contract) /\ Len(Append(policies, t.policy)) = Len(policies) + 1
    BY <1>1, <2>2
  <2> QED
    BY <1>1, <1>2, <1>4, <2>3, <2>4, <2>5, StackAssumption DEF t
<1>5. CASE Succeeds(t) /\ t.fn = "remove"
  <2>1. RemovePolicy(Deployer, t.from) /\ t.from <= Len(policies)
    BY <1>5 DEF Mine, Executes, t, Succeeds
  <2>2. t = RemoveCall(t.from) /\ t.from \in 1 .. Len(policies)
    BY <1>1, <1>2, <1>5, <2>1 DEF Call, RemoveCall
  <2>3. policies' = Effect(policies, t) /\ compositeAdmin' = compositeAdmin
    BY <1>5, <2>1 DEF RemovePolicy, Effect
  <2>4. Effect(policies, t) \in Seq(Contract) /\ Len(Effect(policies, t)) = Len(policies) - 1
    BY <1>1, <2>2, EffectOfRemove
  <2> QED
    BY <1>1, <1>2, <1>5, <2>3, <2>4, StackAssumption DEF t
<1>6. CASE Succeeds(t) /\ t.fn = "move"
  <2>1. MovePolicy(Deployer, t.from, t.to) /\ t.from <= Len(policies) /\ t.to <= Len(policies)
    BY <1>6 DEF Mine, Executes, t, Succeeds
  <2>2. t = MoveCall(t.from, t.to) /\ t.from \in 1 .. Len(policies) /\ t.to \in 1 .. Len(policies)
    BY <1>1, <1>2, <1>6, <2>1 DEF Call, MoveCall
  <2>3. policies' = Effect(policies, t) /\ compositeAdmin' = compositeAdmin
    BY <1>6, <2>1 DEF MovePolicy, Effect
  <2>4. Effect(policies, t) \in Seq(Contract) /\ Len(Effect(policies, t)) = Len(policies)
    BY <1>1, <2>2, EffectOfMove
  <2> QED
    BY <1>1, <1>2, <1>6, <2>3, <2>4 DEF t
<1> QED
  BY <1>2, <1>3, <1>4, <1>5, <1>6 DEF Call

LEMMA MineTxStep == ASSUME RunInv, Mine PROVE RunInv'
<1> DEFINE t == Head(mempool)
<1>1. /\ mempool # <<>> /\ mempool[1] = t
      /\ compositeAdmin' = compositeAdmin
      /\ policies' \in Seq(Contract) /\ Len(policies') <= MaxStack
      /\ policies' = IF Succeeds(t) THEN Effect(policies, t) ELSE policies
  BY MinedEffect
<1>2. /\ mempool' = Tail(mempool)
      /\ receipt' = IF Tail(mempool) = <<>> /\ receipt = Awaited
                    THEN IF Succeeds(t) THEN Success ELSE Reverted
                    ELSE receipt
      /\ UNCHANGED <<pc, stack, at, seen, crashes, quiet>>
  BY DEF Mine, script
<1>3. /\ ScriptInv /\ QuietInv /\ mempool \in Seq(Call) /\ Len(mempool) <= UnderWay
      /\ crashes \in 0 .. MaxCrashes /\ MaxCrashes \in Nat
  BY ScriptAssumption DEF RunInv, ScriptInv
<1> HIDE DEF t
<1>4. mempool' \in Seq(Call) /\ Len(mempool') = Len(mempool) - 1
  BY <1>1, <1>2, <1>3
<1>5. receipt = Awaited /\ Tail(mempool) # <<>> => mempool' # <<>>
  BY <1>2
<1>6. Len(mempool') <= UnderWay'
  BY <1>2, <1>3, <1>4 DEF UnderWay
<1>7. ScriptInv'
  BY <1>1, <1>2, <1>3, <1>4, <1>5, <1>6, Receipts DEF ScriptInv, StackTypeOK
<1>8. ASSUME quiet PROVE QuietInv'
  <2>1. Len(mempool) = 1 /\ Keeps(policies, t)
    BY <1>1, <1>3, <1>8 DEF QuietInv
  <2>2. mempool' = <<>> /\ Tail(mempool) = <<>>
    BY <1>2, <1>3, <1>4, <2>1
  <2>3. ASSUME pc \notin Over PROVE receipt' \in {None, Success} => Ready(pc, policies', stack, at, seen)
    <3>1. receipt = Awaited /\ Ready(pc, Effect(policies, t), stack, at, seen)
      BY <1>1, <1>3, <1>8, <2>3 DEF QuietInv
    <3> QED
      BY <1>1, <1>2, <2>2, <3>1, Receipts
  <2>4. receipt' # Awaited \/ pc \in Over
    BY <1>1, <1>2, <1>3, <1>8, <2>2, Receipts DEF QuietInv
  <2> QED
    BY <1>2, <2>2, <2>3, <2>4 DEF QuietInv
<1>9. ASSUME ~ quiet PROVE QuietInv'
  BY <1>2, <1>9 DEF QuietInv
<1> QED
  BY <1>7, <1>8, <1>9 DEF RunInv

LEMMA TakeReceiptStep == ASSUME RunInv, TakeReceipt PROVE RunInv'
<1>1. /\ receipt \in {Success, Reverted} /\ receipt' = None
      /\ pc' = (IF receipt = Success THEN pc ELSE "failed")
      /\ UNCHANGED <<compositeAdmin, policies, stack, at, seen, mempool, crashes, quiet>>
  BY DEF TakeReceipt, stackVars
<1>2. Within("failed", stack, at) /\ "failed" \in Phase
  BY DEF RunInv, ScriptInv, Within, Phase
<1>3. ScriptInv'
  BY <1>1, <1>2, Receipts DEF RunInv, ScriptInv, StackTypeOK, UnderWay
<1>4. QuietInv'
  BY <1>1, Receipts DEF RunInv, QuietInv, Over
<1> QED
  BY <1>3, <1>4 DEF RunInv

LEMMA CrashStep == ASSUME RunInv, Crash \/ Rerun PROVE RunInv'
<1>1. /\ pc' \in Over /\ pc' # "done"
      /\ UNCHANGED <<compositeAdmin, policies, stack, at, seen, mempool, quiet>>
      /\ \/ crashes < MaxCrashes /\ crashes' = crashes + 1 /\ receipt' = None
         \/ UNCHANGED <<crashes, receipt>>
  BY DEF Crash, Rerun, stackVars, Over
<1>2. Within(pc', stack, at) /\ pc' \in Phase
  BY <1>1 DEF RunInv, ScriptInv, Within, Phase, Over
<1>3. Len(mempool) <= UnderWay'
  BY <1>1, ScriptAssumption, Receipts DEF RunInv, ScriptInv, UnderWay
<1>4. ScriptInv'
  BY <1>1, <1>2, <1>3, ScriptAssumption, Receipts DEF RunInv, ScriptInv, StackTypeOK
<1>5. QuietInv'
  BY <1>1 DEF RunInv, QuietInv
<1> QED
  BY <1>4, <1>5 DEF RunInv

LEMMA RunStep == RunInv /\ [Next]_vars => RunInv'
<1> SUFFICES ASSUME RunInv, [Next]_vars PROVE RunInv'
  OBVIOUS
<1>1. CASE UNCHANGED vars
  <2>1. UNCHANGED <<compositeAdmin, policies, pc, stack, at, seen, mempool, receipt, crashes, quiet>>
    BY <1>1 DEF vars, stackVars, script
  <2>2. UnderWay' = UnderWay
    BY <2>1 DEF UnderWay
  <2>3. ScriptInv'
    BY <2>1, <2>2 DEF RunInv, ScriptInv, StackTypeOK
  <2>4. QuietInv'
    BY <2>1 DEF RunInv, QuietInv
  <2> QED
    BY <2>3, <2>4 DEF RunInv
<1>2. CASE Main
  BY <1>2, StartStep, DedupeStep, AddMissingStep, ReadAfterAddStep, ReadBeforePlaceStep, MoveStep,
     TrimStep, TakeReceiptStep DEF Main
<1>3. CASE Mine
  BY <1>3, MineTxStep
<1>4. CASE Crash \/ Rerun
  BY <1>4, CrashStep
<1> QED
  BY <1>1, <1>2, <1>3, <1>4 DEF Next

\* The rotation leaves the script alone, and of the stack takes the administrator.
LEMMA RotationKeepsRuns == RunInv /\ [RotationNext]_allVars => RunInv'
<1> SUFFICES ASSUME RunInv, [RotationNext]_allVars PROVE RunInv'
  OBVIOUS
<1>1. CASE [Next]_vars
  BY <1>1, RunStep
<1>2. CASE MineSetAdmin
  <2>1. /\ UNCHANGED <<policies, pc, stack, at, seen, mempool, receipt, crashes, quiet>>
        /\ compositeAdmin' \in {compositeAdmin, Safe}
    BY <1>2 DEF MineSetAdmin, CompositeSetAdmin, stackVars, script
  <2>2. compositeAdmin' \in Account
    BY <2>1, RotationAssumption DEF RunInv, ScriptInv, StackTypeOK
  <2> QED
    BY <2>1, <2>2 DEF RunInv, ScriptInv, StackTypeOK, QuietInv, UnderWay
<1>3. CASE RotateOne \/ RotationCrash \/ RotationRerun
  <2>1. UNCHANGED vars
    BY <1>3 DEF RotateOne, ReadAdmin, SendSetAdmin, ReadAdminAfter, RotationCrash, RotationRerun,
                RotationLocal
  <2> QED
    BY <1>1, <2>1
<1>4. CASE UNCHANGED allVars
  BY <1>1, <1>4 DEF allVars
<1> QED
  BY <1>1, <1>2, <1>3, <1>4 DEF RotationNext

(* RunInv holds in every reachable state, a rotation beside or not.        *)
THEOREM RunInvariance == RotationSpec => []RunInv
<1>1. RotationInit => RunInv
  BY ScriptInit DEF RotationInit
<1> QED
  BY <1>1, RotationKeepsRuns, PTL DEF RotationSpec

(* For any stack found, any list desired and any number of crashes: a run  *)
(* that began with nothing pending and ends has made the stack the list    *)
(* desired, even if the administrator changes under way.                   *)
THEOREM RunsAlwaysSound == RotationSpec => []RunsAreSound
<1>1. ASSUME RunInv PROVE RunsAreSound
  <2>1. Len(mempool) <= MaxCrashes + 1
    BY <1>1, ScriptAssumption DEF RunInv, ScriptInv, UnderWay
  <2>2. TypeOK
    BY <1>1, <2>1 DEF RunInv, ScriptInv, Within, TypeOK
  <2>3. ASSUME pc = "done", quiet PROVE policies = Desired
    BY <1>1, <2>3, Receipts DEF RunInv, ScriptInv, QuietInv, Ready, Over
  <2> QED
    BY <2>2, <2>3 DEF RunsAreSound, QuietRunSetsDesired
<1> QED
  BY <1>1, RunInvariance, PTL

(* And in no block of such a run is a desired policy out of the stack that *)
(* had been in it, be it a duplicate, out of place or in its place.        *)
THEOREM DesiredAlwaysStays == RotationSpec => DesiredStaysInForce
<1>1. ASSUME RunInv, [RotationNext]_allVars
      PROVE  [quiet => \A p \in Range(Desired) : p \in Range(policies) => p \in Range(policies')]_vars
  <2> SUFFICES ASSUME quiet, NEW p \in Range(Desired), p \in Range(policies)
               PROVE  p \in Range(policies')
    OBVIOUS
  <2>1. CASE Mine
    <3>1. /\ mempool # <<>> /\ mempool[1] = Head(mempool)
          /\ policies' = IF Succeeds(Head(mempool)) THEN Effect(policies, Head(mempool)) ELSE policies
      BY <1>1, <2>1, MinedEffect
    <3>2. Keeps(policies, Head(mempool))
      BY <1>1, <3>1 DEF RunInv, QuietInv
    <3> QED
      BY <3>1, <3>2 DEF Keeps
  <2>2. CASE ~ Mine
    <3>1. policies' = policies
      BY <1>1, <2>2 DEF RotationNext, allVars, vars, stackVars, Next, Main, Start, Dedupe, AddMissing,
         ReadAfterAdd, ReadBeforePlace, Move, Trim, TakeReceipt, Local, Send, Crash, Rerun,
         MineSetAdmin, CompositeSetAdmin, RotateOne, ReadAdmin, SendSetAdmin, ReadAdminAfter,
         RotationCrash, RotationRerun, RotationLocal
    <3> QED
      BY <3>1
  <2> QED
    BY <2>1, <2>2
<1> QED
  BY <1>1, RunInvariance, PTL DEF RotationSpec, DesiredStaysInForce

=============================================================================
