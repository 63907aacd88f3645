-------------------------- MODULE PolicySystemProofs --------------------------
(***************************************************************************)
(* Theorems about PolicySystem, for stacks of any length and any policies: *)
(* the types, the audit trail of the stack, the names in its events, what  *)
(* a policy in force holds back wherever in the stack it stands, and the   *)
(* sum of the balances.                                                    *)
(***************************************************************************)
EXTENDS PolicySystem, DataInduction

-----------------------------------------------------------------------------
(* The first objection                                                     *)

\* A transfer that the composite allows is allowed by every member.
LEMMA EveryMemberDecides ==
  ASSUME RootTypeOK, NEW from, NEW to, NEW amount,
         CompositeCanTransfer(from, to, amount) = Allow,
         NEW i \in DOMAIN policies
  PROVE  Decide(policies[i], from, to, amount) = Allow
<1> DEFINE no == Objections(from, to, amount)
<1>1. no \in SUBSET Nat
  BY DEF Objections, RootTypeOK
<1>2. no = {}
  <2> SUFFICES ASSUME no # {} PROVE FALSE
    OBVIOUS
  <2>1. Min(no) \in no
    BY <1>1, LeastOfNaturals
  <2>2. Decide(policies[Min(no)], from, to, amount) # Allow
    BY <2>1 DEF Objections
  <2>3. CompositeCanTransfer(from, to, amount) = Decide(policies[Min(no)], from, to, amount)
    BY DEF CompositeCanTransfer
  <2> QED
    BY <2>2, <2>3
<1> QED
  BY <1>2 DEF Objections

LEMMA AllowedByPolicyInForce ==
  ASSUME RootTypeOK, NEW policy, InForce(policy), NEW from, NEW to, NEW amount,
         PolicyVerdict(from, to, amount) = Allow
  PROVE  Decide(policy, from, to, amount) = Allow
BY EveryMemberDecides DEF InForce, PolicyVerdict

-----------------------------------------------------------------------------
(* Types                                                                   *)

LEMMA CompositeTypes ==
  ASSUME TypeOK, version = V1, UNCHANGED version, NEW s \in Person,
         \/ \E p \in PolicyArg : AddPolicy(s, p)
         \/ \E i \in 1 .. MaxStack : RemovePolicy(s, i)
         \/ \E i \in 1 .. MaxStack, p \in PolicyArg : InsertPolicy(s, i, p)
         \/ \E i \in 1 .. MaxStack, p \in PolicyArg : ReplacePolicy(s, i, p)
         \/ \E i, j \in 1 .. MaxStack : MovePolicy(s, i, j)
  PROVE  RootTypeOK'
<1>0. /\ policies \in Seq(Contract) /\ Len(policies) \in Nat /\ Len(policies) <= MaxStack
      /\ compositeAdmin \in Account
      /\ Stackable' = Contract
  BY DEF TypeOK, RootTypeOK, Stackable
<1> SUFFICES policies' \in Seq(Contract) /\ Len(policies') <= MaxStack /\ compositeAdmin' \in Account
  BY <1>0 DEF RootTypeOK
<1>2. CASE \E p \in PolicyArg : AddPolicy(s, p)
  BY <1>0, <1>2, StackAssumption DEF AddPolicy, RequirePolicy
<1>3. CASE \E i \in 1 .. MaxStack : RemovePolicy(s, i)
  BY <1>0, <1>3, StackAssumption DEF RemovePolicy
<1>4. CASE \E i \in 1 .. MaxStack, p \in PolicyArg : InsertPolicy(s, i, p)
  BY <1>0, <1>4, StackAssumption DEF InsertPolicy, RequirePolicy
<1>5. CASE \E i \in 1 .. MaxStack, p \in PolicyArg : ReplacePolicy(s, i, p)
  BY <1>0, <1>5, StackAssumption DEF ReplacePolicy, RequirePolicy
<1>6. CASE \E i, j \in 1 .. MaxStack : MovePolicy(s, i, j)
  BY <1>0, <1>6, StackAssumption DEF MovePolicy
<1> QED
  BY <1>2, <1>3, <1>4, <1>5, <1>6

LEMMA V111Types ==
  ASSUME TypeOK, version = V111, UNCHANGED version, NEW s \in Person,
         \/ \E p \in PolicyArg : V111AddPolicy(s, p)
         \/ \E i \in 1 .. MaxStack : V111RemovePolicy(s, i)
         \/ \E i \in 1 .. MaxStack, p \in PolicyArg : V111ReplacePolicy(s, i, p)
  PROVE  RootTypeOK'
<1>0. /\ policies \in Seq(Account) /\ Len(policies) \in Nat /\ Len(policies) <= MaxStack
      /\ compositeAdmin \in Account
      /\ Stackable' = Account
  BY DEF TypeOK, RootTypeOK, Stackable, V1, V111
<1> SUFFICES policies' \in Seq(Account) /\ Len(policies') <= MaxStack /\ compositeAdmin' \in Account
  BY <1>0 DEF RootTypeOK
<1>1. CASE \E p \in PolicyArg : V111AddPolicy(s, p)
  BY <1>0, <1>1, StackAssumption, PolicySystemAssumption DEF V111AddPolicy
<1>2. ASSUME NEW i \in 1 .. MaxStack, V111RemovePolicy(s, i)
      PROVE  policies' \in Seq(Account) /\ Len(policies') <= MaxStack /\ compositeAdmin' \in Account
  <2>1. i \in 1 .. Len(policies) /\ Last(policies) \in Account
    BY <1>0, <1>2, StackAssumption DEF V111RemovePolicy, Last
  <2> DEFINE filled == [policies EXCEPT ![i] = Last(policies)]
  <2>2. filled \in Seq(Account) /\ Len(filled) = Len(policies)
    BY <1>0, <2>1
  <2>3. policies' = SubSeq(filled, 1, Len(filled) - 1)
    BY <1>2 DEF V111RemovePolicy, Front
  <2> HIDE DEF filled
  <2>4. policies' \in Seq(Account)
    BY <1>0, <2>1, <2>2, <2>3
  <2>5. Len(policies') = Len(filled) - 1
    BY <1>0, <2>1, <2>2, <2>3
  <2> QED
    BY <1>0, <1>2, <2>2, <2>4, <2>5, StackAssumption DEF V111RemovePolicy
<1>3. CASE \E i \in 1 .. MaxStack, p \in PolicyArg : V111ReplacePolicy(s, i, p)
  BY <1>0, <1>3, StackAssumption, PolicySystemAssumption DEF V111ReplacePolicy
<1> QED
  BY <1>1, <1>2, <1>3

LEMMA StackTypes == TypeOK /\ [Next]_vars => RootTypeOK'
<1> SUFFICES ASSUME TypeOK, [Next]_vars PROVE RootTypeOK'
  OBVIOUS
<1>0. UNCHANGED version
  BY DEF Next, vars
<1>1. ASSUME NEW s \in Person, TxComposite(s) PROVE RootTypeOK'
  <2>1. CASE \E a \in NewAdmin : CompositeSetAdmin(s, a)
    BY <1>0, <2>1, AccountAssumption DEF CompositeSetAdmin, TypeOK, RootTypeOK, Stackable
  <2> QED
    BY <1>0, <1>1, <2>1, CompositeTypes, V111Types DEF TxComposite
<1>2. CASE UNCHANGED stackVars
  BY <1>0, <1>2 DEF stackVars, TypeOK, RootTypeOK, Stackable
<1> QED
  BY <1>1, <1>2 DEF Next, vars, TxRegistry, TxLeafPolicies, TxToken

\* Minting and transferring keep balances within a uint256.
LEMMA TokenTypes == TypeOK /\ [Next]_vars => TokenTypeOK'
<1> SUFFICES ASSUME TypeOK, [Next]_vars PROVE TokenTypeOK'
  OBVIOUS
<1>0. TokenTypeOK /\ MaxUint256 \in Nat
  BY TokenV2Assumption DEF TypeOK
<1>1. ASSUME NEW s \in Person, TxToken(s) PROVE TokenTypeOK'
  <2>1. CASE \E p \in TokenPolicyArg : SetTransferPolicy(s, p)
    BY <1>0, <2>1, PolicySystemAssumption DEF SetTransferPolicy, TokenTypeOK
  <2>2. ASSUME NEW to \in Recipient, NEW n \in Amount, Transfer(s, to, n) PROVE TokenTypeOK'
    <3>1. s \in Holder /\ to \in Holder /\ n \in 0 .. MaxUint256
      BY PolicySystemAssumption DEF Holder
    <3> DEFINE debited == [balanceOf EXCEPT ![s] = @ - n]
    <3>2. debited \in [Holder -> 0 .. MaxUint256]
      BY <1>0, <3>1, <2>2 DEF Transfer, TokenTypeOK
    <3>3. (debited[to] + n) % (MaxUint256 + 1) \in 0 .. MaxUint256
      BY <1>0, <3>1, <3>2
    <3>4. balanceOf' = [debited EXCEPT ![to] = (debited[to] + n) % (MaxUint256 + 1)]
      BY <2>2 DEF Transfer
    <3>5. balanceOf' \in [Holder -> 0 .. MaxUint256]
      <4> HIDE DEF debited
      <4> QED
        BY <3>1, <3>2, <3>3, <3>4
    <3> QED
      BY <1>0, <3>5, <2>2 DEF Transfer, TokenTypeOK
  <2>3. ASSUME NEW to \in Recipient, NEW n \in Amount, Mint(s, to, n) PROVE TokenTypeOK'
    <3>1. to \in Holder /\ n \in 0 .. MaxUint256
      BY PolicySystemAssumption DEF Holder
    <3> QED
      BY <1>0, <3>1, <2>3 DEF Mint, TokenTypeOK
  <2> QED
    BY <1>1, <2>1, <2>2, <2>3 DEF TxToken
<1>2. CASE UNCHANGED tokenVars
  BY <1>0, <1>2 DEF tokenVars, TokenTypeOK
<1> QED
  BY <1>1, <1>2 DEF Next, vars, TxRegistry, TxLeafPolicies, TxComposite

LEMMA RegistryAndPolicyTypes == TypeOK /\ [Next]_vars => RegistryTypeOK' /\ PoliciesTypeOK'
<1> SUFFICES ASSUME TypeOK, [Next]_vars PROVE RegistryTypeOK' /\ PoliciesTypeOK'
  OBVIOUS
<1> USE DEF TypeOK, RegistryTypeOK, PoliciesTypeOK, policyVars, freezeVars, gateVars, minVars, registryVars
<1>1. ASSUME NEW s \in Person, TxRegistry(s) PROVE RegistryTypeOK' /\ PoliciesTypeOK'
  <2>1. CASE \E a \in NewAdmin : RegistrySetAdmin(s, a)
    BY <1>1, <2>1, AccountAssumption DEF RegistrySetAdmin, TxRegistry
  <2>2. ASSUME NEW u \in StatusUser, NEW st \in StatusArg, SetStatus(s, u, st)
        PROVE  RegistryTypeOK'
    <3>1. st \in {Unverified, Verified, Restricted}
      BY <2>2, RegistryAssumption DEF SetStatus, Unverified, Verified, Restricted
    <3> QED
      BY <2>2, <3>1 DEF SetStatus
  <2> QED
    BY <1>1, <2>1, <2>2 DEF TxRegistry
<1>2. ASSUME NEW s \in Person, TxLeafPolicies(s) PROVE RegistryTypeOK' /\ PoliciesTypeOK'
  BY <1>2, AccountAssumption DEF TxLeafPolicies, SetEmergencyAdmin, GateSetAdmin, MinSetAdmin,
     EmergencyFreeze, EmergencyUnfreeze, SetRequireSenderVerified, SetMinAmount
<1>3. CASE UNCHANGED <<registryVars, policyVars>>
  BY <1>3
<1> QED
  BY <1>1, <1>2, <1>3 DEF Next, vars, TxComposite, TxToken

(* Type correctness: no sequence of transactions of anybody leaves a       *)
(* balance outside a uint256 or something without code in the stack.       *)
THEOREM PolicyTypeCorrect == Spec => []TypeOK
<1>1. Init => TypeOK
  <2> SUFFICES ASSUME Init PROVE TypeOK
    OBVIOUS
  <2>1. RegistryTypeOK
    BY AccountAssumption
       DEF Init, RegistryInit, RegistryTypeOK, Unverified, Verified, Restricted
  <2>2. PoliciesTypeOK
    BY AccountAssumption DEF Init, PoliciesInit, PoliciesTypeOK
  <2>3. TokenTypeOK
    BY AccountAssumption, TokenV2Assumption DEF Init, TokenInit, TokenTypeOK
  <2>4. PICK s \in InitialStack :
          \/ version = V1 /\ StackInit(s)
          \/ version = V111 /\ V111Init(s)
    BY DEF Init
  <2>5. s \in Seq(Contract) /\ s \in Seq(Account) /\ Len(s) <= MaxStack
    BY InitialStacksFit, PolicySystemAssumption, StackAssumption
  <2>6. version \in {V1, V111} /\ RootTypeOK
    BY <2>4, <2>5, AccountAssumption DEF StackInit, V111Init, RootTypeOK, Stackable
  <2> QED
    BY <2>1, <2>2, <2>3, <2>6 DEF TypeOK
<1>2. TypeOK /\ [Next]_vars => TypeOK'
  <2> SUFFICES ASSUME TypeOK, [Next]_vars PROVE TypeOK'
    OBVIOUS
  <2>1. version' \in {V1, V111}
    BY DEF TypeOK, Next, vars
  <2> QED
    BY <2>1, StackTypes, TokenTypes, RegistryAndPolicyTypes DEF TypeOK
<1> QED
  BY <1>1, <1>2, PTL DEF Spec

-----------------------------------------------------------------------------
(* The audit trail: what the contract's shifting loops leave in storage is *)
(* what the events say                                                     *)

LEMMA SequenceIsFunction ==
  ASSUME NEW S, NEW t \in Seq(S)
  PROVE  t = [i \in 1 .. Len(t) |-> t[i]]
OBVIOUS

LEMMA InsertShiftsUp ==
  ASSUME NEW S, NEW s \in Seq(S), NEW at \in 1 .. Len(s) + 1, NEW e \in S
  PROVE  InsertAt(s, at, e) =
           [i \in 1 .. Len(s) + 1 |-> IF i < at THEN s[i] ELSE IF i = at THEN e ELSE s[i - 1]]
<1> DEFINE before == SubSeq(s, 1, at - 1)
           after  == SubSeq(s, at, Len(s))
<1>1. before \in Seq(S) /\ Len(before) = at - 1 /\ \A i \in 1 .. at - 1 : before[i] = s[i]
  OBVIOUS
<1>2. after \in Seq(S) /\ Len(after) = Len(s) + 1 - at
      /\ \A i \in 1 .. Len(s) + 1 - at : after[i] = s[at + i - 1]
  OBVIOUS
<1>3. InsertAt(s, at, e) = (before \o <<e>>) \o after
  BY DEF InsertAt
<1> HIDE DEF before, after
<1>4. before \o <<e>> \in Seq(S) /\ Len(before \o <<e>>) = at
      /\ \A i \in 1 .. at : (before \o <<e>>)[i] = IF i < at THEN s[i] ELSE e
  BY <1>1
<1> DEFINE front == before \o <<e>>
           both  == front \o after
<1>5. front \in Seq(S) /\ Len(front) = at /\ \A i \in 1 .. at : front[i] = IF i < at THEN s[i] ELSE e
  BY <1>4
<1> HIDE DEF front
<1>6. both \in Seq(S) /\ Len(both) = Len(s) + 1
  BY <1>2, <1>5
<1>7. ASSUME NEW i \in 1 .. Len(s) + 1
      PROVE  both[i] = IF i < at THEN s[i] ELSE IF i = at THEN e ELSE s[i - 1]
  <2>1. CASE i <= at
    BY <1>2, <1>5, <2>1
  <2>2. CASE ~ (i <= at)
    <3>1. both[i] = after[i - at]
      BY <1>2, <1>5, <2>2
    <3>2. i - at \in 1 .. Len(s) + 1 - at /\ at + (i - at) - 1 = i - 1
      BY <2>2
    <3> QED
      BY <1>2, <2>2, <3>1, <3>2
  <2> QED
    BY <2>1, <2>2
<1>8. both = [i \in 1 .. Len(s) + 1 |-> both[i]]
  <2> HIDE DEF both
  <2> QED
    BY <1>6, SequenceIsFunction DEF both
<1> QED
  BY <1>3, <1>7, <1>8 DEF front

LEMMA RemoveShiftsDown ==
  ASSUME NEW S, NEW s \in Seq(S), NEW at \in 1 .. Len(s)
  PROVE  RemoveAt(s, at) =
           [i \in 1 .. Len(s) - 1 |-> IF i < at THEN s[i] ELSE s[i + 1]]
<1> DEFINE before == SubSeq(s, 1, at - 1)
           after  == SubSeq(s, at + 1, Len(s))
<1>1. before \in Seq(S) /\ Len(before) = at - 1 /\ \A i \in 1 .. at - 1 : before[i] = s[i]
  OBVIOUS
<1>2. after \in Seq(S) /\ Len(after) = Len(s) - at
      /\ \A i \in 1 .. Len(s) - at : after[i] = s[at + i]
  OBVIOUS
<1>3. RemoveAt(s, at) = before \o after
  BY DEF RemoveAt
<1> HIDE DEF before, after
<1>4. before \o after \in Seq(S) /\ Len(before \o after) = Len(s) - 1
  BY <1>1, <1>2
<1>5. ASSUME NEW i \in 1 .. Len(s) - 1
      PROVE  (before \o after)[i] = IF i < at THEN s[i] ELSE s[i + 1]
  <2>1. CASE i < at
    BY <1>1, <1>2, <2>1
  <2>2. CASE ~ (i < at)
    <3>1. (before \o after)[i] = after[i - (at - 1)]
      BY <1>1, <1>2, <2>2
    <3>2. i - (at - 1) \in 1 .. Len(s) - at /\ at + (i - (at - 1)) = i + 1
      BY <2>2
    <3> QED
      BY <1>2, <2>2, <3>1, <3>2
  <2> QED
    BY <2>1, <2>2
<1> DEFINE both == before \o after
<1>6. both = [i \in 1 .. Len(s) - 1 |-> both[i]]
  <2> HIDE DEF both
  <2> QED
    BY <1>4, SequenceIsFunction DEF both
<1> QED
  BY <1>3, <1>5, <1>6

LEMMA RemoveKeepsType ==
  ASSUME NEW S, NEW s \in Seq(S), NEW at \in 1 .. Len(s)
  PROVE  RemoveAt(s, at) \in Seq(S) /\ Len(RemoveAt(s, at)) = Len(s) - 1
<1> DEFINE shifted == [i \in 1 .. Len(s) - 1 |-> IF i < at THEN s[i] ELSE s[i + 1]]
<1>1. shifted \in [1 .. Len(s) - 1 -> S]
  OBVIOUS
<1> QED
  BY <1>1, RemoveShiftsDown

\* Both loops of movePolicy at once: taking a member out and putting it back.
LEMMA MoveIsRemoveThenInsert ==
  ASSUME NEW S, NEW s \in Seq(S), NEW from \in 1 .. Len(s), NEW to \in 1 .. Len(s)
  PROVE  InsertAt(RemoveAt(s, from), to, s[from]) =
           [i \in DOMAIN s |->
              CASE i = to               -> s[from]
                [] from <= i /\ i < to  -> s[i + 1]
                [] to < i /\ i <= from  -> s[i - 1]
                [] OTHER                -> s[i]]
<1> DEFINE rest == RemoveAt(s, from)
           back == InsertAt(rest, to, s[from])
<1>1. rest \in Seq(S) /\ Len(rest) = Len(s) - 1
  BY RemoveKeepsType
<1>2. \A i \in 1 .. Len(s) - 1 : rest[i] = IF i < from THEN s[i] ELSE s[i + 1]
  BY RemoveShiftsDown
<1> HIDE DEF rest
<1>2a. to \in 1 .. Len(rest) + 1 /\ s[from] \in S
  BY <1>1
<1>3. InsertAt(rest, to, s[from]) =
              [i \in 1 .. Len(rest) + 1 |->
                IF i < to THEN rest[i] ELSE IF i = to THEN s[from] ELSE rest[i - 1]]
  <2> DEFINE member == s[from]
  <2>1. member \in S
    BY <1>2a
  <2> HIDE DEF member
  <2>2. InsertAt(rest, to, member) =
          [i \in 1 .. Len(rest) + 1 |->
             IF i < to THEN rest[i] ELSE IF i = to THEN member ELSE rest[i - 1]]
    BY <1>1, <1>2a, <2>1, InsertShiftsUp
  <2> QED
    BY <2>2 DEF member
<1>4. \A i \in 1 .. Len(s) :
        (IF i < to THEN rest[i] ELSE IF i = to THEN s[from] ELSE rest[i - 1])
        = CASE i = to               -> s[from]
            [] from <= i /\ i < to  -> s[i + 1]
            [] to < i /\ i <= from  -> s[i - 1]
            [] OTHER                -> s[i]
  BY <1>2
<1>5. DOMAIN s = 1 .. Len(rest) + 1
  BY <1>1
<1> HIDE DEF back
<1> QED
  BY <1>3, <1>4, <1>5 DEF back, rest

(* The audit trail: a reader of the events holds the stack that the        *)
(* contract evaluates, whatever the administrators did to it.              *)
THEOREM AuditTrail == Spec => []AuditTrailMatchesStack
<1>1. Init => AuditTrailMatchesStack
  BY DEF Init, StackInit, AuditTrailMatchesStack, V1, V111
<1>2. TypeOK /\ AuditTrailMatchesStack /\ [Next]_vars => AuditTrailMatchesStack'
  <2> SUFFICES ASSUME TypeOK, AuditTrailMatchesStack, [Next]_vars, version' = V1
               PROVE  replayed' = policies'
    BY DEF AuditTrailMatchesStack
  <2>0. version = V1 /\ replayed = policies
    BY DEF AuditTrailMatchesStack, Next, vars
  <2>1. policies \in Seq(Contract) /\ Len(policies) \in Nat
    BY <2>0 DEF TypeOK, RootTypeOK, Stackable
  <2>2. ASSUME NEW s \in Person, TxComposite(s) PROVE replayed' = policies'
    <3>1. CASE \E a \in NewAdmin : CompositeSetAdmin(s, a)
      BY <2>0, <3>1 DEF CompositeSetAdmin
    <3>2. ASSUME NEW p \in PolicyArg, AddPolicy(s, p) PROVE replayed' = policies'
      <4>1. p \in Contract /\ policies' = Append(policies, p)
            /\ replayed' = InsertAt(policies, Len(policies) + 1, p)
        BY <2>0, <3>2 DEF AddPolicy, RequirePolicy
      <4>2. replayed' = [i \in 1 .. Len(policies) + 1 |->
                           IF i < Len(policies) + 1 THEN policies[i]
                           ELSE IF i = Len(policies) + 1 THEN p ELSE policies[i - 1]]
        <5>1. Len(policies) + 1 \in 1 .. Len(policies) + 1
          BY <2>1
        <5>2. InsertAt(policies, Len(policies) + 1, p) =
                [i \in 1 .. Len(policies) + 1 |->
                   IF i < Len(policies) + 1 THEN policies[i]
                   ELSE IF i = Len(policies) + 1 THEN p ELSE policies[i - 1]]
          <6> DEFINE end == Len(policies) + 1
          <6>1. end \in 1 .. Len(policies) + 1
            BY <5>1
          <6> HIDE DEF end
          <6>2. InsertAt(policies, end, p) =
                  [i \in 1 .. Len(policies) + 1 |->
                     IF i < end THEN policies[i] ELSE IF i = end THEN p ELSE policies[i - 1]]
            BY <2>1, <4>1, <6>1, InsertShiftsUp
          <6> QED
            BY <6>2 DEF end
        <5> QED
          BY <4>1, <5>2
      <4> QED
        BY <2>1, <4>1, <4>2
    <3>3. ASSUME NEW at \in 1 .. MaxStack, RemovePolicy(s, at) PROVE replayed' = policies'
      BY <2>0, <2>1, <3>3, RemoveShiftsDown, StackAssumption DEF RemovePolicy
    <3>4. ASSUME NEW at \in 1 .. MaxStack, NEW p \in PolicyArg, InsertPolicy(s, at, p)
          PROVE  replayed' = policies'
      BY <2>0, <2>1, <3>4, InsertShiftsUp, StackAssumption DEF InsertPolicy, RequirePolicy
    <3>5. ASSUME NEW at \in 1 .. MaxStack, NEW p \in PolicyArg, ReplacePolicy(s, at, p)
          PROVE  replayed' = policies'
      BY <2>0, <3>5 DEF ReplacePolicy, ReplaceAt
    <3>6. ASSUME NEW from \in 1 .. MaxStack, NEW to \in 1 .. MaxStack, MovePolicy(s, from, to)
          PROVE  replayed' = policies'
      <4>1. from \in 1 .. Len(policies) /\ to \in 1 .. Len(policies)
        BY <2>1, <3>6, StackAssumption DEF MovePolicy
      <4>2. CASE from = to
        <5>1. \A i \in DOMAIN policies : policies'[i] = policies[i]
          BY <2>1, <3>6, <4>1, <4>2 DEF MovePolicy
        <5>2. policies' = policies
          BY <2>1, <3>6, <5>1 DEF MovePolicy
        <5> QED
          BY <2>0, <3>6, <4>2, <5>2 DEF MovePolicy
      <4>3. CASE from # to
        <5>1. replayed' = InsertAt(RemoveAt(policies, from), to, policies[from])
          BY <2>0, <3>6, <4>3 DEF MovePolicy
        <5> QED
          BY <2>1, <3>6, <4>1, <5>1, MoveIsRemoveThenInsert, ZenonT(60) DEF MovePolicy
      <4> QED
        BY <4>2, <4>3
    <3> QED
      BY <2>0, <2>2, <3>1, <3>2, <3>3, <3>4, <3>5, <3>6 DEF TxComposite, V1, V111
  <2>3. CASE UNCHANGED stackVars
    BY <2>0, <2>3 DEF stackVars
  <2> QED
    BY <2>2, <2>3 DEF Next, vars, TxRegistry, TxLeafPolicies, TxToken
<1> QED
  BY <1>1, <1>2, PolicyTypeCorrect, PTL DEF Spec

-----------------------------------------------------------------------------
(* What a policy in force holds back                                       *)

(* Break-glass: while a frozen freeze is in force no balance falls, for    *)
(* stacks of any length and whatever stands before the freeze.             *)
THEOREM FreezeHolds == Spec => FreezeHoldsTransfers
<1>1. TypeOK /\ [Next]_vars =>
        (InForce(FreezePolicy) /\ frozen =>
           /\ \A a \in Holder : balanceOf'[a] >= balanceOf[a]
           /\ balanceOf' # balanceOf => totalSupply' > totalSupply)
  <2> SUFFICES ASSUME TypeOK, [Next]_vars, InForce(FreezePolicy), frozen
               PROVE  /\ \A a \in Holder : balanceOf'[a] >= balanceOf[a]
                      /\ balanceOf' # balanceOf => totalSupply' > totalSupply
    OBVIOUS
  <2>1. RootTypeOK /\ balanceOf \in [Holder -> 0 .. MaxUint256]
        /\ totalSupply \in 0 .. MaxUint256 /\ MaxUint256 \in Nat
    BY TokenV2Assumption DEF TypeOK, TokenTypeOK
  <2>2. CASE UNCHANGED <<balanceOf, totalSupply>>
    BY <2>1, <2>2
  <2>3. ASSUME NEW s \in Person, NEW to \in Recipient, NEW n \in Amount, Transfer(s, to, n)
        PROVE  FALSE
    <3>1. PolicyVerdict(s, to, n) = Allow
      BY <2>3 DEF Transfer
    <3>2. Decide(FreezePolicy, s, to, n) = Allow
      BY <2>1, <3>1, AllowedByPolicyInForce
    <3> QED
      BY <3>2, PolicyAssumption DEF Decide, Allow, Deny
  <2>4. ASSUME NEW s \in Person, NEW to \in Recipient, NEW n \in Amount, Mint(s, to, n)
        PROVE  /\ \A a \in Holder : balanceOf'[a] >= balanceOf[a]
               /\ balanceOf' # balanceOf => totalSupply' > totalSupply
    <3>1. to \in Holder /\ n \in Nat
      BY <2>1, PolicySystemAssumption DEF Holder
    <3>2. CASE n = 0
      BY <2>1, <2>4, <3>1, <3>2 DEF Mint
    <3>3. CASE n > 0
      BY <2>1, <2>4, <3>1, <3>3 DEF Mint
    <3> QED
      BY <3>1, <3>2, <3>3
  <2>5. ASSUME NEW s \in Person, TxToken(s)
        PROVE  /\ \A a \in Holder : balanceOf'[a] >= balanceOf[a]
               /\ balanceOf' # balanceOf => totalSupply' > totalSupply
    <3>1. CASE \E p \in TokenPolicyArg : SetTransferPolicy(s, p)
      BY <2>2, <3>1 DEF SetTransferPolicy
    <3> QED
      BY <2>3, <2>4, <2>5, <3>1 DEF TxToken
  <2> QED
    BY <2>2, <2>5 DEF Next, vars, tokenVars, TxRegistry, TxLeafPolicies, TxComposite
<1> QED
  BY <1>1, PolicyTypeCorrect, PTL DEF Spec, FreezeHoldsTransfers

(* The identity gate: while it is in force a balance grows by a transfer   *)
(* only for a verified holder, and with requireSenderVerified shrinks only *)
(* for a verified one.                                                     *)
THEOREM GateHoldsAlways == Spec => GateHolds
<1> DEFINE Gated == InForce(GatePolicy) /\ totalSupply' = totalSupply =>
             \A a \in Holder :
               /\ balanceOf'[a] > balanceOf[a] => a # ZeroAddress /\ IsVerified(a)
               /\ balanceOf'[a] < balanceOf[a] /\ requireSenderVerified => IsVerified(a)
<1>1. TypeOK /\ [Next]_vars => Gated
  <2> SUFFICES ASSUME TypeOK, [Next]_vars, InForce(GatePolicy), totalSupply' = totalSupply,
                      NEW a \in Holder
               PROVE  /\ balanceOf'[a] > balanceOf[a] => a # ZeroAddress /\ IsVerified(a)
                      /\ balanceOf'[a] < balanceOf[a] /\ requireSenderVerified => IsVerified(a)
    OBVIOUS
  <2> DEFINE Kept == balanceOf'[a] = balanceOf[a]
  <2>1. RootTypeOK /\ balanceOf \in [Holder -> 0 .. MaxUint256]
        /\ totalSupply \in 0 .. MaxUint256 /\ MaxUint256 \in Nat
    BY TokenV2Assumption DEF TypeOK, TokenTypeOK
  <2>2. ASSUME NEW s \in Person, NEW to \in Recipient, NEW n \in Amount, Mint(s, to, n)
        PROVE  Kept
    <3>1. to \in Holder /\ n \in Nat
      BY <2>1, PolicySystemAssumption DEF Holder
    <3>2. n = 0
      BY <2>1, <2>2, <3>1 DEF Mint
    <3> QED
      BY <2>1, <2>2, <3>1, <3>2 DEF Mint
  <2>3. ASSUME NEW s \in Person, NEW to \in Recipient, NEW n \in Amount, Transfer(s, to, n)
        PROVE  /\ balanceOf'[a] > balanceOf[a] => a # ZeroAddress /\ IsVerified(a)
               /\ balanceOf'[a] < balanceOf[a] /\ requireSenderVerified => IsVerified(a)
    <3>1. s \in Holder /\ to \in Holder /\ n \in 0 .. MaxUint256
      BY PolicySystemAssumption DEF Holder
    <3>2. GateAllows(s, to)
      <4>1. Decide(GatePolicy, s, to, n) = Allow
        BY <2>1, <2>3, AllowedByPolicyInForce DEF Transfer
      <4> QED
        BY <4>1, PolicyAssumption DEF Decide, Allow, Deny
    <3> DEFINE debited == [balanceOf EXCEPT ![s] = @ - n]
    <3>3. debited \in [Holder -> 0 .. MaxUint256]
          /\ debited[s] = balanceOf[s] - n
          /\ \A b \in Holder \ {s} : debited[b] = balanceOf[b]
      BY <2>1, <3>1, <2>3 DEF Transfer
    <3>4. balanceOf' = [debited EXCEPT ![to] = (debited[to] + n) % (MaxUint256 + 1)]
      BY <2>3 DEF Transfer
    <3> HIDE DEF debited
    <3>5. CASE a = to
      BY <3>2, <3>5 DEF GateAllows
    <3>6. CASE a # to
      BY <2>1, <3>1, <3>2, <3>3, <3>4, <3>6 DEF GateAllows
    <3> QED
      BY <3>5, <3>6
  <2>4. CASE UNCHANGED balanceOf
    BY <2>1, <2>4
  <2>5. ASSUME NEW s \in Person, TxToken(s)
        PROVE  /\ balanceOf'[a] > balanceOf[a] => a # ZeroAddress /\ IsVerified(a)
               /\ balanceOf'[a] < balanceOf[a] /\ requireSenderVerified => IsVerified(a)
    <3>1. CASE \E p \in TokenPolicyArg : SetTransferPolicy(s, p)
      BY <2>4, <3>1 DEF SetTransferPolicy
    <3>2. Kept => ~ (balanceOf'[a] > balanceOf[a]) /\ ~ (balanceOf'[a] < balanceOf[a])
      BY <2>1
    <3> QED
      BY <2>2, <2>3, <2>5, <3>1, <3>2 DEF TxToken
  <2> QED
    BY <2>4, <2>5 DEF Next, vars, tokenVars, TxRegistry, TxLeafPolicies, TxComposite
<1> QED
  BY <1>1, PolicyTypeCorrect, PTL DEF Spec, GateHolds

-----------------------------------------------------------------------------
(* The sum of the balances                                                 *)

LEMMA HoldersFinite == IsFiniteSet(Holder)
BY AccountAssumption, FS_AddElement DEF Holder

\* One balance moves the sum by as much.
LEMMA HolderSum ==
  \A f \in [Holder -> Int], a \in Holder, v \in Int :
    SumOver(Holder, [f EXCEPT ![a] = v]) = SumOver(Holder, f) + v - f[a]
BY HoldersFinite, SumExcept

\* Nobody's balance exceeds the supply, so the unchecked addition is exact.
LEMMA TransferKeepsSum ==
  ASSUME TypeOK, BalancesSumToSupply, NEW s \in Person, NEW to \in Recipient, NEW n \in Amount,
         Transfer(s, to, n)
  PROVE  SumOver(Holder, balanceOf') = SumOver(Holder, balanceOf)
<1>1. /\ s \in Holder /\ to \in Holder /\ n \in 0 .. MaxUint256
      /\ balanceOf \in [Holder -> 0 .. MaxUint256] /\ balanceOf \in [Holder -> Int]
      /\ totalSupply \in 0 .. MaxUint256 /\ MaxUint256 \in Nat
  BY PolicySystemAssumption, TokenV2Assumption DEF Holder, TypeOK, TokenTypeOK
<1> DEFINE debited == [balanceOf EXCEPT ![s] = balanceOf[s] - n]
<1>2. /\ debited \in [Holder -> 0 .. MaxUint256] /\ debited \in [Holder -> Int]
      /\ balanceOf[s] - n \in Int /\ balanceOf[s] \in Int
  BY <1>1 DEF Transfer
<1>3. balanceOf' = [debited EXCEPT ![to] = (debited[to] + n) % (MaxUint256 + 1)]
  BY DEF Transfer
<1>4. SumOver(Holder, debited) = SumOver(Holder, balanceOf) + (balanceOf[s] - n) - balanceOf[s]
  BY <1>1, <1>2, HolderSum
<1> HIDE DEF debited
<1>5. SumOver(Holder, debited) = totalSupply - n
  BY <1>1, <1>2, <1>4 DEF BalancesSumToSupply
<1>6. debited[to] <= SumOver(Holder, debited) /\ debited[to] \in Nat
  BY <1>1, <1>2, HoldersFinite, PartOfSum
<1>7. debited[to] + n \in 0 .. MaxUint256
  BY <1>1, <1>5, <1>6
<1>8. (debited[to] + n) % (MaxUint256 + 1) = debited[to] + n
  BY <1>1, <1>7
<1>9. debited[to] + n \in Int
  BY <1>1, <1>6
<1>10. SumOver(Holder, [debited EXCEPT ![to] = debited[to] + n])
         = SumOver(Holder, debited) + (debited[to] + n) - debited[to]
  BY <1>1, <1>2, <1>9, HolderSum
<1>11. SumOver(Holder, balanceOf') = SumOver(Holder, debited) + (debited[to] + n) - debited[to]
  BY <1>3, <1>8, <1>10
<1> QED
  BY <1>1, <1>5, <1>6, <1>11 DEF BalancesSumToSupply

(* The ledger of EquityTokenV2 holds: balances add up to the supply and    *)
(* stay within a uint256, although a transfer computes modulo 2^256 and    *)
(* may credit address(0).                                                  *)
THEOREM LedgerAlwaysHolds == Spec => []LedgerHolds
<1>1. Init => BalancesSumToSupply
  <2> SUFFICES ASSUME Init PROVE BalancesSumToSupply
    OBVIOUS
  <2>1. totalSupply = 0 /\ \A a \in Holder : balanceOf[a] = 0
    BY DEF Init, TokenInit
  <2> QED
    BY <2>1, HoldersFinite, SumOfZeros DEF BalancesSumToSupply
<1>2. TypeOK /\ BalancesSumToSupply /\ [Next]_vars => BalancesSumToSupply'
  <2> SUFFICES ASSUME TypeOK, BalancesSumToSupply, [Next]_vars PROVE BalancesSumToSupply'
    OBVIOUS
  <2>1. CASE UNCHANGED <<balanceOf, totalSupply>>
    BY <2>1 DEF BalancesSumToSupply
  <2>2. ASSUME NEW s \in Person, NEW to \in Recipient, NEW n \in Amount, Transfer(s, to, n)
        PROVE  BalancesSumToSupply'
    BY <2>2, TransferKeepsSum DEF BalancesSumToSupply, Transfer
  <2>3. ASSUME NEW s \in Person, NEW to \in Recipient, NEW n \in Amount, Mint(s, to, n)
        PROVE  BalancesSumToSupply'
    <3>1. /\ to \in Holder /\ n \in Int /\ totalSupply \in Int
          /\ balanceOf \in [Holder -> Int] /\ balanceOf[to] \in Int /\ balanceOf[to] + n \in Int
      BY PolicySystemAssumption, TokenV2Assumption DEF Holder, TypeOK, TokenTypeOK
    <3>2. balanceOf' = [balanceOf EXCEPT ![to] = balanceOf[to] + n] /\ totalSupply' = totalSupply + n
      BY <2>3 DEF Mint
    <3>3. SumOver(Holder, [balanceOf EXCEPT ![to] = balanceOf[to] + n])
            = SumOver(Holder, balanceOf) + (balanceOf[to] + n) - balanceOf[to]
      BY <3>1, HolderSum
    <3> QED
      BY <3>1, <3>2, <3>3 DEF BalancesSumToSupply
  <2>4. ASSUME NEW s \in Person, TxToken(s) PROVE BalancesSumToSupply'
    <3>1. CASE \E p \in TokenPolicyArg : SetTransferPolicy(s, p)
      BY <2>1, <3>1 DEF SetTransferPolicy
    <3> QED
      BY <2>2, <2>3, <2>4, <3>1 DEF TxToken
  <2> QED
    BY <2>1, <2>4 DEF Next, vars, tokenVars, TxRegistry, TxLeafPolicies, TxComposite
<1>3. TypeOK /\ BalancesSumToSupply => LedgerHolds
  BY DEF LedgerHolds
<1> QED
  BY <1>1, <1>2, <1>3, PolicyTypeCorrect, PTL DEF Spec

-----------------------------------------------------------------------------
(* The names in the events: bags of the members                            *)

\* How often x occurs in a sequence.
Places(s, x) == {i \in DOMAIN s : s[i] = x}

Count(s, x) == Cardinality(Places(s, x))

One(x, y) == IF x = y THEN 1 ELSE 0

LEMMA CountType ==
  ASSUME NEW S, NEW s \in Seq(S), NEW x
  PROVE  /\ IsFiniteSet(Places(s, x)) /\ Count(s, x) \in Nat
         /\ x \in Range(s) <=> Count(s, x) > 0
<1>1. IsFiniteSet(1 .. Len(s)) /\ Places(s, x) \subseteq 1 .. Len(s)
  BY FS_Interval DEF Places
<1>2. IsFiniteSet(Places(s, x)) /\ Count(s, x) \in Nat
  BY <1>1, FS_Subset, FS_CardinalityType DEF Count
<1>3. x \in Range(s) <=> Places(s, x) # {}
  BY DEF Places, Range
<1>4. Places(s, x) = {} <=> Count(s, x) = 0
  BY <1>2, FS_EmptySet DEF Count
<1> QED
  BY <1>2, <1>3, <1>4

LEMMA CountAppend ==
  ASSUME NEW S, NEW s \in Seq(S), NEW p \in S, NEW x
  PROVE  Count(Append(s, p), x) = Count(s, x) + One(p, x)
<1> DEFINE n == Len(s) + 1
<1>1. n \notin Places(s, x)
  BY DEF Places
<1>2. CASE p = x
  <2>1. Places(Append(s, p), x) = Places(s, x) \cup {n}
    BY <1>2 DEF Places
  <2> HIDE DEF n
  <2>2. Cardinality(Places(s, x) \cup {n}) = Cardinality(Places(s, x)) + 1
    BY <1>1, CountType, FS_AddElement
  <2> QED
    BY <1>2, <2>1, <2>2 DEF Count, One
<1>3. CASE p # x
  <2>1. Places(Append(s, p), x) = Places(s, x)
    BY <1>3 DEF Places
  <2>2. Count(s, x) \in Nat
    BY CountType
  <2> QED
    BY <1>3, <2>1, <2>2 DEF Count, One
<1> QED
  BY <1>2, <1>3

LEMMA CountReplace ==
  ASSUME NEW S, NEW s \in Seq(S)
  PROVE  \A at \in DOMAIN s, p \in S : \A x :
           Count([s EXCEPT ![at] = p], x) = Count(s, x) - One(s[at], x) + One(p, x)
<1> SUFFICES ASSUME NEW at \in DOMAIN s, NEW p \in S, NEW x
             PROVE  Count([s EXCEPT ![at] = p], x) = Count(s, x) - One(s[at], x) + One(p, x)
  OBVIOUS
<1> DEFINE t == [s EXCEPT ![at] = p]
           P == Places(s, x)
           Q == Places(t, x)
<1>0. IsFiniteSet(P) /\ Cardinality(P) \in Nat
  BY CountType DEF Count
<1>1. DOMAIN t = DOMAIN s /\ \A i \in DOMAIN s : t[i] = IF i = at THEN p ELSE s[i]
  OBVIOUS
<1>2. Count(s, x) = Cardinality(P) /\ Count(t, x) = Cardinality(Q)
  BY DEF Count
<1> HIDE DEF t
<1> SUFFICES Cardinality(Q) = Cardinality(P) - One(s[at], x) + One(p, x)
  BY <1>2 DEF t
<1>3. CASE p = x /\ s[at] # x
  <2>1. Q = P \cup {at} /\ at \notin P
    BY <1>1, <1>3 DEF Places
  <2> HIDE DEF P, Q
  <2>2. Cardinality(P \cup {at}) = Cardinality(P) + 1
    BY <1>0, <2>1, FS_AddElement
  <2> QED
    BY <1>0, <1>3, <2>1, <2>2 DEF One
<1>4. CASE p # x /\ s[at] = x
  <2>1. Q = P \ {at} /\ at \in P
    BY <1>1, <1>4 DEF Places
  <2> HIDE DEF P, Q
  <2>2. Cardinality(P \ {at}) = Cardinality(P) - 1
    BY <1>0, <2>1, FS_RemoveElement
  <2> QED
    BY <1>0, <1>4, <2>1, <2>2 DEF One
<1>5. CASE (p = x) = (s[at] = x)
  <2>1. Q = P
    BY <1>1, <1>5 DEF Places
  <2> HIDE DEF P, Q
  <2> QED
    BY <1>0, <1>5, <2>1 DEF One
<1> QED
  BY <1>3, <1>4, <1>5

LEMMA FrontAppendLast ==
  ASSUME NEW S, NEW s \in Seq(S), s # <<>>
  PROVE  Front(s) \in Seq(S) /\ Last(s) \in S /\ s = Append(Front(s), Last(s))
BY DEF Front, Last

\* Swap and pop: the last member takes the place of the one that goes.
LEMMA CountSwapAndPop ==
  ASSUME NEW S, NEW s \in Seq(S)
  PROVE  \A at \in DOMAIN s : \A x :
           /\ Front([s EXCEPT ![at] = Last(s)]) \in Seq(S)
           /\ Count(Front([s EXCEPT ![at] = Last(s)]), x) = Count(s, x) - One(s[at], x)
<1> SUFFICES ASSUME NEW at \in DOMAIN s, NEW x
             PROVE  /\ Front([s EXCEPT ![at] = Last(s)]) \in Seq(S)
                    /\ Count(Front([s EXCEPT ![at] = Last(s)]), x) = Count(s, x) - One(s[at], x)
  OBVIOUS
<1> DEFINE t == [s EXCEPT ![at] = Last(s)]
           z == Last(s)
<1>1. z \in S /\ t \in Seq(S) /\ t # <<>> /\ Last(t) = z
  BY DEF Last
<1>2. Front(t) \in Seq(S) /\ t = Append(Front(t), z)
  BY <1>1, FrontAppendLast
<1>3. Count(t, x) = Count(s, x) - One(s[at], x) + One(z, x)
  <2> HIDE DEF z
  <2>1. \A a \in DOMAIN s, p \in S : \A y :
          Count([s EXCEPT ![a] = p], y) = Count(s, y) - One(s[a], y) + One(p, y)
    BY CountReplace
  <2>2. Count([s EXCEPT ![at] = z], x) = Count(s, x) - One(s[at], x) + One(z, x)
    BY <1>1, <2>1
  <2> QED
    BY <2>2 DEF z
<1>4. Count(t, x) = Count(Front(t), x) + One(z, x)
  <2> HIDE DEF t, z
  <2>1. Count(Append(Front(t), z), x) = Count(Front(t), x) + One(z, x)
    BY <1>1, <1>2, CountAppend
  <2> QED
    BY <1>2, <2>1
<1>5. Count(s, x) \in Nat /\ Count(t, x) \in Nat /\ Count(Front(t), x) \in Nat
  <2> HIDE DEF t
  <2> QED
    BY <1>1, <1>2, CountType
<1> HIDE DEF t, z
<1>6. Count(Front(t), x) = Count(s, x) - One(s[at], x)
  BY <1>3, <1>4, <1>5 DEF One
<1> QED
  BY <1>2, <1>6 DEF t, z

\* Counts decide what a bag is, so bags follow the counts.
LEMMA BagOfOneMore ==
  ASSUME NEW S, NEW s \in Seq(S), NEW t \in Seq(S), NEW p \in S,
         \A x : Count(t, x) = Count(s, x) + One(p, x)
  PROVE  ToBag(s) (+) SetToBag({p}) = ToBag(t)
<1>1. \A x : /\ Count(s, x) \in Nat /\ Count(t, x) \in Nat
             /\ x \in Range(s) <=> Count(s, x) > 0
             /\ x \in Range(t) <=> Count(t, x) > 0
  BY CountType
<1>2. Range(t) = Range(s) \cup {p}
  BY <1>1 DEF One
<1>3. ToBag(s) = [x \in Range(s) |-> Count(s, x)] /\ ToBag(t) = [x \in Range(t) |-> Count(t, x)]
  BY DEF ToBag, Count, Places
<1>4. ToBag(s) (+) SetToBag({p})
        = [x \in Range(s) \cup {p} |-> (IF x \in Range(s) THEN Count(s, x) ELSE 0)
                                       + (IF x \in {p} THEN 1 ELSE 0)]
  BY <1>3 DEF (+), SetToBag
<1>5. \A x \in Range(t) : Count(t, x) = (IF x \in Range(s) THEN Count(s, x) ELSE 0)
                                       + (IF x \in {p} THEN 1 ELSE 0)
  BY <1>1, <1>2 DEF One
<1> QED
  BY <1>2, <1>3, <1>4, <1>5

LEMMA BagOfOneLess ==
  ASSUME NEW S, NEW s \in Seq(S), NEW t \in Seq(S), NEW p \in S,
         \A x : Count(t, x) = Count(s, x) - One(p, x)
  PROVE  ToBag(s) (-) SetToBag({p}) = ToBag(t)
<1>1. \A x : /\ Count(s, x) \in Nat /\ Count(t, x) \in Nat
             /\ x \in Range(s) <=> Count(s, x) > 0
             /\ x \in Range(t) <=> Count(t, x) > 0
  BY CountType
<1> DEFINE B == [x \in Range(s) |-> IF x \in {p} THEN Count(s, x) - 1 ELSE Count(s, x)]
<1>2. \A x \in Range(s) : B[x] = Count(t, x)
  BY <1>1 DEF One
<1>3. ToBag(s) = [x \in Range(s) |-> Count(s, x)] /\ ToBag(t) = [x \in Range(t) |-> Count(t, x)]
  BY DEF ToBag, Count, Places
<1>4. ToBag(s) (-) SetToBag({p}) = [x \in {d \in Range(s) : B[d] > 0} |-> B[x]]
  BY <1>3 DEF (-), SetToBag
<1>5. {d \in Range(s) : B[d] > 0} = Range(t)
  <2>1. Range(t) \subseteq Range(s)
    BY <1>1 DEF One
  <2> HIDE DEF B
  <2> QED
    BY <1>1, <1>2, <2>1
<1> HIDE DEF B
<1>6. \A x \in Range(t) : B[x] = Count(t, x)
  BY <1>2, <1>5
<1> QED
  BY <1>3, <1>4, <1>5, <1>6

(* The names the events give are the members, each as often as it stands   *)
(* in the stack, whichever member a removal lets fill the gap; and a freeze *)
(* at the head of the stack answers, whatever comes after it.              *)
THEOREM ObserversAreAlwaysTold == Spec => []ObserversAreTold
<1>1. Init => NamesMatchStack
  BY DEF Init, V111Init, NamesMatchStack, V1, V111
<1>2. TypeOK /\ NamesMatchStack /\ [Next]_vars => NamesMatchStack'
  <2> SUFFICES ASSUME TypeOK, NamesMatchStack, [Next]_vars, version' = V111
               PROVE  named' = ToBag(policies')
    BY DEF NamesMatchStack
  <2>0. version = V111 /\ named = ToBag(policies)
    BY DEF NamesMatchStack, Next, vars
  <2>1. policies \in Seq(Account) /\ Len(policies) \in Nat
    BY <2>0 DEF TypeOK, RootTypeOK, Stackable, V1, V111
  <2>2. CASE UNCHANGED <<policies, named>>
    BY <2>0, <2>2
  <2>3. ASSUME NEW s \in Person, NEW p \in PolicyArg, V111AddPolicy(s, p)
        PROVE  named' = ToBag(policies')
    <3>1. p \in Account /\ policies' = Append(policies, p) /\ policies' \in Seq(Account)
      BY <2>1, <2>3, PolicySystemAssumption DEF V111AddPolicy
    <3>2. \A x : Count(policies', x) = Count(policies, x) + One(p, x)
      BY <2>1, <3>1, CountAppend
    <3> DEFINE next == policies'
    <3>3. next \in Seq(Account) /\ \A x : Count(next, x) = Count(policies, x) + One(p, x)
      BY <3>1, <3>2
    <3> HIDE DEF next
    <3>4. ToBag(policies) (+) SetToBag({p}) = ToBag(next)
      BY <2>1, <3>1, <3>3, BagOfOneMore
    <3> QED
      BY <2>0, <2>3, <3>4 DEF V111AddPolicy, next
  <2>4. ASSUME NEW at \in 1 .. MaxStack, at <= Len(policies)
        PROVE  /\ at \in DOMAIN policies /\ policies[at] \in Account
               /\ Front([policies EXCEPT ![at] = Last(policies)]) \in Seq(Account)
               /\ \A x : Count(Front([policies EXCEPT ![at] = Last(policies)]), x)
                           = Count(policies, x) - One(policies[at], x)
               /\ ToBag(policies) (-) SetToBag({policies[at]})
                    = ToBag(Front([policies EXCEPT ![at] = Last(policies)]))
    <3> DEFINE rest == Front([policies EXCEPT ![at] = Last(policies)])
    <3>1. at \in DOMAIN policies /\ policies[at] \in Account
      BY <2>1, <2>4, StackAssumption
    <3>2. rest \in Seq(Account) /\ \A x : Count(rest, x) = Count(policies, x) - One(policies[at], x)
      <4>1. \A a \in DOMAIN policies : \A x :
              /\ Front([policies EXCEPT ![a] = Last(policies)]) \in Seq(Account)
              /\ Count(Front([policies EXCEPT ![a] = Last(policies)]), x)
                   = Count(policies, x) - One(policies[a], x)
        BY <2>1, CountSwapAndPop
      <4> QED
        BY <3>1, <4>1
    <3> DEFINE q == policies[at]
    <3> HIDE DEF rest
    <3>3. q \in Account /\ \A x : Count(rest, x) = Count(policies, x) - One(q, x)
      BY <3>1, <3>2
    <3> HIDE DEF q
    <3>4. ToBag(policies) (-) SetToBag({q}) = ToBag(rest)
      BY <2>1, <3>2, <3>3, BagOfOneLess
    <3> QED
      BY <3>1, <3>2, <3>4 DEF rest, q
  <2>5. ASSUME NEW s \in Person, NEW at \in 1 .. MaxStack, V111RemovePolicy(s, at)
        PROVE  named' = ToBag(policies')
    BY <2>0, <2>4, <2>5 DEF V111RemovePolicy
  <2>6. ASSUME NEW s \in Person, NEW at \in 1 .. MaxStack, NEW p \in PolicyArg, V111ReplacePolicy(s, at, p)
        PROVE  named' = ToBag(policies')
    <3> DEFINE rest == Front([policies EXCEPT ![at] = Last(policies)])
    <3>1. /\ at \in DOMAIN policies /\ policies[at] \in Account /\ rest \in Seq(Account)
          /\ \A x : Count(rest, x) = Count(policies, x) - One(policies[at], x)
          /\ ToBag(policies) (-) SetToBag({policies[at]}) = ToBag(rest)
      BY <2>4, <2>6 DEF V111ReplacePolicy
    <3> HIDE DEF rest
    <3>2. /\ p \in Account /\ policies' = [policies EXCEPT ![at] = p]
          /\ named' = ToBag(rest) (+) SetToBag({p})
      BY <2>0, <2>6, <3>1, PolicySystemAssumption DEF V111ReplacePolicy
    <3>3. policies' \in Seq(Account)
      BY <2>1, <3>1, <3>2
    <3>4. \A x : Count(policies', x) = Count(policies, x) - One(policies[at], x) + One(p, x)
      <4>1. \A a \in DOMAIN policies, q \in Account : \A x :
              Count([policies EXCEPT ![a] = q], x)
                = Count(policies, x) - One(policies[a], x) + One(q, x)
        BY <2>1, CountReplace
      <4> QED
        BY <3>1, <3>2, <4>1
    <3>5. \A x : Count(policies, x) \in Nat /\ Count(rest, x) \in Nat
      BY <2>1, <3>1, CountType
    <3>6. \A x : Count(policies', x) = Count(rest, x) + One(p, x)
      BY <3>1, <3>4, <3>5 DEF One
    <3>7. ToBag(rest) (+) SetToBag({p}) = ToBag(policies')
      <4> DEFINE next == policies'
      <4>1. next \in Seq(Account) /\ \A x : Count(next, x) = Count(rest, x) + One(p, x)
        BY <3>3, <3>6
      <4> HIDE DEF next
      <4>2. ToBag(rest) (+) SetToBag({p}) = ToBag(next)
        BY <3>1, <3>2, <4>1, BagOfOneMore
      <4> QED
        BY <4>2 DEF next
    <3> QED
      BY <3>2, <3>7
  <2>7. ASSUME NEW s \in Person, TxComposite(s) PROVE named' = ToBag(policies')
    <3>1. CASE \E a \in NewAdmin : CompositeSetAdmin(s, a) /\ UNCHANGED named
      BY <2>2, <3>1 DEF CompositeSetAdmin
    <3> QED
      BY <2>0, <2>3, <2>5, <2>6, <2>7, <3>1 DEF TxComposite, V1, V111
  <2> QED
    BY <2>2, <2>7 DEF Next, vars, stackVars, TxRegistry, TxLeafPolicies, TxToken
<1>3. TypeOK => HeadFreezeAnswers
  <2> SUFFICES ASSUME TypeOK, policies # <<>>, policies[1] = FreezePolicy, frozen,
                      NEW from \in Person, NEW to \in Recipient, NEW n \in Amount
               PROVE  /\ CompositeCanTransfer(from, to, n) = Deny
                      /\ CanTransferTrace(from, to, n).policy = FreezePolicy
    BY DEF HeadFreezeAnswers
  <2> DEFINE no == Objections(from, to, n)
  <2>1. 1 \in DOMAIN policies /\ DOMAIN policies \subseteq Nat \ {0}
    BY DEF TypeOK, RootTypeOK
  <2>2. Decide(FreezePolicy, from, to, n) = Deny
    BY PolicyAssumption DEF Decide
  <2>3. 1 \in no /\ no \in SUBSET Nat /\ 0 \notin no
    BY <2>1, <2>2 DEF Objections, Allow, Deny
  <2>4. Min(no) = 1
    <3> HIDE DEF no
    <3>1. Min(no) \in no /\ Min(no) <= 1
      BY <2>3, LeastOfNaturals
    <3>2. Min(no) \in Nat /\ Min(no) # 0
      BY <2>3, <3>1
    <3> QED
      BY <3>1, <3>2
  <2> QED
    BY <2>2, <2>3, <2>4 DEF CompositeCanTransfer, CanTransferTrace
<1>4. TypeOK /\ NamesMatchStack => ObserversAreTold
  BY <1>3 DEF ObserversAreTold
<1> QED
  BY <1>1, <1>2, <1>4, PolicyTypeCorrect, PTL DEF Spec

=============================================================================
