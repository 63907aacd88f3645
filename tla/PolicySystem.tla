----------------------------- MODULE PolicySystem -----------------------------
(***************************************************************************)
(* The policy experiment: IdentityRegistry, three leaf policies, the       *)
(* composite that stacks them and EquityTokenV2, which asks the stack      *)
(* before every transfer.  The composite deployed is CompositePolicy or    *)
(* CompositePolicyV111.  Six contracts, six administrators; a step is one  *)
(* transaction of an externally owned account.                             *)
(***************************************************************************)
EXTENDS EquityTokenV2, PolicyStackV111, SetSums

CONSTANTS
  Person,         \* externally owned accounts, the senders of transactions
  Recipient,      \* recipients of transfers and mints
  Amount,         \* amounts of transfers and mints
  PolicyArg,      \* addresses given to the composite's admin calls
  TokenPolicyArg, \* addresses given to setTransferPolicy
  InitialStack    \* the constructor's initialPolicies

ASSUME PolicySystemAssumption ==
  /\ Person \subseteq Account \ Contract
  /\ Recipient \subseteq Account \cup {ZeroAddress}
  /\ Amount \subseteq 0 .. MaxUint256
  /\ PolicyArg \cup TokenPolicyArg \subseteq Account \cup {ZeroAddress}
  /\ InitialStack \subseteq Seq(Contract)

ASSUME InitialStacksFit == \A s \in InitialStack : Len(s) <= MaxStack

VARIABLE version   \* the code at the address Composite

V1   == "CompositePolicy"
V111 == "CompositePolicyV111"

vars == <<version, named, registryVars, policyVars, stackVars, tokenVars>>

Init ==
  /\ RegistryInit /\ PoliciesInit /\ TokenInit
  /\ \E s \in InitialStack :
       \/ version = V1 /\ StackInit(s) /\ named = EmptyBag
       \/ version = V111 /\ V111Init(s)

-----------------------------------------------------------------------------
TxRegistry(s) ==
  /\ \/ \E a \in NewAdmin : RegistrySetAdmin(s, a)
     \/ \E u \in StatusUser, st \in StatusArg : SetStatus(s, u, st)
  /\ UNCHANGED <<policyVars, stackVars, named, tokenVars>>

TxLeafPolicies(s) ==
  /\ \/ \E a \in NewAdmin :
          SetEmergencyAdmin(s, a) \/ GateSetAdmin(s, a) \/ MinSetAdmin(s, a)
     \/ EmergencyFreeze(s)
     \/ EmergencyUnfreeze(s)
     \/ \E v \in BOOLEAN : SetRequireSenderVerified(s, v)
     \/ \E n \in MinAmountArg : SetMinAmount(s, n)
  /\ UNCHANGED <<registryVars, stackVars, named, tokenVars>>

TxComposite(s) ==
  /\ \/ \E a \in NewAdmin : CompositeSetAdmin(s, a) /\ UNCHANGED named
     \/ /\ version = V1 /\ UNCHANGED named
        /\ \/ \E p \in PolicyArg : AddPolicy(s, p)
           \/ \E i \in 1 .. MaxStack : RemovePolicy(s, i)
           \/ \E i \in 1 .. MaxStack, p \in PolicyArg : InsertPolicy(s, i, p)
           \/ \E i \in 1 .. MaxStack, p \in PolicyArg : ReplacePolicy(s, i, p)
           \/ \E i, j \in 1 .. MaxStack : MovePolicy(s, i, j)
     \/ /\ version = V111
        /\ \/ \E p \in PolicyArg : V111AddPolicy(s, p)
           \/ \E i \in 1 .. MaxStack : V111RemovePolicy(s, i)
           \/ \E i \in 1 .. MaxStack, p \in PolicyArg : V111ReplacePolicy(s, i, p)
  /\ UNCHANGED <<registryVars, policyVars, tokenVars>>

TxToken(s) ==
  /\ \/ \E p \in TokenPolicyArg : SetTransferPolicy(s, p)
     \/ \E to \in Recipient, n \in Amount : Transfer(s, to, n) \/ Mint(s, to, n)
  /\ UNCHANGED <<registryVars, policyVars, stackVars, named>>

Next ==
  /\ \E s \in Person : TxRegistry(s) \/ TxLeafPolicies(s) \/ TxComposite(s) \/ TxToken(s)
  /\ UNCHANGED version

Spec == Init /\ [][Next]_vars

-----------------------------------------------------------------------------
\* Only CompositePolicy looks for code at the address of a new policy.
Stackable == IF version = V1 THEN Contract ELSE Account

RootTypeOK ==
  /\ compositeAdmin \in Account
  /\ policies \in Seq(Stackable) /\ Len(policies) <= MaxStack

TypeOK ==
  /\ version \in {V1, V111}
  /\ RegistryTypeOK /\ PoliciesTypeOK /\ RootTypeOK /\ TokenTypeOK

(* CompositePolicy.sol's "auditable" claim: whoever replays the PolicyAdded,*)
(* PolicyInserted, PolicyRemoved, PolicyMoved and PolicyReplaced events     *)
(* from the constructor on holds the stack the contract evaluates, although *)
(* the shifting loops never look at the events.                             *)
AuditTrailMatchesStack == version = V1 => replayed = policies

(* The events of CompositePolicyV111 name the policies that go, and its    *)
(* removal reorders the stack: an auditor who goes by the names has the    *)
(* members, each as often as the contract holds it, if not their order.    *)
NamesMatchStack == version = V111 => named = ToBag(policies)

(* A member of the stack binds the token while the token asks the stack.   *)
InForce(policy) ==
  transferPolicy = Composite /\ \E i \in DOMAIN policies : policies[i] = policy

(* Break-glass (EmergencyFreezePolicyV2): while the freeze is in force no  *)
(* balance falls, wherever in the stack the freeze stands and whatever     *)
(* stands before it; only the admin's mint, which asks no policy, adds.    *)
FreezeHoldsTransfers ==
  [][InForce(FreezePolicy) /\ frozen =>
       /\ \A a \in Holder : balanceOf'[a] >= balanceOf[a]
       /\ balanceOf' # balanceOf => totalSupply' > totalSupply]_vars

(* Identity gate (ComplianceGatedPolicyV1): while it is in force a balance *)
(* grows by a transfer only if its holder is verified; with                *)
(* requireSenderVerified, it shrinks only if its holder is verified.       *)
GateHolds ==
  [][InForce(GatePolicy) /\ totalSupply' = totalSupply =>
       \A a \in Holder :
         /\ balanceOf'[a] > balanceOf[a] => a # ZeroAddress /\ IsVerified(a)
         /\ balanceOf'[a] < balanceOf[a] /\ requireSenderVerified => IsVerified(a)]_vars

(* A frozen freeze policy at the head of the stack shields it: transfers   *)
(* are refused by name, not by a revert, even when a later member is no    *)
(* policy at all, so the trace helper of regulators keeps answering.       *)
HeadFreezeAnswers ==
  policies # <<>> /\ policies[1] = FreezePolicy /\ frozen =>
    \A from \in Person, to \in Recipient, n \in Amount :
      /\ CompositeCanTransfer(from, to, n) = Deny
      /\ CanTransferTrace(from, to, n).policy = FreezePolicy

(* What the composites tell those who watch them: the names in the events  *)
(* of V1.1.1, the reason in the trace of V1.                               *)
ObserversAreTold == NamesMatchStack /\ HeadFreezeAnswers

(* EquityTokenV2.sol transfers in an unchecked block: the balances still   *)
(* add up to totalSupply, so the addition never wraps; with the gate out   *)
(* of the stack, address(0) may hold units, which stay in the sum.         *)
BalancesSumToSupply == SumOver(Holder, balanceOf) = totalSupply

(* EquityTokenV2.sol and the contracts around it: every balance has its    *)
(* width although arithmetic is unchecked, because the sum has.            *)
LedgerHolds == TypeOK /\ BalancesSumToSupply

=============================================================================
