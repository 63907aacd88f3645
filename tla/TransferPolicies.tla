--------------------------- MODULE TransferPolicies ---------------------------
(***************************************************************************)
(* The leaf policies of the policy experiment, each a contract with one    *)
(* switch and an admin: EmergencyFreezePolicyV2, ComplianceGatedPolicyV1   *)
(* and MinAmountPolicyV1.  Decide is the external call canTransfer: it     *)
(* answers true or false, or reverts when the callee is not a transfer     *)
(* policy (another contract, or an account without code).                  *)
(***************************************************************************)
EXTENDS IdentityRegistry

CONSTANTS
  FreezePolicy, GatePolicy, MinPolicy,   \* the three deployed policies
  MinAmountArg                           \* the arguments of setMinAmount

ASSUME PolicyAssumption ==
  /\ {FreezePolicy, GatePolicy, MinPolicy} \subseteq Account
  /\ FreezePolicy # GatePolicy /\ GatePolicy # MinPolicy /\ FreezePolicy # MinPolicy
  /\ MinAmountArg \subseteq Nat

VARIABLES
  frozen, emergencyAdmin,            \* EmergencyFreezePolicyV2
  requireSenderVerified, gateAdmin,  \* ComplianceGatedPolicyV1
  minAmount, minAmountAdmin          \* MinAmountPolicyV1

freezeVars == <<frozen, emergencyAdmin>>
gateVars   == <<requireSenderVerified, gateAdmin>>
minVars    == <<minAmount, minAmountAdmin>>
policyVars == <<freezeVars, gateVars, minVars>>

PoliciesTypeOK ==
  /\ frozen \in BOOLEAN /\ emergencyAdmin \in Account
  /\ requireSenderVerified \in BOOLEAN /\ gateAdmin \in Account
  /\ minAmount \in MinAmountArg \cup {0} /\ minAmountAdmin \in Account

PoliciesInit ==
  /\ frozen = FALSE /\ emergencyAdmin = Deployer
  /\ requireSenderVerified \in BOOLEAN /\ gateAdmin = Deployer
  /\ minAmount = 0 /\ minAmountAdmin = Deployer

Allow   == "allow"
Deny    == "deny"
Reverts == "reverts"

GateAllows(from, to) ==
  /\ to # ZeroAddress
  /\ IsVerified(to)
  /\ requireSenderVerified => IsVerified(from)

Decide(policy, from, to, amount) ==
  LET verdict(b) == IF b THEN Allow ELSE Deny IN
  CASE policy = FreezePolicy -> verdict(~ frozen)
    [] policy = GatePolicy   -> verdict(GateAllows(from, to))
    [] policy = MinPolicy    -> verdict(amount >= minAmount)
    [] OTHER                 -> Reverts

SetEmergencyAdmin(sender, newAdmin) ==
  /\ sender = emergencyAdmin /\ newAdmin # ZeroAddress
  /\ emergencyAdmin' = newAdmin
  /\ UNCHANGED <<frozen, gateVars, minVars>>

EmergencyFreeze(sender) ==
  /\ sender = emergencyAdmin /\ ~ frozen
  /\ frozen' = TRUE
  /\ UNCHANGED <<emergencyAdmin, gateVars, minVars>>

EmergencyUnfreeze(sender) ==
  /\ sender = emergencyAdmin /\ frozen
  /\ frozen' = FALSE
  /\ UNCHANGED <<emergencyAdmin, gateVars, minVars>>

GateSetAdmin(sender, newAdmin) ==
  /\ sender = gateAdmin /\ newAdmin # ZeroAddress
  /\ gateAdmin' = newAdmin
  /\ UNCHANGED <<requireSenderVerified, freezeVars, minVars>>

SetRequireSenderVerified(sender, v) ==
  /\ sender = gateAdmin
  /\ requireSenderVerified' = v
  /\ UNCHANGED <<gateAdmin, freezeVars, minVars>>

MinSetAdmin(sender, newAdmin) ==
  /\ sender = minAmountAdmin /\ newAdmin # ZeroAddress
  /\ minAmountAdmin' = newAdmin
  /\ UNCHANGED <<minAmount, freezeVars, gateVars>>

SetMinAmount(sender, n) ==
  /\ sender = minAmountAdmin
  /\ minAmount' = n
  /\ UNCHANGED <<minAmountAdmin, freezeVars, gateVars>>

=============================================================================
