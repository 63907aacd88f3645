-------------------------- MODULE IdentityRegistry --------------------------
(***************************************************************************)
(* contracts/IdentityRegistry.sol: one status per address, written by the  *)
(* registry's admin.  A call that reverts changes nothing, so a require or *)
(* revert of the source is a guard here: the action is not enabled.        *)
(***************************************************************************)
EXTENDS Addresses

CONSTANTS
  StatusUser,   \* the users setStatus is called for
  StatusArg     \* the status codes setStatus is called with (a uint8)

ASSUME RegistryAssumption ==
  /\ StatusUser \subseteq Account \cup {ZeroAddress}
  /\ StatusArg \subseteq Nat

VARIABLES
  status,         \* mapping(address => uint8) _status
  registryAdmin   \* address admin

registryVars == <<status, registryAdmin>>

Unverified == 0
Verified   == 1
Restricted == 2

RegistryTypeOK ==
  /\ status \in [Account -> {Unverified, Verified, Restricted}]
  /\ registryAdmin \in Account

RegistryInit ==
  /\ status = [a \in Account |-> Unverified]
  /\ registryAdmin = Deployer

IsVerified(user) == status[user] = Verified

RegistrySetAdmin(sender, newAdmin) ==
  /\ sender = registryAdmin
  /\ newAdmin # ZeroAddress
  /\ registryAdmin' = newAdmin
  /\ UNCHANGED status

SetStatus(sender, user, newStatus) ==
  /\ sender = registryAdmin
  /\ user # ZeroAddress
  /\ newStatus <= 2
  /\ status' = [status EXCEPT ![user] = newStatus]
  /\ UNCHANGED registryAdmin

=============================================================================
