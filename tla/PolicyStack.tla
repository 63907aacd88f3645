------------------------------ MODULE PolicyStack ------------------------------
(***************************************************************************)
(* contracts/policy/CompositePolicy.sol, its state and the administrator's *)
(* operations on the ordered list of policies.                             *)
(*                                                                         *)
(* policies is a sequence, so index i of the contract is position i + 1    *)
(* here.  replayed is what a reader of the event log reconstructs: it is   *)
(* changed only from the arguments of the emitted event.                   *)
(***************************************************************************)
EXTENDS Addresses, SequencesExt

CONSTANTS
  Contract,     \* the addresses with code
  MaxStack      \* bound on the length of the stack

ASSUME StackAssumption == Contract \subseteq Account /\ MaxStack \in Nat

VARIABLES
  compositeAdmin,   \* address admin
  policies,         \* address[] _policies
  replayed          \* history: the stack according to the emitted events

stackVars == <<compositeAdmin, policies, replayed>>

StackTypeOK ==
  /\ compositeAdmin \in Account
  /\ policies \in Seq(Contract) /\ Len(policies) <= MaxStack

StackInit(initialPolicies) ==
  /\ initialPolicies \in Seq(Contract)
  /\ compositeAdmin = Deployer
  /\ policies = initialPolicies
  /\ replayed = initialPolicies

\* Mutant: an address without code is accepted.
RequireNonZero(policy) == policy # ZeroAddress

\* _requirePolicy cannot tell a policy from another contract.
RequirePolicy(policy) == policy # ZeroAddress /\ policy \in Contract

-----------------------------------------------------------------------------
CompositeSetAdmin(sender, newAdmin) ==
  /\ sender = compositeAdmin /\ newAdmin # ZeroAddress
  /\ compositeAdmin' = newAdmin
  /\ UNCHANGED <<policies, replayed>>

AddPolicy(sender, policy) ==
  /\ sender = compositeAdmin /\ RequirePolicy(policy)
  /\ Len(policies) < MaxStack
  /\ policies' = Append(policies, policy)
  /\ replayed' = InsertAt(replayed, Len(policies) + 1, policy)
  /\ UNCHANGED compositeAdmin

\* The loop shifts positions above the index up by one, from the end.
InsertPolicy(sender, at, policy) ==
  /\ sender = compositeAdmin /\ RequirePolicy(policy)
  /\ at <= Len(policies) + 1
  /\ Len(policies) < MaxStack
  /\ policies' = [i \in 1 .. Len(policies) + 1 |->
                    IF i < at THEN policies[i]
                    ELSE IF i = at THEN policy ELSE policies[i - 1]]
  /\ replayed' = InsertAt(replayed, at, policy)
  /\ UNCHANGED compositeAdmin

\* Mutant: the last policy fills the gap (swap and pop), which reorders the stack.
RemoveBySwapping(sender, at) ==
  /\ sender = compositeAdmin
  /\ at <= Len(policies)
  /\ policies' = [i \in 1 .. Len(policies) - 1 |->
                    IF i = at THEN policies[Len(policies)] ELSE policies[i]]
  /\ replayed' = RemoveAt(replayed, at)
  /\ UNCHANGED compositeAdmin

\* The loop shifts positions above the index down by one, then pops.
RemovePolicy(sender, at) ==
  /\ sender = compositeAdmin
  /\ at <= Len(policies)
  /\ policies' = [i \in 1 .. Len(policies) - 1 |->
                    IF i < at THEN policies[i] ELSE policies[i + 1]]
  /\ replayed' = RemoveAt(replayed, at)
  /\ UNCHANGED compositeAdmin

\* One loop per direction; equal indices return without an event.
MovePolicy(sender, from, to) ==
  /\ sender = compositeAdmin
  /\ from <= Len(policies) /\ to <= Len(policies)
  /\ policies' = [i \in DOMAIN policies |->
                    CASE i = to               -> policies[from]
                      [] from <= i /\ i < to  -> policies[i + 1]
                      [] to < i /\ i <= from  -> policies[i - 1]
                      [] OTHER                -> policies[i]]
  /\ replayed' = IF from = to THEN replayed
                 ELSE InsertAt(RemoveAt(replayed, from), to, replayed[from])
  /\ UNCHANGED compositeAdmin

ReplacePolicy(sender, at, policy) ==
  /\ sender = compositeAdmin /\ RequirePolicy(policy)
  /\ at <= Len(policies)
  /\ policies' = [policies EXCEPT ![at] = policy]
  /\ replayed' = ReplaceAt(replayed, at, policy)
  /\ UNCHANGED compositeAdmin

=============================================================================
