--------------------------- MODULE PolicyStackV111 ---------------------------
(***************************************************************************)
(* contracts/policy/CompositePolicyV111.sol, the composite the repository  *)
(* deploys as the root of its policies.  It evaluates and traces as        *)
(* CompositePolicy does; it accepts any address but address(0), an         *)
(* account without code included, has no insert and no move, and fills the *)
(* gap of a removed policy with the last one.                              *)
(*                                                                         *)
(* PolicyRemoved and PolicyReplaced name the policy that went, so an       *)
(* auditor can keep account of the members even though removal reorders    *)
(* them: named is that account, changed only from the emitted events.      *)
(***************************************************************************)
EXTENDS PolicyStack

VARIABLE named   \* history: how often each policy is a member, by the events

\* The constructor emits PolicyAdded for each member.
V111Init(initialPolicies) ==
  /\ compositeAdmin = Deployer
  /\ policies = initialPolicies
  /\ replayed = <<>>
  /\ named = ToBag(initialPolicies)

V111AddPolicy(sender, policy) ==
  /\ sender = compositeAdmin /\ policy # ZeroAddress
  /\ Len(policies) < MaxStack
  /\ policies' = Append(policies, policy)
  /\ named' = named (+) SetToBag({policy})
  /\ UNCHANGED <<compositeAdmin, replayed>>

V111ReplacePolicy(sender, at, policy) ==
  /\ sender = compositeAdmin /\ policy # ZeroAddress
  /\ at <= Len(policies)
  /\ policies' = [policies EXCEPT ![at] = policy]
  /\ named' = (named (-) SetToBag({policies[at]})) (+) SetToBag({policy})
  /\ UNCHANGED <<compositeAdmin, replayed>>

\* Mutant: the pop without the swap, which takes the last policy instead.
V111RemoveLast(sender, at) ==
  /\ sender = compositeAdmin
  /\ at <= Len(policies)
  /\ policies' = Front(policies)
  /\ named' = named (-) SetToBag({policies[at]})
  /\ UNCHANGED <<compositeAdmin, replayed>>

V111RemovePolicy(sender, at) ==
  /\ sender = compositeAdmin
  /\ at <= Len(policies)
  /\ policies' = Front([policies EXCEPT ![at] = Last(policies)])
  /\ named' = named (-) SetToBag({policies[at]})
  /\ UNCHANGED <<compositeAdmin, replayed>>

=============================================================================
