---------------------------- MODULE CompositePolicy ----------------------------
(***************************************************************************)
(* contracts/policy/CompositePolicy.sol as a transfer policy: every member *)
(* of the stack must allow a transfer.  The evaluation stops at the first  *)
(* member that does not answer true: with false, or by reverting.          *)
(***************************************************************************)
EXTENDS TransferPolicies, PolicyStack

ASSUME CompositeAssumption == {FreezePolicy, GatePolicy, MinPolicy} \subseteq Contract

\* Positions whose policy does not allow the transfer.
Objections(from, to, amount) ==
  {i \in DOMAIN policies : Decide(policies[i], from, to, amount) # Allow}

\* Mutant: the loop returns after the first policy.
CompositeFirstDecides(from, to, amount) ==
  IF policies = <<>> THEN Allow ELSE Decide(policies[1], from, to, amount)

\* Mutant: the loop runs down from the last policy, as the shifting loops do.
CompositeFromTheEnd(from, to, amount) ==
  LET no == Objections(from, to, amount)
  IN  IF no = {} THEN Allow ELSE Decide(policies[Max(no)], from, to, amount)

CompositeCanTransfer(from, to, amount) ==
  LET no == Objections(from, to, amount)
  IN  IF no = {} THEN Allow ELSE Decide(policies[Min(no)], from, to, amount)

\* canTransferTrace, where it does not revert; position 0 stands for type(uint256).max.
CanTransferTrace(from, to, amount) ==
  LET no == Objections(from, to, amount)
  IN  IF no = {} THEN [allowed |-> TRUE, failure |-> 0, policy |-> ZeroAddress]
      ELSE [allowed |-> FALSE, failure |-> Min(no), policy |-> policies[Min(no)]]

=============================================================================
