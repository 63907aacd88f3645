---- MODULE MCPolicySystem ----
(* Small instances of PolicySystem: two people who both hold units, three  *)
(* policies, and the CompositePolicy (other) that the token may ask.  An   *)
(* address without code may be put into a stack: asking it reverts.        *)
EXTENDS PolicySystem

CONSTANTS admin, holder, freeze, gate, min, other

Everybody == {admin, holder, freeze, gate, min, other}

GatedStacks == {<<gate>>, <<gate, min>>, <<freeze, gate>>}
====
