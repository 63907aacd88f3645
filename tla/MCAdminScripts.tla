---- MODULE MCAdminScripts ----
(* Small instances of AdminRotation and the SetStackScript in it: the      *)
(* freeze and gate policies are wanted, min is an extra one.               *)
EXTENDS AdminRotation

CONSTANTS admin, safe, freeze, gate, min

Everybody == {admin, safe, freeze, gate, min}

FreezeThenGate == <<freeze, gate>>

SmallStacks == UNION {[1 .. n -> Contract] : n \in 0 .. 3}

\* The scripts rotate-protocol-admins-to-safe, rotate-vesting-admin-to-safe
\* and rotate-composite-admin-to-safe.
RotationScripts == {<<"registry", "token", "vesting", "composite">>, <<"vesting">>, <<"composite">>}
====
