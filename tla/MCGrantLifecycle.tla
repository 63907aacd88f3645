-------------------------- MODULE MCGrantLifecycle --------------------------
(* Small instances of GrantLifecycle: grants and trust chains are          *)
(* interchangeable model values.                                           *)
EXTENDS GrantLifecycle

Symmetry == Permutations(GrantId) \cup Permutations(TrustHash)
=============================================================================
