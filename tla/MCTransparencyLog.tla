-------------------------- MODULE MCTransparencyLog --------------------------
(* Small instances of TransparencyLog: artifacts and processes are         *)
(* interchangeable model values.                                           *)
EXTENDS TransparencyLog, TLC

\* Everything, one run at a time; or the three writers, two at a time.
SerialOrWriters ==
  {[scripts |-> AllScripts, running |-> 1],
   [scripts |-> {"generic", "lifecycle", "replay"}, running |-> 2]}

Symmetry == Permutations(Artifact) \cup Permutations(Process)
=============================================================================
