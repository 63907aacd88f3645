--------------------------- MODULE MCCheckpointChain ---------------------------
(* Small instances of CheckpointChain.                                     *)
EXTENDS CheckpointChain, TLC

(* Everybody is asked and must sign, or one of the witnesses is enough.    *)
BothOrOne == {[members |-> Witness, threshold |-> 2]} \cup {[members |-> {w}, threshold |-> 1] : w \in Witness}

Symmetry == Permutations(Witness)
=============================================================================
