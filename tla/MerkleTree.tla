------------------------------ MODULE MerkleTree ------------------------------
(***************************************************************************)
(* The Merkle tree of build-merkle-root.mjs and verify-grant-proof.mjs:    *)
(* the last node of an odd layer is paired with itself.  A hash is what it *)
(* is a hash of; leaves and nodes are told apart, as SHA-256 does.         *)
(***************************************************************************)
EXTENDS Integers, Sequences, FiniteSetsExt, SequencesExt

Leaf(x)    == <<"leaf", x>>
Node(l, r) == <<"node", l, r>>

Pairs(layer) ==
  [i \in 1 .. (Len(layer) + 1) \div 2 |->
     Node(layer[2 * i - 1], IF 2 * i <= Len(layer) THEN layer[2 * i] ELSE layer[2 * i - 1])]

\* Layers[k] lies k above the leaves; the root's layer is the first of one.
Layers(leaves) ==
  LET layer[k \in 0 .. Len(leaves)] == IF k = 0 THEN leaves ELSE Pairs(layer[k - 1])
      top == Min({k \in 0 .. Len(leaves) : Len(layer[k]) = 1})
  IN  [k \in 1 .. top + 1 |-> layer[k - 1]]

MerkleRoot(leaves) == Last(Layers(leaves))[1]

\* Mutant: no sibling where there is none.
PathWithoutTwin(leaves, n) ==
  LET layers == Layers(leaves)
      at[k \in 1 .. Len(layers)] == IF k = 1 THEN n - 1 ELSE at[k - 1] \div 2
  IN  [k \in 1 .. Len(layers) - 1 |->
         IF at[k] % 2 = 1 THEN [position |-> "left", hash |-> layers[k][at[k]]]
         ELSE [position |-> "right",
               hash |-> layers[k][IF at[k] + 2 <= Len(layers[k]) THEN at[k] + 2 ELSE 1]]]

\* buildProof: from the n-th leaf up, with the node's twin where the layer ends.
Path(leaves, n) ==
  LET layers == Layers(leaves)
      at[k \in 1 .. Len(layers)] == IF k = 1 THEN n - 1 ELSE at[k - 1] \div 2
  IN  [k \in 1 .. Len(layers) - 1 |->
         IF at[k] % 2 = 1 THEN [position |-> "left", hash |-> layers[k][at[k]]]
         ELSE [position |-> "right",
               hash |-> layers[k][IF at[k] + 2 <= Len(layers[k]) THEN at[k] + 2 ELSE at[k] + 1]]]

Climbed(acc, step) == IF step.position = "left" THEN Node(step.hash, acc) ELSE Node(acc, step.hash)

Climb(leaf, path) ==
  LET acc[k \in 0 .. Len(path)] == IF k = 0 THEN leaf ELSE Climbed(acc[k - 1], path[k])
  IN  acc[Len(path)]
=============================================================================
