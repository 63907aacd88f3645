-------------------------- MODULE GrantRecordsProofs --------------------------
(***************************************************************************)
(* GrantRecords and GrantStateReplay for any number of grants: what the    *)
(* Merkle tree commits to, whatever its size, what ledger and registry say *)
(* of the manifests, and what all of them say of the chain.                *)
(***************************************************************************)
EXTENDS GrantStateReplay, DataInduction

-----------------------------------------------------------------------------
(* The Merkle tree                                                         *)

IsNodes(s, n) == s \in Seq({s[i] : i \in 1 .. n}) /\ Len(s) = n /\ DOMAIN s = 1 .. n

LEMMA NodesOf ==
  ASSUME NEW n \in Nat, NEW s, s = [i \in 1 .. n |-> s[i]]
  PROVE  IsNodes(s, n)
BY DEF IsNodes

\* The layers as buildMerkleTree makes them, one from the other.
Grown(leaves, n, f) == f = [k \in 0 .. n |-> IF k = 0 THEN leaves ELSE Pairs(f[k - 1])]

LEMMA LayersGrow ==
  ASSUME NEW leaves, NEW n \in Nat
  PROVE  \E f : Grown(leaves, n, f)
<1> DEFINE S == {m \in Nat : \E f : Grown(leaves, m, f)}
<1>1. 0 \in S
  <2>1. Grown(leaves, 0, [k \in 0 .. 0 |-> leaves])
    BY DEF Grown
  <2> QED
    BY <2>1
<1>2. ASSUME NEW m \in Nat, m \in S PROVE m + 1 \in S
  <2>1. PICK f : Grown(leaves, m, f)
    BY <1>2
  <2> DEFINE g == [k \in 0 .. m + 1 |-> IF k = m + 1 THEN Pairs(f[m]) ELSE f[k]]
  <2>2. ASSUME NEW k \in 0 .. m + 1 PROVE g[k] = IF k = 0 THEN leaves ELSE Pairs(g[k - 1])
    <3>1. CASE k = 0
      BY <2>1, <3>1 DEF Grown
    <3>2. CASE k = m + 1
      BY <3>2
    <3>3. CASE k \in 1 .. m
      <4>1. k \in 0 .. m /\ k # 0 /\ k - 1 \in 0 .. m /\ k # m + 1 /\ k - 1 # m + 1
        BY <3>3
      <4>2. g[k] = f[k] /\ g[k - 1] = f[k - 1]
        BY <4>1
      <4>3. f[k] = Pairs(f[k - 1])
        BY <2>1, <4>1 DEF Grown
      <4> QED
        BY <4>1, <4>2, <4>3
    <3> QED
      BY <3>1, <3>2, <3>3
  <2>3. g = [k \in 0 .. m + 1 |-> g[k]]
    OBVIOUS
  <2> HIDE DEF g
  <2>4. Grown(leaves, m + 1, g)
    BY <2>2, <2>3 DEF Grown
  <2> QED
    BY <2>4
<1> HIDE DEF S
<1>3. Nat \subseteq S
  BY <1>1, <1>2, NumberInduction
<1> QED
  BY <1>3 DEF S

\* A layer of at least two is followed by a shorter one, and none is empty.
LEMMA PairsShrink ==
  ASSUME NEW n \in Nat \ {0}, NEW s, IsNodes(s, n)
  PROVE  LET m == (n + 1) \div 2 IN
         /\ IsNodes(Pairs(s), m) /\ m \in 1 .. n /\ (n > 1 => m < n)
         /\ \A i \in 1 .. m :
              /\ 2 * i - 1 \in 1 .. n
              /\ Pairs(s)[i] = Node(s[2 * i - 1], IF 2 * i <= n THEN s[2 * i] ELSE s[2 * i - 1])
<1> DEFINE m == (n + 1) \div 2
           p == Pairs(s)
<1>1. m \in 1 .. n /\ (n > 1 => m < n) /\ \A i \in 1 .. m : 2 * i - 1 \in 1 .. n
  OBVIOUS
<1>2. p = [i \in 1 .. m |-> Node(s[2 * i - 1], IF 2 * i <= n THEN s[2 * i] ELSE s[2 * i - 1])]
  BY DEF Pairs, IsNodes
<1> HIDE DEF m, p
<1>3. IsNodes(p, m)
  BY <1>1, <1>2, NodesOf
<1> QED
  BY <1>1, <1>2, <1>3 DEF m, p

\* The tree over n leaves: the layers f, of which the one numbered top is the root's.
Tree(leaves, n, f, top) ==
  /\ top \in Nat /\ f[0] = leaves
  /\ \A k \in 0 .. top : \E m \in 1 .. n : IsNodes(f[k], m)
  /\ \A k \in 1 .. top : f[k] = Pairs(f[k - 1])
  /\ IsNodes(f[top], 1)

LEMMA TreeOf ==
  ASSUME NEW n \in Nat \ {0}, NEW leaves, IsNodes(leaves, n)
  PROVE  \E f, top : /\ Tree(leaves, n, f, top)
                     /\ Layers(leaves) = [k \in 1 .. top + 1 |-> f[k - 1]]
                     /\ MerkleRoot(leaves) = f[top][1]
<1> DEFINE P(g) == g = [k \in 0 .. Len(leaves) |-> IF k = 0 THEN leaves ELSE Pairs(g[k - 1])]
           f    == CHOOSE g : P(g)
           Tops == {k \in 0 .. Len(leaves) : Len(f[k]) = 1}
           top  == Min(Tops)
<1>0. Len(leaves) = n
  BY DEF IsNodes
<1>1. P(f)
  <2>1. PICK g : Grown(leaves, Len(leaves), g)
    BY <1>0, LayersGrow
  <2>2. P(g)
    BY <2>1 DEF Grown
  <2> HIDE DEF P
  <2> QED
    BY <2>2, Zenon
<1>2. Layers(leaves) = [k \in 1 .. top + 1 |-> f[k - 1]]
  BY DEF Layers
<1> HIDE DEF P, f
<1>3. f = [k \in 0 .. n |-> IF k = 0 THEN leaves ELSE Pairs(f[k - 1])]
  BY <1>0, <1>1 DEF P
<1>4. f[0] = leaves /\ \A k \in 1 .. n : f[k] = Pairs(f[k - 1])
  BY <1>3
<1> DEFINE S == {k \in Nat : k <= n => \E m \in 1 .. n : IsNodes(f[k], m) /\ (m = 1 \/ m + k <= n)}
<1>5. Nat \subseteq S
  <2>1. 0 \in S
    BY <1>4
  <2>2. ASSUME NEW k \in Nat, k \in S PROVE k + 1 \in S
    <3> SUFFICES ASSUME k + 1 <= n
                 PROVE  \E m \in 1 .. n : IsNodes(f[k + 1], m) /\ (m = 1 \/ m + (k + 1) <= n)
      OBVIOUS
    <3>1. PICK m \in 1 .. n : IsNodes(f[k], m) /\ (m = 1 \/ m + k <= n)
      BY <2>2
    <3>2. f[k + 1] = Pairs(f[k])
      <4>1. k + 1 \in 1 .. n /\ (k + 1) - 1 = k
        OBVIOUS
      <4> QED
        BY <1>4, <4>1
    <3> DEFINE h == (m + 1) \div 2
    <3>3. IsNodes(f[k + 1], h) /\ h \in 1 .. m /\ (m > 1 => h < m)
      BY <3>1, <3>2, PairsShrink
    <3> HIDE DEF h
    <3>4. h \in 1 .. n /\ (h = 1 \/ h + (k + 1) <= n)
      BY <3>1, <3>3
    <3> QED
      BY <3>3, <3>4
  <2> HIDE DEF S
  <2> QED
    BY <2>1, <2>2, NumberInduction
<1>6. ASSUME NEW k \in 0 .. n PROVE \E m \in 1 .. n : IsNodes(f[k], m) /\ (m = 1 \/ m + k <= n)
  BY <1>5
<1>7. n \in Tops
  <2>1. PICK m \in 1 .. n : IsNodes(f[n], m) /\ (m = 1 \/ m + n <= n)
    BY <1>6
  <2>2. Len(f[n]) = 1
    BY <2>1 DEF IsNodes
  <2> QED
    BY <1>0, <2>2
<1>8. top \in Tops
  <2>1. Tops \in SUBSET Nat /\ Tops # {}
    BY <1>0, <1>7
  <2> HIDE DEF Tops
  <2> QED
    BY <2>1, LeastOfNaturals
<1> HIDE DEF top
<1>9. top \in 0 .. n /\ Len(f[top]) = 1
  BY <1>0, <1>8
<1>10. IsNodes(f[top], 1)
  BY <1>6, <1>9 DEF IsNodes
<1>11. Tree(leaves, n, f, top)
  <2>1. \A k \in 0 .. top : \E m \in 1 .. n : IsNodes(f[k], m)
    BY <1>6, <1>9
  <2>2. \A k \in 1 .. top : f[k] = Pairs(f[k - 1])
    BY <1>4, <1>9
  <2> QED
    BY <1>4, <1>9, <1>10, <2>1, <2>2 DEF Tree
<1>12. MerkleRoot(leaves) = f[top][1]
  <2> DEFINE l == [k \in 1 .. top + 1 |-> f[k - 1]]
  <2>1. top + 1 \in Nat /\ l = [k \in 1 .. top + 1 |-> l[k]]
    BY <1>9
  <2>2. l[top + 1] = f[top]
    BY <1>9
  <2>3. l = Layers(leaves)
    BY <1>2
  <2> HIDE DEF l
  <2>4. IsNodes(l, top + 1)
    BY <2>1, NodesOf
  <2>5. Last(l) = f[top]
    BY <2>2, <2>4 DEF Last, IsNodes
  <2> QED
    BY <2>3, <2>5 DEF MerkleRoot
<1> QED
  BY <1>2, <1>11, <1>12

-----------------------------------------------------------------------------
(* Climbing from a leaf to the root                                        *)

\* The hashes verifyProof computes on the way.
Climbing(leaf, path, n, a) == a = [k \in 0 .. n |-> IF k = 0 THEN leaf ELSE Climbed(a[k - 1], path[k])]

LEMMA ClimbingsExist ==
  ASSUME NEW leaf, NEW path, NEW n \in Nat
  PROVE  \E a : Climbing(leaf, path, n, a)
<1> DEFINE S == {m \in Nat : \E a : Climbing(leaf, path, m, a)}
<1>1. 0 \in S
  <2>1. Climbing(leaf, path, 0, [k \in 0 .. 0 |-> leaf])
    BY DEF Climbing
  <2> QED
    BY <2>1
<1>2. ASSUME NEW m \in Nat, m \in S PROVE m + 1 \in S
  <2>1. PICK f : Climbing(leaf, path, m, f)
    BY <1>2
  <2> DEFINE g == [k \in 0 .. m + 1 |-> IF k = m + 1 THEN Climbed(f[m], path[m + 1]) ELSE f[k]]
  <2>2. ASSUME NEW k \in 0 .. m + 1 PROVE g[k] = IF k = 0 THEN leaf ELSE Climbed(g[k - 1], path[k])
    <3>1. CASE k = 0
      BY <2>1, <3>1 DEF Climbing
    <3>2. CASE k = m + 1
      BY <3>2
    <3>3. CASE k \in 1 .. m
      <4>1. k \in 0 .. m /\ k # 0 /\ k - 1 \in 0 .. m /\ k # m + 1 /\ k - 1 # m + 1
        BY <3>3
      <4>2. g[k] = f[k] /\ g[k - 1] = f[k - 1]
        BY <4>1
      <4>3. f[k] = Climbed(f[k - 1], path[k])
        BY <2>1, <4>1 DEF Climbing
      <4> QED
        BY <4>1, <4>2, <4>3
    <3> QED
      BY <3>1, <3>2, <3>3
  <2>3. g = [k \in 0 .. m + 1 |-> g[k]]
    OBVIOUS
  <2> HIDE DEF g
  <2>4. Climbing(leaf, path, m + 1, g)
    BY <2>2, <2>3 DEF Climbing
  <2> QED
    BY <2>4
<1> HIDE DEF S
<1>3. Nat \subseteq S
  BY <1>1, <1>2, NumberInduction
<1> QED
  BY <1>3 DEF S

LEMMA ClimbIs ==
  ASSUME NEW path, NEW n \in Nat, Len(path) = n
  PROVE  \A leaf : \E a : /\ a[0] = leaf /\ Climb(leaf, path) = a[n]
                         /\ \A k \in 1 .. n : a[k] = Climbed(a[k - 1], path[k])
<1> TAKE leaf
<1> DEFINE P(a) == a = [k \in 0 .. Len(path) |-> IF k = 0 THEN leaf ELSE Climbed(a[k - 1], path[k])]
           a == CHOOSE b : P(b)
<1>1. P(a)
  <2>1. PICK b : Climbing(leaf, path, n, b)
    BY ClimbingsExist
  <2>2. P(b)
    BY <2>1 DEF Climbing
  <2> HIDE DEF P
  <2> QED
    BY <2>2, Zenon
<1>2. Climb(leaf, path) = a[n]
  BY DEF Climb
<1> HIDE DEF P, a
<1>3. a[0] = leaf /\ \A k \in 1 .. n : a[k] = Climbed(a[k - 1], path[k])
  BY <1>1 DEF P
<1> QED
  BY <1>2, <1>3

(* Whatever the path: what climbs to the root is a leaf of the tree.  No   *)
(* leaf is a node, and a node has two children only.                       *)
LEMMA OnlyLeavesClimb ==
  ASSUME NEW n \in Nat \ {0}, NEW x, NEW leaves, IsNodes(leaves, n), \A i \in 1 .. n : leaves[i] = Leaf(x[i]),
         NEW y, NEW path, Len(path) \in Nat, Climb(Leaf(y), path) = MerkleRoot(leaves)
  PROVE  \E i \in 1 .. n : y = x[i]
<1>1. \E f, top : /\ Tree(leaves, n, f, top)
                  /\ Layers(leaves) = [k \in 1 .. top + 1 |-> f[k - 1]]
                  /\ MerkleRoot(leaves) = f[top][1]
  BY TreeOf
<1>2. PICK f, top : Tree(leaves, n, f, top) /\ MerkleRoot(leaves) = f[top][1]
  BY <1>1
<1> DEFINE m == Len(path)
           Inside(v) == \E k \in 0 .. top : \E i \in DOMAIN f[k] : v = f[k][i]
<1>3. PICK a : /\ a[0] = Leaf(y) /\ Climb(Leaf(y), path) = a[m]
               /\ \A k \in 1 .. m : a[k] = Climbed(a[k - 1], path[k])
  <2>1. \A leaf : \E a : /\ a[0] = leaf /\ Climb(leaf, path) = a[m]
                         /\ \A k \in 1 .. m : a[k] = Climbed(a[k - 1], path[k])
    <3>1. m \in Nat /\ Len(path) = m
      OBVIOUS
    <3> HIDE DEF m
    <3> QED
      BY ONLY <3>1, ClimbIs
  <2> QED
    BY <2>1
<1>4. Inside(a[m])
  <2>1. top \in 0 .. top /\ 1 \in DOMAIN f[top]
    BY <1>2 DEF Tree, IsNodes
  <2> QED
    BY <1>2, <1>3, <2>1
<1>5. ASSUME NEW v, NEW step, Inside(Climbed(v, step)) PROVE Inside(v)
  <2>0. PICK k \in 0 .. top : \E i \in DOMAIN f[k] : Climbed(v, step) = f[k][i]
    BY <1>5
  <2>1. PICK i \in DOMAIN f[k] : Climbed(v, step) = f[k][i]
    BY <2>0
  <2>2. k # 0
    <3> SUFFICES ASSUME k = 0 PROVE FALSE
      OBVIOUS
    <3>1. i \in 1 .. n /\ f[k][i] = Leaf(x[i])
      BY <1>2, <2>1 DEF Tree, IsNodes
    <3>2. Climbed(v, step)[1] = "node" /\ Leaf(x[i])[1] = "leaf"
      BY DEF Climbed, Node, Leaf
    <3> QED
      BY <2>1, <3>1, <3>2
  <2>3. k \in 1 .. top /\ k - 1 \in 0 .. top
    BY <1>2, <2>2 DEF Tree
  <2>4. PICK c \in 1 .. n : IsNodes(f[k - 1], c)
    BY <1>2, <2>3 DEF Tree
  <2>5. f[k] = Pairs(f[k - 1])
    BY <1>2, <2>3 DEF Tree
  <2>6. PICK l \in 1 .. c, r \in 1 .. c : f[k][i] = Node(f[k - 1][l], f[k - 1][r])
    <3>1. c \in Nat \ {0}
      OBVIOUS
    <3> DEFINE h == (c + 1) \div 2
    <3>2. /\ IsNodes(f[k], h) /\ h \in 1 .. c
          /\ \A j \in 1 .. h :
               /\ 2 * j - 1 \in 1 .. c
               /\ f[k][j] = Node(f[k - 1][2 * j - 1],
                                 IF 2 * j <= c THEN f[k - 1][2 * j] ELSE f[k - 1][2 * j - 1])
      BY <2>4, <2>5, <3>1, PairsShrink, ZenonT(60)
    <3>3. i \in 1 .. h
      BY <2>1, <3>2 DEF IsNodes
    <3>4. /\ 2 * i - 1 \in 1 .. c
          /\ f[k][i] = Node(f[k - 1][2 * i - 1],
                            IF 2 * i <= c THEN f[k - 1][2 * i] ELSE f[k - 1][2 * i - 1])
      BY <3>2, <3>3
    <3>5. 2 * i <= c => 2 * i \in 1 .. c
      BY <3>2, <3>3
    <3> HIDE DEF h
    <3> QED
      BY <3>4, <3>5
  <2>7. v = f[k - 1][l] \/ v = f[k - 1][r]
    <3> DEFINE left == f[k - 1][l]  right == f[k - 1][r]
    <3>1. Climbed(v, step) = Node(left, right)
      BY <2>1, <2>6
    <3> HIDE DEF left, right
    <3>2. Node(left, right)[2] = left /\ Node(left, right)[3] = right
      BY DEF Node
    <3>3. Climbed(v, step)[2] = v \/ Climbed(v, step)[3] = v
      BY DEF Climbed, Node
    <3> QED
      BY <3>1, <3>2, <3>3 DEF left, right
  <2>8. l \in DOMAIN f[k - 1] /\ r \in DOMAIN f[k - 1]
    BY <2>4, <2>6 DEF IsNodes
  <2> QED
    BY <2>3, <2>7, <2>8
<1> HIDE DEF Inside
<1> DEFINE S == {k \in Nat : k <= m => Inside(a[m - k])}
<1>6. Nat \subseteq S
  <2>1. 0 \in S
    BY <1>4
  <2>2. ASSUME NEW k \in Nat, k \in S PROVE k + 1 \in S
    <3> SUFFICES ASSUME k + 1 <= m PROVE Inside(a[m - (k + 1)])
      OBVIOUS
    <3> DEFINE j == m - k
    <3>1. j \in 1 .. m /\ j - 1 = m - (k + 1) /\ Inside(a[j])
      BY <2>2
    <3> HIDE DEF j, m
    <3>2. a[j] = Climbed(a[j - 1], path[j])
      BY <1>3, <3>1
    <3>3. Inside(a[j - 1])
      BY <1>5, <3>1, <3>2
    <3> QED
      BY <3>1, <3>3
  <2> HIDE DEF S
  <2> QED
    BY <2>1, <2>2, NumberInduction
<1>7. Inside(Leaf(y))
  <2>1. m \in S
    BY <1>6
  <2>2. m - m = 0
    OBVIOUS
  <2> QED
    BY <1>3, <2>1, <2>2
<1>8. PICK k \in 0 .. top : \E j \in DOMAIN f[k] : Leaf(y) = f[k][j]
  BY <1>7 DEF Inside
<1>9. PICK i \in DOMAIN f[k] : Leaf(y) = f[k][i]
  BY <1>8
<1>10. k = 0
  <2> SUFFICES ASSUME k # 0 PROVE FALSE
    OBVIOUS
  <2>1. k \in 1 .. top /\ k - 1 \in 0 .. top
    BY <1>2 DEF Tree
  <2>2. f[k] = Pairs(f[k - 1])
    BY <1>2, <2>1 DEF Tree
  <2>3. f[k][i][1] = "node"
    BY <1>9, <2>2 DEF Pairs, Node
  <2>4. Leaf(y)[1] = "leaf"
    BY DEF Leaf
  <2> QED
    BY <1>9, <2>3, <2>4
<1>11. i \in 1 .. n /\ Leaf(y) = Leaf(x[i])
  BY <1>2, <1>9, <1>10 DEF Tree, IsNodes
<1> QED
  BY <1>11 DEF Leaf

\* The places of a leaf's ancestors, halved from layer to layer.
Places(p, n, a) == a = [k \in 1 .. n |-> IF k = 1 THEN p - 1 ELSE a[k - 1] \div 2]

LEMMA PlacesExist ==
  ASSUME NEW p, NEW n \in Nat
  PROVE  \E a : Places(p, n, a)
<1> DEFINE S == {m \in Nat : \E a : Places(p, m, a)}
<1>1. 0 \in S
  <2>1. Places(p, 0, [k \in 1 .. 0 |-> p - 1])
    BY DEF Places
  <2> QED
    BY <2>1
<1>2. ASSUME NEW m \in Nat, m \in S PROVE m + 1 \in S
  <2>1. PICK f : Places(p, m, f)
    BY <1>2
  <2> DEFINE last == IF m = 0 THEN p - 1 ELSE f[m] \div 2
             g == [k \in 1 .. m + 1 |-> IF k = m + 1 THEN last ELSE f[k]]
  <2>2. ASSUME NEW k \in 1 .. m + 1 PROVE g[k] = IF k = 1 THEN p - 1 ELSE g[k - 1] \div 2
    <3>1. CASE k = m + 1
      <4>1. k # 1 => k - 1 = m /\ m # 0 /\ m \in 1 .. m + 1 /\ m # m + 1
        BY <3>1
      <4>2. k # 1 => g[k - 1] = f[m]
        BY <4>1
      <4>3. k = 1 => m = 0
        BY <3>1
      <4>4. g[k] = last
        BY <3>1
      <4> HIDE DEF g
      <4> QED
        BY <4>1, <4>2, <4>3, <4>4
    <3>2. CASE k \in 1 .. m
      <4>1. k # m + 1 /\ (k # 1 => k - 1 \in 1 .. m + 1 /\ k - 1 # m + 1)
        BY <3>2
      <4>2. g[k] = f[k] /\ (k # 1 => g[k - 1] = f[k - 1])
        BY <4>1
      <4>3. f[k] = IF k = 1 THEN p - 1 ELSE f[k - 1] \div 2
        BY <2>1, <3>2 DEF Places
      <4> HIDE DEF g
      <4> QED
        BY <4>2, <4>3
    <3> QED
      BY <3>1, <3>2
  <2>3. g = [k \in 1 .. m + 1 |-> g[k]]
    OBVIOUS
  <2> HIDE DEF g
  <2>4. Places(p, m + 1, g)
    BY <2>2, <2>3 DEF Places
  <2> QED
    BY <2>4
<1> HIDE DEF S
<1>3. n \in S
  BY <1>1, <1>2, NumberInduction
<1> QED
  BY <1>3 DEF S

(* And every leaf climbs, along the path buildProof gives for its place.   *)
LEMMA LeavesClimb ==
  ASSUME NEW n \in Nat \ {0}, NEW leaves, IsNodes(leaves, n), NEW p \in 1 .. n
  PROVE  Climb(leaves[p], Path(leaves, p)) = MerkleRoot(leaves)
<1>1. \E f, top : /\ Tree(leaves, n, f, top)
                  /\ Layers(leaves) = [k \in 1 .. top + 1 |-> f[k - 1]]
                  /\ MerkleRoot(leaves) = f[top][1]
  BY TreeOf
<1>2. PICK f, top : /\ Tree(leaves, n, f, top)
                    /\ Layers(leaves) = [k \in 1 .. top + 1 |-> f[k - 1]]
                    /\ MerkleRoot(leaves) = f[top][1]
  BY <1>1
<1> DEFINE layers == Layers(leaves)
<1>3. IsNodes(layers, top + 1)
  <2>1. layers = [k \in 1 .. top + 1 |-> layers[k]] /\ top + 1 \in Nat
    BY <1>2 DEF Tree
  <2> HIDE DEF layers
  <2> QED
    BY <2>1, NodesOf
<1>4. top \in Nat /\ Len(layers) = top + 1 /\ \A k \in 1 .. top + 1 : layers[k] = f[k - 1]
  BY <1>2, <1>3 DEF Tree, IsNodes
<1> DEFINE P(a) == a = [k \in 1 .. Len(layers) |-> IF k = 1 THEN p - 1 ELSE a[k - 1] \div 2]
           at   == CHOOSE a : P(a)
           path == Path(leaves, p)
<1>5. P(at)
  <2>1. Len(layers) \in Nat
    BY <1>4
  <2> HIDE DEF layers
  <2>2. PICK a : Places(p, Len(layers), a)
    BY <2>1, PlacesExist
  <2>3. P(a)
    BY <2>2 DEF Places
  <2> HIDE DEF P
  <2> QED
    BY <2>3, Zenon
<1>6. path = [k \in 1 .. Len(layers) - 1 |->
                IF at[k] % 2 = 1 THEN [position |-> "left", hash |-> layers[k][at[k]]]
                ELSE [position |-> "right",
                      hash |-> layers[k][IF at[k] + 2 <= Len(layers[k]) THEN at[k] + 2 ELSE at[k] + 1]]]
  BY DEF Path
<1> HIDE DEF P, at, layers, path
<1>7. at[1] = p - 1 /\ \A k \in 2 .. top + 1 : at[k] = at[k - 1] \div 2
  <2>1. at = [k \in 1 .. top + 1 |-> IF k = 1 THEN p - 1 ELSE at[k - 1] \div 2]
    BY <1>4, <1>5 DEF P
  <2> QED
    BY <1>4, <2>1
<1>8. /\ IsNodes(path, top)
      /\ \A k \in 1 .. top :
           path[k] = IF at[k] % 2 = 1 THEN [position |-> "left", hash |-> f[k - 1][at[k]]]
                     ELSE [position |-> "right",
                           hash |-> f[k - 1][IF at[k] + 2 <= Len(f[k - 1]) THEN at[k] + 2 ELSE at[k] + 1]]
  <2>1. path = [k \in 1 .. top |-> path[k]]
    BY <1>4, <1>6
  <2>2. \A k \in 1 .. top : layers[k] = f[k - 1]
    BY <1>4
  <2>3. IsNodes(path, top)
    BY <1>4, <2>1, NodesOf
  <2>4. ASSUME NEW k \in 1 .. top
        PROVE  path[k] = IF at[k] % 2 = 1 THEN [position |-> "left", hash |-> layers[k][at[k]]]
                         ELSE [position |-> "right",
                               hash |-> layers[k][IF at[k] + 2 <= Len(layers[k]) THEN at[k] + 2 ELSE at[k] + 1]]
    <3>1. k \in 1 .. Len(layers) - 1
      BY <1>4
    <3> QED
      BY ONLY <1>6, <3>1, Zenon
  <2> QED
    BY ONLY <2>2, <2>3, <2>4, Zenon
<1>9. PICK a : /\ a[0] = leaves[p] /\ Climb(leaves[p], path) = a[top]
               /\ \A k \in 1 .. top : a[k] = Climbed(a[k - 1], path[k])
  <2>0. top \in Nat
    BY ONLY <1>4
  <2>1. Len(path) = top
    BY <1>8 DEF IsNodes
  <2>2. \A leaf : \E a : /\ a[0] = leaf /\ Climb(leaf, path) = a[top]
                         /\ \A k \in 1 .. top : a[k] = Climbed(a[k - 1], path[k])
    BY ONLY <2>0, <2>1, ClimbIs
  <2> QED
    BY <2>2
\* After k steps the climb has reached the ancestor of the leaf in layer k.
<1> DEFINE At(k) == at[k + 1] \in 0 .. Len(f[k]) - 1 /\ a[k] = f[k][at[k + 1] + 1]
           S == {k \in Nat : k <= top => At(k)}
<1>10. Nat \subseteq S
  <2>1. 0 \in S
    <3>1. f[0] = leaves /\ Len(leaves) = n
      BY <1>2 DEF Tree, IsNodes
    <3>2. at[0 + 1] = p - 1 /\ (p - 1) + 1 = p /\ p - 1 \in 0 .. n - 1
      BY <1>7
    <3> QED
      BY <1>9, <3>1, <3>2
  <2>2. ASSUME NEW k \in Nat, k \in S PROVE k + 1 \in S
    <3> SUFFICES ASSUME k + 1 <= top PROVE At(k + 1)
      OBVIOUS
    <3>1. /\ k \in 0 .. top /\ k + 1 \in 1 .. top /\ (k + 1) - 1 = k
          /\ k + 2 \in 2 .. top + 1 /\ (k + 2) - 1 = k + 1 /\ (k + 1) + 1 = k + 2
      BY <1>4
    <3> DEFINE q == at[k + 1]
               s == f[k]
               t == f[k + 1]
    <3>2. PICK c \in 1 .. n : IsNodes(s, c)
      BY <1>2, <3>1 DEF Tree
    <3>3. Len(s) = c
      BY <3>2 DEF IsNodes
    <3>4. q \in 0 .. c - 1 /\ a[k] = s[q + 1]
      BY <2>2, <3>1, <3>3
    <3>5. at[k + 2] = q \div 2
      BY <1>7, <3>1
    <3>6. t = Pairs(s)
      BY <1>2, <3>1 DEF Tree
    <3>7. a[k + 1] = Climbed(a[k], path[k + 1])
      BY <1>9, <3>1
    <3>8. path[k + 1] = IF q % 2 = 1 THEN [position |-> "left", hash |-> s[q]]
                        ELSE [position |-> "right",
                              hash |-> s[IF q + 2 <= c THEN q + 2 ELSE q + 1]]
      BY <1>8, <3>1, <3>3
    <3> HIDE DEF q, s, t
    <3> DEFINE h == (c + 1) \div 2
               i == q \div 2 + 1
    <3>9. /\ IsNodes(t, h)
          /\ \A j \in 1 .. h :
               t[j] = Node(s[2 * j - 1], IF 2 * j <= c THEN s[2 * j] ELSE s[2 * j - 1])
      BY <3>2, <3>6, PairsShrink
    <3>10. q \in Nat /\ i \in 1 .. h
      BY <3>4
    <3>11. t[i] = Node(s[2 * i - 1], IF 2 * i <= c THEN s[2 * i] ELSE s[2 * i - 1])
      BY <3>9, <3>10
    <3>12. a[k + 1] = t[i]
      <4>1. CASE q % 2 = 1
        <5>1. 2 * i = q + 1 /\ 2 * i - 1 = q /\ 2 * i <= c
          BY <3>4, <3>10, <4>1
        <5>2. t[i] = Node(s[q], s[q + 1])
          BY <3>11, <5>1
        <5>3. Climbed(a[k], path[k + 1]) = Node(s[q], a[k])
          BY <3>8, <4>1 DEF Climbed
        <5> QED
          BY <3>4, <3>7, <5>2, <5>3
      <4>2. CASE q % 2 # 1
        <5>1. 2 * i = q + 2 /\ 2 * i - 1 = q + 1
          BY <3>10, <4>2
        <5>2. t[i] = Node(s[q + 1], s[IF q + 2 <= c THEN q + 2 ELSE q + 1])
          BY <3>11, <5>1
        <5>3. Climbed(a[k], path[k + 1]) = Node(a[k], s[IF q + 2 <= c THEN q + 2 ELSE q + 1])
          BY <3>8, <4>2 DEF Climbed
        <5> QED
          BY <3>4, <3>7, <5>2, <5>3
      <4> QED
        BY <4>1, <4>2
    <3>13. Len(t) = h
      BY <3>9 DEF IsNodes
    <3>14. at[(k + 1) + 1] + 1 = i /\ at[(k + 1) + 1] \in 0 .. h - 1
      BY <3>1, <3>5, <3>10
    <3> HIDE DEF h, i
    <3> QED
      BY <3>12, <3>13, <3>14 DEF t
  <2> HIDE DEF S
  <2> QED
    BY <2>1, <2>2, NumberInduction
<1>11. At(top)
  BY <1>4, <1>10
<1>12. at[top + 1] + 1 = 1
  BY <1>2, <1>11 DEF Tree, IsNodes
<1> QED
  BY <1>2, <1>9, <1>11, <1>12 DEF path

-----------------------------------------------------------------------------
(* Sorting by id                                                           *)

Increasing(s) == \A i, j \in DOMAIN s : i < j => s[i] < s[j]

LEMMA OrderExists ==
  ASSUME NEW A \in SUBSET Nat, IsFiniteSet(A)
  PROVE  \A D \in SUBSET A : \E s \in [1 .. Cardinality(D) -> D] : Increasing(s)
<1> DEFINE N == {n \in Nat : \A D \in SUBSET A :
                   Cardinality(D) = n => \E s \in [1 .. n -> D] : Increasing(s)}
<1>0. \A D \in SUBSET A : IsFiniteSet(D) /\ Cardinality(D) \in Nat
  BY FS_Subset, FS_CardinalityType
<1>1. 0 \in N
  <2> SUFFICES ASSUME NEW D \in SUBSET A PROVE \E s \in [1 .. 0 -> D] : Increasing(s)
    OBVIOUS
  <2>1. [i \in 1 .. 0 |-> i] \in [1 .. 0 -> D] /\ Increasing([i \in 1 .. 0 |-> i])
    BY DEF Increasing
  <2> QED
    BY <2>1
<1>2. ASSUME NEW n \in Nat, n \in N PROVE n + 1 \in N
  <2> SUFFICES ASSUME NEW D \in SUBSET A, Cardinality(D) = n + 1
               PROVE  \E s \in [1 .. n + 1 -> D] : Increasing(s)
    OBVIOUS
  <2>1. D # {}
    BY FS_EmptySet
  <2> DEFINE x == Min(D)
  <2>2. x \in D /\ \A d \in D : x <= d
    BY <2>1, LeastOfNaturals
  <2> HIDE DEF x
  <2>3. Cardinality(D \ {x}) = n
    <3>1. Cardinality(D \ {x}) = Cardinality(D) - 1
      BY <1>0, <2>2, FS_RemoveElement
    <3> QED
      BY <3>1
  <2>4. PICK t \in [1 .. n -> D \ {x}] : Increasing(t)
    BY <1>2, <2>3
  <2> DEFINE s == [i \in 1 .. n + 1 |-> IF i = 1 THEN x ELSE t[i - 1]]
  <2>5. s \in [1 .. n + 1 -> D]
    BY <2>2
  <2>6. ASSUME NEW i \in 1 .. n + 1, NEW j \in 1 .. n + 1, i < j PROVE s[i] < s[j]
    <3>1. j # 1 /\ j - 1 \in 1 .. n /\ s[j] = t[j - 1]
      BY <2>6
    <3>2. t[j - 1] \in D \ {x} /\ x \in Nat /\ t[j - 1] \in Nat
      BY <2>2, <3>1
    <3>3. CASE i = 1
      BY <2>2, <3>1, <3>2, <3>3
    <3>4. CASE i # 1
      <4>1. i - 1 \in 1 .. n /\ i - 1 < j - 1 /\ s[i] = t[i - 1]
        BY <2>6, <3>4
      <4> QED
        BY <2>4, <3>1, <4>1 DEF Increasing
    <3> QED
      BY <3>3, <3>4
  <2> HIDE DEF s
  <2>7. Increasing(s)
    BY <2>5, <2>6 DEF Increasing
  <2> QED
    BY <2>5, <2>7
<1>3. Nat \subseteq N
  <2> HIDE DEF N
  <2> QED
    BY <1>1, <1>2, NumberInduction
<1> QED
  BY <1>0, <1>3

\* The ids of a ledger, each in one place.
LEMMA InOrderLists ==
  ASSUME NEW D, D \subseteq Id
  PROVE  /\ Cardinality(D) \in Nat
         /\ InOrder(D) \in [1 .. Cardinality(D) -> D]
         /\ \A d \in D : \E n \in 1 .. Cardinality(D) : InOrder(D)[n] = d
<1> DEFINE n == Cardinality(D)
           s == InOrder(D)
<1>1. IsFiniteSet(D) /\ n \in Nat
  BY RecordsAssumption, FS_Subset, FS_CardinalityType
<1>2. \E t \in [1 .. n -> D] : Increasing(t)
  BY RecordsAssumption, OrderExists
<1>3. s \in [1 .. n -> D] /\ Increasing(s)
  BY <1>2 DEF InOrder, Increasing
<1> HIDE DEF s
<1>4. \A i, j \in 1 .. n : s[i] = s[j] => i = j
  <2> SUFFICES ASSUME NEW i \in 1 .. n, NEW j \in 1 .. n, i < j PROVE s[i] # s[j]
    OBVIOUS
  <2>1. s[i] < s[j] /\ s[i] \in Nat /\ s[j] \in Nat
    BY <1>3, RecordsAssumption DEF Increasing
  <2> QED
    BY <2>1
<1>5. s \in Injection(1 .. n, D)
  BY <1>3, <1>4 DEF Injection, IsInjective
<1>6. Cardinality(1 .. n) = n
  <2>1. Cardinality(1 .. n) = IF 1 > n THEN 0 ELSE n - 1 + 1
    BY <1>1, FS_Interval
  <2> QED
    BY <1>1, <2>1
<1>7. s \in Surjection(1 .. n, D)
  BY <1>1, <1>5, <1>6, FS_Injection
<1>8. \A d \in D : \E i \in 1 .. n : s[i] = d
  BY <1>7 DEF Surjection
<1> QED
  BY <1>1, <1>3, <1>8 DEF s

-----------------------------------------------------------------------------
(* The invariant                                                           *)

IsCreation(m) == m = Creation(m.employee, m.terms) /\ m.employee \in Employee

IsManifest(m) == m # Missing /\ (IsCreation(m) \/ m.op = "revoke")

\* Manifests are written first: what is on the chain or on its way has one.
ChainFollows(grants, kept, sent, files) ==
  /\ grants = [e \in Employee |-> grants[e]]
  /\ files = [i \in Id |-> files[i]]
  /\ \A i \in Id : files[i] # Missing => IsManifest(files[i])
  /\ \A e \in Employee : grants[e] # Missing => \E i \in Id : files[i] = Creation(e, grants[e])
  /\ \A e \in kept : \E i \in Id : files[i] # Missing /\ files[i].op = "revoke" /\ files[i].employee = e
  /\ \A i \in sent : i \in Id /\ files[i] # Missing /\ IsCreation(files[i])

\* A ledger holds the manifests it was built from, and they are still there.
FromManifests(l, files) ==
  /\ DOMAIN l.grants \subseteq Id
  /\ \A i \in DOMAIN l.grants : files[i] # Missing /\ l.grants[i].create = files[i]

\* A row says what the ledger says, not what is true when it is built.
RowIn(l, i) ==
  [grantId |-> i, beneficiary |-> l.grants[i].create.employee, terms |-> RowTerms(l.grants[i].create),
   status |-> IF l.grants[i].status = "ACTIVE" THEN "active" ELSE "revoked"]

RowsIn(l) ==
  [n \in 1 .. Cardinality(DOMAIN l.grants) |-> RowIn(l, InOrder(DOMAIN l.grants)[n])]

RootOf(file) ==
  /\ \E n \in Nat \ {0} : DOMAIN file.registry.grants = 1 .. n
  /\ file.root = MerkleRoot(LeavesOf(file.registry))

FilesFollow(files, l, r, top, p) ==
  /\ l # Missing => FromManifests(l, files)
  /\ r # Missing => FromManifests(r.ledger, files) /\ r.grants = RowsIn(r.ledger)
  /\ top # Missing => RootOf(top)
  /\ p # Missing => Len(p.path) \in Nat

RecordsInv ==
  /\ ChainFollows(granted, restricted, pending, manifests)
  /\ FilesFollow(manifests, ledger, registry, root, proof)

\* No document is Missing.
LEMMA NotMissing ==
  /\ \A e, t : Creation(e, t) # Missing /\ Creation(e, t).op = "create"
  /\ \A e, g, f : /\ Revocation(e, g, f) # Missing /\ Revocation(e, g, f).op = "revoke"
                  /\ Revocation(e, g, f).employee = e
  /\ \A r, n : BuildProof(r, n) # Missing
<1>1. "missing" \in DOMAIN Missing
  BY DEF Missing
<1>2. \A e, t : "missing" \notin DOMAIN Creation(e, t)
  BY DEF Creation
<1>3. \A e, g, f : "missing" \notin DOMAIN Revocation(e, g, f)
  BY DEF Revocation
<1>4. \A r, n : "missing" \notin DOMAIN BuildProof(r, n)
  BY DEF BuildProof
<1>5. \A e, t : Creation(e, t).op = "create"
  BY DEF Creation
<1>6. \A e, g, f : Revocation(e, g, f).op = "revoke" /\ Revocation(e, g, f).employee = e
  BY DEF Revocation
<1> QED
  BY <1>1, <1>2, <1>3, <1>4, <1>5, <1>6

LEMMA RecordsInit == Init => RecordsInv
<1> SUFFICES ASSUME Init PROVE RecordsInv
  OBVIOUS
<1>1. /\ granted = [e \in Employee |-> Missing] /\ restricted = {} /\ pending = {}
      /\ manifests \in [Id -> {Missing} \cup [op : {"create"}, employee : Employee, terms : Terms]]
  BY DEF Init
<1>2. ASSUME NEW i \in Id, manifests[i] # Missing PROVE IsManifest(manifests[i])
  <2>1. manifests[i] \in [op : {"create"}, employee : Employee, terms : Terms]
    BY <1>1, <1>2
  <2> QED
    BY <1>2, <2>1 DEF IsManifest, IsCreation, Creation
<1>3. ChainFollows(granted, restricted, pending, manifests)
  BY <1>1, <1>2 DEF ChainFollows
<1>4. FilesFollow(manifests, ledger, registry, root, proof)
  BY DEF Init, FilesFollow
<1> QED
  BY <1>3, <1>4 DEF RecordsInv

\* Manifests are added, never changed.
LEMMA FilesStillFollow ==
  ASSUME NEW files, NEW later, NEW l, NEW r, NEW top, NEW p,
         FilesFollow(files, l, r, top, p),
         \A i \in Id : files[i] # Missing => later[i] = files[i]
  PROVE  FilesFollow(later, l, r, top, p)
<1>1. \A x : FromManifests(x, files) => FromManifests(x, later)
  BY DEF FromManifests
<1> QED
  BY <1>1 DEF FilesFollow

\* A manifest more, and perhaps its transaction sent or its effect at once.
LEMMA OneMoreManifest ==
  ASSUME RecordsInv, NEW id \in Id, manifests[id] = Missing, NEW m, IsManifest(m),
         manifests' = [manifests EXCEPT ![id] = m], granted' = granted, Derived,
         \/ restricted' = restricted
         \/ m.op = "revoke" /\ restricted' = restricted \cup {m.employee},
         \/ pending' = pending
         \/ IsCreation(m) /\ pending' = pending \cup {id}
  PROVE  RecordsInv'
<1>1. /\ manifests' = [i \in Id |-> IF i = id THEN m ELSE manifests[i]]
      /\ ChainFollows(granted, restricted, pending, manifests)
  BY DEF RecordsInv, ChainFollows
<1>2. \A i \in Id : manifests[i] # Missing => manifests'[i] = manifests[i]
  BY <1>1
<1>3. ChainFollows(granted', restricted', pending', manifests')
  <2>1. granted' = [e \in Employee |-> granted'[e]] /\ manifests' = [i \in Id |-> manifests'[i]]
    BY <1>1 DEF ChainFollows
  <2>2. \A i \in Id : manifests'[i] # Missing => IsManifest(manifests'[i])
    BY <1>1 DEF ChainFollows
  <2>3. ASSUME NEW e \in Employee, granted'[e] # Missing
        PROVE  \E i \in Id : manifests'[i] = Creation(e, granted'[e])
    <3>1. PICK i \in Id : manifests[i] = Creation(e, granted[e])
      BY <1>1, <2>3 DEF ChainFollows
    <3>2. manifests[i] # Missing
      BY <3>1, NotMissing
    <3> QED
      BY <1>2, <3>1, <3>2
  <2>4. ASSUME NEW e \in restricted'
        PROVE  \E i \in Id : manifests'[i] # Missing /\ manifests'[i].op = "revoke" /\ manifests'[i].employee = e
    <3>1. CASE e \in restricted
      BY <1>1, <1>2, <3>1, ZenonT(60) DEF ChainFollows
    <3>2. CASE e \notin restricted
      <4>1. m.op = "revoke" /\ e = m.employee /\ manifests'[id] = m /\ m # Missing
        BY <1>1, <2>4, <3>2 DEF IsManifest
      <4> QED
        BY <4>1
    <3> QED
      BY <3>1, <3>2
  <2>5. ASSUME NEW i \in pending' PROVE i \in Id /\ manifests'[i] # Missing /\ IsCreation(manifests'[i])
    <3>1. CASE i \in pending
      BY <1>1, <1>2, <3>1 DEF ChainFollows
    <3>2. CASE i \notin pending
      BY <1>1, <2>5, <3>2 DEF IsManifest
    <3> QED
      BY <3>1, <3>2
  <2> QED
    BY <2>1, <2>2, <2>3, <2>4, <2>5 DEF ChainFollows
<1>4. FilesFollow(manifests', ledger, registry, root, proof)
  <2> DEFINE later == manifests'
  <2>1. \A i \in Id : manifests[i] # Missing => later[i] = manifests[i]
    BY <1>2
  <2> HIDE DEF later
  <2>2. FilesFollow(later, ledger, registry, root, proof)
    BY <2>1, FilesStillFollow DEF RecordsInv
  <2> QED
    BY <2>2 DEF later
<1> QED
  BY <1>3, <1>4 DEF RecordsInv, Derived

LEMMA CreateGrantStep ==
  ASSUME RecordsInv, NEW id \in Id, NEW employee \in Employee, NEW terms \in Terms,
         CreateGrant(id, employee, terms)
  PROVE  RecordsInv'
<1> DEFINE m == Creation(employee, terms)
<1>1. IsManifest(m) /\ IsCreation(m)
  <2>1. m.employee = employee /\ m.terms = terms
    BY DEF Creation
  <2> QED
    BY <2>1, NotMissing DEF IsManifest, IsCreation
<1>2. /\ manifests[id] = Missing /\ manifests' = [manifests EXCEPT ![id] = m]
      /\ granted' = granted /\ restricted' = restricted /\ Derived
      /\ pending' = pending \/ pending' = pending \cup {id}
  BY DEF CreateGrant
<1> HIDE DEF m
<1> QED
  BY <1>1, <1>2, OneMoreManifest

LEMMA RevokeGrantStep ==
  ASSUME RecordsInv, NEW id \in Id, NEW employee \in Employee, NEW grant, NEW form \in Form,
         RevokeGrant(id, employee, grant, form)
  PROVE  RecordsInv'
<1> DEFINE m == Revocation(employee, grant, form)
<1>1. IsManifest(m) /\ m.op = "revoke" /\ m.employee = employee
  BY NotMissing DEF IsManifest
<1>2. /\ manifests[id] = Missing /\ manifests' = [manifests EXCEPT ![id] = m]
      /\ granted' = granted /\ pending' = pending /\ Derived
      /\ restricted' = restricted \/ restricted' = restricted \cup {employee}
  BY DEF RevokeGrant
<1> HIDE DEF m
<1> QED
  BY <1>1, <1>2, OneMoreManifest

LEMMA MineStep ==
  ASSUME RecordsInv, NEW id \in pending, Mine(id)
  PROVE  RecordsInv'
<1> DEFINE m == manifests[id]
<1>1. ChainFollows(granted, restricted, pending, manifests)
  BY DEF RecordsInv
<1>2. m = Creation(m.employee, m.terms) /\ m.employee \in Employee /\ id \in Id
  BY <1>1 DEF ChainFollows, IsCreation
<1>3. /\ pending' = pending \ {id} /\ restricted' = restricted /\ manifests' = manifests
      /\ granted' = granted \/ granted' = [granted EXCEPT ![m.employee] = m.terms]
      /\ Derived
  BY DEF Mine
<1>4. granted' = [e \in Employee |-> granted'[e]]
      /\ \A e \in Employee : granted'[e] = granted[e] \/ (e = m.employee /\ granted'[e] = m.terms)
  BY <1>1, <1>2, <1>3 DEF ChainFollows
<1>5. ChainFollows(granted', restricted, pending', manifests)
  <2>1. \A e \in Employee : granted'[e] # Missing => \E i \in Id : manifests[i] = Creation(e, granted'[e])
    BY <1>1, <1>2, <1>4 DEF ChainFollows
  <2> QED
    BY <1>1, <1>3, <1>4, <2>1 DEF ChainFollows
<1> QED
  BY <1>3, <1>5 DEF RecordsInv, Derived

\* The manifests as they are make a ledger.
LEMMA LedgerFollows == \A aside \in BOOLEAN : FromManifests(LedgerOf(aside), manifests)
<1> SUFFICES ASSUME NEW aside \in BOOLEAN PROVE FromManifests(LedgerOf(aside), manifests)
  OBVIOUS
<1>1. LedgerOf(aside).grants = [i \in Creates |-> Entry(i)]
  BY DEF LedgerOf
<1>2. \A i \in Creates : i \in Id /\ manifests[i] # Missing
  BY DEF Creates, Written
<1>3. \A i : Entry(i).create = manifests[i]
  BY DEF Entry
<1> QED
  BY <1>1, <1>2, <1>3 DEF FromManifests

\* What build-registry makes of a ledger.
LEMMA RegistryFollows ==
  ASSUME RecordsInv, BuildRegistry
  PROVE  /\ ledger # Missing /\ ledger.strays = {} /\ FromManifests(ledger, manifests)
         /\ registry'.ledger = ledger /\ registry'.grants = RowsIn(ledger)
<1> DEFINE D == DOMAIN ledger.grants
           ids == InOrder(D)
<1>1. ledger # Missing /\ ledger.strays = {} /\ FromManifests(ledger, manifests)
  BY DEF BuildRegistry, RecordsInv, FilesFollow
<1>2. D \subseteq Id /\ \A i \in D : ledger.grants[i].create = manifests[i]
  BY <1>1 DEF FromManifests
<1>3. registry' = [ledger |-> ledger, grants |-> [n \in DOMAIN ids |-> Row(ids[n])]]
  BY DEF BuildRegistry
<1> HIDE DEF D
<1>4. Cardinality(D) \in Nat /\ ids \in [1 .. Cardinality(D) -> D]
  BY <1>2, InOrderLists
<1>5. \A i \in D : Row(i) = RowIn(ledger, i)
  BY <1>2 DEF Row, RowIn
<1> HIDE DEF ids
<1>6. [n \in DOMAIN ids |-> Row(ids[n])] = [n \in 1 .. Cardinality(D) |-> RowIn(ledger, ids[n])]
  BY <1>4, <1>5
<1> QED
  BY <1>1, <1>3, <1>6 DEF RowsIn, D, ids

\* The rows: a sequence in which every grant of the ledger has its own.
LEMMA RowsList ==
  ASSUME NEW l, DOMAIN l.grants \subseteq Id
  PROVE  LET c == Cardinality(DOMAIN l.grants) IN
         /\ c \in Nat /\ DOMAIN RowsIn(l) = 1 .. c
         /\ \A n \in 1 .. c : /\ RowsIn(l)[n].grantId \in DOMAIN l.grants
                              /\ RowsIn(l)[n] = RowIn(l, RowsIn(l)[n].grantId)
         /\ \A i \in DOMAIN l.grants : \E n \in 1 .. c : RowsIn(l)[n].grantId = i
<1> DEFINE D == DOMAIN l.grants
           c == Cardinality(D)
           ids == InOrder(D)
<1>1. c \in Nat /\ ids \in [1 .. c -> D] /\ \A i \in D : \E n \in 1 .. c : ids[n] = i
  BY InOrderLists
<1>2. DOMAIN RowsIn(l) = 1 .. c /\ \A n \in 1 .. c : RowsIn(l)[n] = RowIn(l, ids[n])
  BY DEF RowsIn
<1> HIDE DEF ids, D
<1>3. \A n \in 1 .. c : RowsIn(l)[n].grantId = ids[n]
  BY <1>2 DEF RowIn
<1>4. \A n \in 1 .. c : RowsIn(l)[n].grantId \in D /\ RowsIn(l)[n] = RowIn(l, RowsIn(l)[n].grantId)
  BY <1>1, <1>2, <1>3
<1>5. \A i \in D : \E n \in 1 .. c : RowsIn(l)[n].grantId = i
  BY <1>1, <1>3
<1> QED
  BY <1>1, <1>2, <1>4, <1>5 DEF D

LEMMA UpdateLedgerStep ==
  ASSUME RecordsInv, NEW aside \in BOOLEAN, UpdateLedger(aside)
  PROVE  RecordsInv'
<1>1. /\ ledger' = LedgerOf(aside) /\ manifests' = manifests
      /\ UNCHANGED <<granted, restricted, pending, registry, root, proof>>
  BY DEF UpdateLedger, chainVars
<1>2. FromManifests(ledger', manifests)
  BY <1>1, LedgerFollows
<1> QED
  BY <1>1, <1>2 DEF RecordsInv, FilesFollow

LEMMA BuildRegistryStep ==
  ASSUME RecordsInv, BuildRegistry
  PROVE  RecordsInv'
<1>1. /\ FromManifests(registry'.ledger, manifests)
      /\ registry'.grants = RowsIn(registry'.ledger)
  BY RegistryFollows
<1>2. /\ manifests' = manifests
      /\ UNCHANGED <<granted, restricted, pending, ledger, root, proof>>
  BY DEF BuildRegistry, chainVars
<1> QED
  BY <1>1, <1>2 DEF RecordsInv, FilesFollow

LEMMA PathHasLength ==
  ASSUME NEW n \in Nat \ {0}, NEW leaves, IsNodes(leaves, n), NEW p
  PROVE  Len(Path(leaves, p)) \in Nat
<1>1. \E f, top : /\ Tree(leaves, n, f, top)
                  /\ Layers(leaves) = [k \in 1 .. top + 1 |-> f[k - 1]]
                  /\ MerkleRoot(leaves) = f[top][1]
  BY TreeOf
<1>2. PICK f, top : top \in Nat /\ Layers(leaves) = [k \in 1 .. top + 1 |-> f[k - 1]]
  BY <1>1 DEF Tree
<1> DEFINE layers == Layers(leaves)
           path == Path(leaves, p)
<1>3. layers = [k \in 1 .. top + 1 |-> layers[k]]
  BY <1>2
<1>4. path = [k \in 1 .. Len(layers) - 1 |-> path[k]]
  BY DEF Path
<1> HIDE DEF layers, path
<1>5. Len(layers) = top + 1
  <2>1. IsNodes(layers, top + 1)
    BY <1>2, <1>3, NodesOf
  <2> QED
    BY <2>1 DEF IsNodes
<1>6. path = [k \in 1 .. top |-> path[k]]
  BY <1>2, <1>4, <1>5
<1>7. IsNodes(path, top)
  BY <1>2, <1>6, NodesOf
<1> QED
  BY <1>2, <1>7 DEF IsNodes, path

\* A registry that is not empty, and its leaves.
LEMMA LeavesOfRegistry ==
  ASSUME NEW r, NEW n \in Nat, DOMAIN r.grants = 1 .. n
  PROVE  /\ IsNodes(LeavesOf(r), n)
         /\ \A i \in 1 .. n : LeavesOf(r)[i] = Leaf(r.grants[i])
<1> DEFINE s == LeavesOf(r)
<1>1. s = [i \in 1 .. n |-> s[i]] /\ \A i \in 1 .. n : s[i] = Leaf(r.grants[i])
  BY DEF LeavesOf
<1> HIDE DEF s
<1>2. IsNodes(s, n)
  BY <1>1, NodesOf
<1> QED
  BY <1>1, <1>2 DEF s

LEMMA BuildMerkleRootStep ==
  ASSUME RecordsInv, BuildMerkleRoot
  PROVE  RecordsInv'
<1>1. /\ registry # Missing /\ registry.grants # <<>>
      /\ root' = [registry |-> registry, root |-> MerkleRoot(LeavesOf(registry))]
      /\ proof' = proof \/ \E n \in DOMAIN registry.grants : proof' = BuildProof(registry, n)
      /\ UNCHANGED <<granted, restricted, pending, manifests, ledger, registry>>
  BY DEF BuildMerkleRoot, chainVars
<1>2. DOMAIN registry.ledger.grants \subseteq Id /\ registry.grants = RowsIn(registry.ledger)
  BY <1>1 DEF RecordsInv, FilesFollow, FromManifests
<1>3. PICK c \in Nat \ {0} : DOMAIN registry.grants = 1 .. c
  <2>1. PICK c \in Nat : DOMAIN RowsIn(registry.ledger) = 1 .. c
    BY <1>2, RowsList
  <2>2. c # 0
    <3> SUFFICES ASSUME c = 0 PROVE FALSE
      OBVIOUS
    <3>1. registry.grants = [n \in 1 .. 0 |-> registry.grants[n]]
      BY <1>2, <2>1 DEF RowsIn
    <3> QED
      BY <1>1, <3>1
  <2> QED
    BY <1>2, <2>1, <2>2
<1>4. RootOf(root')
  BY <1>1, <1>3 DEF RootOf
<1>5. proof' # Missing => Len(proof'.path) \in Nat
  <2>1. CASE proof' = proof
    BY <2>1 DEF RecordsInv, FilesFollow
  <2>2. CASE \E n \in DOMAIN registry.grants : proof' = BuildProof(registry, n)
    <3>1. PICK n \in DOMAIN registry.grants : proof'.path = Path(LeavesOf(registry), n)
      BY <2>2 DEF BuildProof
    <3>2. IsNodes(LeavesOf(registry), c)
      BY <1>3, LeavesOfRegistry
    <3> QED
      BY <3>1, <3>2, PathHasLength
  <2> QED
    BY <1>1, <2>1, <2>2
<1> QED
  BY <1>1, <1>4, <1>5 DEF RecordsInv, FilesFollow

LEMMA RecordsInvStep ==
  ASSUME RecordsInv, [Next]_vars
  PROVE  RecordsInv'
<1>1. CASE UNCHANGED vars
  BY <1>1 DEF vars, chainVars, RecordsInv
<1>2. CASE RecordsNext
  <2>1. CASE \E id \in Id, employee \in Employee :
               \/ \E terms \in Terms : CreateGrant(id, employee, terms)
               \/ \E grant \in Creates, form \in Form : RevokeGrant(id, employee, grant, form)
    BY <2>1, CreateGrantStep, RevokeGrantStep
  <2>2. CASE \E id \in pending : Mine(id)
    BY <2>2, MineStep
  <2>3. CASE \E aside \in BOOLEAN : UpdateLedger(aside)
    BY <2>3, UpdateLedgerStep
  <2>4. CASE BuildRegistry
    BY <2>4, BuildRegistryStep
  <2> QED
    BY <1>2, <2>1, <2>2, <2>3, <2>4 DEF RecordsNext
<1>3. CASE BuildMerkleRoot
  BY <1>3, BuildMerkleRootStep
<1>4. CASE Attest
  BY <1>4 DEF Attest, RecordsInv, chainVars
<1> QED
  BY <1>1, <1>2, <1>3, <1>4 DEF Next, ProofsNext

(* RecordsInv holds in every reachable state.                              *)
THEOREM RecordsInvariance == Spec => []RecordsInv
<1>1. RecordsInv /\ [Next]_vars => RecordsInv'
  BY RecordsInvStep
<1> QED
  BY <1>1, RecordsInit, PTL DEF Spec

-----------------------------------------------------------------------------
(* The theorems                                                            *)

(* Wherever a script stops, whatever is sent twice or reverts: a ledger    *)
(* that validates has every grant of the chain, with the terms it has      *)
(* there, and every restriction has its manifest.                          *)
THEOREM ChainAlwaysOnRecord == Spec => []ChainIsOnRecord
<1>1. ASSUME RecordsInv PROVE ChainIsOnRecord
  <2> SUFFICES ASSUME NEW aside \in BOOLEAN, LedgerValidates(aside)
               PROVE  /\ \A e \in Employee : granted[e] # Missing =>
                           \E i \in DOMAIN ledger.grants : ledger.grants[i].create = Creation(e, granted[e])
                      /\ \A e \in restricted : \E i \in Written :
                           manifests[i].op = "revoke" /\ manifests[i].employee = e
    BY DEF ChainIsOnRecord
  <2>1. ChainFollows(granted, restricted, pending, manifests)
    BY <1>1 DEF RecordsInv
  <2>2. ledger.grants = [i \in Creates |-> Entry(i)]
    BY DEF LedgerValidates, LedgerOf
  <2>3. ASSUME NEW e \in Employee, granted[e] # Missing
        PROVE  \E i \in DOMAIN ledger.grants : ledger.grants[i].create = Creation(e, granted[e])
    <3>1. PICK i \in Id : manifests[i] = Creation(e, granted[e])
      BY <2>1, <2>3 DEF ChainFollows
    <3>2. i \in Creates
      BY <3>1, NotMissing DEF Creates, Written, IsRevoke
    <3>3. Entry(i).create = manifests[i]
      BY DEF Entry
    <3> QED
      BY <2>2, <3>1, <3>2, <3>3
  <2>4. ASSUME NEW e \in restricted
        PROVE  \E i \in Written : manifests[i].op = "revoke" /\ manifests[i].employee = e
    BY <2>1 DEF ChainFollows, Written
  <2> QED
    BY <2>3, <2>4
<1> QED
  BY <1>1, RecordsInvariance, PTL

(* However large the registry: whatever proof file verifies against the    *)
(* root built from the attested registry is about one of its rows, and     *)
(* every row of the registry under the root can be proven.                 *)
THEOREM ProofsAlwaysFollow == Spec => []ProofsFollowRegistry
<1>1. ASSUME RecordsInv PROVE ProvenGrantIsAttested
  <2> SUFFICES ASSUME AttestationVerifies, ProofVerifies(proof), root.registry = registry
               PROVE  \E n \in DOMAIN attestation.registry.grants :
                        attestation.registry.grants[n] = proof.leaf
    BY DEF ProvenGrantIsAttested
  <2>1. /\ root # Missing /\ proof # Missing /\ attestation.registry = registry
        /\ Climb(Leaf(proof.leaf), proof.path) = root.root
    BY DEF AttestationVerifies, ProofVerifies
  <2>2. RootOf(root) /\ Len(proof.path) \in Nat
    BY <1>1, <2>1 DEF RecordsInv, FilesFollow
  <2>3. PICK c \in Nat \ {0} : DOMAIN registry.grants = 1 .. c
    BY <2>2 DEF RootOf
  <2>4. root.root = MerkleRoot(LeavesOf(registry))
    BY <2>2 DEF RootOf
  <2>5. /\ IsNodes(LeavesOf(registry), c)
        /\ \A i \in 1 .. c : LeavesOf(registry)[i] = Leaf(registry.grants[i])
    BY <2>3, LeavesOfRegistry
  <2>6. \E i \in 1 .. c : proof.leaf = registry.grants[i]
    <3> DEFINE leaves == LeavesOf(registry)
               x == registry.grants
               y == proof.leaf
               path == proof.path
    <3>1. IsNodes(leaves, c) /\ \A i \in 1 .. c : leaves[i] = Leaf(x[i])
      BY <2>5
    <3>2. Len(path) \in Nat /\ Climb(Leaf(y), path) = MerkleRoot(leaves)
      BY <2>1, <2>2, <2>4
    <3> HIDE DEF leaves, x, y, path
    <3>3. \E i \in 1 .. c : y = x[i]
      BY <3>1, <3>2, OnlyLeavesClimb
    <3> QED
      BY <3>3 DEF x, y
  <2> QED
    BY <2>1, <2>3, <2>6
<1>2. ASSUME RecordsInv PROVE EveryGrantCanBeProven
  <2> SUFFICES ASSUME root # Missing, NEW n \in DOMAIN root.registry.grants
               PROVE  LET p == BuildProof(root.registry, n) IN
                      ProofVerifies(p) /\ p.leaf.grantId = p.grantId
    BY DEF EveryGrantCanBeProven
  <2> DEFINE r == root.registry
             p == BuildProof(r, n)
  <2>1. RootOf(root)
    BY <1>2 DEF RecordsInv, FilesFollow
  <2>2. PICK c \in Nat \ {0} : DOMAIN r.grants = 1 .. c
    BY <2>1 DEF RootOf
  <2>3. root.root = MerkleRoot(LeavesOf(r))
    BY <2>1 DEF RootOf
  <2>4. /\ p.root = MerkleRoot(LeavesOf(r)) /\ p.grantId = r.grants[n].grantId
        /\ p.leaf = r.grants[n] /\ p.path = Path(LeavesOf(r), n)
    BY DEF BuildProof
  <2>5. p # Missing
    BY NotMissing
  <2>6. n \in 1 .. c
    BY <2>2
  <2> HIDE DEF r, p
  <2>7. /\ IsNodes(LeavesOf(r), c)
        /\ \A i \in 1 .. c : LeavesOf(r)[i] = Leaf(r.grants[i])
    BY <2>2, LeavesOfRegistry
  <2>8. Climb(LeavesOf(r)[n], Path(LeavesOf(r), n)) = MerkleRoot(LeavesOf(r))
    BY <2>6, <2>7, LeavesClimb
  <2>9. LeavesOf(r)[n] = Leaf(r.grants[n])
    BY <2>6, <2>7
  <2>10. ProofVerifies(p)
    BY <2>3, <2>4, <2>5, <2>8, <2>9 DEF ProofVerifies
  <2> QED
    BY <2>4, <2>10 DEF p, r
<1> QED
  BY <1>1, <1>2, RecordsInvariance, PTL DEF ProofsFollowRegistry

-----------------------------------------------------------------------------
(* The state snapshot and its replay                                       *)

\* Blocks are added, and a snapshot was taken at one of them.
ReplayInv ==
  /\ RecordsInv
  /\ \E S : blocks \in Seq(S)
  /\ snapshot # Missing => snapshot.block \in DOMAIN blocks

\* The steps of the replay are steps of the records, or leave them alone.
LEMMA RecordsStep == [ReplayNext]_replayVars => [Next]_vars
BY DEF ReplayNext, replayVars, Next, CloseBlock, BuildSnapshot

\* A block more keeps those there are.
LEMMA OneMoreBlock ==
  ASSUME NEW S, NEW s \in Seq(S), NEW x
  PROVE  /\ \E T : Append(s, x) \in Seq(T)
         /\ DOMAIN s \subseteq DOMAIN Append(s, x)
         /\ \A b \in DOMAIN s : Append(s, x)[b] = s[b]
<1>1. s \in Seq(S \cup {x}) /\ x \in S \cup {x}
  OBVIOUS
<1>2. Append(s, x) \in Seq(S \cup {x})
  BY <1>1
<1> QED
  BY <1>2

LEMMA BlocksStay ==
  ASSUME ReplayInv, [ReplayNext]_replayVars
  PROVE  /\ \E T : blocks' \in Seq(T)
         /\ DOMAIN blocks \subseteq DOMAIN blocks' /\ \A b \in DOMAIN blocks : blocks'[b] = blocks[b]
<1>1. PICK S : blocks \in Seq(S)
  BY DEF ReplayInv
<1>2. blocks' = blocks \/ blocks' = Append(blocks, restricted)
  BY DEF ReplayNext, replayVars, CloseBlock, BuildSnapshot
<1>3. CASE blocks' = blocks
  BY <1>1, <1>3
<1>4. CASE blocks' = Append(blocks, restricted)
  BY <1>1, <1>4, OneMoreBlock
<1> QED
  BY <1>2, <1>3, <1>4

LEMMA ReplayInvStep ==
  ASSUME ReplayInv, [ReplayNext]_replayVars
  PROVE  ReplayInv'
<1>1. RecordsInv'
  BY RecordsStep, RecordsInvStep DEF ReplayInv
<1>2. \/ snapshot' = snapshot
      \/ \E b \in DOMAIN blocks : snapshot' = SnapshotAt(b)
  BY DEF ReplayNext, replayVars, CloseBlock, BuildSnapshot
<1>3. \A b : SnapshotAt(b).block = b
  BY DEF SnapshotAt
<1>4. snapshot' # Missing => snapshot'.block \in DOMAIN blocks
  BY <1>2, <1>3 DEF ReplayInv
<1> QED
  BY <1>1, <1>4, BlocksStay DEF ReplayInv

THEOREM ReplayInvariance == ReplaySpec => []ReplayInv
<1>1. ReplayInit => ReplayInv
  <2> SUFFICES ASSUME ReplayInit PROVE ReplayInv
    OBVIOUS
  <2>1. <<restricted>> \in Seq({restricted})
    OBVIOUS
  <2> QED
    BY <2>1, RecordsInit DEF ReplayInit, ReplayInv
<1>2. ReplayInv /\ [ReplayNext]_replayVars => ReplayInv'
  BY ReplayInvStep
<1> QED
  BY <1>1, <1>2, PTL DEF ReplaySpec

(* A registry built anew from the ledger it was built from has the same    *)
(* rows, whatever was revoked in between.                                  *)
LEMMA RegistryFollowsStep ==
  ASSUME ReplayInv, [ReplayNext]_replayVars,
         registry # Missing, registry' # Missing, registry'.ledger = registry.ledger
  PROVE  registry'.grants = registry.grants
<1>1. registry.grants = RowsIn(registry.ledger)
  BY DEF ReplayInv, RecordsInv, FilesFollow
<1>2. RecordsInv'
  BY ReplayInvStep DEF ReplayInv
<1>3. registry'.grants = RowsIn(registry'.ledger)
  BY <1>2 DEF RecordsInv, FilesFollow
<1> QED
  BY <1>1, <1>3

\* The rows of a grant, and whom the first found names.
RowsAbout(r, id) == {n \in DOMAIN r.grants : r.grants[n].grantId = id}
NamedIn(r, id) == r.grants[CHOOSE n \in RowsAbout(r, id) : TRUE].beneficiary

LEMMA NamedByManifest ==
  ASSUME NEW r, NEW files, FromManifests(r.ledger, files), r.grants = RowsIn(r.ledger), NEW id
  PROVE  /\ id \in DOMAIN r.ledger.grants => RowsAbout(r, id) # {}
         /\ RowsAbout(r, id) # {} => NamedIn(r, id) = files[id].employee
<1> DEFINE l == r.ledger
           c == Cardinality(DOMAIN l.grants)
<1>1. DOMAIN l.grants \subseteq Id /\ \A i \in DOMAIN l.grants : l.grants[i].create = files[i]
  BY DEF FromManifests
<1> HIDE DEF l
<1>2. /\ c \in Nat /\ DOMAIN RowsIn(l) = 1 .. c
      /\ \A n \in 1 .. c : /\ RowsIn(l)[n].grantId \in DOMAIN l.grants
                           /\ RowsIn(l)[n] = RowIn(l, RowsIn(l)[n].grantId)
      /\ \A i \in DOMAIN l.grants : \E n \in 1 .. c : RowsIn(l)[n].grantId = i
  BY <1>1, RowsList
<1>3. r.grants = RowsIn(l)
  BY DEF l
<1> HIDE DEF c
<1>4. id \in DOMAIN l.grants => RowsAbout(r, id) # {}
  BY <1>2, <1>3 DEF RowsAbout
<1>5. ASSUME RowsAbout(r, id) # {} PROVE NamedIn(r, id) = files[id].employee
  <2> DEFINE n == CHOOSE k \in RowsAbout(r, id) : TRUE
  <2>1. n \in RowsAbout(r, id)
    BY <1>5
  <2> HIDE DEF n
  <2>2. n \in 1 .. c /\ RowsIn(l)[n].grantId = id
    BY <1>2, <1>3, <2>1 DEF RowsAbout
  <2>3. id \in DOMAIN l.grants /\ RowsIn(l)[n] = RowIn(l, id)
    BY <1>2, <2>2
  <2>4. RowIn(l, id).beneficiary = l.grants[id].create.employee
    BY DEF RowIn
  <2>5. NamedIn(r, id) = RowsIn(l)[n].beneficiary
    BY <1>3 DEF NamedIn, n
  <2> QED
    BY <1>1, <2>3, <2>4, <2>5
<1> QED
  BY <1>4, <1>5 DEF l

(* A snapshot that verifies goes on doing so while the ledger is the same: *)
(* its block is still there, and a registry built anew names whom the      *)
(* manifests name.                                                         *)
LEMMA SnapshotStep ==
  ASSUME ReplayInv, [ReplayNext]_replayVars,
         snapshot # Missing, snapshot' = snapshot, ledger' = ledger, ReplayVerifies
  PROVE  ReplayVerifies'
<1>1. GrantsFound /\ snapshot = SnapshotAt(snapshot.block)
  BY DEF ReplayVerifies
<1>2. PICK b : b = snapshot.block
  OBVIOUS
<1>3. blocks'[b] = blocks[b]
  BY <1>2, BlocksStay DEF ReplayInv
<1>4. registry' = registry \/ BuildRegistry
  BY DEF ReplayNext, RecordsNext, ProofsNext, replayVars, vars, CloseBlock, BuildSnapshot, CreateGrant,
         RevokeGrant, Mine, Derived, UpdateLedger, BuildMerkleRoot, Attest
<1>5. ASSUME NEW id \in DOMAIN ledger.grants
      PROVE  RowsOf(id)' # {} /\ Beneficiary(id)' = Beneficiary(id)
  <2>1. RowsOf(id) # {} /\ registry # Missing
    BY <1>1 DEF GrantsFound, RowsOf
  <2>2. CASE registry' = registry
    BY <2>1, <2>2 DEF RowsOf, Beneficiary
  <2>3. CASE BuildRegistry
    <3>1. RowsAbout(registry, id) # {} /\ Beneficiary(id) = NamedIn(registry, id)
      BY <2>1 DEF RowsOf, Beneficiary, RowsAbout, NamedIn
    <3>2. FromManifests(registry.ledger, manifests) /\ registry.grants = RowsIn(registry.ledger)
      BY <2>1 DEF ReplayInv, RecordsInv, FilesFollow
    <3>3. NamedIn(registry, id) = manifests[id].employee
      BY <3>1, <3>2, NamedByManifest
    <3>4. /\ FromManifests(registry'.ledger, manifests) /\ registry'.grants = RowsIn(registry'.ledger)
          /\ registry'.ledger = ledger
      BY <2>3, RegistryFollows DEF ReplayInv
    <3>5. registry' # Missing
      <4>1. "missing" \in DOMAIN Missing /\ "missing" \notin DOMAIN registry'
        BY <2>3 DEF BuildRegistry, Missing
      <4> QED
        BY <4>1
    <3> DEFINE r == registry'
    <3>6. FromManifests(r.ledger, manifests) /\ r.grants = RowsIn(r.ledger) /\ id \in DOMAIN r.ledger.grants
      BY <3>4
    <3> HIDE DEF r
    <3>7. RowsAbout(r, id) # {} /\ NamedIn(r, id) = manifests[id].employee
      BY <3>6, NamedByManifest
    <3>8. RowsOf(id)' = RowsAbout(r, id) /\ Beneficiary(id)' = NamedIn(r, id)
      BY <3>5 DEF RowsOf, Beneficiary, RowsAbout, NamedIn, r
    <3> QED
      BY <3>1, <3>3, <3>7, <3>8
  <2> QED
    BY <1>4, <2>2, <2>3
<1>6. GrantsFound'
  BY <1>1, <1>5 DEF GrantsFound
<1>7. SnapshotAt(b)' = SnapshotAt(b)
  <2>1. \A id \in DOMAIN ledger.grants : State(id, b)' = State(id, b)
    BY <1>3, <1>5 DEF State
  <2> QED
    BY <2>1 DEF SnapshotAt
<1>8. snapshot' = SnapshotAt(b)'
  BY <1>1, <1>2, <1>7
<1> QED
  BY <1>2, <1>6, <1>8 DEF ReplayVerifies

(* For any registries, chains and blocks: two registries of one ledger say *)
(* the same, and no snapshot fails for what came after its block.          *)
THEOREM FilesAlwaysFollowLedger == ReplaySpec => FilesFollowLedger
<1>1. ASSUME ReplayInv, [ReplayNext]_replayVars
      PROVE  [registry # Missing /\ registry' # Missing /\ registry'.ledger = registry.ledger
              => registry'.grants = registry.grants]_vars
  BY <1>1, RegistryFollowsStep
<1>2. ASSUME ReplayInv, [ReplayNext]_replayVars
      PROVE  [snapshot # Missing /\ snapshot' = snapshot /\ ledger' = ledger
              => (ReplayVerifies => ReplayVerifies')]_replayVars
  BY <1>2, SnapshotStep
<1> QED
  BY <1>1, <1>2, ReplayInvariance, PTL
     DEF ReplaySpec, FilesFollowLedger, RegistryFollowsLedger, SnapshotStands

=============================================================================
