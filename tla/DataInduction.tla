---------------------------- MODULE DataInduction ----------------------------
(***************************************************************************)
(* Induction over numbers and finite sets, stated with a set where one     *)
(* would expect a predicate, so that first-order provers can use it: take  *)
(* {n \in Nat : P(n)}.  On top of it, what sums over finite sets do.       *)
(***************************************************************************)
EXTENDS Integers, SetSums, FiniteSetTheorems, WellFoundedInduction, TLAPS

-----------------------------------------------------------------------------
(* Induction                                                               *)

LEMMA LeastOfNaturals ==
  ASSUME NEW S \in SUBSET Nat, S # {}
  PROVE  Min(S) \in S /\ \A n \in S : Min(S) <= n
<1> DEFINE Below == {ss \in Nat \X Nat : ss[1] < ss[2]}
<1>0. IsWellFoundedOn(Below, Nat)
  BY NatLessThanWellFounded DEF OpToRel
<1>1. PICK m \in S : \A n \in S : ~ (<<n, m>> \in Below)
  <2> HIDE DEF Below
  <2> QED
    BY <1>0, WFMin
<1>2. \A n \in S : m <= n
  <2> SUFFICES ASSUME NEW n \in S, n < m PROVE FALSE
    BY S \subseteq Nat
  <2>1. <<n, m>> \in Below
    BY n \in Nat, m \in Nat
  <2> HIDE DEF Below
  <2> QED
    BY <1>1, <2>1
<1> QED
  BY <1>2 DEF Min

LEMMA GreatestBelow ==
  ASSUME NEW n \in Nat, NEW S \in SUBSET (1 .. n), S # {}
  PROVE  \E m \in S : \A k \in S : k <= m
<1> DEFINE T == {n - k : k \in S}
<1>1. T \in SUBSET Nat /\ T # {}
  <2>1. \A k \in S : k \in 1 .. n /\ n - k \in Nat
    OBVIOUS
  <2> QED
    BY <2>1
<1>2. PICK x \in T : \A y \in T : x <= y
  BY <1>1, LeastOfNaturals
<1>3. PICK m \in S : x = n - m
  BY <1>2
<1>4. \A k \in S : n - m <= n - k
  BY <1>2, <1>3
<1>5. \A k \in S : k <= m
  BY <1>4
<1> QED
  BY <1>5

LEMMA NumberInduction ==
  ASSUME NEW S, 0 \in S, \A n \in Nat : n \in S => n + 1 \in S
  PROVE  Nat \subseteq S
<1> DEFINE T == {n \in Nat : n \notin S}
<1> SUFFICES ASSUME T # {} PROVE FALSE
  OBVIOUS
<1>1. PICK m \in T : \A n \in T : m <= n
  BY LeastOfNaturals, T \subseteq Nat
<1>2. m - 1 \in Nat /\ m - 1 \notin T
  BY <1>1
<1> QED
  BY <1>1, <1>2

LEMMA FiniteInduction ==
  ASSUME NEW A, IsFiniteSet(A), NEW C, {} \in C,
         \A s \in SUBSET A, x \in A : s \in C /\ x \notin s => s \cup {x} \in C
  PROVE  SUBSET A \subseteq C
<1> DEFINE N == {n \in Nat : \A s \in SUBSET A : Cardinality(s) = n => s \in C}
<1>0. \A s \in SUBSET A : IsFiniteSet(s) /\ Cardinality(s) \in Nat
  BY FS_Subset, FS_CardinalityType
<1>1. 0 \in N
  BY <1>0, FS_EmptySet
<1>2. ASSUME NEW n \in Nat, n \in N PROVE n + 1 \in N
  <2> SUFFICES ASSUME NEW s \in SUBSET A, Cardinality(s) = n + 1 PROVE s \in C
    OBVIOUS
  <2>1. PICK x \in s : TRUE
    BY <1>0, FS_EmptySet
  <2>2. Cardinality(s \ {x}) = n
    <3>1. Cardinality(s \ {x}) = Cardinality(s) - 1
      BY <1>0, <2>1, FS_RemoveElement
    <3> QED
      BY <3>1
  <2>3. s \ {x} \in C
    BY <1>2, <2>2
  <2>4. (s \ {x}) \cup {x} \in C
    BY <2>1, <2>3
  <2> QED
    BY <2>1, <2>4, (s \ {x}) \cup {x} = s
<1>3. Nat \subseteq N
  <2> HIDE DEF N
  <2> QED
    BY <1>1, <1>2, NumberInduction
<1> QED
  BY <1>0, <1>3

-----------------------------------------------------------------------------
(* Sums                                                                    *)

\* The element a fold takes out of a set.
Some(s) == CHOOSE x \in s : TRUE

SumStep(f, g, s) == IF s = {} THEN 0 ELSE f[Some(s)] + g[s \ {Some(s)}]

\* g has the sum of f over every subset of S.
Sums(S, f, g) == g = [s \in SUBSET S |-> SumStep(f, g, s)]

LEMMA SumsExist ==
  ASSUME NEW S, IsFiniteSet(S), NEW f
  PROVE  \E g : Sums(S, f, g)
<1> DEFINE UpTo(n, g) == \A s \in SUBSET S : Cardinality(s) <= n => g[s] = SumStep(f, g, s)
           N == {n \in Nat : \E g : UpTo(n, g)}
<1>0. \A s \in SUBSET S : IsFiniteSet(s) /\ Cardinality(s) \in Nat
  BY FS_Subset, FS_CardinalityType
<1>1. 0 \in N
  <2>1. UpTo(0, [s \in SUBSET S |-> 0])
    BY <1>0, FS_EmptySet DEF SumStep
  <2> QED
    BY <2>1
<1>2. ASSUME NEW n \in Nat, n \in N PROVE n + 1 \in N
  <2>1. PICK g : UpTo(n, g)
    BY <1>2
  <2> DEFINE h == [s \in SUBSET S |-> IF Cardinality(s) <= n THEN g[s] ELSE SumStep(f, g, s)]
  <2>2. ASSUME NEW s \in SUBSET S, Cardinality(s) <= n + 1 PROVE h[s] = SumStep(f, h, s)
    <3>1. CASE s = {}
      <4>1. Cardinality(s) = 0
        BY <3>1, FS_EmptySet
      <4> QED
        BY <2>1, <3>1, <4>1 DEF SumStep
    <3>2. CASE s # {}
      <4>1. Some(s) \in s
        BY <3>2 DEF Some
      <4>2. Cardinality(s \ {Some(s)}) = Cardinality(s) - 1
        BY <1>0, <4>1, FS_RemoveElement
      <4>3. s \ {Some(s)} \in SUBSET S /\ Cardinality(s \ {Some(s)}) <= n
        BY <1>0, <2>2, <4>2
      <4>4. h[s \ {Some(s)}] = g[s \ {Some(s)}]
        BY <4>3
      <4>5. h[s] = SumStep(f, g, s)
        BY <2>1, <2>2
      <4> QED
        BY <4>4, <4>5, <3>2 DEF SumStep
    <3> QED
      BY <3>1, <3>2
  <2>3. UpTo(n + 1, h)
    BY <2>2
  <2> HIDE DEF UpTo, h
  <2> QED
    BY <2>3
<1>3. Cardinality(S) \in N
  <2> HIDE DEF N
  <2> QED
    BY <1>0, <1>1, <1>2, NumberInduction
<1>4. PICK g : UpTo(Cardinality(S), g)
  BY <1>3
<1> DEFINE h == [s \in SUBSET S |-> g[s]]
<1>5. \A s \in SUBSET S : h[s] = SumStep(f, h, s)
  <2> SUFFICES ASSUME NEW s \in SUBSET S PROVE h[s] = SumStep(f, h, s)
    OBVIOUS
  <2>1. g[s] = SumStep(f, g, s)
    BY <1>4, FS_Subset
  <2>2. s # {} => Some(s) \in s
    BY DEF Some
  <2> QED
    BY <2>1, <2>2 DEF SumStep
<1>6. Sums(S, f, h)
  BY <1>5 DEF Sums
<1> QED
  BY <1>6

\* A sum is what one such function says.
LEMMA SumIsOneOf ==
  ASSUME NEW S, IsFiniteSet(S), NEW f
  PROVE  \E g : Sums(S, f, g) /\ SumOver(S, f) = g[S]
<1> DEFINE P(g) == Sums(S, f, g)
<1>1. SumOver(S, f) = (CHOOSE g : P(g))[S]
  BY DEF SumOver, MapThenSumSet, MapThenFoldSet, Sums, SumStep, Some
<1>2. \E g : P(g)
  BY SumsExist
<1>3. P(CHOOSE g : P(g))
  <2> HIDE DEF P
  <2> QED
    BY <1>2, Zenon
<1>4. Sums(S, f, CHOOSE g : P(g))
  BY <1>3
<1> HIDE DEF P
<1> QED
  BY <1>1, <1>4

\* It depends on the values of f in the set only.
LEMMA SumsAgree ==
  ASSUME NEW S, IsFiniteSet(S), NEW T \in SUBSET S, NEW f, NEW h, NEW g, NEW k,
         Sums(S, f, g), Sums(T, h, k), \A x \in T : h[x] = f[x]
  PROVE  k[T] = g[T]
<1> DEFINE C == {s \in SUBSET T : k[s] = g[s]}
           N == {n \in Nat : \A s \in SUBSET T : Cardinality(s) = n => s \in C}
<1>0. \A s \in SUBSET T : IsFiniteSet(s) /\ Cardinality(s) \in Nat
  BY FS_Subset, FS_CardinalityType
<1>1. \A s \in SUBSET T : k[s] = SumStep(h, k, s) /\ g[s] = SumStep(f, g, s)
  BY DEF Sums
<1>2. 0 \in N
  <2> SUFFICES ASSUME NEW s \in SUBSET T, Cardinality(s) = 0 PROVE k[s] = g[s]
    OBVIOUS
  <2>1. s = {}
    BY <1>0, FS_EmptySet
  <2>2. g[s] = 0 /\ k[s] = 0
    BY <1>1, <2>1 DEF SumStep
  <2> QED
    BY <2>2
<1>3. ASSUME NEW n \in Nat, n \in N PROVE n + 1 \in N
  <2> SUFFICES ASSUME NEW s \in SUBSET T, Cardinality(s) = n + 1 PROVE k[s] = g[s]
    OBVIOUS
  <2>1. s # {}
    BY <1>0, FS_EmptySet
  <2>2. Some(s) \in s
    BY <2>1 DEF Some
  <2>3. Cardinality(s \ {Some(s)}) = Cardinality(s) - 1
    BY <1>0, <2>2, FS_RemoveElement
  <2>4. k[s \ {Some(s)}] = g[s \ {Some(s)}]
    BY <1>3, <2>3
  <2>5. k[s] = SumStep(h, k, s) /\ g[s] = SumStep(f, g, s)
    BY <1>1
  <2> QED
    BY <2>1, <2>2, <2>4, <2>5 DEF SumStep
<1>4. Cardinality(T) \in N
  <2> HIDE DEF N
  <2> QED
    BY <1>0, <1>2, <1>3, NumberInduction
<1> QED
  BY <1>4

LEMMA SumSame ==
  ASSUME NEW S, IsFiniteSet(S), NEW f, NEW h, \A x \in S : f[x] = h[x]
  PROVE  SumOver(S, f) = SumOver(S, h)
<1>1. PICK g : Sums(S, f, g) /\ SumOver(S, f) = g[S]
  BY SumIsOneOf
<1>2. PICK k : Sums(S, h, k) /\ SumOver(S, h) = k[S]
  BY SumIsOneOf
<1> QED
  BY <1>1, <1>2, SumsAgree

\* The same one says what the sums over the subsets are.
LEMMA SumOfSubset ==
  ASSUME NEW S, IsFiniteSet(S), NEW f, NEW g, Sums(S, f, g), NEW T \in SUBSET S
  PROVE  SumOver(T, f) = g[T]
<1>1. IsFiniteSet(T)
  BY FS_Subset
<1>2. PICK k : Sums(T, f, k) /\ SumOver(T, f) = k[T]
  BY <1>1, SumIsOneOf
<1> QED
  BY <1>2, SumsAgree

\* Any element may be taken out first, not only the chosen one.
LEMMA SumsTakeAny ==
  ASSUME NEW S, IsFiniteSet(S), NEW f, \A x \in S : f[x] \in Int, NEW g, Sums(S, f, g)
  PROVE  \A s \in SUBSET S : g[s] \in Int /\ \A x \in s : g[s] = f[x] + g[s \ {x}]
<1> DEFINE Good(s) == g[s] \in Int /\ \A x \in s : g[s] = f[x] + g[s \ {x}]
           N == {n \in Nat : \A s \in SUBSET S : Cardinality(s) <= n => Good(s)}
<1>0. \A s \in SUBSET S : IsFiniteSet(s) /\ Cardinality(s) \in Nat
  BY FS_Subset, FS_CardinalityType
<1>1. \A s \in SUBSET S : g[s] = SumStep(f, g, s)
  BY DEF Sums
<1>2. 0 \in N
  <2> SUFFICES ASSUME NEW s \in SUBSET S, Cardinality(s) <= 0 PROVE Good(s)
    OBVIOUS
  <2>1. s = {}
    BY <1>0, FS_EmptySet
  <2>2. g[s] = 0
    BY <1>1, <2>1 DEF SumStep
  <2> QED
    BY <2>1, <2>2
<1>3. ASSUME NEW n \in Nat, n \in N PROVE n + 1 \in N
  <2> SUFFICES ASSUME NEW s \in SUBSET S, Cardinality(s) <= n + 1 PROVE Good(s)
    OBVIOUS
  <2>0. CASE s = {}
    <3>1. g[s] = 0
      BY <1>1, <2>0 DEF SumStep
    <3> QED
      BY <3>1, <2>0
  <2> SUFFICES ASSUME s # {} PROVE Good(s)
    <3> HIDE DEF Good
    <3> QED
      BY <2>0
  <2> DEFINE c == Some(s)
  <2>1. c \in s
    BY DEF Some
  <2>2. \A x \in s : Good(s \ {x})
    <3> SUFFICES ASSUME NEW x \in s PROVE Good(s \ {x})
      OBVIOUS
    <3>1. Cardinality(s \ {x}) = Cardinality(s) - 1
      BY <1>0, FS_RemoveElement
    <3>2. Cardinality(s \ {x}) <= n
      BY <1>0, <3>1
    <3> HIDE DEF Good
    <3> QED
      BY <1>3, <3>2
  <2>3. g[s] = f[c] + g[s \ {c}]
    BY <1>1, <2>1 DEF SumStep
  <2>4. f[c] \in Int /\ g[s] \in Int
    <3>1. g[s \ {c}] \in Int
      BY <2>1, <2>2
    <3>2. f[c] \in Int
      BY <2>1
    <3> HIDE DEF c
    <3> QED
      BY <2>3, <3>1, <3>2
  <2> HIDE DEF c
  <2>5. ASSUME NEW x \in s, x # c PROVE g[s] = f[x] + g[s \ {x}]
    <3> DEFINE u == (s \ {x}) \ {c}
    <3>1. (s \ {c}) \ {x} = u
      OBVIOUS
    <3>2. g[s \ {c}] = f[x] + g[u]
      BY <2>1, <2>2, <2>5, <3>1
    <3>3. g[s \ {x}] = f[c] + g[u]
      BY <2>1, <2>2, <2>5
    <3>4. f[x] \in Int /\ g[s \ {c}] \in Int /\ g[s \ {x}] \in Int
      BY <2>1, <2>2
    <3>5. g[u] \in Int
      <4>1. Good((s \ {x}) \ {c})
        <5>1. Cardinality(s \ {x}) = Cardinality(s) - 1
          BY <1>0, FS_RemoveElement
        <5>2. Cardinality(u) = Cardinality(s \ {x}) - 1
          BY <1>0, <2>1, <2>5, FS_RemoveElement
        <5>3. Cardinality(u) <= n /\ u \in SUBSET S
          BY <1>0, <5>1, <5>2
        <5> HIDE DEF Good, u
        <5>4. Good(u)
          BY <1>3, <5>3
        <5> QED
          BY <5>4 DEF u
      <4> QED
        BY <4>1
    <3> HIDE DEF u
    <3> QED
      BY <2>3, <2>4, <3>2, <3>3, <3>4, <3>5
  <2> QED
    BY <2>3, <2>4, <2>5
<1>4. Nat \subseteq N
  <2> HIDE DEF N
  <2> QED
    BY <1>2, <1>3, NumberInduction
<1>5. \A s \in SUBSET S : Good(s)
  <2> SUFFICES ASSUME NEW s \in SUBSET S PROVE Good(s)
    OBVIOUS
  <2> DEFINE c == Cardinality(s)
  <2>1. c \in Nat /\ c <= c
    BY <1>0
  <2>2. c \in N
    BY <1>4, <2>1
  <2> HIDE DEF Good
  <2> QED
    BY <2>1, <2>2
<1> QED
  BY <1>5

(* What the proofs about sums use: an element can be taken out, and a sum  *)
(* changes by what one summand changes.                                    *)
LEMMA SumRemove ==
  ASSUME NEW S, IsFiniteSet(S), NEW f, \A x \in S : f[x] \in Int, NEW a \in S
  PROVE  SumOver(S, f) = f[a] + SumOver(S \ {a}, f)
<1>1. PICK g : Sums(S, f, g) /\ SumOver(S, f) = g[S]
  BY SumIsOneOf
<1>2. SumOver(S \ {a}, f) = g[S \ {a}]
  BY <1>1, SumOfSubset
<1>3. g[S] = f[a] + g[S \ {a}]
  BY <1>1, SumsTakeAny
<1> QED
  BY <1>1, <1>2, <1>3

LEMMA SumIsInt ==
  ASSUME NEW S, IsFiniteSet(S), NEW f, \A x \in S : f[x] \in Int
  PROVE  SumOver(S, f) \in Int
BY SumIsOneOf, SumsTakeAny

LEMMA SumEmpty == \A f : SumOver({}, f) = 0
<1> SUFFICES ASSUME NEW f PROVE SumOver({}, f) = 0
  OBVIOUS
<1>1. PICK g : Sums({}, f, g) /\ SumOver({}, f) = g[{}]
  BY SumIsOneOf, FS_EmptySet
<1> QED
  BY <1>1 DEF Sums, SumStep

LEMMA SumChange ==
  ASSUME NEW S, IsFiniteSet(S), NEW a \in S, NEW f, NEW h,
         \A x \in S : f[x] \in Int /\ h[x] \in Int, \A x \in S \ {a} : h[x] = f[x]
  PROVE  SumOver(S, h) = SumOver(S, f) + h[a] - f[a]
<1>1. IsFiniteSet(S \ {a})
  BY FS_Subset
<1>2. SumOver(S \ {a}, h) = SumOver(S \ {a}, f) /\ SumOver(S \ {a}, f) \in Int
  BY <1>1, SumSame, SumIsInt
<1>3. SumOver(S, f) = f[a] + SumOver(S \ {a}, f)
  BY SumRemove
<1>4. SumOver(S, h) = h[a] + SumOver(S \ {a}, h)
  BY SumRemove
<1> QED
  BY <1>2, <1>3, <1>4

LEMMA SumExcept ==
  ASSUME NEW S, IsFiniteSet(S)
  PROVE  \A f \in [S -> Int], a \in S, v \in Int :
           SumOver(S, [f EXCEPT ![a] = v]) = SumOver(S, f) + v - f[a]
<1> SUFFICES ASSUME NEW f \in [S -> Int], NEW a \in S, NEW v \in Int
             PROVE  SumOver(S, [f EXCEPT ![a] = v]) = SumOver(S, f) + v - f[a]
  OBVIOUS
<1> DEFINE h == [f EXCEPT ![a] = v]
<1>1. /\ \A x \in S : f[x] \in Int /\ h[x] \in Int
      /\ \A x \in S \ {a} : h[x] = f[x]
      /\ h[a] = v
  OBVIOUS
<1> HIDE DEF h
<1>2. SumOver(S, h) = SumOver(S, f) + h[a] - f[a]
  BY <1>1, SumChange
<1> QED
  BY <1>1, <1>2 DEF h

LEMMA SumIsNat ==
  ASSUME NEW S, IsFiniteSet(S), NEW f, \A x \in S : f[x] \in Nat
  PROVE  SumOver(S, f) \in Nat
<1> DEFINE C == {s \in SUBSET S : SumOver(s, f) \in Nat}
<1>1. {} \in C
  BY SumEmpty
<1>2. ASSUME NEW s \in SUBSET S, NEW x \in S, s \in C, x \notin s PROVE s \cup {x} \in C
  <2>1. IsFiniteSet(s \cup {x})
    BY FS_Subset
  <2>2. SumOver(s \cup {x}, f) = f[x] + SumOver((s \cup {x}) \ {x}, f)
    BY <2>1, SumRemove
  <2>3. (s \cup {x}) \ {x} = s
    BY <1>2
  <2> QED
    BY <1>2, <2>2, <2>3
<1>3. SUBSET S \subseteq C
  <2> HIDE DEF C
  <2> QED
    BY <1>1, <1>2, FiniteInduction
<1> QED
  BY <1>3

LEMMA PartOfSum ==
  ASSUME NEW S, IsFiniteSet(S), NEW f, \A x \in S : f[x] \in Nat, NEW a \in S
  PROVE  f[a] <= SumOver(S, f)
<1>1. IsFiniteSet(S \ {a})
  BY FS_Subset
<1>2. SumOver(S \ {a}, f) \in Nat
  BY <1>1, SumIsNat
<1>3. SumOver(S, f) = f[a] + SumOver(S \ {a}, f)
  BY SumRemove
<1> QED
  BY <1>2, <1>3

LEMMA SumOfZeros ==
  ASSUME NEW S, IsFiniteSet(S), NEW f, \A x \in S : f[x] = 0
  PROVE  SumOver(S, f) = 0
<1> DEFINE C == {s \in SUBSET S : SumOver(s, f) = 0}
<1>1. {} \in C
  BY SumEmpty
<1>2. ASSUME NEW s \in SUBSET S, NEW x \in S, s \in C, x \notin s PROVE s \cup {x} \in C
  <2>1. IsFiniteSet(s \cup {x})
    BY FS_Subset
  <2>2. SumOver(s \cup {x}, f) = f[x] + SumOver((s \cup {x}) \ {x}, f)
    BY <2>1, SumRemove
  <2>3. (s \cup {x}) \ {x} = s
    BY <1>2
  <2> QED
    BY <1>2, <2>2, <2>3
<1>3. SUBSET S \subseteq C
  <2> HIDE DEF C
  <2> QED
    BY <1>1, <1>2, FiniteInduction
<1> QED
  BY <1>3

LEMMA SumPlus ==
  ASSUME NEW S, IsFiniteSet(S), NEW f, NEW h, NEW k,
         \A x \in S : f[x] \in Int /\ h[x] \in Int /\ k[x] = f[x] + h[x]
  PROVE  SumOver(S, k) = SumOver(S, f) + SumOver(S, h)
<1> DEFINE C == {s \in SUBSET S : SumOver(s, k) = SumOver(s, f) + SumOver(s, h)}
<1>1. {} \in C
  <2>1. SumOver({}, f) = 0 /\ SumOver({}, h) = 0 /\ SumOver({}, k) = 0
    BY SumEmpty
  <2> QED
    BY <2>1
<1>2. ASSUME NEW s \in SUBSET S, NEW x \in S, s \in C, x \notin s PROVE s \cup {x} \in C
  <2> DEFINE u == s \cup {x}
  <2>1. IsFiniteSet(u) /\ IsFiniteSet(s) /\ u \ {x} = s /\ x \in u
    BY <1>2, FS_Subset
  <2>2. \A y \in u : f[y] \in Int /\ h[y] \in Int /\ k[y] \in Int
    OBVIOUS
  <2>3. SumOver(s, f) \in Int /\ SumOver(s, h) \in Int
    BY <2>1, SumIsInt
  <2> HIDE DEF u
  <2>4. /\ SumOver(u, f) = f[x] + SumOver(s, f)
        /\ SumOver(u, h) = h[x] + SumOver(s, h)
        /\ SumOver(u, k) = k[x] + SumOver(s, k)
    <3>1. \A w : (\A y \in u : w[y] \in Int) => SumOver(u, w) = w[x] + SumOver(u \ {x}, w)
      BY <2>1, SumRemove
    <3> QED
      BY <2>1, <2>2, <3>1
  <2>5. SumOver(s, k) = SumOver(s, f) + SumOver(s, h)
    BY <1>2
  <2>6. k[x] = f[x] + h[x] /\ f[x] \in Int /\ h[x] \in Int
    OBVIOUS
  <2>7. SumOver(u, k) = SumOver(u, f) + SumOver(u, h)
    BY <2>3, <2>4, <2>5, <2>6
  <2> QED
    BY <2>7 DEF u
<1>3. SUBSET S \subseteq C
  <2> HIDE DEF C
  <2> QED
    BY <1>1, <1>2, FiniteInduction
<1> QED
  BY <1>3

LEMMA SumAdd ==
  ASSUME NEW S, IsFiniteSet(S), NEW f, \A x \in S : f[x] \in Int, NEW a, a \notin S, f[a] \in Int
  PROVE  SumOver(S \cup {a}, f) = f[a] + SumOver(S, f)
<1>1. IsFiniteSet(S \cup {a})
  BY FS_AddElement
<1>2. SumOver(S \cup {a}, f) = f[a] + SumOver((S \cup {a}) \ {a}, f)
  BY <1>1, SumRemove
<1>3. (S \cup {a}) \ {a} = S
  OBVIOUS
<1> QED
  BY <1>2, <1>3

\* Terms outside T are zero.
LEMMA SumOfPart ==
  ASSUME NEW S, IsFiniteSet(S), NEW T \in SUBSET S, NEW f, \A x \in S : f[x] \in Int,
         \A x \in S \ T : f[x] = 0
  PROVE  SumOver(S, f) = SumOver(T, f)
<1> DEFINE C == {s \in SUBSET S : SumOver(s, f) = SumOver(s \cap T, f)}
<1>1. {} \in C
  <2>1. {} \cap T = {}
    OBVIOUS
  <2> QED
    BY <2>1
<1>2. ASSUME NEW s \in SUBSET S, NEW x \in S, s \in C, x \notin s PROVE s \cup {x} \in C
  <2>1. IsFiniteSet(s) /\ IsFiniteSet(s \cap T)
    BY FS_Subset
  <2>2. SumOver(s \cup {x}, f) = f[x] + SumOver(s, f)
    BY <1>2, <2>1, SumAdd
  <2>3. SumOver(s, f) = SumOver(s \cap T, f) /\ SumOver(s, f) \in Int
    BY <1>2, <2>1, SumIsInt
  <2>4. CASE x \in T
    <3>1. SumOver((s \cap T) \cup {x}, f) = f[x] + SumOver(s \cap T, f)
      BY <1>2, <2>1, SumAdd
    <3>2. (s \cup {x}) \cap T = (s \cap T) \cup {x}
      BY <2>4
    <3> QED
      BY <2>2, <2>3, <3>1, <3>2
  <2>5. CASE x \notin T
    <3>1. (s \cup {x}) \cap T = s \cap T
      BY <2>5
    <3>2. SumOver(s \cup {x}, f) = SumOver(s, f)
      BY <2>2, <2>3, <2>5
    <3>3. SumOver(s \cup {x}, f) = SumOver((s \cup {x}) \cap T, f)
      BY <2>3, <3>1, <3>2
    <3> QED
      BY <3>3
  <2> QED
    BY <2>4, <2>5
<1>3. S \in C
  <2> HIDE DEF C
  <2> QED
    BY <1>1, <1>2, FiniteInduction
<1>4. S \cap T = T
  OBVIOUS
<1> QED
  BY <1>3, <1>4

\* The same terms under other indices.
LEMMA SumReindexed ==
  ASSUME NEW S, IsFiniteSet(S), NEW T, NEW b \in Bijection(S, T),
         NEW h, \A y \in T : h[y] \in Int, NEW f, \A x \in S : f[x] = h[b[x]]
  PROVE  SumOver(S, f) = SumOver(T, h)
<1> DEFINE Image(s) == {b[x] : x \in s}
           C == {s \in SUBSET S : SumOver(s, f) = SumOver(Image(s), h)}
<1>1. b \in [S -> T] /\ (\A x, y \in S : b[x] = b[y] => x = y) /\ \A y \in T : \E x \in S : b[x] = y
  BY DEF Bijection, Injection, Surjection, IsInjective
<1>2. IsFiniteSet(T)
  BY FS_Bijection DEF ExistsBijection
<1>3. {} \in C
  <2>1. Image({}) = {}
    OBVIOUS
  <2> QED
    BY <2>1, SumEmpty
<1>4. ASSUME NEW s \in SUBSET S, NEW x \in S, s \in C, x \notin s PROVE s \cup {x} \in C
  <2>1. Image(s) \in SUBSET T /\ b[x] \in T /\ b[x] \notin Image(s)
    BY <1>1, <1>4
  <2>2. Image(s \cup {x}) = Image(s) \cup {b[x]}
    OBVIOUS
  <2>3. SumOver(s, f) = SumOver(Image(s), h)
    BY <1>4
  <2> HIDE DEF Image
  <2>4. IsFiniteSet(s) /\ IsFiniteSet(Image(s))
    BY <1>2, <2>1, FS_Subset
  <2>5. \A y \in S : f[y] \in Int
    BY <1>1
  <2>6. SumOver(s \cup {x}, f) = f[x] + SumOver(s, f)
    BY <1>4, <2>4, <2>5, SumAdd
  <2>7. SumOver(Image(s) \cup {b[x]}, h) = h[b[x]] + SumOver(Image(s), h)
    BY <2>1, <2>4, SumAdd
  <2> QED
    BY <2>2, <2>3, <2>6, <2>7
<1>5. S \in C
  <2> HIDE DEF C
  <2> QED
    BY <1>3, <1>4, FiniteInduction
<1>6. Image(S) = T
  BY <1>1
<1> QED
  BY <1>5, <1>6

LEMMA FirstNumbers == \A n \in Nat : IsFiniteSet(1 .. n) /\ Cardinality(1 .. n) = n
<1> SUFFICES ASSUME NEW n \in Nat PROVE IsFiniteSet(1 .. n) /\ Cardinality(1 .. n) = n
  OBVIOUS
<1>1. IsFiniteSet(1 .. n) /\ Cardinality(1 .. n) = IF 1 > n THEN 0 ELSE n - 1 + 1
  BY FS_Interval
<1> QED
  BY <1>1

\* The sum over the first n + 1 positions.
LEMMA SumOfFirst ==
  ASSUME NEW n \in Nat, NEW f, \A i \in 1 .. n + 1 : f[i] \in Int
  PROVE  SumOver(1 .. n + 1, f) = SumOver(1 .. n, f) + f[n + 1] /\ SumOver(1 .. n, f) \in Int
<1>1. IsFiniteSet(1 .. n)
  BY FS_Interval
<1>2. 1 .. n + 1 = (1 .. n) \cup {n + 1} /\ n + 1 \notin 1 .. n /\ n + 1 \in 1 .. n + 1
  OBVIOUS
<1>3. SumOver(1 .. n, f) \in Int
  BY <1>1, <1>2, SumIsInt
<1>4. SumOver((1 .. n) \cup {n + 1}, f) = f[n + 1] + SumOver(1 .. n, f)
  BY <1>1, <1>2, SumAdd
<1>5. SumOver(1 .. n + 1, f) = f[n + 1] + SumOver(1 .. n, f)
  BY <1>2, <1>4
<1>6. f[n + 1] \in Int
  BY <1>2
<1> QED
  BY <1>3, <1>5, <1>6

=============================================================================
