------------------------- MODULE TransparencyLogProofs -------------------------
(***************************************************************************)
(* The log file and its receipts for any number of processes, scripts and  *)
(* artifacts.  However whole-file writes interleave and wherever runs die, *)
(* what lies on disk is one of the results the scripts compute, each sound *)
(* if what was read was, and every log read had been on disk.  Run one at  *)
(* a time the scripts do more: the log read is the log on disk, so it only *)
(* grows, and what checkpoints, proofs and anchors say of it stays true.   *)
(***************************************************************************)
EXTENDS TransparencyLog, LogReceipts, DataInduction

\* The fields of an entry are those of NewEntry.
IsEntry(e) ==
  e = [kind |-> e.kind, artifact |-> e.artifact, index |-> e.index, prev |-> e.prev,
       hash |-> e.hash, leaf |-> e.leaf, cumulative |-> e.cumulative]

IsEntries(s) ==
  /\ \E S : s \in Seq(S)
  /\ \A i \in DOMAIN s : IsEntry(s[i]) /\ s[i].artifact \in Artifact

Numbered(s) == \A i \in DOMAIN s : s[i].index = i - 1

Once(s) ==
  \A i, j \in DOMAIN s : \A a \in Artifact :
    IsLifecycleOf(s[i], a) /\ IsLifecycleOf(s[j], a) => i = j

\* A log as the scripts leave it.
Good(l) ==
  /\ IsEntries(l.entries) /\ Numbered(l.entries) /\ Once(l.entries)
  /\ l.count = Len(l.entries) /\ l.head = HeadHash(l.entries)
  /\ OneFormula(l) => LogVerifies(l)

Appending == {"generic", "lifecycle", "replay"}

\* What a run of one of the scripts holds: a good log, with room for the
\* entry it will append.
RunInv(r, scripts) ==
  \/ r = Idle
  \/ /\ r.script \in scripts \cup {"replayed"}
     /\ Good(r.read) /\ Len(r.read.entries) <= MaxEntries
     /\ r.script \in Writers => r = [script |-> r.script, artifact |-> r.artifact, read |-> r.read]
                               /\ r.artifact \in Artifact
     /\ r.script \in Appending => Len(r.read.entries) < MaxEntries

LogInv ==
  /\ practice.scripts \subseteq AllScripts
  /\ disk \in {"absent", "json", "torn"}
  /\ Good(log) /\ Len(log.entries) <= MaxEntries
  /\ checkpoint.count \in 0 .. MaxEntries
  /\ run = [p \in Process |-> run[p]]
  /\ \A p \in Process : RunInv(run[p], practice.scripts)

-----------------------------------------------------------------------------
(* What the scripts compute                                                *)

\* The hashes are filled in last.
Filled(e, hash, leaf) == [e EXCEPT !.hash = hash, !.leaf = leaf]

\* Filling them in leaves an entry what it is.
LEMMA FilledEntry ==
  ASSUME NEW e, IsEntry(e), NEW hash, NEW leaf
  PROVE  LET x == Filled(e, hash, leaf) IN
         IsEntry(x) /\ x.kind = e.kind /\ x.artifact = e.artifact /\ x.index = e.index
<1> DEFINE y == [e EXCEPT !.hash = hash]
           z == [y EXCEPT !.leaf = leaf]
<1>1. y = [kind |-> e.kind, artifact |-> e.artifact, index |-> e.index, prev |-> e.prev,
           hash |-> hash, leaf |-> e.leaf, cumulative |-> e.cumulative]
  BY DEF IsEntry
<1> HIDE DEF y
<1>2. z = [kind |-> e.kind, artifact |-> e.artifact, index |-> e.index, prev |-> e.prev,
           hash |-> hash, leaf |-> leaf, cumulative |-> e.cumulative]
  BY <1>1
<1> HIDE DEF z
<1>3. IsEntry(z) /\ z.kind = e.kind /\ z.artifact = e.artifact /\ z.index = e.index
  BY <1>2 DEF IsEntry
<1> QED
  BY <1>3 DEF y, z, Filled

LEMMA LengthOfEntries ==
  ASSUME NEW s, IsEntries(s)
  PROVE  Len(s) \in Nat /\ DOMAIN s = 1 .. Len(s)
BY DEF IsEntries

LEMMA AppendedEntries ==
  ASSUME NEW s, IsEntries(s), NEW e
  PROVE  /\ \E S : Append(s, e) \in Seq(S)
         /\ Len(Append(s, e)) = Len(s) + 1
         /\ DOMAIN Append(s, e) = 1 .. Len(s) + 1
         /\ \A i \in 1 .. Len(s) : Append(s, e)[i] = s[i]
         /\ Append(s, e)[Len(s) + 1] = e
<1>1. PICK S : s \in Seq(S)
  BY DEF IsEntries
<1>2. s \in Seq(S \cup {e}) /\ e \in S \cup {e}
  BY <1>1
<1>3. Append(s, e) \in Seq(S \cup {e})
  BY <1>2
<1> QED
  BY <1>2, <1>3

\* rebuildEntries keeps what the entries are about and computes the rest.
LEMMA Rebuilt ==
  ASSUME NEW s, IsEntries(s)
  PROVE  LET r == RebuildEntries(s) IN
         /\ IsEntries(r) /\ Numbered(r) /\ Len(r) = Len(s)
         /\ \A i \in 1 .. Len(s) :
              /\ r[i].kind = s[i].kind /\ r[i].artifact = s[i].artifact
              /\ r[i].prev = s[i].prev /\ r[i].leaf = s[i].leaf
              /\ r[i].hash = Digest(Generic, r[i])
              /\ r[i].cumulative = Root(Generic, [j \in 1 .. i |-> Digest(Generic, r[j])])
<1> DEFINE r == RebuildEntries(s)
           n == Len(s)
           bare(i) == [kind |-> s[i].kind, artifact |-> s[i].artifact, index |-> i - 1,
                       prev |-> s[i].prev, hash |-> s[i].hash, leaf |-> s[i].leaf,
                       cumulative |-> s[i].cumulative]
           h(i) == Digest(Generic, bare(i))
           c(i) == Root(Generic, [j \in 1 .. i |-> h(j)])
<1>1. n \in Nat /\ DOMAIN s = 1 .. n
  BY LengthOfEntries
<1>2. ASSUME NEW i \in 1 .. n PROVE [s[i] EXCEPT !.index = i - 1] = bare(i)
  <2>1. IsEntry(s[i])
    BY <1>1 DEF IsEntries
  <2> QED
    BY <2>1 DEF IsEntry
<1>3. ASSUME NEW i \in 1 .. n
      PROVE  r[i] = [kind |-> s[i].kind, artifact |-> s[i].artifact, index |-> i - 1,
                     prev |-> s[i].prev, hash |-> h(i), leaf |-> s[i].leaf, cumulative |-> c(i)]
  <2>1. r[i] = [[s[i] EXCEPT !.index = i - 1] EXCEPT
                  !.hash = Digest(Generic, [s[i] EXCEPT !.index = i - 1]),
                  !.cumulative = Root(Generic, [j \in 1 .. i |->
                                   Digest(Generic, [s[j] EXCEPT !.index = j - 1])])]
    BY <1>1 DEF RebuildEntries
  <2>2. [j \in 1 .. i |-> Digest(Generic, [s[j] EXCEPT !.index = j - 1])] = [j \in 1 .. i |-> h(j)]
    <3>1. \A j \in 1 .. i : j \in 1 .. n
      BY <1>1
    <3> QED
      BY <1>2, <3>1
  <2>3. r[i] = [bare(i) EXCEPT !.hash = h(i), !.cumulative = c(i)]
    BY <1>2, <2>1, <2>2
  <2> QED
    BY <2>3
<1>4. DOMAIN r = 1 .. n /\ r = [i \in 1 .. n |-> r[i]]
  BY <1>1 DEF RebuildEntries
<1> HIDE DEF r
<1>5. r \in Seq({r[i] : i \in 1 .. n}) /\ Len(r) = n
  BY <1>1, <1>4
<1>6. ASSUME NEW i \in 1 .. n PROVE h(i) = Digest(Generic, r[i])
  <2> DEFINE hash == h(i)  cumulative == c(i)
  <2>1. r[i] = [kind |-> s[i].kind, artifact |-> s[i].artifact, index |-> i - 1,
                prev |-> s[i].prev, hash |-> hash, leaf |-> s[i].leaf, cumulative |-> cumulative]
    BY <1>3
  <2> HIDE DEF hash, cumulative
  <2>2. /\ r[i].kind = s[i].kind /\ r[i].artifact = s[i].artifact /\ r[i].index = i - 1
        /\ r[i].prev = s[i].prev /\ r[i].leaf = s[i].leaf
    BY <2>1
  <2>3. Content(r[i]) = [kind |-> s[i].kind, artifact |-> s[i].artifact, index |-> i - 1,
                         prev |-> s[i].prev, leaf |-> s[i].leaf]
    BY <2>2 DEF Content
  <2>4. Content(bare(i)) = [kind |-> s[i].kind, artifact |-> s[i].artifact, index |-> i - 1,
                            prev |-> s[i].prev, leaf |-> s[i].leaf]
    BY DEF Content
  <2> QED
    BY <2>3, <2>4 DEF Digest
<1>7. \A i \in 1 .. n : c(i) = Root(Generic, [j \in 1 .. i |-> Digest(Generic, r[j])])
  <2> SUFFICES ASSUME NEW i \in 1 .. n
               PROVE  [j \in 1 .. i |-> h(j)] = [j \in 1 .. i |-> Digest(Generic, r[j])]
    OBVIOUS
  <2>1. \A j \in 1 .. i : j \in 1 .. n
    BY <1>1
  <2> QED
    BY <1>6, <2>1
<1> HIDE DEF h, c
<1>8. ASSUME NEW i \in 1 .. n
      PROVE  /\ IsEntry(r[i]) /\ r[i].index = i - 1
             /\ r[i].kind = s[i].kind /\ r[i].artifact = s[i].artifact
             /\ r[i].prev = s[i].prev /\ r[i].leaf = s[i].leaf
             /\ r[i].hash = h(i) /\ r[i].cumulative = c(i)
  <2>1. r[i] = [kind |-> s[i].kind, artifact |-> s[i].artifact, index |-> i - 1,
                prev |-> s[i].prev, hash |-> h(i), leaf |-> s[i].leaf, cumulative |-> c(i)]
    BY <1>3
  <2> QED
    BY <2>1 DEF IsEntry
<1>9. \A i \in 1 .. n : s[i].artifact \in Artifact
  BY <1>1 DEF IsEntries
<1>10. IsEntries(r) /\ Numbered(r)
  BY <1>4, <1>5, <1>8, <1>9 DEF IsEntries, Numbered
<1> QED
  BY <1>5, <1>6, <1>7, <1>8, <1>10 DEF r

LEMMA HeadOfEntries ==
  ASSUME NEW s, IsEntries(s), Len(s) > 0
  PROVE  HeadHash(s) = s[Len(s)].hash
BY DEF HeadHash, Last, IsEntries

\* The generic writer, with or without an entry to append.
LEMMA FinalizedIsGood ==
  ASSUME NEW s, IsEntries(s), Once(s)
  PROVE  Good(FinalizeLog(s)) /\ Len(FinalizeLog(s).entries) = Len(s)
<1> DEFINE r == RebuildEntries(s)
           l == FinalizeLog(s)
           n == Len(s)
<1>1. /\ IsEntries(r) /\ Numbered(r) /\ Len(r) = n
      /\ \A i \in 1 .. n :
           /\ r[i].kind = s[i].kind /\ r[i].artifact = s[i].artifact
           /\ r[i].hash = Digest(Generic, r[i])
           /\ r[i].cumulative = Root(Generic, [j \in 1 .. i |-> Digest(Generic, r[j])])
  BY Rebuilt
<1>2. l.entries = r /\ l.count = Len(r) /\ l.head = HeadHash(r) /\ l.root = Root(Generic, Hashes(r))
  BY DEF FinalizeLog
<1> HIDE DEF r, l
<1>3. n \in Nat /\ DOMAIN s = 1 .. n /\ DOMAIN r = 1 .. n
  BY <1>1, LengthOfEntries
<1>4. Once(r)
  BY <1>1, <1>3, ZenonT(60) DEF Once, IsLifecycleOf
<1>5. Hashes(r) = [j \in 1 .. n |-> Digest(Generic, r[j])]
  BY <1>1, <1>3 DEF Hashes
<1>6. l.head = IF n = 0 THEN NoDigest ELSE Digest(Generic, r[n])
  <2>1. CASE n = 0
    <3>1. r = <<>>
      BY <1>1, <2>1 DEF IsEntries
    <3> QED
      BY <1>2, <2>1, <3>1 DEF HeadHash
  <2>2. CASE n # 0
    <3>1. HeadHash(r) = r[n].hash
      BY <1>1, <1>3, <2>2, HeadOfEntries
    <3>2. n \in 1 .. n
      BY <1>3, <2>2
    <3> QED
      BY <1>1, <1>2, <2>2, <3>1, <3>2
  <2> QED
    BY <2>1, <2>2
<1>7. ASSUME OneFormula(l) PROVE LogVerifies(l)
  <2>1. \A i \in 1 .. n : r[i].kind # Lifecycle
    BY <1>2, <1>3, <1>7 DEF OneFormula, Generic, Lifecycle
  <2>2. \A i \in 1 .. n : r[i].index = i - 1
    BY <1>1, <1>3 DEF Numbered
  <2> QED
    BY <1>1, <1>2, <1>3, <1>5, <1>6, <2>1, <2>2 DEF LogVerifies
<1> QED
  BY <1>1, <1>2, <1>4, <1>7 DEF Good, l

LEMMA GenericIsGood ==
  ASSUME NEW l, Good(l), NEW a \in Artifact
  PROVE  /\ Good(AppendGeneric(l, a))
         /\ Len(AppendGeneric(l, a).entries) = Len(l.entries) + 1
<1> DEFINE e == NewEntry(Generic, a, Len(l.entries), NoDigest)
           s == Append(l.entries, e)
           n == Len(l.entries)
<1>1. IsEntries(l.entries) /\ Once(l.entries) /\ n \in Nat /\ DOMAIN l.entries = 1 .. n
  BY LengthOfEntries DEF Good
<1>2. IsEntry(e) /\ e.artifact = a /\ e.kind = Generic
  BY DEF IsEntry, NewEntry
<1> HIDE DEF e
<1>3. /\ \E S : s \in Seq(S)
      /\ Len(s) = n + 1 /\ DOMAIN s = 1 .. n + 1
      /\ \A i \in 1 .. n : s[i] = l.entries[i]
      /\ s[n + 1] = e
  BY <1>1, AppendedEntries, SMTT(60)
<1> HIDE DEF s
<1>4. IsEntries(s)
  BY <1>1, <1>2, <1>3 DEF IsEntries
<1>5. Once(s)
  <2>1. ~ IsLifecycleOf(s[n + 1], a) /\ \A b \in Artifact : ~ IsLifecycleOf(s[n + 1], b)
    BY <1>2, <1>3 DEF IsLifecycleOf, Generic, Lifecycle
  <2> QED
    BY <1>1, <1>3, <2>1, SMTT(60) DEF Once
<1> QED
  BY <1>3, <1>4, <1>5, FinalizedIsGood DEF AppendGeneric, s, e

LEMMA RepairIsGood ==
  ASSUME NEW l, Good(l)
  PROVE  Good(RepairOnly(l)) /\ Len(RepairOnly(l).entries) = Len(l.entries)
BY FinalizedIsGood DEF Good, RepairOnly

\* An entry that is not generic: the verifier's formula no longer matters.
LEMMA AppendedIsGood ==
  ASSUME NEW l, Good(l), NEW e, IsEntry(e), e.artifact \in Artifact,
         e.index = Len(l.entries), e.kind # Generic,
         \A i \in DOMAIN l.entries, a \in Artifact :
           ~ (IsLifecycleOf(l.entries[i], a) /\ IsLifecycleOf(e, a)),
         NEW m, m.entries = Append(l.entries, e),
         m.count = Len(m.entries), m.head = HeadHash(m.entries)
  PROVE  Good(m) /\ Len(m.entries) = Len(l.entries) + 1
<1> DEFINE s == Append(l.entries, e)
           n == Len(l.entries)
<1>1. IsEntries(l.entries) /\ Once(l.entries) /\ Numbered(l.entries)
      /\ n \in Nat /\ DOMAIN l.entries = 1 .. n
  BY LengthOfEntries DEF Good
<1>2. /\ \E S : s \in Seq(S)
      /\ Len(s) = n + 1 /\ DOMAIN s = 1 .. n + 1
      /\ \A i \in 1 .. n : s[i] = l.entries[i]
      /\ s[n + 1] = e
  BY ONLY <1>1, AppendedEntries, SMTT(60)
<1> HIDE DEF s
<1>3. IsEntries(s) /\ Numbered(s)
  <2>1. \A i \in 1 .. n + 1 : IsEntry(s[i]) /\ s[i].artifact \in Artifact
    BY <1>1, <1>2, SMTT(60) DEF IsEntries
  <2>2. ASSUME NEW i \in 1 .. n + 1 PROVE s[i].index = i - 1
    <3>1. CASE i \in 1 .. n
      BY <1>1, <1>2, <3>1 DEF Numbered
    <3>2. CASE i = n + 1
      <4>1. s[i].index = n
        BY <1>2, <3>2
      <4> QED
        BY <1>1, <3>2, <4>1
    <3> QED
      BY <1>1, <3>1, <3>2
  <2> QED
    BY <1>2, <2>1, <2>2 DEF IsEntries, Numbered
<1>4. Once(s)
  <2> SUFFICES ASSUME NEW i \in 1 .. n + 1, NEW j \in 1 .. n + 1, NEW a \in Artifact,
                      IsLifecycleOf(s[i], a), IsLifecycleOf(s[j], a)
               PROVE  i = j
    BY <1>2 DEF Once
  <2>1. CASE i \in 1 .. n /\ j \in 1 .. n
    BY <1>1, <1>2, <2>1 DEF Once
  <2>2. CASE i = n + 1 /\ j \in 1 .. n
    BY <1>1, <1>2, <2>2
  <2>3. CASE i \in 1 .. n /\ j = n + 1
    BY <1>1, <1>2, <2>3
  <2> QED
    BY <1>1, <2>1, <2>2, <2>3
<1>5. m.entries = s
  BY DEF s
<1>6. ~ OneFormula(m)
  <2>1. n + 1 \in DOMAIN m.entries /\ m.entries[n + 1] = e
    BY <1>1, <1>2, <1>5
  <2> QED
    BY <2>1 DEF OneFormula
<1> QED
  BY <1>2, <1>3, <1>4, <1>5, <1>6 DEF Good

LEMMA LifecycleIsGood ==
  ASSUME NEW l, Good(l), NEW a \in Artifact
  PROVE  /\ Good(AppendLifecycle(l, a))
         /\ Len(AppendLifecycle(l, a).entries) <= Len(l.entries) + 1
<1> DEFINE m == AppendLifecycle(l, a)
           bare == NewEntry(Lifecycle, a, Len(l.entries), NoDigest)
           hash == Digest(Lifecycle, bare)
           e == [bare EXCEPT !.hash = hash, !.leaf = [scheme |-> "leaf", of |-> hash]]
           known == \E i \in DOMAIN l.entries : IsLifecycleOf(l.entries[i], a)
<1>1. /\ m.entries = IF known THEN l.entries ELSE Append(l.entries, e)
      /\ m.count = Len(m.entries) /\ m.head = HeadHash(m.entries)
  BY DEF AppendLifecycle
<1>2. Len(l.entries) \in Nat
  BY LengthOfEntries DEF Good
<1>3. CASE known
  <2>1. PICK i \in DOMAIN l.entries : IsLifecycleOf(l.entries[i], a)
    BY <1>3
  <2>2. m.entries = l.entries
    BY <1>1, <1>3
  <2>3. ~ OneFormula(m)
    BY <2>1, <2>2 DEF OneFormula, IsLifecycleOf, Generic, Lifecycle
  <2> HIDE DEF m
  <2> QED
    BY <1>1, <1>2, <2>2, <2>3 DEF Good, m
<1>4. CASE ~ known
  <2>1. IsEntry(e) /\ e.artifact = a /\ e.index = Len(l.entries) /\ e.kind = Lifecycle
    <3>1. IsEntry(bare) /\ bare.artifact = a /\ bare.index = Len(l.entries) /\ bare.kind = Lifecycle
      BY DEF IsEntry, NewEntry
    <3> HIDE DEF bare, hash
    <3> DEFINE leaf == [scheme |-> "leaf", of |-> hash]
    <3>2. e = Filled(bare, hash, leaf)
      BY DEF Filled
    <3> HIDE DEF leaf, e
    <3> QED
      BY <3>1, <3>2, FilledEntry
  <2>2. m.entries = Append(l.entries, e)
    BY <1>1, <1>4
  <2> HIDE DEF m, e
  <2>3. \A i \in DOMAIN l.entries, b \in Artifact :
          ~ (IsLifecycleOf(l.entries[i], b) /\ IsLifecycleOf(e, b))
    BY <1>4, <2>1 DEF IsLifecycleOf
  <2>4. e.kind # Generic
    BY <2>1 DEF Generic, Lifecycle
  <2>5. Good(m) /\ Len(m.entries) = Len(l.entries) + 1
    BY <1>1, <2>1, <2>2, <2>3, <2>4, AppendedIsGood
  <2> QED
    BY <1>2, <2>5 DEF m
<1> QED
  BY <1>3, <1>4

LEMMA ReplayIsGood ==
  ASSUME NEW l, Good(l), NEW a \in Artifact
  PROVE  /\ Good(AppendReplay(l, a))
         /\ Len(AppendReplay(l, a).entries) = Len(l.entries) + 1
<1> DEFINE m == AppendReplay(l, a)
           bare == NewEntry(Replay, a, Len(l.entries), HeadHash(l.entries))
           e == [bare EXCEPT !.hash = Digest(Replay, bare)]
<1>1. m.entries = Append(l.entries, e) /\ m.count = Len(m.entries) /\ m.head = HeadHash(m.entries)
  BY DEF AppendReplay
<1>2. IsEntry(e) /\ e.artifact = a /\ e.index = Len(l.entries) /\ e.kind = Replay
  BY DEF IsEntry, NewEntry
<1> HIDE DEF m, e
<1>3. \A b \in Artifact : ~ IsLifecycleOf(e, b)
  BY <1>2 DEF IsLifecycleOf, Replay, Lifecycle
<1>4. e.kind # Generic
  BY <1>2 DEF Replay, Generic
<1> QED
  BY <1>1, <1>2, <1>3, <1>4, AppendedIsGood DEF m

\* Every writer leaves a good log if it read one.
LEMMA WrittenIsGood ==
  ASSUME NEW r, r.script \in Writers, Good(r.read), r.artifact \in Artifact
  PROVE  /\ Good(Written(r))
         /\ r.script = "repair" => Len(Written(r).entries) = Len(r.read.entries)
         /\ Len(Written(r).entries) <= Len(r.read.entries) + 1
<1>1. Len(r.read.entries) \in Nat
  BY LengthOfEntries DEF Good
<1>2. CASE r.script = "generic"
  BY <1>1, <1>2, GenericIsGood DEF Written
<1>3. CASE r.script = "repair"
  BY <1>1, <1>3, RepairIsGood DEF Written
<1>4. CASE r.script = "lifecycle"
  BY <1>1, <1>4, LifecycleIsGood DEF Written
<1>5. CASE r.script = "replay"
  BY <1>1, <1>5, ReplayIsGood DEF Written
<1> QED
  BY <1>2, <1>3, <1>4, <1>5 DEF Writers

LEMMA EmptyIsGood == Good(EmptyLog) /\ Len(EmptyLog.entries) = 0
<1>1. EmptyLog.entries = <<>> /\ EmptyLog.count = 0 /\ EmptyLog.head = NoDigest /\ EmptyLog.root = NoDigest
  BY DEF EmptyLog
<1>2. IsEntries(<<>>) /\ Numbered(<<>>) /\ Once(<<>>)
  <2>1. <<>> \in Seq({})
    OBVIOUS
  <2> QED
    BY <2>1 DEF IsEntries, Numbered, Once
<1>3. [j \in 1 .. 0 |-> Digest(Generic, EmptyLog.entries[j])] = <<>>
  OBVIOUS
<1>4. LogVerifies(EmptyLog)
  <2>1. Root(Generic, [j \in 1 .. 0 |-> Digest(Generic, EmptyLog.entries[j])]) = NoDigest
    BY <1>3 DEF Root
  <2>2. Len(EmptyLog.entries) = 0
    BY <1>1
  <2> QED
    BY <1>1, <2>1, <2>2 DEF LogVerifies
<1> QED
  BY <1>1, <1>2, <1>4 DEF Good, HeadHash

-----------------------------------------------------------------------------
(* Every step keeps the invariant                                          *)

\* A process goes on to r, the others stay where they are.
LEMMA OneMoves ==
  ASSUME LogInv, practice' = practice, NEW p \in Process, NEW r, RunInv(r, practice.scripts),
         run' = [run EXCEPT ![p] = r]
  PROVE  /\ run' = [q \in Process |-> run'[q]]
         /\ \A q \in Process : RunInv(run'[q], practice'.scripts)
<1>1. run' = [q \in Process |-> IF q = p THEN r ELSE run[q]]
  BY DEF LogInv
<1>2. ASSUME NEW q \in Process PROVE RunInv(run'[q], practice'.scripts)
  <2>1. RunInv(run'[q], practice.scripts)
    BY <1>1 DEF LogInv
  <2> QED
    BY <2>1 DEF RunInv
<1> QED
  BY <1>1, <1>2

LEMMA ReadStep ==
  ASSUME LogInv, practice' = practice, NEW p \in Process, Read(p)
  PROVE  LogInv'
<1>1. PICK s \in practice.scripts, a \in Artifact :
        /\ s \in {"generic", "lifecycle", "replay"} => Len(log.entries) < MaxEntries
        /\ run' = [run EXCEPT ![p] = [script |-> s, artifact |-> a, read |-> log]]
  BY DEF Read
<1>2. RunInv([script |-> s, artifact |-> a, read |-> log], practice.scripts)
  BY <1>1 DEF RunInv, LogInv, Appending
<1>3. run' = [q \in Process |-> run'[q]] /\ \A q \in Process : RunInv(run'[q], practice'.scripts)
  BY <1>1, <1>2, OneMoves
<1> QED
  BY <1>3 DEF Read, LogInv

\* What a writer about to write holds.
LEMMA WriterHolds ==
  ASSUME LogInv, NEW p \in Process, run[p].script \in Writers
  PROVE  LET r == run[p] IN
         /\ RunInv(r, practice.scripts) /\ r # Idle
         /\ Good(r.read) /\ r.artifact \in Artifact
         /\ Good(Written(r)) /\ Len(Written(r).entries) <= MaxEntries
<1> DEFINE r == run[p]
<1>1. RunInv(r, practice.scripts) /\ r.script \in Writers /\ r # Idle
  BY DEF LogInv, Idle, Writers
<1> HIDE DEF r
<1>2. /\ Good(r.read) /\ r.artifact \in Artifact
      /\ Len(r.read.entries) <= MaxEntries
      /\ r.script # "repair" => Len(r.read.entries) < MaxEntries
  BY <1>1 DEF RunInv, Writers, Appending
<1>3. /\ Good(Written(r))
      /\ r.script = "repair" => Len(Written(r).entries) = Len(r.read.entries)
      /\ Len(Written(r).entries) <= Len(r.read.entries) + 1
  BY <1>1, <1>2, WrittenIsGood
<1>4. Len(Written(r).entries) \in Nat /\ Len(r.read.entries) \in Nat /\ MaxEntries \in Nat
  BY <1>2, <1>3, LengthOfEntries, LogAssumption DEF Good
<1>5. Len(Written(r).entries) <= MaxEntries
  BY <1>2, <1>3, <1>4
<1> QED
  BY <1>1, <1>2, <1>3, <1>5 DEF r

LEMMA WriteLogStep ==
  ASSUME LogInv, practice' = practice, NEW p \in Process, WriteLog(p)
  PROVE  LogInv'
<1> DEFINE r == run[p]
           next == IF r.script = "replay" THEN [script |-> "replayed", read |-> Written(r)] ELSE Idle
<1>1. r.script \in Writers /\ log' = Written(r) /\ disk' = "json"
      /\ run' = [run EXCEPT ![p] = next] /\ UNCHANGED checkpoint
  BY DEF WriteLog
<1>2. Good(Written(r)) /\ Len(Written(r).entries) <= MaxEntries
  BY <1>1, WriterHolds
<1>3. RunInv(next, practice.scripts)
  <2>1. CASE r.script = "replay"
    <3> DEFINE w == Written(r)
    <3>1. next = [script |-> "replayed", read |-> w] /\ Good(w) /\ Len(w.entries) <= MaxEntries
      BY <1>2, <2>1
    <3> HIDE DEF w, next
    <3>2. next.script = "replayed" /\ next.read = w
      BY <3>1
    <3> QED
      BY <3>1, <3>2 DEF RunInv, Writers, Appending
  <2>2. CASE r.script # "replay"
    BY <2>2 DEF RunInv
  <2> QED
    BY <2>1, <2>2
<1> HIDE DEF r, next
<1>4. run' = [q \in Process |-> run'[q]] /\ \A q \in Process : RunInv(run'[q], practice'.scripts)
  BY <1>1, <1>3, OneMoves
<1> QED
  BY <1>1, <1>2, <1>4 DEF LogInv

LEMMA WriteCheckpointStep ==
  ASSUME LogInv, practice' = practice, NEW p \in Process, WriteCheckpoint(p)
  PROVE  LogInv'
<1>1. run[p] # Idle /\ RunInv(run[p], practice.scripts)
  BY DEF WriteCheckpoint, LogInv, Idle
<1>2. Good(run[p].read) /\ Len(run[p].read.entries) <= MaxEntries
  BY <1>1 DEF RunInv
<1>3. run[p].read.count \in 0 .. MaxEntries
  BY <1>2, LengthOfEntries, LogAssumption DEF Good
<1>4. checkpoint'.count = run[p].read.count
  BY DEF WriteCheckpoint, BuildCheckpoint, ReplayCheckpoint
<1>5. run' = [q \in Process |-> run'[q]] /\ \A q \in Process : RunInv(run'[q], practice'.scripts)
  BY OneMoves DEF WriteCheckpoint, RunInv
<1> QED
  BY <1>3, <1>4, <1>5 DEF WriteCheckpoint, LogInv

\* A proof is written, or a process dies: the log stays as it was.
LEMMA OtherStep ==
  ASSUME LogInv, practice' = practice, NEW p \in Process, WriteProof(p) \/ Die(p)
  PROVE  LogInv'
<1>1. run' = [q \in Process |-> run'[q]] /\ \A q \in Process : RunInv(run'[q], practice'.scripts)
  BY OneMoves DEF WriteProof, Die, RunInv
<1>2. disk' \in {disk, "torn"} /\ UNCHANGED <<log, checkpoint>>
  BY DEF WriteProof, Die
<1> QED
  BY <1>1, <1>2 DEF LogInv

(* LogInv holds in every reachable state.                                  *)
THEOREM LogInvariance == Spec => []LogInv
<1>1. ASSUME Init PROVE LogInv
  <2>1. practice.scripts \subseteq AllScripts
    BY <1>1, LogAssumption DEF Init
  <2>2. Good(log) /\ Len(log.entries) <= MaxEntries
    BY <1>1, EmptyIsGood, LogAssumption DEF Init
  <2>3. checkpoint.count \in 0 .. MaxEntries
    BY <1>1, LogAssumption DEF Init, NoCheckpoint, BuildCheckpoint, EmptyLog
  <2> QED
    BY <1>1, <2>1, <2>2, <2>3 DEF Init, LogInv, RunInv
<1>2. ASSUME LogInv, [Next]_vars PROVE LogInv'
  <2>1. CASE UNCHANGED vars
    BY <1>2, <2>1 DEF vars, LogInv, RunInv
  <2>2. CASE Next
    BY <1>2, <2>2, ReadStep, WriteLogStep, WriteCheckpointStep, OtherStep DEF Next
  <2> QED
    BY <1>2, <2>1, <2>2
<1> QED
  BY <1>1, <1>2, PTL DEF Spec

(* However many processes run the six scripts at once, and wherever they   *)
(* die: the file is counted and numbered, names a lifecycle event once,    *)
(* and verifies as long as only the generic writer has written it.         *)
THEOREM FilesAreSound == Spec => []FileIsSound
<1>1. ASSUME LogInv PROVE FileIsSound
  <2>1. ASSUME NEW l, Good(l) PROVE WellFormed(l)
    BY <2>1 DEF Good, WellFormed, Numbered, IsEntries
  <2>2. TypeOK
    BY <1>1, <2>1 DEF LogInv, TypeOK, Running, RunInv
  <2>3. LifecycleOnce
    BY <1>1 DEF LogInv, Good, Once, LifecycleOnce
  <2>4. FileVerifies
    BY <1>1 DEF LogInv, Good, FileVerifies
  <2> QED
    BY <2>2, <2>3, <2>4 DEF FileIsSound
<1> QED
  BY <1>1, LogInvariance, PTL

-----------------------------------------------------------------------------
(* One run at a time: what a writer leaves of the log it has read          *)

\* Every field of entry i is what the generic writer computes.
Computed(s, i) ==
  /\ s[i].index = i - 1
  /\ s[i].hash = Digest(Generic, s[i])
  /\ s[i].cumulative = Root(Generic, [j \in 1 .. i |-> Digest(Generic, s[j])])

\* Rebuilding gives such entries themselves again.
LEMMA RebuildKeeps ==
  ASSUME NEW s, IsEntries(s), NEW n \in 0 .. Len(s), \A i \in 1 .. n : Computed(s, i)
  PROVE  \A i \in 1 .. n : RebuildEntries(s)[i] = s[i]
<1> DEFINE r == RebuildEntries(s)
<1>0. Len(s) \in Nat /\ DOMAIN s = 1 .. Len(s) /\ \A i \in 1 .. n : i \in 1 .. Len(s)
  BY LengthOfEntries
<1>1. /\ IsEntries(r) /\ Numbered(r) /\ Len(r) = Len(s)
      /\ \A i \in 1 .. Len(s) :
           /\ r[i].kind = s[i].kind /\ r[i].artifact = s[i].artifact
           /\ r[i].prev = s[i].prev /\ r[i].leaf = s[i].leaf
           /\ r[i].hash = Digest(Generic, r[i])
           /\ r[i].cumulative = Root(Generic, [j \in 1 .. i |-> Digest(Generic, r[j])])
  BY Rebuilt
<1> HIDE DEF r
<1>2. DOMAIN r = 1 .. Len(s) /\ \A i \in 1 .. Len(s) : IsEntry(r[i]) /\ IsEntry(s[i]) /\ r[i].index = i - 1
  BY <1>0, <1>1, LengthOfEntries DEF IsEntries, Numbered
<1>3. \A i \in 1 .. n : r[i].index = s[i].index
  BY <1>0, <1>2 DEF Computed
<1>4. \A i \in 1 .. n : Digest(Generic, r[i]) = Digest(Generic, s[i])
  BY <1>0, <1>1, <1>3 DEF Digest, Content
<1>5. ASSUME NEW i \in 1 .. n PROVE r[i].cumulative = s[i].cumulative
  <2>1. \A j \in 1 .. i : j \in 1 .. n
    BY <1>0
  <2>2. [j \in 1 .. i |-> Digest(Generic, r[j])] = [j \in 1 .. i |-> Digest(Generic, s[j])]
    BY <1>4, <2>1
  <2>3. r[i].cumulative = Root(Generic, [j \in 1 .. i |-> Digest(Generic, r[j])])
    BY <1>0, <1>1
  <2> QED
    BY <2>2, <2>3 DEF Computed
<1>6. \A i \in 1 .. n : r[i].hash = s[i].hash
  BY <1>0, <1>1, <1>4 DEF Computed
<1> SUFFICES ASSUME NEW i \in 1 .. n PROVE r[i] = s[i]
  BY DEF r
<1>7. i \in 1 .. Len(s) /\ IsEntry(r[i]) /\ IsEntry(s[i])
  BY <1>0, <1>2
<1>8. /\ r[i].kind = s[i].kind /\ r[i].artifact = s[i].artifact /\ r[i].index = s[i].index
      /\ r[i].prev = s[i].prev /\ r[i].leaf = s[i].leaf
      /\ r[i].hash = s[i].hash /\ r[i].cumulative = s[i].cumulative
  BY <1>1, <1>3, <1>5, <1>6, <1>7
<1> QED
  BY <1>7, <1>8 DEF IsEntry

\* A good log of generic entries is a computed one.
LEMMA GenericIsComputed ==
  ASSUME NEW l, Good(l), OneFormula(l)
  PROVE  \A i \in 1 .. Len(l.entries) : Computed(l.entries, i)
BY DEF Good, LogVerifies, Computed

\* l grows to m: subjects stay, and in a log of generic entries everything.
Grows(l, m) ==
  /\ Len(l.entries) <= Len(m.entries)
  /\ \A i \in 1 .. Len(l.entries) :
       m.entries[i].kind = l.entries[i].kind /\ m.entries[i].artifact = l.entries[i].artifact
  /\ OneFormula(m) => \A i \in 1 .. Len(l.entries) : m.entries[i] = l.entries[i]

\* The generic writer over the entries of l and perhaps more.
LEMMA FinalizeGrows ==
  ASSUME NEW l, Good(l), NEW s, IsEntries(s), Len(l.entries) <= Len(s),
         \A i \in 1 .. Len(l.entries) : s[i] = l.entries[i]
  PROVE  Grows(l, FinalizeLog(s))
<1> DEFINE r == RebuildEntries(s)
           n == Len(l.entries)
<1>1. n \in Nat /\ DOMAIN l.entries = 1 .. n /\ Len(s) \in Nat /\ DOMAIN s = 1 .. Len(s)
  BY LengthOfEntries DEF Good
<1>2. /\ Len(r) = Len(s) /\ DOMAIN r = 1 .. Len(s)
      /\ \A i \in 1 .. Len(s) : r[i].kind = s[i].kind /\ r[i].artifact = s[i].artifact
  <2>1. /\ IsEntries(r) /\ Len(r) = Len(s)
        /\ \A i \in 1 .. Len(s) : r[i].kind = s[i].kind /\ r[i].artifact = s[i].artifact
    BY Rebuilt
  <2> HIDE DEF r
  <2> QED
    BY <2>1, LengthOfEntries
<1>3. FinalizeLog(s).entries = r
  BY DEF FinalizeLog
<1> HIDE DEF r
<1>4. \A i \in 1 .. n : i \in 1 .. Len(s)
  BY <1>1
<1>5. \A i \in 1 .. n : r[i].kind = l.entries[i].kind /\ r[i].artifact = l.entries[i].artifact
  BY <1>2, <1>4
<1>6. ASSUME OneFormula(FinalizeLog(s)) PROVE \A i \in 1 .. n : r[i] = l.entries[i]
  <2>1. OneFormula(l)
    BY <1>1, <1>2, <1>3, <1>4, <1>5, <1>6 DEF OneFormula
  <2>2. \A i \in 1 .. n : Computed(l.entries, i)
    BY <2>1, GenericIsComputed
  <2>3. ASSUME NEW i \in 1 .. n PROVE Computed(s, i)
    <3>1. \A j \in 1 .. i : j \in 1 .. n
      BY <1>1
    <3>2. [j \in 1 .. i |-> Digest(Generic, s[j])] = [j \in 1 .. i |-> Digest(Generic, l.entries[j])]
      BY <3>1
    <3> QED
      BY <2>2, <3>2 DEF Computed
  <2>4. n \in 0 .. Len(s)
    BY <1>1
  <2>5. \A i \in 1 .. n : r[i] = s[i]
    BY <2>3, <2>4, RebuildKeeps DEF r
  <2> QED
    BY <2>5
<1> QED
  BY <1>2, <1>3, <1>5, <1>6 DEF Grows

\* The lifecycle and the replay writer leave the entries alone.
LEMMA AppendGrows ==
  ASSUME NEW l, Good(l), NEW e, NEW m, m.entries = l.entries \/ m.entries = Append(l.entries, e)
  PROVE  Grows(l, m)
<1>1. Len(l.entries) \in Nat /\ IsEntries(l.entries)
  BY LengthOfEntries DEF Good
<1>2. CASE m.entries = l.entries
  BY <1>1, <1>2 DEF Grows
<1>3. CASE m.entries = Append(l.entries, e)
  BY <1>1, <1>3, AppendedEntries DEF Grows
<1> QED
  BY <1>2, <1>3

LEMMA WrittenGrows ==
  ASSUME NEW r, r.script \in Writers, Good(r.read), r.artifact \in Artifact
  PROVE  /\ Grows(r.read, Written(r))
         /\ r.script = "replay" => ~ OneFormula(Written(r))
<1> DEFINE l == r.read
           n == Len(l.entries)
<1>1. IsEntries(l.entries) /\ n \in Nat
  BY LengthOfEntries DEF Good
<1>2. CASE r.script = "generic"
  <2> DEFINE e == NewEntry(Generic, r.artifact, n, NoDigest)
             s == Append(l.entries, e)
  <2>1. IsEntry(e) /\ e.artifact \in Artifact
    BY DEF IsEntry, NewEntry
  <2> HIDE DEF e
  <2>2. /\ \E S : s \in Seq(S)
        /\ Len(s) = n + 1 /\ DOMAIN s = 1 .. n + 1
        /\ \A i \in 1 .. n : s[i] = l.entries[i]
        /\ s[n + 1] = e
    BY <1>1, AppendedEntries, ZenonT(60)
  <2> HIDE DEF s
  <2>3. IsEntries(s)
    <3>1. \A i \in 1 .. n : IsEntry(l.entries[i]) /\ l.entries[i].artifact \in Artifact
      BY <1>1, LengthOfEntries DEF IsEntries
    <3> HIDE DEF l
    <3>2. \A i \in 1 .. n + 1 : i \in 1 .. n \/ i = n + 1
      BY <1>1
    <3>3. \A i \in 1 .. n + 1 : IsEntry(s[i]) /\ s[i].artifact \in Artifact
      BY <2>1, <2>2, <3>1, <3>2
    <3> QED
      BY <2>2, <3>3 DEF IsEntries
  <2>4. Grows(l, FinalizeLog(s))
    <3>1. n <= Len(s)
      BY <1>1, <2>2
    <3> HIDE DEF l
    <3> QED
      BY <2>2, <2>3, <3>1, FinalizeGrows DEF l
  <2> QED
    BY <1>2, <2>4 DEF Written, AppendGeneric, s, e
<1>3. CASE r.script = "repair"
  <2>1. Grows(l, FinalizeLog(l.entries))
    BY <1>1, FinalizeGrows
  <2> QED
    BY <1>3, <2>1 DEF Written, RepairOnly
<1>4. CASE r.script = "lifecycle"
  <2> DEFINE m == AppendLifecycle(l, r.artifact)
  <2>1. \E e : m.entries = l.entries \/ m.entries = Append(l.entries, e)
    BY DEF AppendLifecycle
  <2> HIDE DEF m
  <2>2. Grows(l, m)
    BY <2>1, AppendGrows
  <2> QED
    BY <1>4, <2>2 DEF Written, m
<1>5. CASE r.script = "replay"
  <2> DEFINE m    == AppendReplay(l, r.artifact)
             bare == NewEntry(Replay, r.artifact, n, HeadHash(l.entries))
             e    == [bare EXCEPT !.hash = Digest(Replay, bare)]
  <2>1. m.entries = Append(l.entries, e) /\ e.kind = Replay
    BY DEF AppendReplay, NewEntry
  <2> HIDE DEF m, e
  <2>2. Grows(l, m)
    BY <2>1, AppendGrows
  <2>3. ~ OneFormula(m)
    <3>1. n + 1 \in DOMAIN m.entries /\ m.entries[n + 1] = e
      BY <1>1, <2>1, AppendedEntries
    <3> QED
      BY <2>1, <3>1 DEF OneFormula, Replay, Generic
  <2> QED
    BY <1>5, <2>2, <2>3 DEF Written, m
<1> QED
  BY <1>2, <1>3, <1>4, <1>5 DEF Writers

-----------------------------------------------------------------------------
(* What was said of a log stays true as it grows                           *)

CheckpointStands(c, l) ==
  /\ c.count <= l.count
  /\ OneFormula(l) /\ c.count > 0 =>
       l.entries[c.count].hash = c.head /\ l.entries[c.count].cumulative = c.root

ProofStands(pf, l) ==
  pf # NoProof =>
    /\ pf.oldSize \in Nat /\ pf.newSize \in Nat
    /\ OneFormula(l) => ProofVerifies(pf, l)

LEMMA GenericGrows ==
  ASSUME NEW l, Good(l), NEW m, Good(m), Grows(l, m), OneFormula(m)
  PROVE  OneFormula(l)
<1>1. /\ Len(l.entries) \in Nat /\ DOMAIN l.entries = 1 .. Len(l.entries)
      /\ Len(m.entries) \in Nat /\ DOMAIN m.entries = 1 .. Len(m.entries)
  BY LengthOfEntries DEF Good
<1> QED
  BY <1>1 DEF Grows, OneFormula

LEMMA CheckpointStillStands ==
  ASSUME NEW l, Good(l), NEW m, Good(m), Grows(l, m),
         NEW c, c.count \in Nat, CheckpointStands(c, l)
  PROVE  CheckpointStands(c, m)
<1>1. /\ Len(l.entries) \in Nat /\ l.count = Len(l.entries)
      /\ Len(m.entries) \in Nat /\ m.count = Len(m.entries)
  BY LengthOfEntries DEF Good
<1>2. c.count <= m.count
  BY <1>1 DEF Grows, CheckpointStands
<1>3. ASSUME OneFormula(m), c.count > 0
      PROVE  m.entries[c.count].hash = c.head /\ m.entries[c.count].cumulative = c.root
  <2>1. OneFormula(l) /\ c.count \in 1 .. Len(l.entries)
    BY <1>1, <1>3, GenericGrows DEF CheckpointStands
  <2> QED
    BY <1>3, <2>1 DEF CheckpointStands, Grows
<1> QED
  BY <1>2, <1>3 DEF CheckpointStands

\* The first n hashes of a log and of one it grows to.
LEMMA SamePrefix ==
  ASSUME NEW l, Good(l), NEW m, Good(m), Grows(l, m), OneFormula(m), NEW n \in 1 .. Len(l.entries)
  PROVE  Prefix(m, n) = Prefix(l, n) /\ m.entries[n] = l.entries[n]
<1>1. /\ Len(l.entries) \in Nat /\ DOMAIN l.entries = 1 .. Len(l.entries)
      /\ Len(m.entries) \in Nat /\ DOMAIN m.entries = 1 .. Len(m.entries)
      /\ Len(l.entries) <= Len(m.entries)
      /\ \A i \in 1 .. Len(l.entries) : m.entries[i] = l.entries[i]
  BY LengthOfEntries DEF Good, Grows
<1>2. \A i \in 1 .. n : Hashes(m.entries)[i] = Hashes(l.entries)[i]
  BY <1>1 DEF Hashes
<1> QED
  BY <1>1, <1>2 DEF Prefix

LEMMA ProofStillStands ==
  ASSUME NEW l, Good(l), NEW m, Good(m), Grows(l, m), NEW pf, ProofStands(pf, l)
  PROVE  ProofStands(pf, m)
<1> SUFFICES ASSUME pf # NoProof, OneFormula(m) PROVE ProofVerifies(pf, m)
  BY DEF ProofStands
<1>1. OneFormula(l) /\ ProofVerifies(pf, l) /\ pf.oldSize \in Nat /\ pf.newSize \in Nat
  BY GenericGrows DEF ProofStands
<1>2. /\ Len(l.entries) \in Nat /\ l.count = Len(l.entries)
      /\ Len(m.entries) \in Nat /\ m.count = Len(m.entries) /\ Len(l.entries) <= Len(m.entries)
  BY LengthOfEntries DEF Good, Grows
<1>3. pf.oldSize \in 1 .. Len(l.entries) /\ pf.newSize \in 1 .. Len(l.entries)
  BY <1>1, <1>2 DEF ProofVerifies
<1>4. BuildProof(m, pf.oldSize, pf.newSize) = BuildProof(l, pf.oldSize, pf.newSize)
  BY <1>3, SamePrefix DEF BuildProof
<1> QED
  BY <1>1, <1>2, <1>4 DEF ProofVerifies

\* A checkpoint or a proof just taken of a log.
LEMMA CheckpointTaken ==
  ASSUME NEW l, Good(l)
  PROVE  CheckpointStands(BuildCheckpoint(l), l)
<1> DEFINE c == BuildCheckpoint(l)
           n == Len(l.entries)
<1>1. c.count = l.count /\ c.head = l.head /\ c.root = l.root
  BY DEF BuildCheckpoint
<1>2. n \in Nat /\ l.count = n
  BY LengthOfEntries DEF Good
<1> HIDE DEF c
<1>3. ASSUME OneFormula(l), n > 0 PROVE l.entries[n].hash = l.head /\ l.entries[n].cumulative = l.root
  <2>1. LogVerifies(l)
    BY <1>3 DEF Good
  <2>2. n \in 1 .. n
    BY <1>2, <1>3
  <2> QED
    BY <1>2, <1>3, <2>1, <2>2 DEF LogVerifies
<1> QED
  BY <1>1, <1>2, <1>3 DEF CheckpointStands, c

LEMMA ProofTaken ==
  ASSUME NEW l, Good(l), NEW new \in 1 .. l.count, NEW old \in 1 .. new
  PROVE  ProofStands(BuildProof(l, old, new), l)
<1> DEFINE pf == BuildProof(l, old, new)
<1>1. /\ pf.oldSize = old /\ pf.newSize = new
      /\ pf.oldRoot = Root(Generic, Prefix(l, old)) /\ pf.newRoot = Root(Generic, Prefix(l, new))
      /\ pf.oldCumulative = l.entries[old].cumulative /\ pf.newCumulative = l.entries[new].cumulative
  BY DEF BuildProof
<1>2. Len(l.entries) \in Nat /\ l.count = Len(l.entries) /\ DOMAIN l.entries = 1 .. Len(l.entries)
  BY LengthOfEntries DEF Good
<1>3. ASSUME OneFormula(l), NEW n \in 1 .. Len(l.entries)
      PROVE  Root(Generic, Prefix(l, n)) = l.entries[n].cumulative
  <2>1. \A i \in 1 .. Len(l.entries) : Computed(l.entries, i)
    BY <1>3, GenericIsComputed
  <2>2. \A i \in 1 .. n : i \in 1 .. Len(l.entries)
    BY <1>2
  <2>3. Prefix(l, n) = [j \in 1 .. n |-> Digest(Generic, l.entries[j])]
    <3>1. \A j \in 1 .. n : Hashes(l.entries)[j] = Digest(Generic, l.entries[j])
      BY <1>2, <2>1, <2>2 DEF Hashes, Computed
    <3>2. Prefix(l, n) = [j \in 1 .. n |-> Hashes(l.entries)[j]]
      BY <1>2 DEF Prefix
    <3> QED
      BY <3>1, <3>2
  <2> QED
    BY <2>1, <2>3 DEF Computed
<1>4. old \in 1 .. Len(l.entries) /\ new \in 1 .. Len(l.entries) /\ 1 <= old /\ old <= new
      /\ old \in Nat /\ new \in Nat
  BY <1>2
<1> HIDE DEF pf
<1>5. ASSUME OneFormula(l) PROVE ProofVerifies(pf, l)
  BY <1>1, <1>2, <1>3, <1>4, <1>5 DEF ProofVerifies, pf
<1> QED
  BY <1>1, <1>4, <1>5 DEF ProofStands, pf

-----------------------------------------------------------------------------
(* One run at a time: the log read is still the one on disk                *)

SerialRun(r, l) ==
  r # Idle => r.read = l /\ (r.script = "replayed" => ~ OneFormula(l))

Serial ==
  OneAtATime =>
    /\ \A p, q \in Process : run[p] # Idle /\ run[q] # Idle => p = q
    /\ \A p \in Process : SerialRun(run[p], log)
    /\ CheckpointStands(checkpoint, log)
    /\ ProofStands(proof, log)

\* A process that starts is the only one that runs.
LEMMA FirstToRun ==
  ASSUME \A p, q \in Process : run[p] # Idle /\ run[q] # Idle => p = q, Cardinality(Running) < 1
  PROVE  \A p \in Process : run[p] = Idle
<1> SUFFICES ASSUME NEW p \in Process, run[p] # Idle PROVE FALSE
  OBVIOUS
<1>1. Running = {p}
  BY DEF Running
<1>2. Cardinality({p}) = 1
  BY FS_Singleton
<1> QED
  BY <1>1, <1>2

LEMMA SerialInit ==
  ASSUME Init
  PROVE  Serial
<1>1. log.count = 0 /\ checkpoint.count = 0 /\ proof = NoProof
  BY DEF Init, EmptyLog, NoCheckpoint, BuildCheckpoint
<1>2. CheckpointStands(checkpoint, log) /\ ProofStands(proof, log)
  BY <1>1 DEF CheckpointStands, ProofStands
<1>3. \A p \in Process : run[p] = Idle
  BY DEF Init
<1> QED
  BY <1>2, <1>3 DEF Serial, SerialRun

\* One process goes on to r while the others, if it was running, idle.
LEMMA SerialMoves ==
  ASSUME LogInv, NEW l,
         NEW p \in Process, \A q \in Process : run[q] # Idle => q = p,
         NEW r, SerialRun(r, l), run' = [run EXCEPT ![p] = r]
  PROVE  /\ \A q, t \in Process : run'[q] # Idle /\ run'[t] # Idle => q = t
         /\ \A q \in Process : SerialRun(run'[q], l)
<1>1. run' = [q \in Process |-> IF q = p THEN r ELSE run[q]]
  BY DEF LogInv
<1> QED
  BY <1>1 DEF SerialRun

LEMMA SerialStep ==
  ASSUME LogInv, LogInv', Serial, [Next]_vars
  PROVE  Serial'
<1>1. CASE UNCHANGED vars
  <2>1. /\ practice' = practice /\ log' = log /\ run' = run
        /\ checkpoint' = checkpoint /\ proof' = proof
    BY <1>1 DEF vars
  <2> QED
    BY <2>1 DEF Serial, OneAtATime
<1> SUFFICES ASSUME OneAtATime, practice' = practice, NEW p \in Process,
                    Read(p) \/ WriteLog(p) \/ WriteCheckpoint(p) \/ WriteProof(p) \/ Die(p)
             PROVE  Serial'
  BY <1>1 DEF Next, Serial, OneAtATime
<1>2. /\ \A q, t \in Process : run[q] # Idle /\ run[t] # Idle => q = t
      /\ SerialRun(run[p], log) /\ RunInv(run[p], practice.scripts)
      /\ CheckpointStands(checkpoint, log) /\ ProofStands(proof, log)
      /\ Good(log) /\ Good(log') /\ checkpoint.count \in Nat
  BY LogAssumption DEF Serial, LogInv
<1>3. SerialRun(Idle, log) /\ SerialRun(Idle, log')
  BY DEF SerialRun
<1>4. CASE Read(p)
  <2>0. PICK s \in practice.scripts, a \in Artifact :
          run' = [run EXCEPT ![p] = [script |-> s, artifact |-> a, read |-> log]]
    BY <1>4 DEF Read
  <2> DEFINE r == [script |-> s, artifact |-> a, read |-> log]
  <2>1. run' = [run EXCEPT ![p] = r] /\ r.read = log /\ r.script # "replayed"
    BY <2>0 DEF LogInv, AllScripts
  <2> HIDE DEF r
  <2>2. \A q \in Process : run[q] = Idle
    BY <1>2, <1>4, FirstToRun DEF Read, OneAtATime
  <2>3. SerialRun(r, log)
    BY <2>1 DEF SerialRun
  <2>4. /\ \A q, t \in Process : run'[q] # Idle /\ run'[t] # Idle => q = t
        /\ \A q \in Process : SerialRun(run'[q], log)
    BY <2>1, <2>2, <2>3, SerialMoves, ZenonT(60)
  <2>5. log' = log /\ checkpoint' = checkpoint /\ proof' = proof
    BY <1>4 DEF Read
  <2> QED
    BY <1>2, <2>4, <2>5 DEF Serial
<1>5. CASE WriteLog(p)
  <2> DEFINE r == run[p]
             next == IF r.script = "replay" THEN [script |-> "replayed", read |-> Written(r)] ELSE Idle
  <2>1. /\ r.script \in Writers /\ log' = Written(r) /\ run' = [run EXCEPT ![p] = next]
        /\ checkpoint' = checkpoint /\ proof' = proof
    BY <1>5 DEF WriteLog
  <2>2. r # Idle /\ Good(r.read) /\ r.artifact \in Artifact
    BY <2>1, WriterHolds
  <2>3. r.read = log /\ \A q \in Process : run[q] # Idle => q = p
    BY <1>2, <2>2 DEF SerialRun
  <2>4. Grows(log, log') /\ (r.script = "replay" => ~ OneFormula(log'))
    BY <2>1, <2>2, <2>3, WrittenGrows
  <2>5. SerialRun(next, log')
    BY <2>1, <2>4 DEF SerialRun
  <2> HIDE DEF r, next
  <2>6. /\ \A q, t \in Process : run'[q] # Idle /\ run'[t] # Idle => q = t
        /\ \A q \in Process : SerialRun(run'[q], log')
    BY <2>1, <2>3, <2>5, SerialMoves
  <2>7. CheckpointStands(checkpoint, log') /\ ProofStands(proof, log')
    BY <1>2, <2>4, CheckpointStillStands, ProofStillStands
  <2> QED
    BY <2>1, <2>6, <2>7 DEF Serial
<1>6. CASE WriteCheckpoint(p)
  <2>1. run[p] # Idle /\ run[p].script \in {"checkpoint", "replayed"}
    BY <1>6 DEF WriteCheckpoint, Idle
  <2>2. run[p].read = log /\ \A q \in Process : run[q] # Idle => q = p
    BY <1>2, <2>1 DEF SerialRun
  <2>3. CheckpointStands(checkpoint', log)
    <3>1. CASE run[p].script = "checkpoint"
      <4>1. checkpoint' = BuildCheckpoint(log)
        BY <1>6, <2>2, <3>1 DEF WriteCheckpoint
      <4> QED
        BY <1>2, <4>1, CheckpointTaken
    <3>2. CASE run[p].script = "replayed"
      <4>1. checkpoint' = ReplayCheckpoint(log)
        BY <1>6, <2>2, <3>2 DEF WriteCheckpoint
      <4>2. checkpoint'.count = log.count
        BY <4>1 DEF ReplayCheckpoint
      <4>3. ~ OneFormula(log) /\ log.count \in Nat
        BY <1>2, <2>1, <3>2, LengthOfEntries DEF SerialRun, Good
      <4> QED
        BY <4>2, <4>3 DEF CheckpointStands
    <3> QED
      BY <2>1, <3>1, <3>2
  <2>4. run' = [run EXCEPT ![p] = Idle] /\ log' = log /\ proof' = proof
    BY <1>6 DEF WriteCheckpoint
  <2>5. /\ \A q, t \in Process : run'[q] # Idle /\ run'[t] # Idle => q = t
        /\ \A q \in Process : SerialRun(run'[q], log)
    BY <1>3, <2>2, <2>4, SerialMoves
  <2> QED
    BY <1>2, <2>3, <2>4, <2>5 DEF Serial
<1>7. CASE WriteProof(p)
  <2>1. run[p] # Idle
    BY <1>7 DEF WriteProof, Idle
  <2>2. run[p].read = log /\ \A q \in Process : run[q] # Idle => q = p
    BY <1>2, <2>1 DEF SerialRun
  <2>3. PICK new \in 1 .. log.count : \E old \in 1 .. new : proof' = BuildProof(log, old, new)
    BY <1>7, <2>2 DEF WriteProof
  <2>4. ProofStands(proof', log)
    BY <1>2, <2>3, ProofTaken
  <2>5. run' = [run EXCEPT ![p] = Idle] /\ log' = log /\ checkpoint' = checkpoint
    BY <1>7 DEF WriteProof
  <2>6. /\ \A q, t \in Process : run'[q] # Idle /\ run'[t] # Idle => q = t
        /\ \A q \in Process : SerialRun(run'[q], log)
    BY <1>3, <2>2, <2>5, SerialMoves
  <2> QED
    BY <1>2, <2>4, <2>5, <2>6 DEF Serial
<1>8. CASE Die(p)
  <2>1. run' = [run EXCEPT ![p] = Idle] /\ UNCHANGED <<log, checkpoint, proof>> /\ run[p] # Idle
    BY <1>8 DEF Die
  <2>2. \A q \in Process : run[q] # Idle => q = p
    BY <1>2, <2>1
  <2>3. /\ \A q, t \in Process : run'[q] # Idle /\ run'[t] # Idle => q = t
        /\ \A q \in Process : SerialRun(run'[q], log)
    BY <1>3, <2>1, <2>2, SerialMoves
  <2> QED
    BY <1>2, <2>1, <2>3 DEF Serial
<1> QED
  BY <1>4, <1>5, <1>6, <1>7, <1>8

LEMMA SerialInvariance == Spec => [](LogInv /\ Serial)
<1>1. Spec => []LogInv
  BY LogInvariance
<1>2. Init => Serial
  BY SerialInit
<1>3. LogInv /\ LogInv' /\ Serial /\ [Next]_vars => Serial'
  BY SerialStep
<1> QED
  BY <1>1, <1>2, <1>3, PTL DEF Spec

(* One run at a time, whatever scripts are run and wherever they die: the  *)
(* checkpoint counts no entry the log lacks and, in a log of the generic   *)
(* writer, commits to a prefix of it; a proof once built still verifies.   *)
THEOREM CommitmentsAlwaysStand == Spec => []CommitmentsStand
<1>1. ASSUME LogInv, Serial PROVE CommitmentsStand
  <2> SUFFICES ASSUME OneAtATime
               PROVE  /\ checkpoint.count <= log.count
                      /\ OneFormula(log) /\ checkpoint.count > 0 =>
                           /\ log.entries[checkpoint.count].hash = checkpoint.head
                           /\ log.entries[checkpoint.count].cumulative = checkpoint.root
                      /\ OneFormula(log) /\ proof # NoProof => ProofVerifies(proof, log)
    BY DEF CommitmentsStand, CheckpointNotAhead, CheckpointIsPrefix, ProofStaysValid
  <2>1. CheckpointStands(checkpoint, log) /\ ProofStands(proof, log)
    BY <1>1 DEF Serial
  <2> QED
    BY <2>1 DEF CheckpointStands, ProofStands
<1> QED
  BY <1>1, SerialInvariance, PTL

-----------------------------------------------------------------------------
(* Append-only                                                             *)

LEMMA PointwisePrefix ==
  ASSUME NEW s, NEW t, \E S : s \in Seq(S), \E S : t \in Seq(S), Len(s) <= Len(t),
         \A i \in 1 .. Len(s) : s[i] = t[i]
  PROVE  IsPrefix(s, t)
<1>1. /\ Len(s) \in Nat /\ Len(t) \in Nat
      /\ s = [i \in 1 .. Len(s) |-> s[i]] /\ DOMAIN s = 1 .. Len(s)
  OBVIOUS
<1>2. SubSeq(s, 1, Len(s)) = [i \in 1 .. Len(s) |-> s[i]]
  BY <1>1
<1>3. SubSeq(t, 1, Len(s)) = [i \in 1 .. Len(s) |-> t[i]]
  BY <1>1
<1> QED
  BY <1>1, <1>2, <1>3 DEF IsPrefix

LEMMA GrowsByPrefix ==
  ASSUME NEW l, Good(l), NEW m, Good(m), Grows(l, m)
  PROVE  /\ IsPrefix(Subjects(l), Subjects(m))
         /\ OneFormula(m) => IsPrefix(l.entries, m.entries)
<1> DEFINE n == Len(l.entries)
           k == Len(m.entries)
<1>1. n \in Nat /\ DOMAIN l.entries = 1 .. n /\ k \in Nat /\ DOMAIN m.entries = 1 .. k /\ n <= k
  BY LengthOfEntries DEF Good, Grows
<1>2. (\E S : l.entries \in Seq(S)) /\ (\E S : m.entries \in Seq(S))
  BY DEF Good, IsEntries
<1>3. ASSUME OneFormula(m) PROVE IsPrefix(l.entries, m.entries)
  <2>1. \A i \in 1 .. n : l.entries[i] = m.entries[i]
    BY <1>3 DEF Grows
  <2> QED
    BY <1>1, <1>2, <2>1, PointwisePrefix
<1>4. /\ Len(Subjects(l)) = n /\ Len(Subjects(m)) = k
      /\ (\E S : Subjects(l) \in Seq(S)) /\ (\E S : Subjects(m) \in Seq(S))
  <2>1. ASSUME NEW x, NEW c \in Nat, DOMAIN x.entries = 1 .. c
        PROVE  Len(Subjects(x)) = c /\ \E S : Subjects(x) \in Seq(S)
    <3> DEFINE S == {Subjects(x)[i] : i \in 1 .. c}
    <3>1. Subjects(x) \in [1 .. c -> S] /\ DOMAIN Subjects(x) = 1 .. c
      BY <2>1 DEF Subjects
    <3> HIDE DEF S
    <3> QED
      BY <3>1
  <2> QED
    BY <1>1, <2>1
<1>5. \A i \in 1 .. n : Subjects(l)[i] = Subjects(m)[i]
  BY <1>1 DEF Grows, Subjects
<1>6. IsPrefix(Subjects(l), Subjects(m))
  BY <1>1, <1>4, <1>5, PointwisePrefix
<1> QED
  BY <1>3, <1>6

LEMMA SameIsPrefix ==
  ASSUME NEW l, Good(l)
  PROVE  IsPrefix(Subjects(l), Subjects(l)) /\ IsPrefix(l.entries, l.entries)
<1>1. Len(l.entries) \in Nat /\ DOMAIN l.entries = 1 .. Len(l.entries) /\ \E S : l.entries \in Seq(S)
  BY LengthOfEntries DEF Good, IsEntries
<1>2. Grows(l, l)
  BY <1>1 DEF Grows
<1>3. IsPrefix(l.entries, l.entries)
  BY <1>1, PointwisePrefix
<1> QED
  BY <1>2, <1>3, GrowsByPrefix

\* Every step, one run at a time, leaves the log or lets it grow.
LEMMA LogOnlyGrows ==
  ASSUME LogInv, LogInv', Serial, [Next]_vars, OneAtATime
  PROVE  /\ IsPrefix(Subjects(log), Subjects(log'))
         /\ OneFormula(log') => IsPrefix(log.entries, log'.entries)
<1>1. Good(log) /\ Good(log')
  BY DEF LogInv
<1>2. CASE log' = log
  BY <1>1, <1>2, SameIsPrefix
<1>3. CASE log' # log
  <2>1. PICK p \in Process : WriteLog(p)
    BY <1>3 DEF Next, vars, Read, WriteCheckpoint, WriteProof, Die
  <2> DEFINE r == run[p]
  <2>2. r.script \in Writers /\ log' = Written(r)
    BY <2>1 DEF WriteLog
  <2>3. r # Idle /\ Good(r.read) /\ r.artifact \in Artifact
    BY <2>2, WriterHolds
  <2>4. r.read = log
    BY <2>3 DEF Serial, SerialRun
  <2>5. Grows(log, log')
    BY <2>2, <2>3, <2>4, WrittenGrows
  <2> QED
    BY <1>1, <2>5, GrowsByPrefix
<1> QED
  BY <1>2, <1>3

(* One run at a time no step drops, replaces or reorders what the log is   *)
(* about, and in a log of the generic writer no field of an older entry.   *)
THEOREM LogIsAppendOnly == Spec => AppendOnly
<1>1. LogInv /\ LogInv' /\ Serial /\ [Next]_vars =>
        [OneAtATime => IsPrefix(Subjects(log), Subjects(log'))]_vars
  BY LogOnlyGrows
<1>2. LogInv /\ LogInv' /\ Serial /\ [Next]_vars =>
        [OneAtATime /\ OneFormula(log') => IsPrefix(log.entries, log'.entries)]_vars
  BY LogOnlyGrows
<1> QED
  BY <1>1, <1>2, SerialInvariance, PTL DEF Spec, AppendOnly, GenericAppendOnly, SubjectsKept

-----------------------------------------------------------------------------
(* Receipts: what the root of a log says of it                             *)

Schemes == {Generic, Lifecycle, Replay}

LeafOf(hash) == [scheme |-> "leaf", of |-> hash]

LeavesOf(l) == [i \in DOMAIN l.entries |-> GetLeafHash(l.entries[i])]

ReplayOnly(l) == \A i \in DOMAIN l.entries : l.entries[i].kind = Replay

\* Root, head and count of one log: as many leaves as the count says, the last
\* of them the head or made from it.
OneLog(x) ==
  /\ x.root = [scheme |-> x.root.scheme, leaves |-> x.root.leaves]
  /\ x.count \in Nat \ {0} /\ x.count = Len(x.root.leaves)
  /\ x.head.scheme \in Schemes
  /\ x.root.leaves[x.count] \in {x.head, LeafOf(x.head)}

\* A log as the three writers leave it in turn.  Rebuilding may leave older
\* entries with a leaf of another hash, never the last one.
Rooted(l) ==
  /\ Good(l)
  /\ Len(l.entries) = 0 => l.root = NoDigest
  /\ Len(l.entries) > 0 => OneLog(l) /\ l.entries[Len(l.entries)].leaf \in {NoDigest, LeafOf(l.head)}
  /\ l.root.scheme = Lifecycle => l.root.leaves = LeavesOf(l)
  /\ ReplayOnly(l) /\ Len(l.entries) > 0 =>
       /\ l.root = Root(Replay, Hashes(l.entries))
       /\ \A i \in DOMAIN l.entries : l.entries[i].hash = Digest(Replay, l.entries[i])

\* The root determines head and count: a leaf is no entry's hash.
LEMMA RootTells ==
  ASSUME NEW x, OneLog(x), NEW y, OneLog(y), x.root = y.root
  PROVE  x.head = y.head /\ x.count = y.count
<1> DEFINE last == x.root.leaves[x.count]
<1>1. x.count = y.count
  BY DEF OneLog
<1>2. last \in {x.head, LeafOf(x.head)} /\ last \in {y.head, LeafOf(y.head)}
  BY <1>1 DEF OneLog
<1> HIDE DEF last
<1>3. x.head.scheme # "leaf" /\ y.head.scheme # "leaf"
  BY DEF OneLog, Schemes, Generic, Lifecycle, Replay
<1>4. LeafOf(x.head).scheme = "leaf" /\ LeafOf(y.head).scheme = "leaf"
  BY DEF LeafOf
<1>5. LeafOf(x.head).of = x.head /\ LeafOf(y.head).of = y.head
  BY DEF LeafOf
<1>6. x.head = y.head
  BY <1>2, <1>3, <1>4, <1>5
<1> QED
  BY <1>1, <1>6

LEMMA RootIs ==
  ASSUME NEW leaves, NEW scheme, scheme # Generic \/ leaves # <<>>
  PROVE  /\ Root(scheme, leaves) = [scheme |-> scheme, leaves |-> leaves]
         /\ Root(scheme, leaves).scheme = scheme /\ Root(scheme, leaves).leaves = leaves
BY DEF Root

\* A list of leaves, one for each entry.
LEMMA ListOfLength ==
  ASSUME NEW n \in Nat, NEW f, f = [i \in 1 .. n |-> f[i]]
  PROVE  Len(f) = n /\ (n # 0 => f # <<>>)
<1>1. f \in Seq({f[i] : i \in 1 .. n}) /\ DOMAIN f = 1 .. n
  OBVIOUS
<1> QED
  BY <1>1

\* A writer's root is over as many leaves as there are entries.
LEMMA RootOfLast ==
  ASSUME NEW m, Good(m), NEW n \in Nat \ {0}, n = Len(m.entries),
         NEW scheme \in Schemes, NEW leaves, Len(leaves) = n, leaves # <<>>, m.root = Root(scheme, leaves),
         m.entries[n].hash.scheme \in Schemes,
         leaves[n] \in {m.entries[n].hash, LeafOf(m.entries[n].hash)}
  PROVE  OneLog(m) /\ m.head = m.entries[n].hash /\ m.root.scheme = scheme /\ m.root.leaves = leaves
<1>1. m.head = m.entries[n].hash /\ m.count = n
  BY HeadOfEntries DEF Good
<1>2. m.root = [scheme |-> scheme, leaves |-> leaves] /\ m.root.scheme = scheme /\ m.root.leaves = leaves
  BY RootIs
<1> QED
  BY <1>1, <1>2 DEF OneLog

LEMMA EmptyIsRooted == Rooted(EmptyLog)
<1>1. EmptyLog.root = NoDigest /\ Len(EmptyLog.entries) = 0
  BY EmptyIsGood DEF EmptyLog
<1>2. NoDigest.scheme # Lifecycle
  BY DEF NoDigest, Lifecycle
<1> QED
  BY <1>1, <1>2, EmptyIsGood DEF Rooted

LEMMA GenericIsRooted ==
  ASSUME NEW l, Good(l), NEW a \in Artifact
  PROVE  Rooted(AppendGeneric(l, a))
<1> DEFINE e == NewEntry(Generic, a, Len(l.entries), NoDigest)
           s == Append(l.entries, e)
           r == RebuildEntries(s)
           m == AppendGeneric(l, a)
           n == Len(l.entries) + 1
<1>1. /\ m.entries = r /\ m.root = Root(Generic, Hashes(r))
      /\ Good(m) /\ Len(r) = n /\ n \in Nat \ {0}
  <2>1. m.entries = r /\ m.root = Root(Generic, Hashes(r))
    BY DEF AppendGeneric, FinalizeLog
  <2>2. Good(m) /\ Len(m.entries) = n
    BY GenericIsGood
  <2>3. n \in Nat \ {0}
    BY LengthOfEntries DEF Good
  <2> QED
    BY <2>1, <2>2, <2>3
<1>2. IsEntry(e) /\ e.artifact \in Artifact /\ e.kind = Generic /\ e.leaf = NoDigest
  BY DEF IsEntry, NewEntry
<1> HIDE DEF e
<1>3. /\ \E S : s \in Seq(S)
      /\ Len(s) = n /\ DOMAIN s = 1 .. n
      /\ \A i \in 1 .. Len(l.entries) : s[i] = l.entries[i]
      /\ s[n] = e
  <2>1. IsEntries(l.entries)
    BY DEF Good
  <2> QED
    BY ONLY <2>1, AppendedEntries
<1> HIDE DEF s
<1>4. IsEntries(s)
  <2>1. \A i \in 1 .. Len(l.entries) : IsEntry(l.entries[i]) /\ l.entries[i].artifact \in Artifact
    BY LengthOfEntries DEF Good, IsEntries
  <2>2. \A i \in 1 .. n : i \in 1 .. Len(l.entries) \/ i = n
    BY LengthOfEntries DEF Good
  <2>3. \A i \in 1 .. n : IsEntry(s[i]) /\ s[i].artifact \in Artifact
    BY <1>2, <1>3, <2>1, <2>2
  <2> QED
    BY <1>3, <2>3 DEF IsEntries
<1>5. n \in 1 .. n
  BY <1>1
<1>6. r[n].kind = Generic /\ r[n].leaf = NoDigest /\ r[n].hash = Digest(Generic, r[n])
  <2>1. \A i \in 1 .. Len(s) : r[i].kind = s[i].kind /\ r[i].leaf = s[i].leaf /\ r[i].hash = Digest(Generic, r[i])
    BY <1>4, Rebuilt
  <2> HIDE DEF r
  <2> QED
    BY <1>2, <1>3, <1>5, <2>1
<1> HIDE DEF r, m
<1>7. DOMAIN r = 1 .. n
  BY <1>1, LengthOfEntries DEF Good
<1>8. Len(Hashes(r)) = n /\ Hashes(r)[n] = r[n].hash /\ Hashes(r) # <<>>
  <2>1. Hashes(r) \in [1 .. n -> {r[i].hash : i \in 1 .. n}]
    BY <1>7 DEF Hashes
  <2>2. Len(Hashes(r)) = n
    BY <1>1, <2>1
  <2> QED
    BY <1>1, <1>5, <1>7, <2>2 DEF Hashes
<1>9. r[n].hash.scheme \in Schemes /\ Generic \in Schemes
  BY <1>6 DEF Digest, Schemes
<1>10. OneLog(m) /\ m.root.scheme = Generic
  BY <1>1, <1>8, <1>9, RootOfLast
<1>11. ~ ReplayOnly(m)
  BY <1>1, <1>5, <1>6, <1>7 DEF ReplayOnly, Generic, Replay
<1>12. Generic # Lifecycle
  BY DEF Generic, Lifecycle
<1> QED
  BY <1>1, <1>6, <1>10, <1>11, <1>12 DEF Rooted, m

LEMMA LifecycleIsRooted ==
  ASSUME NEW l, Rooted(l), NEW a \in Artifact
  PROVE  Rooted(AppendLifecycle(l, a))
<1> DEFINE m == AppendLifecycle(l, a)
           bare == NewEntry(Lifecycle, a, Len(l.entries), NoDigest)
           hash == Digest(Lifecycle, bare)
           e == [bare EXCEPT !.hash = hash, !.leaf = [scheme |-> "leaf", of |-> hash]]
           known == \E i \in DOMAIN l.entries : IsLifecycleOf(l.entries[i], a)
           leaves == LeavesOf(m)
           n == Len(m.entries)
<1>1. /\ m.entries = IF known THEN l.entries ELSE Append(l.entries, e)
      /\ m.root = Root(Lifecycle, leaves) /\ m.head = HeadHash(m.entries)
  BY DEF AppendLifecycle, LeavesOf
<1>2. e.hash = hash /\ e.leaf = LeafOf(hash) /\ e.kind = Lifecycle
  BY DEF NewEntry, LeafOf
<1>3. hash.scheme \in Schemes
  BY DEF Digest, Schemes
<1>4. Good(l) /\ Good(m)
  BY LifecycleIsGood DEF Rooted
<1> HIDE DEF e, hash, m
<1>5. /\ IsEntries(l.entries) /\ Len(l.entries) \in Nat /\ DOMAIN l.entries = 1 .. Len(l.entries)
      /\ n \in Nat /\ DOMAIN m.entries = 1 .. n
  BY <1>4, LengthOfEntries DEF Good
<1> DEFINE s == Append(l.entries, e)
<1>0. Len(s) = Len(l.entries) + 1 /\ s[Len(l.entries) + 1] = e
  BY ONLY <1>5, AppendedEntries
<1> HIDE DEF s
<1>6. n # 0 /\ \E i \in 1 .. n : m.entries[i].kind = Lifecycle
  <2>1. CASE known
    <3>1. PICK i \in DOMAIN l.entries : IsLifecycleOf(l.entries[i], a)
      BY <2>1
    <3>2. i \in 1 .. n /\ m.entries[i].kind = Lifecycle
      BY <1>1, <1>5, <2>1, <3>1 DEF IsLifecycleOf
    <3> QED
      BY <1>5, <3>2
  <2>2. CASE ~ known
    <3>1. n = Len(l.entries) + 1 /\ m.entries[n] = e
      BY <1>0, <1>1, <1>5, <2>2 DEF s
    <3> QED
      BY <1>2, <1>5, <3>1
  <2> QED
    BY <2>1, <2>2
<1> DEFINE last == m.entries[n]
<1>7. last.hash.scheme \in Schemes /\ last.leaf \in {NoDigest, LeafOf(last.hash)}
  <2>1. CASE known
    <3>1. m.entries = l.entries /\ n = Len(l.entries) /\ n > 0
      BY <1>1, <1>5, <1>6, <2>1
    <3>2. l.head = last.hash
      BY <1>4, <3>1, HeadOfEntries DEF Good
    <3> QED
      BY <3>1, <3>2 DEF Rooted, OneLog
  <2>2. CASE ~ known
    <3>1. last = e
      BY <1>0, <1>1, <2>2 DEF s
    <3> QED
      BY <1>2, <1>3, <3>1
  <2> QED
    BY <2>1, <2>2
<1>8. leaves[n] \in {last.hash, LeafOf(last.hash)}
  BY <1>5, <1>6, <1>7 DEF LeavesOf, GetLeafHash
<1>9. Len(leaves) = n /\ leaves # <<>>
  <2>1. leaves = [i \in 1 .. n |-> leaves[i]]
    BY <1>5 DEF LeavesOf
  <2> HIDE DEF leaves
  <2> QED
    BY <1>5, <1>6, <2>1, ListOfLength
<1>10. Lifecycle \in Schemes /\ n \in Nat \ {0}
  BY <1>5, <1>6 DEF Schemes
<1>13. n = Len(m.entries) /\ last = m.entries[n] /\ leaves = LeavesOf(m)
  OBVIOUS
<1> HIDE DEF leaves, last, n
<1>11. OneLog(m) /\ m.head = last.hash /\ m.root.scheme = Lifecycle /\ m.root.leaves = leaves
  <2>1. /\ n = Len(m.entries) /\ m.root = Root(Lifecycle, leaves)
        /\ m.entries[n].hash.scheme \in Schemes
        /\ leaves[n] \in {m.entries[n].hash, LeafOf(m.entries[n].hash)}
    BY <1>1, <1>7, <1>8, <1>13
  <2>2. OneLog(m) /\ m.head = m.entries[n].hash /\ m.root.scheme = Lifecycle /\ m.root.leaves = leaves
    BY ONLY <1>4, <1>9, <1>10, <2>1, RootOfLast
  <2> QED
    BY <1>13, <2>2
<1>12. ~ ReplayOnly(m)
  BY <1>5, <1>6 DEF ReplayOnly, Lifecycle, Replay
<1> QED
  BY <1>4, <1>7, <1>10, <1>11, <1>12, <1>13 DEF Rooted, m

LEMMA ReplayIsRooted ==
  ASSUME NEW l, Rooted(l), NEW a \in Artifact
  PROVE  Rooted(AppendReplay(l, a))
<1> DEFINE m == AppendReplay(l, a)
           bare == NewEntry(Replay, a, Len(l.entries), HeadHash(l.entries))
           e == [bare EXCEPT !.hash = Digest(Replay, bare)]
           leaves == Hashes(m.entries)
           n == Len(l.entries) + 1
<1>1. m.entries = Append(l.entries, e) /\ m.root = Root(Replay, leaves)
  BY DEF AppendReplay
<1>2. e.hash = Digest(Replay, e) /\ e.leaf = NoDigest /\ e.hash.scheme = Replay
  BY DEF NewEntry, Digest, Content
<1>3. Good(l) /\ Good(m)
  BY ReplayIsGood DEF Rooted
<1> HIDE DEF e, m
<1>4. IsEntries(l.entries) /\ Len(l.entries) \in Nat /\ DOMAIN l.entries = 1 .. Len(l.entries)
  BY <1>3, LengthOfEntries DEF Good
<1>5. /\ Len(m.entries) = n /\ DOMAIN m.entries = 1 .. n /\ m.entries[n] = e
      /\ \A i \in 1 .. Len(l.entries) : m.entries[i] = l.entries[i]
  <2> DEFINE s == Append(l.entries, e)
  <2>1. /\ Len(s) = n /\ DOMAIN s = 1 .. n /\ s[n] = e
        /\ \A i \in 1 .. Len(l.entries) : s[i] = l.entries[i]
    BY ONLY <1>4, AppendedEntries
  <2>2. m.entries = s
    BY <1>1
  <2> HIDE DEF s
  <2> QED
    BY <2>1, <2>2
<1>6. n \in Nat \ {0} /\ n \in 1 .. n /\ Replay \in Schemes
  BY <1>4 DEF Schemes
<1>7. Len(leaves) = n /\ leaves # <<>> /\ leaves[n] = e.hash
  <2>1. leaves = [i \in 1 .. n |-> leaves[i]] /\ leaves[n] = e.hash
    BY <1>5, <1>6 DEF Hashes
  <2> HIDE DEF leaves, n
  <2> QED
    BY <1>6, <2>1, ListOfLength
<1> HIDE DEF leaves
<1>8. OneLog(m) /\ m.head = e.hash /\ m.root.scheme = Replay
  <2>1. m.entries[n].hash.scheme \in Schemes /\ m.entries[n].hash = e.hash
    BY <1>2, <1>5, <1>6
  <2> HIDE DEF n
  <2> QED
    BY <1>1, <1>3, <1>5, <1>6, <1>7, <2>1, RootOfLast
<1>9. ASSUME ReplayOnly(m), NEW i \in 1 .. n PROVE m.entries[i].hash = Digest(Replay, m.entries[i])
  <2>1. CASE i = n
    BY <1>2, <1>5, <2>1
  <2>2. CASE i # n
    <3>1. i \in 1 .. Len(l.entries)
      BY <1>4, <2>2
    <3>2. \A j \in 1 .. Len(l.entries) : j \in 1 .. n
      BY <1>4
    <3>3. ReplayOnly(l)
      BY <1>4, <1>5, <1>9, <3>2 DEF ReplayOnly
    <3>4. l.entries[i].hash = Digest(Replay, l.entries[i])
      BY <1>4, <3>1, <3>3 DEF Rooted
    <3> QED
      BY <1>5, <3>1, <3>4
  <2> QED
    BY <2>1, <2>2
<1>10. Replay # Lifecycle /\ leaves = Hashes(m.entries)
  BY DEF Replay, Lifecycle, leaves
<1>11. m.entries[Len(m.entries)].leaf = NoDigest /\ Len(m.entries) # 0
  BY <1>2, <1>5, <1>6
<1> QED
  BY <1>1, <1>3, <1>5, <1>8, <1>9, <1>10, <1>11 DEF Rooted, m

\* Each of the three writers makes of such a log a longer one.
LEMMA WritersKeepRoot ==
  ASSUME NEW l, Rooted(l), NEW a \in Artifact,
         NEW m, m \in {AppendGeneric(l, a), AppendLifecycle(l, a), AppendReplay(l, a)}
  PROVE  Rooted(m) /\ Grows(l, m)
<1>1. Good(l)
  BY DEF Rooted
<1>2. Rooted(m)
  BY <1>1, GenericIsRooted, LifecycleIsRooted, ReplayIsRooted
<1>3. ASSUME NEW script \in Appending
      PROVE  Grows(l, Written([script |-> script, artifact |-> a, read |-> l]))
  <2> DEFINE r == [script |-> script, artifact |-> a, read |-> l]
  <2>1. r.script \in Writers /\ r.read = l /\ r.artifact = a
    BY DEF Appending, Writers
  <2> HIDE DEF r
  <2>2. Grows(r.read, Written(r))
    BY <1>1, <2>1, WrittenGrows
  <2> QED
    BY <2>1, <2>2 DEF r
<1>4. /\ Written([script |-> "generic", artifact |-> a, read |-> l]) = AppendGeneric(l, a)
      /\ Written([script |-> "lifecycle", artifact |-> a, read |-> l]) = AppendLifecycle(l, a)
      /\ Written([script |-> "replay", artifact |-> a, read |-> l]) = AppendReplay(l, a)
  BY DEF Written
<1>5. {"generic", "lifecycle", "replay"} = Appending
  BY DEF Appending
<1>6. /\ Grows(l, AppendGeneric(l, a)) /\ Grows(l, AppendLifecycle(l, a))
      /\ Grows(l, AppendReplay(l, a))
  BY <1>3, <1>4, <1>5
<1> QED
  BY <1>2, <1>6

-----------------------------------------------------------------------------
(* Inclusion proofs and anchors: the invariant                             *)

\* The leaves are the hashes of the first entries of l.
Listed(leaves, l) ==
  \E n \in 0 .. Len(l.entries) : leaves = [i \in 1 .. n |-> l.entries[i].hash]

IndexInv(x, l) == x # Missing /\ OneFormula(l) => Listed(x.leaves, l)

PacketInv(f, l) ==
  f # Missing /\ OneFormula(l) =>
    /\ Listed(f.leaves, l)
    /\ f.at \in 1 .. Len(l.entries) /\ f.entry = l.entries[f.at]
    /\ f.entry.hash \in Range(f.logRoot.leaves)

LifecycleProofInv(f) == f # Missing => f.root = Root(Lifecycle, f.leaves)

InclusionInv ==
  /\ inclusion = [k \in {"packet", "lifecycle", "replay"} |-> inclusion[k]]
  /\ IndexInv(index, log)
  /\ PacketInv(inclusion["packet"], log)
  /\ LifecycleProofInv(inclusion["lifecycle"])

OnRecord(records, root) == \E x \in records : x.root = root

\* What a process that anchors has read, and how far it has come.
Holds(r, records) ==
  \/ r = AtRest
  \/ /\ r = [at |-> r.at, root |-> r.root, head |-> r.head, count |-> r.count]
     /\ OneLog(r)
     /\ r.at \in {"mined", "recover"} => OnRecord(records, r.root)

AnchoringInv ==
  /\ \A x \in anchors : OneLog(x)
  /\ anchoring = [p \in Process |-> anchoring[p]]
  /\ \A p \in Process : Holds(anchoring[p], anchors)
  /\ receipt # Missing =>
       OneLog(receipt) /\ receipt.event \in anchors /\ receipt.event.root = receipt.root

ReceiptsInv == Rooted(log) /\ InclusionInv /\ AnchoringInv

LEMMA ListedGrows ==
  ASSUME NEW l, Good(l), NEW m, Good(m), Grows(l, m), OneFormula(m), NEW leaves, Listed(leaves, l)
  PROVE  Listed(leaves, m)
<1>1. PICK n \in 0 .. Len(l.entries) : leaves = [i \in 1 .. n |-> l.entries[i].hash]
  BY DEF Listed
<1>2. /\ Len(l.entries) \in Nat /\ Len(m.entries) \in Nat /\ Len(l.entries) <= Len(m.entries)
      /\ \A i \in 1 .. Len(l.entries) : m.entries[i] = l.entries[i]
  BY LengthOfEntries DEF Good, Grows
<1>3. n \in 0 .. Len(m.entries) /\ \A i \in 1 .. n : m.entries[i] = l.entries[i]
  BY <1>2
<1>4. leaves = [i \in 1 .. n |-> m.entries[i].hash]
  BY <1>1, <1>3
<1> QED
  BY <1>3, <1>4 DEF Listed

\* In a log of generic entries the index lists them and every hash is a leaf.
LEMMA GenericLeaves ==
  ASSUME NEW l, Good(l)
  PROVE  /\ Listed(Hashes(l.entries), l)
         /\ OneFormula(l) => \A i \in 1 .. Len(l.entries) : l.entries[i].hash \in Range(l.root.leaves)
<1> DEFINE n == Len(l.entries)
           leaves == [j \in 1 .. n |-> Digest(Generic, l.entries[j])]
<1>1. n \in Nat /\ n \in 0 .. n /\ DOMAIN l.entries = 1 .. n
  BY LengthOfEntries DEF Good
<1>2. Listed(Hashes(l.entries), l)
  BY <1>1 DEF Listed, Hashes
<1>3. ASSUME OneFormula(l), NEW i \in 1 .. n PROVE l.entries[i].hash \in Range(l.root.leaves)
  <2>1. l.root = Root(Generic, leaves) /\ l.entries[i].hash = Digest(Generic, l.entries[i])
    BY <1>3 DEF Good, LogVerifies
  <2>2. DOMAIN leaves = 1 .. n /\ leaves[i] = l.entries[i].hash
    BY <2>1
  <2> HIDE DEF leaves
  <2>3. leaves # <<>>
    BY <1>1, <1>3, <2>2
  <2>4. l.root.leaves = leaves
    BY <2>1, <2>3, RootIs
  <2> QED
    BY <1>3, <2>2, <2>4 DEF Range
<1> QED
  BY <1>2, <1>3

LEMMA ReceiptsInvInit ==
  ASSUME ReceiptsInit
  PROVE  ReceiptsInv
<1>1. Rooted(log)
  BY EmptyIsRooted DEF ReceiptsInit
<1>2. InclusionInv
  BY DEF ReceiptsInit, InclusionInv, IndexInv, PacketInv, LifecycleProofInv
<1>3. AnchoringInv
  BY DEF ReceiptsInit, AnchoringInv, Holds
<1> QED
  BY <1>1, <1>2, <1>3 DEF ReceiptsInv

\* The log grows under what was derived from it.
LEMMA AppendLogKeeps ==
  ASSUME ReceiptsInv, AppendLog
  PROVE  ReceiptsInv'
<1>1. PICK a \in Artifact : log' \in {AppendGeneric(log, a), AppendLifecycle(log, a), AppendReplay(log, a)}
  BY DEF AppendLog
<1>2. UNCHANGED <<index, inclusion, anchors, receipt, anchoring>>
  BY DEF AppendLog
<1>3. Rooted(log) /\ Rooted(log') /\ Grows(log, log')
  BY <1>1, WritersKeepRoot DEF ReceiptsInv
<1>4. Good(log) /\ Good(log')
  BY <1>3 DEF Rooted
<1>5. ASSUME OneFormula(log')
      PROVE  /\ OneFormula(log)
             /\ \A leaves : Listed(leaves, log) => Listed(leaves, log')
             /\ \A i \in 1 .. Len(log.entries) : i \in 1 .. Len(log'.entries) /\ log'.entries[i] = log.entries[i]
  <2>1. OneFormula(log)
    BY <1>3, <1>4, <1>5, GenericGrows
  <2>2. ASSUME NEW leaves, Listed(leaves, log) PROVE Listed(leaves, log')
    BY <1>3, <1>4, <1>5, <2>2, ListedGrows
  <2>3. Len(log.entries) \in Nat /\ Len(log'.entries) \in Nat
    BY <1>4, LengthOfEntries DEF Good
  <2> QED
    BY <1>3, <1>5, <2>1, <2>2, <2>3 DEF Grows
<1>6. InclusionInv'
  <2>1. IndexInv(index, log) /\ PacketInv(inclusion["packet"], log) /\ LifecycleProofInv(inclusion["lifecycle"])
    BY DEF ReceiptsInv, InclusionInv
  <2>2. IndexInv(index, log')
    BY <1>5, <2>1 DEF IndexInv
  <2> DEFINE f == inclusion["packet"]
  <2>3. PacketInv(f, log')
    <3> SUFFICES ASSUME f # Missing, OneFormula(log')
                 PROVE  /\ Listed(f.leaves, log')
                        /\ f.at \in 1 .. Len(log'.entries) /\ f.entry = log'.entries[f.at]
                        /\ f.entry.hash \in Range(f.logRoot.leaves)
      BY DEF PacketInv
    <3> HIDE DEF f
    <3>1. /\ Listed(f.leaves, log) /\ f.at \in 1 .. Len(log.entries)
          /\ f.entry = log.entries[f.at] /\ f.entry.hash \in Range(f.logRoot.leaves)
      BY <1>5, <2>1 DEF PacketInv, f
    <3> QED
      BY <1>5, <3>1
  <2> QED
    BY <1>2, <2>1, <2>2, <2>3 DEF ReceiptsInv, InclusionInv
<1>7. AnchoringInv'
  BY <1>2 DEF ReceiptsInv, AnchoringInv
<1> QED
  BY <1>3, <1>6, <1>7 DEF ReceiptsInv

LEMMA IndexKeeps ==
  ASSUME ReceiptsInv, BuildIndex
  PROVE  ReceiptsInv'
<1>1. index'.leaves = Hashes(log.entries) /\ UNCHANGED <<log, inclusion, anchors, receipt, anchoring>>
  BY DEF BuildIndex
<1>2. IndexInv(index', log)
  BY <1>1, GenericLeaves DEF ReceiptsInv, Rooted, IndexInv
<1> QED
  BY <1>1, <1>2 DEF ReceiptsInv, InclusionInv, AnchoringInv

\* One inclusion proof is written, the others stay.
LEMMA InclusionKeeps ==
  ASSUME ReceiptsInv, NEW kind \in {"packet", "lifecycle", "replay"}, NEW f, WriteInclusion(kind, f),
         kind = "packet" => PacketInv(f, log), kind = "lifecycle" => LifecycleProofInv(f)
  PROVE  ReceiptsInv'
<1>1. inclusion' = [inclusion EXCEPT ![kind] = f] /\ UNCHANGED <<log, index, anchors, receipt, anchoring>>
  BY DEF WriteInclusion
<1>2. inclusion' = [k \in {"packet", "lifecycle", "replay"} |-> IF k = kind THEN f ELSE inclusion[k]]
  BY <1>1 DEF ReceiptsInv, InclusionInv
<1>3. /\ inclusion'["packet"] = IF kind = "packet" THEN f ELSE inclusion["packet"]
      /\ inclusion'["lifecycle"] = IF kind = "lifecycle" THEN f ELSE inclusion["lifecycle"]
  BY <1>2
<1>4. InclusionInv'
  BY <1>1, <1>2, <1>3 DEF ReceiptsInv, InclusionInv
<1>5. AnchoringInv'
  BY <1>1 DEF ReceiptsInv, AnchoringInv
<1> QED
  BY <1>1, <1>4, <1>5 DEF ReceiptsInv

LEMMA PacketProofKeeps ==
  ASSUME ReceiptsInv, NEW a \in Artifact, BuildPacketProof(a)
  PROVE  ReceiptsInv'
<1> DEFINE i == FirstOf(Generic, a)
           f == [entry |-> log.entries[i], at |-> i, leaves |-> index.leaves,
                 logRoot |-> log.root, count |-> log.count, head |-> log.head]
<1>1. index # Missing /\ i \in DOMAIN index.leaves /\ WriteInclusion("packet", f)
  BY DEF BuildPacketProof
<1>2. /\ f.entry = log.entries[i] /\ f.at = i /\ f.leaves = index.leaves /\ f.logRoot = log.root
  OBVIOUS
<1> HIDE DEF i, f
<1>3. ASSUME OneFormula(log)
      PROVE  Listed(index.leaves, log) /\ i \in 1 .. Len(log.entries)
  <2>1. Listed(index.leaves, log)
    BY <1>1, <1>3 DEF ReceiptsInv, InclusionInv, IndexInv
  <2>2. PICK n \in 0 .. Len(log.entries) : index.leaves = [j \in 1 .. n |-> log.entries[j].hash]
    BY <2>1 DEF Listed
  <2>3. i \in 1 .. n /\ Len(log.entries) \in Nat
    BY <1>1, <2>2, LengthOfEntries DEF ReceiptsInv, Rooted, Good
  <2> QED
    BY <2>1, <2>3
<1>4. OneFormula(log) /\ i \in 1 .. Len(log.entries) => log.entries[i].hash \in Range(log.root.leaves)
  BY GenericLeaves DEF ReceiptsInv, Rooted
<1>5. PacketInv(f, log)
  BY <1>2, <1>3, <1>4 DEF PacketInv
<1> QED
  BY <1>1, <1>5, InclusionKeeps

LEMMA LifecycleProofKeeps ==
  ASSUME ReceiptsInv, NEW a \in Artifact, BuildLifecycleProof(a)
  PROVE  ReceiptsInv'
<1> DEFINE i == FirstOf(Lifecycle, a)
           f == [artifact |-> a, at |-> log.entries[i].index + 1, hash |-> log.entries[i].hash,
                 leaf |-> log.entries[i].leaf, leaves |-> LifecycleLeaves, count |-> log.count,
                 head |-> log.head, root |-> log.root, checkpoint |-> checkpoint]
<1>1. Root(Lifecycle, LifecycleLeaves) = log.root /\ WriteInclusion("lifecycle", f)
  BY DEF BuildLifecycleProof
<1>2. f.leaves = LifecycleLeaves /\ f.root = log.root
  OBVIOUS
<1> HIDE DEF i, f
<1>3. LifecycleProofInv(f)
  BY <1>1, <1>2 DEF LifecycleProofInv
<1> QED
  BY <1>1, <1>3, InclusionKeeps

LEMMA ReplayProofKeeps ==
  ASSUME ReceiptsInv, NEW a \in Artifact, BuildReplayProof(a)
  PROVE  ReceiptsInv'
<1>1. PICK f : WriteInclusion("replay", f)
  BY DEF BuildReplayProof
<1> QED
  BY <1>1, InclusionKeeps

\* A process that anchors goes on to r; no record is ever removed.
LEMMA OneAnchors ==
  ASSUME ReceiptsInv, UNCHANGED <<files, receipt>>,
         anchors \subseteq anchors', \A x \in anchors' : OneLog(x),
         NEW p \in Process, NEW r, Holds(r, anchors'), anchoring' = [anchoring EXCEPT ![p] = r]
  PROVE  ReceiptsInv'
<1>1. log' = log /\ index' = index /\ inclusion' = inclusion /\ receipt' = receipt
  BY DEF files
<1>2. anchoring' = [q \in Process |-> IF q = p THEN r ELSE anchoring[q]]
  BY DEF ReceiptsInv, AnchoringInv
<1>3. ASSUME NEW o, Holds(o, anchors) PROVE Holds(o, anchors')
  BY <1>3 DEF Holds, OnRecord
<1>4. \A q \in Process : Holds(anchoring'[q], anchors')
  BY <1>2, <1>3 DEF ReceiptsInv, AnchoringInv
<1>5. InclusionInv'
  BY <1>1 DEF ReceiptsInv, InclusionInv
<1>6. receipt' # Missing =>
        OneLog(receipt') /\ receipt'.event \in anchors' /\ receipt'.event.root = receipt'.root
  BY <1>1 DEF ReceiptsInv, AnchoringInv
<1>7. AnchoringInv'
  BY <1>2, <1>4, <1>6 DEF AnchoringInv
<1> QED
  BY <1>1, <1>5, <1>7 DEF ReceiptsInv

\* What a process that is not at rest has read, and keeps when it goes on.
LEMMA AtWork ==
  ASSUME ReceiptsInv, NEW p \in Process, anchoring[p].at # "idle"
  PROVE  LET r == anchoring[p] IN
         /\ OneLog(r)
         /\ r.at \in {"mined", "recover"} => OnRecord(anchors, r.root)
         /\ \A at, records : (at \in {"mined", "recover"} => OnRecord(records, r.root)) =>
              Holds([r EXCEPT !.at = at], records)
<1> DEFINE r == anchoring[p]
<1>1. Holds(r, anchors) /\ r # AtRest
  BY DEF ReceiptsInv, AnchoringInv, AtRest
<1> HIDE DEF r
<1>2. /\ r = [at |-> r.at, root |-> r.root, head |-> r.head, count |-> r.count]
      /\ OneLog(r) /\ (r.at \in {"mined", "recover"} => OnRecord(anchors, r.root))
  BY <1>1 DEF Holds
<1>3. ASSUME NEW at, NEW records, at \in {"mined", "recover"} => OnRecord(records, r.root)
      PROVE  Holds([r EXCEPT !.at = at], records)
  <2> DEFINE s == [r EXCEPT !.at = at]
  <2>1. s = [at |-> at, root |-> r.root, head |-> r.head, count |-> r.count]
    BY <1>2
  <2> HIDE DEF s
  <2>2. s.at = at /\ s.root = r.root /\ s.head = r.head /\ s.count = r.count
    BY <2>1
  <2>3. OneLog(s)
    BY <1>2, <2>2 DEF OneLog
  <2> QED
    BY <1>3, <2>1, <2>2, <2>3 DEF Holds, s
<1> QED
  BY <1>2, <1>3 DEF r

LEMMA ReadLogKeeps ==
  ASSUME ReceiptsInv, NEW p \in Process, ReadLog(p)
  PROVE  ReceiptsInv'
<1> DEFINE r == [at |-> "check", root |-> log.root, head |-> log.head, count |-> log.count]
<1>1. log.count > 0 /\ UNCHANGED <<files, anchors, receipt>> /\ anchoring' = [anchoring EXCEPT ![p] = r]
  BY DEF ReadLog
<1>2. OneLog(log)
  BY <1>1 DEF ReceiptsInv, Rooted, Good
<1>3. /\ r.at = "check" /\ r.root = log.root /\ r.head = log.head /\ r.count = log.count
      /\ r = [at |-> r.at, root |-> r.root, head |-> r.head, count |-> r.count]
  OBVIOUS
<1> HIDE DEF r
<1>4. OneLog(r)
  BY <1>2, <1>3 DEF OneLog
<1>5. Holds(r, anchors')
  BY <1>3, <1>4 DEF Holds
<1> QED
  BY <1>1, <1>5, OneAnchors DEF ReceiptsInv, AnchoringInv

\* The script looks up the root, or its transaction is estimated.
LEMMA LookUpKeeps ==
  ASSUME ReceiptsInv, NEW p \in Process, GetAnchor(p) \/ Send(p)
  PROVE  ReceiptsInv'
<1>1. UNCHANGED <<files, anchors, receipt>> /\ anchoring[p].at # "idle"
  BY DEF GetAnchor, Send
<1>2. \/ anchoring' = [anchoring EXCEPT ![p] = AtRest]
      \/ \E at : /\ anchoring' = [anchoring EXCEPT ![p] = [anchoring[p] EXCEPT !.at = at]]
                 /\ at \in {"mined", "recover"} => OnRecord(anchors, anchoring[p].root)
  BY DEF GetAnchor, Send, Goto, IsAnchored, OnRecord
<1>3. CASE anchoring' = [anchoring EXCEPT ![p] = AtRest]
  <2>1. Holds(AtRest, anchors')
    BY DEF Holds
  <2> QED
    BY <1>1, <1>3, <2>1, OneAnchors DEF ReceiptsInv, AnchoringInv
<1>4. ASSUME NEW at, anchoring' = [anchoring EXCEPT ![p] = [anchoring[p] EXCEPT !.at = at]],
             at \in {"mined", "recover"} => OnRecord(anchors, anchoring[p].root)
      PROVE  ReceiptsInv'
  <2> DEFINE r == [anchoring[p] EXCEPT !.at = at]
  <2>1. Holds(r, anchors')
    BY <1>1, <1>4, AtWork
  <2>2. anchoring' = [anchoring EXCEPT ![p] = r]
    BY <1>4
  <2> HIDE DEF r
  <2> QED
    BY <1>1, <2>1, <2>2, OneAnchors DEF ReceiptsInv, AnchoringInv
<1> QED
  BY <1>2, <1>3, <1>4

\* The transaction is mined or reverts.
LEMMA MineKeeps ==
  ASSUME ReceiptsInv, NEW p \in Process, Mine(p)
  PROVE  ReceiptsInv'
<1> DEFINE r == anchoring[p]
           record == [root |-> r.root, head |-> r.head, count |-> r.count, by |-> p]
<1>1. UNCHANGED <<files, receipt>> /\ r.at # "idle"
  BY DEF Mine
<1>2. OneLog(r) /\ \A x \in anchors : OneLog(x)
  BY <1>1, AtWork DEF ReceiptsInv, AnchoringInv
<1>3. OneLog(record)
  <2>1. record.root = r.root /\ record.head = r.head /\ record.count = r.count
    OBVIOUS
  <2> HIDE DEF record, r
  <2> QED
    BY <1>2, <2>1 DEF OneLog
<1>4. anchors' = anchors \cup {record} \/ (OnRecord(anchors, r.root) /\ anchors' = anchors)
  BY DEF Mine, AnchorLogRoot, IsAnchored, OnRecord
<1>5. /\ anchors \subseteq anchors' /\ \A x \in anchors' : OneLog(x)
      /\ OnRecord(anchors', r.root)
  <2>1. record.root = r.root
    OBVIOUS
  <2> HIDE DEF record, r
  <2> QED
    BY <1>2, <1>3, <1>4, <2>1 DEF OnRecord
<1>6. \/ anchoring' = [anchoring EXCEPT ![p] = AtRest]
      \/ \E at : anchoring' = [anchoring EXCEPT ![p] = [anchoring[p] EXCEPT !.at = at]]
  BY DEF Mine, Goto
<1>7. CASE anchoring' = [anchoring EXCEPT ![p] = AtRest]
  <2>1. Holds(AtRest, anchors')
    BY DEF Holds
  <2> QED
    BY <1>1, <1>5, <1>7, <2>1, OneAnchors
<1>8. ASSUME NEW at, anchoring' = [anchoring EXCEPT ![p] = [anchoring[p] EXCEPT !.at = at]]
      PROVE  ReceiptsInv'
  <2> DEFINE s == [anchoring[p] EXCEPT !.at = at]
  <2>1. Holds(s, anchors')
    BY <1>1, <1>5, AtWork
  <2>2. anchoring' = [anchoring EXCEPT ![p] = s]
    BY <1>8
  <2> HIDE DEF s
  <2> QED
    BY <1>1, <1>5, <2>1, <2>2, OneAnchors
<1> QED
  BY <1>6, <1>7, <1>8

\* A receipt is written only for a root that is on the chain.
LEMMA ReceiptKeeps ==
  ASSUME ReceiptsInv, NEW p \in Process, WriteReceipt(p)
  PROVE  ReceiptsInv'
<1> DEFINE r == anchoring[p]
<1>1. /\ r.at \in {"mined", "recover"} /\ receipt' = ReceiptDoc(r)
      /\ anchoring' = [anchoring EXCEPT ![p] = AtRest] /\ UNCHANGED <<files, anchors>>
  BY DEF WriteReceipt
<1>2. OneLog(r) /\ OnRecord(anchors, r.root)
  BY <1>1, AtWork
<1> HIDE DEF r
<1>3. /\ receipt'.root = r.root /\ receipt'.head = r.head /\ receipt'.count = r.count
      /\ receipt'.event = EventOf(r.root)
  BY <1>1 DEF ReceiptDoc
<1>4. EventOf(r.root) \in anchors /\ EventOf(r.root).root = r.root
  BY <1>2 DEF EventOf, OnRecord
<1>5. OneLog(receipt')
  BY <1>2, <1>3 DEF OneLog
<1>6. anchoring' = [q \in Process |-> IF q = p THEN AtRest ELSE anchoring[q]]
  BY <1>1 DEF ReceiptsInv, AnchoringInv
<1>7. \A q \in Process : Holds(anchoring'[q], anchors)
  BY <1>6 DEF ReceiptsInv, AnchoringInv, Holds
<1>8. AnchoringInv'
  BY <1>1, <1>3, <1>4, <1>5, <1>6, <1>7 DEF ReceiptsInv, AnchoringInv
<1>9. Rooted(log') /\ InclusionInv'
  BY <1>1 DEF ReceiptsInv, InclusionInv, files
<1> QED
  BY <1>8, <1>9 DEF ReceiptsInv

LEMMA EndKeeps ==
  ASSUME ReceiptsInv, NEW p \in Process, End(p)
  PROVE  ReceiptsInv'
<1>1. UNCHANGED <<files, anchors, receipt>> /\ anchoring[p].at # "idle"
  BY DEF End
<1>2. \/ anchoring' = [anchoring EXCEPT ![p] = AtRest]
      \/ anchoring' = [anchoring EXCEPT ![p] = [anchoring[p] EXCEPT !.at = "orphan"]]
  BY DEF End, Goto
<1>3. CASE anchoring' = [anchoring EXCEPT ![p] = AtRest]
  <2>1. Holds(AtRest, anchors')
    BY DEF Holds
  <2> QED
    BY <1>1, <1>3, <2>1, OneAnchors DEF ReceiptsInv, AnchoringInv
<1>4. CASE anchoring' = [anchoring EXCEPT ![p] = [anchoring[p] EXCEPT !.at = "orphan"]]
  <2> DEFINE r == [anchoring[p] EXCEPT !.at = "orphan"]
  <2>1. Holds(r, anchors')
    BY <1>1, AtWork
  <2>2. anchoring' = [anchoring EXCEPT ![p] = r]
    BY <1>4
  <2> HIDE DEF r
  <2> QED
    BY <1>1, <2>1, <2>2, OneAnchors DEF ReceiptsInv, AnchoringInv
<1> QED
  BY <1>2, <1>3, <1>4

LEMMA ReceiptsInvStep ==
  ASSUME ReceiptsInv, [ReceiptsNext]_receiptsVars
  PROVE  ReceiptsInv'
<1>1. CASE UNCHANGED receiptsVars
  BY <1>1 DEF receiptsVars, ReceiptsInv, InclusionInv, AnchoringInv
<1>2. CASE RunCheckpoint
  BY <1>2 DEF RunCheckpoint, ReceiptsInv, InclusionInv, AnchoringInv
<1>3. CASE AppendLog
  BY <1>3, AppendLogKeeps
<1>4. CASE BuildIndex
  BY <1>4, IndexKeeps
<1>5. ASSUME NEW a \in Artifact, BuildPacketProof(a) \/ BuildLifecycleProof(a) \/ BuildReplayProof(a)
      PROVE  ReceiptsInv'
  BY <1>5, PacketProofKeeps, LifecycleProofKeeps, ReplayProofKeeps
<1>6. ASSUME NEW p \in Process,
             ReadLog(p) \/ GetAnchor(p) \/ Send(p) \/ Mine(p) \/ WriteReceipt(p) \/ End(p)
      PROVE  ReceiptsInv'
  BY <1>6, ReadLogKeeps, LookUpKeeps, MineKeeps, ReceiptKeeps, EndKeeps
<1> QED
  BY <1>1, <1>2, <1>3, <1>4, <1>5, <1>6 DEF ReceiptsNext

(* ReceiptsInv holds in every reachable state.                             *)
THEOREM ReceiptsInvariance == ReceiptsSpec => []ReceiptsInv
<1>1. ReceiptsInit => ReceiptsInv
  BY ReceiptsInvInit
<1>2. ReceiptsInv /\ [ReceiptsNext]_receiptsVars => ReceiptsInv'
  BY ReceiptsInvStep
<1> QED
  BY <1>1, <1>2, PTL DEF ReceiptsSpec

(* Whoever anchors first, is overtaken or killed, and however the log has  *)
(* grown meanwhile: a receipt stays true of the chain, and of the log as   *)
(* long as the log has its root; an anchor is one state of the log.        *)
THEOREM AnchoringAlwaysHolds == ReceiptsSpec => []AnchoringHolds
<1>1. ASSUME ReceiptsInv PROVE AnchoringHolds
  <2>1. AnchorIsOneLog
    <3> SUFFICES ASSUME NEW r \in anchors
                 PROVE  /\ r.count = Len(r.root.leaves)
                        /\ Last(r.root.leaves) \in {r.head, [scheme |-> "leaf", of |-> r.head]}
      BY Zenon DEF AnchorIsOneLog
    <3>1. OneLog(r)
      BY <1>1 DEF ReceiptsInv, AnchoringInv
    <3> QED
      BY <3>1 DEF OneLog, LeafOf, Last
  <2>2. ASSUME receipt # Missing PROVE ReceiptOnChain /\ (receipt.root = log.root => AnchorVerifies)
    <3>1. /\ OneLog(receipt) /\ receipt.event \in anchors /\ receipt.event.root = receipt.root
          /\ OneLog(receipt.event)
      BY <1>1, <2>2 DEF ReceiptsInv, AnchoringInv
    <3>2. ReceiptOnChain
      BY <2>2, <3>1, RootTells DEF ReceiptOnChain
    <3>3. ASSUME receipt.root = log.root PROVE AnchorVerifies
      <4>1. Rooted(log) /\ Len(log.entries) \in Nat
        BY <1>1, LengthOfEntries DEF ReceiptsInv, Rooted, Good
      <4>2. log.root # NoDigest
        BY <3>1, <3>3 DEF OneLog, NoDigest
      <4>3. OneLog(log)
        BY <4>1, <4>2 DEF Rooted
      <4>4. receipt.head = log.head /\ receipt.count = log.count
        BY <3>1, <3>3, <4>3, RootTells
      <4> QED
        BY <3>2, <3>3, <4>4 DEF AnchorVerifies
    <3> QED
      BY <3>2, <3>3
  <2> QED
    BY <2>1, <2>2 DEF AnchoringHolds, ReceiptHolds
<1> QED
  BY <1>1, ReceiptsInvariance, PTL

(* ProofsHold: an accepted packet proof is about an entry of the log as it *)
(* is now, an accepted lifecycle proof was built from all of its leaves.   *)
THEOREM ProofsAlwaysHold == ReceiptsSpec => []ProofsHold
<1>1. ASSUME ReceiptsInv, OneFormula(log), PacketProofVerifies
      PROVE  LET f == inclusion["packet"] IN
             /\ f.entry = log.entries[f.at]
             /\ IsPrefix(f.leaves, Hashes(log.entries))
             /\ f.entry.hash \in Range(f.logRoot.leaves)
  <2> DEFINE f == inclusion["packet"]
             hashes == Hashes(log.entries)
             N == Len(log.entries)
  <2>1. Listed(f.leaves, log) /\ f.entry = log.entries[f.at] /\ f.entry.hash \in Range(f.logRoot.leaves)
    BY <1>1 DEF ReceiptsInv, InclusionInv, PacketInv, PacketProofVerifies
  <2> HIDE DEF f
  <2>2. PICK n \in 0 .. N : f.leaves = [i \in 1 .. n |-> log.entries[i].hash]
    BY <2>1 DEF Listed
  <2>3. N \in Nat /\ DOMAIN log.entries = 1 .. N
    BY <1>1, LengthOfEntries DEF ReceiptsInv, Rooted, Good
  <2>4. hashes = [i \in 1 .. N |-> log.entries[i].hash]
    BY <2>3 DEF Hashes
  <2> DEFINE S == {log.entries[i].hash : i \in 1 .. N}
             leaves == f.leaves
  <2>5. hashes \in Seq(S) /\ Len(hashes) = N
    <3>1. hashes \in [1 .. N -> S]
      BY <2>4
    <3> HIDE DEF hashes, S, N
    <3> QED
      BY <2>3, <3>1
  <2>6. leaves \in Seq(S) /\ Len(leaves) = n /\ n <= N
    <3>1. n \in Nat /\ n <= N /\ \A i \in 1 .. n : i \in 1 .. N
      BY <2>3
    <3>2. leaves \in [1 .. n -> S]
      BY <2>2, <3>1
    <3> HIDE DEF leaves, S
    <3> QED
      BY <3>1, <3>2
  <2>7. \A i \in 1 .. n : i \in 1 .. N /\ leaves[i] = hashes[i]
    BY <2>2, <2>3, <2>4
  <2> HIDE DEF leaves, hashes, S, N
  <2>8. IsPrefix(leaves, hashes)
    BY <2>5, <2>6, <2>7, PointwisePrefix
  <2> QED
    BY <2>1, <2>8 DEF f, leaves, hashes
<1>2. ASSUME ReceiptsInv, LifecycleProofVerifies
      PROVE  /\ inclusion["lifecycle"].leaves = LifecycleLeaves
             /\ \E i \in DOMAIN log.entries : IsLifecycleOf(log.entries[i], inclusion["lifecycle"].artifact)
  <2> DEFINE f == inclusion["lifecycle"]
  <2>1. /\ Root(Lifecycle, f.leaves) = log.root
        /\ f.at \in DOMAIN log.entries /\ IsLifecycleOf(log.entries[f.at], f.artifact)
    BY <1>2 DEF LifecycleProofVerifies
  <2>2. log.root.scheme = Lifecycle /\ log.root.leaves = f.leaves
    <3>1. Lifecycle # Generic
      BY DEF Lifecycle, Generic
    <3> HIDE DEF f
    <3> QED
      BY <2>1, <3>1, RootIs
  <2>3. log.root.leaves = LifecycleLeaves
    BY <1>2, <2>2 DEF ReceiptsInv, Rooted, LeavesOf, LifecycleLeaves
  <2> QED
    BY <2>1, <2>2, <2>3
<1>3. ReceiptsInv => ProofsHold
  BY <1>1, <1>2 DEF ProofsHold, PacketProofHolds, LifecycleProofHolds, OneFormula
<1> QED
  BY <1>3, ReceiptsInvariance, PTL

\* What Array.find returns when it finds an entry.
LEMMA FirstOfKind ==
  ASSUME NEW kind, NEW a, Len(log.entries) \in Nat, FirstOf(kind, a) > 0
  PROVE  /\ FirstOf(kind, a) \in 1 .. Len(log.entries)
         /\ log.entries[FirstOf(kind, a)].kind = kind /\ log.entries[FirstOf(kind, a)].artifact = a
<1> DEFINE I == {i \in 1 .. Len(log.entries) : log.entries[i].kind = kind /\ log.entries[i].artifact = a}
<1>1. FirstOf(kind, a) = IF I # {} THEN Min(I) ELSE 0
  BY DEF FirstOf, SelectInSeq
<1>2. I \in SUBSET Nat
  OBVIOUS
<1> HIDE DEF I
<1>3. I # {} /\ FirstOf(kind, a) = Min(I)
  BY <1>1
<1>4. Min(I) \in I
  BY <1>2, <1>3, LeastOfNaturals
<1> QED
  BY <1>3, <1>4 DEF I

(* FreshReplayProofVerifies: although a rerun logs a reconciliation twice, *)
(* a replay proof verifies as soon as it is written.                       *)
THEOREM FreshReplayAlwaysVerifies == ReceiptsSpec => FreshReplayProofVerifies
<1>1. ASSUME ReceiptsInv, NEW a \in Artifact, BuildReplayProof(a), checkpoint.ownHash, ReplayOnly(log)
      PROVE  ReplayProofVerifies'
  <2> DEFINE i == FirstOf(Replay, a)
             f == [artifact |-> a, at |-> log.entries[i].index + 1, hash |-> log.entries[i].hash,
                   count |-> log.count, head |-> log.head, root |-> log.root, checkpoint |-> checkpoint]
  <2>1. i > 0 /\ CheckpointHeadsLog /\ WriteInclusion("replay", f)
    BY <1>1 DEF BuildReplayProof
  <2>2. /\ Good(log) /\ Len(log.entries) \in Nat /\ DOMAIN log.entries = 1 .. Len(log.entries)
        /\ Numbered(log.entries) /\ log.count = Len(log.entries) /\ log.head = HeadHash(log.entries)
    BY <1>1, LengthOfEntries DEF ReceiptsInv, Rooted, Good
  <2>3. i \in 1 .. Len(log.entries) /\ log.entries[i].kind = Replay /\ log.entries[i].artifact = a
    BY <2>1, <2>2, FirstOfKind
  <2> HIDE DEF i
  <2>4. log.entries[i].index = i - 1 /\ f.at = i
    BY <2>2, <2>3 DEF Numbered
  <2>5. /\ log.root = Root(Replay, Hashes(log.entries))
        /\ log.entries[i].hash = Digest(Replay, log.entries[i])
    BY <1>1, <2>2, <2>3 DEF ReceiptsInv, Rooted
  <2>6. /\ f.artifact = a /\ f.hash = log.entries[i].hash /\ f.count = log.count /\ f.head = log.head
        /\ f.root = log.root /\ f.checkpoint = checkpoint /\ f # Missing
    BY DEF Missing
  <2> HIDE DEF f
  <2>7. inclusion'["replay"] = f /\ UNCHANGED <<log, checkpoint>>
    BY <1>1, <2>1 DEF WriteInclusion, ReceiptsInv, InclusionInv
  <2>8. checkpoint # Missing /\ CheckpointHeadsLog'
    BY <2>1, <2>7 DEF CheckpointHeadsLog, CheckpointOfLog
  <2>9. log.root = ReplayRoot'
    BY <2>5, <2>7 DEF ReplayRoot
  <2>10. \A j \in DOMAIN log.entries : log.entries[j].index = j - 1
    BY <2>2 DEF Numbered
  <2> QED
    BY <1>1, <2>2, <2>3, <2>4, <2>5, <2>6, <2>7, <2>8, <2>9, <2>10 DEF ReplayProofVerifies
<1>2. ASSUME ReceiptsNext, inclusion'["replay"] # inclusion["replay"]
      PROVE  \E a \in Artifact : BuildReplayProof(a)
  <2>1. CASE Start /\ AppendLog
    BY <1>2, <2>1 DEF AppendLog
  <2>2. CASE Start /\ (RunCheckpoint \/ BuildIndex)
    BY <1>2, <2>2 DEF RunCheckpoint, BuildIndex
  <2>3. ASSUME NEW a \in Artifact, BuildPacketProof(a) \/ BuildLifecycleProof(a) PROVE FALSE
    <3>1. PICK kind \in {"packet", "lifecycle"} : \E f : inclusion' = [inclusion EXCEPT ![kind] = f]
      BY <2>3 DEF BuildPacketProof, BuildLifecycleProof, WriteInclusion
    <3> QED
      BY <1>2, <3>1
  <2>4. ASSUME NEW p \in Process,
               ReadLog(p) \/ GetAnchor(p) \/ Send(p) \/ Mine(p) \/ WriteReceipt(p) \/ End(p)
        PROVE  FALSE
    BY <1>2, <2>4 DEF ReadLog, GetAnchor, Send, Mine, WriteReceipt, End, files
  <2> QED
    BY <1>2, <2>1, <2>2, <2>3, <2>4 DEF ReceiptsNext
<1>3. ASSUME ReceiptsInv, [ReceiptsNext]_receiptsVars
      PROVE  [(/\ inclusion'["replay"] # inclusion["replay"]
               /\ checkpoint.ownHash
               /\ \A i \in DOMAIN log.entries : log.entries[i].kind = Replay)
                => ReplayProofVerifies']_receiptsVars
  <2> SUFFICES ASSUME ReceiptsNext, inclusion'["replay"] # inclusion["replay"],
                      checkpoint.ownHash, ReplayOnly(log)
               PROVE  ReplayProofVerifies'
    BY <1>3 DEF ReplayOnly
  <2>1. PICK a \in Artifact : BuildReplayProof(a)
    BY <1>2
  <2> QED
    BY <1>1, <1>3, <2>1
<1> QED
  BY <1>3, ReceiptsInvariance, PTL DEF ReceiptsSpec, FreshReplayProofVerifies

=============================================================================
