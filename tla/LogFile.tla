-------------------------------- MODULE LogFile --------------------------------
(***************************************************************************)
(* manifests/transparency/transparency-log.json and what its scripts       *)
(* compute from it: three ways to append an entry, the verifier, the       *)
(* checkpoint and the consistency proof.                                   *)
(*                                                                         *)
(* A digest is the term that was hashed, tagged with the formula used: two *)
(* digests are equal when formula and content are.  A Merkle root is the   *)
(* term [scheme, leaves]; the leaves of one log differ by their index, so  *)
(* no two leaf lists of a log have the same root.                          *)
(***************************************************************************)
EXTENDS Integers, SequencesExt

CONSTANT Artifact   \* what entries are about: packets, lifecycle events, replays

NoDigest == [scheme |-> "none"]

\* The formulas of the three writers.
Generic   == "generic"
Lifecycle == "lifecycle"
Replay    == "replay"

(* kind is the writer whose schema the entry carries: the lifecycle writer *)
(* has a schema of its own, the other two share one.                       *)
NewEntry(kind, artifact, index, prev) ==
  [kind |-> kind, artifact |-> artifact, index |-> index, prev |-> prev,
   hash |-> NoDigest, leaf |-> NoDigest, cumulative |-> NoDigest]

\* The hashed part of an entry: everything but entry_hash and cumulative_root.
Content(e) ==
  [kind |-> e.kind, artifact |-> e.artifact, index |-> e.index, prev |-> e.prev, leaf |-> e.leaf]

Digest(scheme, e) == [scheme |-> scheme, of |-> Content(e)]

Root(scheme, leaves) ==
  IF leaves = <<>> /\ scheme = Generic THEN NoDigest ELSE [scheme |-> scheme, leaves |-> leaves]

Hashes(entries) == [i \in DOMAIN entries |-> entries[i].hash]

EmptyLog == [count |-> 0, head |-> NoDigest, root |-> NoDigest, entries |-> <<>>]

HeadHash(entries) == IF entries = <<>> THEN NoDigest ELSE Last(entries).hash

-----------------------------------------------------------------------------
(* append-transparency-log.mjs                                             *)

\* Mutant: the cumulative root is that of the whole log.
RebuildWithOneRoot(entries) ==
  LET indexed(i) == [entries[i] EXCEPT !.index = i - 1]
      hashes     == [i \in DOMAIN entries |-> Digest(Generic, indexed(i))]
  IN  [i \in DOMAIN entries |->
         [indexed(i) EXCEPT !.hash = hashes[i], !.cumulative = Root(Generic, hashes)]]

\* Mutant: the cumulative root is taken before the entry's own hash is pushed.
RebuildRootBefore(entries) ==
  LET indexed(i) == [entries[i] EXCEPT !.index = i - 1]
      hash(i)    == Digest(Generic, indexed(i))
  IN  [i \in DOMAIN entries |->
         [indexed(i) EXCEPT !.hash = hash(i),
            !.cumulative = Root(Generic, [j \in 1 .. i - 1 |-> hash(j)])]]

\* rebuildEntries: index, entry_hash and cumulative_root of every entry anew.
RebuildEntries(entries) ==
  LET indexed(i) == [entries[i] EXCEPT !.index = i - 1]
      hash(i)    == Digest(Generic, indexed(i))
  IN  [i \in DOMAIN entries |->
         [indexed(i) EXCEPT !.hash = hash(i),
            !.cumulative = Root(Generic, [j \in 1 .. i |-> hash(j)])]]

FinalizeLog(entries) ==
  LET rebuilt == RebuildEntries(entries)
  IN  [count |-> Len(rebuilt), head |-> HeadHash(rebuilt),
       root |-> Root(Generic, Hashes(rebuilt)), entries |-> rebuilt]

\* Mutant: the newest entry comes first.
AppendNewestFirst(log, artifact) ==
  FinalizeLog(<<NewEntry(Generic, artifact, 0, NoDigest)>> \o log.entries)

AppendGeneric(log, artifact) ==
  FinalizeLog(Append(log.entries, NewEntry(Generic, artifact, Len(log.entries), NoDigest)))

RepairOnly(log) == FinalizeLog(log.entries)

-----------------------------------------------------------------------------
(* append-lifecycle-transparency-log.mjs                                   *)

GetLeafHash(e) == IF e.leaf # NoDigest THEN e.leaf ELSE e.hash

IsLifecycleOf(e, artifact) == e.kind = Lifecycle /\ e.artifact = artifact

\* Mutant: the search for an existing entry is missing.
AppendLifecycleAlways(log, artifact) ==
  LET bare    == NewEntry(Lifecycle, artifact, Len(log.entries), NoDigest)
      hash    == Digest(Lifecycle, bare)
      entry   == [bare EXCEPT !.hash = hash, !.leaf = [scheme |-> "leaf", of |-> hash]]
      entries == Append(log.entries, entry)
  IN  [count |-> Len(entries), head |-> HeadHash(entries),
       root |-> Root(Lifecycle, [i \in DOMAIN entries |-> GetLeafHash(entries[i])]),
       entries |-> entries]

AppendLifecycle(log, artifact) ==
  LET bare    == NewEntry(Lifecycle, artifact, Len(log.entries), NoDigest)
      hash    == Digest(Lifecycle, bare)
      entry   == [bare EXCEPT !.hash = hash, !.leaf = [scheme |-> "leaf", of |-> hash]]
      known   == \E i \in DOMAIN log.entries : IsLifecycleOf(log.entries[i], artifact)
      entries == IF known THEN log.entries ELSE Append(log.entries, entry)
  IN  [count |-> Len(entries), head |-> HeadHash(entries),
       root |-> Root(Lifecycle, [i \in DOMAIN entries |-> GetLeafHash(entries[i])]),
       entries |-> entries]

-----------------------------------------------------------------------------
(* append-lifecycle-replay-transparency-log.mjs                            *)

\* Mutant: positions count from one.
AppendReplayFromOne(log, artifact) ==
  LET bare    == NewEntry(Replay, artifact, Len(log.entries) + 1, HeadHash(log.entries))
      entries == Append(log.entries, [bare EXCEPT !.hash = Digest(Replay, bare)])
  IN  [count |-> Len(entries), head |-> HeadHash(entries),
       root |-> Root(Replay, Hashes(entries)), entries |-> entries]

AppendReplay(log, artifact) ==
  LET bare    == NewEntry(Replay, artifact, Len(log.entries), HeadHash(log.entries))
      entries == Append(log.entries, [bare EXCEPT !.hash = Digest(Replay, bare)])
  IN  [count |-> Len(entries), head |-> HeadHash(entries),
       root |-> Root(Replay, Hashes(entries)), entries |-> entries]

-----------------------------------------------------------------------------
(* verify-transparency-log.mjs                                             *)

LogVerifies(log) ==
  LET n == Len(log.entries)
      expected(i) == Digest(Generic, log.entries[i])
      expectedRoot(i) == Root(Generic, [j \in 1 .. i |-> expected(j)])
  IN  /\ log.count = n
      /\ \A i \in 1 .. n :
           /\ log.entries[i].kind # Lifecycle
           /\ log.entries[i].index = i - 1
           /\ log.entries[i].hash = expected(i)
           /\ log.entries[i].cumulative = expectedRoot(i)
      /\ log.head = IF n = 0 THEN NoDigest ELSE expected(n)
      /\ log.root = expectedRoot(n)

-----------------------------------------------------------------------------
(* build- and verify-transparency-checkpoint.mjs                           *)

BuildCheckpoint(log) ==
  [count |-> log.count, head |-> log.head, root |-> log.root,
   cumulative |-> IF log.entries = <<>> THEN NoDigest ELSE Last(log.entries).cumulative]

\* The checkpoint the replay writer leaves has no cumulative root.
ReplayCheckpoint(log) ==
  [count |-> log.count, head |-> log.head, root |-> log.root, cumulative |-> NoDigest]

(* build- and verify-transparency-log-consistency-proof.mjs                *)

Prefix(log, n) == SubSeq(Hashes(log.entries), 1, n)

BuildProof(log, oldSize, newSize) ==
  LET old == log.entries[oldSize]  new == log.entries[newSize] IN
  [oldSize |-> oldSize, newSize |-> newSize,
   oldRoot |-> Root(Generic, Prefix(log, oldSize)), newRoot |-> Root(Generic, Prefix(log, newSize)),
   oldHead |-> old.hash, newHead |-> new.hash,
   oldIndex |-> old.index, newIndex |-> new.index,
   oldCumulative |-> old.cumulative, newCumulative |-> new.cumulative,
   prefix |-> Prefix(log, oldSize)]

\* Mutant: the proof must reach the end of the log.
ProofVerifiesAtHead(proof, log) ==
  /\ proof.newSize = log.count
  /\ proof = BuildProof(log, proof.oldSize, proof.newSize)

\* Every field is compared with what the log gives now, then the roots with
\* the stored cumulative roots.
ProofVerifies(proof, log) ==
  /\ 1 <= proof.oldSize /\ proof.oldSize <= proof.newSize /\ proof.newSize <= log.count
  /\ proof.newSize <= Len(log.entries)
  /\ proof = BuildProof(log, proof.oldSize, proof.newSize)
  /\ proof.oldRoot = proof.oldCumulative
  /\ proof.newRoot = proof.newCumulative

=============================================================================
