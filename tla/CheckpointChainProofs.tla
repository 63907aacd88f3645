------------------------- MODULE CheckpointChainProofs -------------------------
(***************************************************************************)
(* From the log's checkpoint to the life of a grant issued under it, for   *)
(* any number of witnesses, keyrings, policies, entries, events and runs.  *)
(* A file goes stale, but what it holds of others never changes in it: so  *)
(* the invariants speak of each file by itself, as its builder wrote it.   *)
(* First CheckpointChain, then GrantLifecycle.                             *)
(***************************************************************************)
EXTENDS CheckpointChain, GrantLifecycle, DataInduction

\* sign-transparency-checkpoint-witness.mjs: all of one keyring, one checkpoint.
WellSigned(w) == SignedByAll(w.checkpoint, w)

\* build-transparency-checkpoint-finalization.mjs
WellFinalized(f) ==
  /\ f.witnesses.checkpoint = f.checkpoint
  /\ WellSigned(f.witnesses)
  /\ f.satisfied = Cardinality(f.witnesses.signatures)

\* build-transparency-checkpoint-rebinding.mjs
WellBound(r) == r.root = r.checkpoint.root

\* build-transparency-checkpoint-external-anchor.mjs
WellAnchored(e) == e.root = e.checkpoint.root /\ e.finalization.checkpoint = e.checkpoint

\* Each derived file is as its builder left it.
ChainInv ==
  /\ doc = [name \in Name |-> doc[name]]
  /\ Exists("witnesses") => WellSigned(doc["witnesses"])
  /\ Exists("finalization") => WellFinalized(doc["finalization"])
  /\ Exists("rebinding") => WellBound(doc["rebinding"])
  /\ Exists("external") => WellAnchored(doc["external"])
  /\ Exists("verification") => WellAnchored(doc["verification"].of)

\* The files the invariant speaks of.
Bound == {"witnesses", "finalization", "rebinding", "external", "verification"}

-----------------------------------------------------------------------------
\* A script writes its own file and no other.
LEMMA WritesOne ==
  ASSUME ChainInv, NEW name \in Name, NEW content, Write(name, content)
  PROVE  /\ doc' = [n \in Name |-> doc'[n]]
         /\ doc'[name] = content
         /\ \A n \in Name : n # name => doc'[n] = doc[n]
BY DEF ChainInv, Write

\* A file outside the chain does not matter to it.
LEMMA WritesBeside ==
  ASSUME ChainInv, doc' = [n \in Name |-> doc'[n]], \A n \in Bound : doc'[n] = doc[n]
  PROVE  ChainInv'
BY DEF ChainInv, Bound, Exists, Name

LEMMA SignStep ==
  ASSUME ChainInv, NEW keyring \in Keyring, Sign(keyring)
  PROVE  ChainInv'
<1> DEFINE w == [checkpoint |-> doc["checkpoint"], threshold |-> keyring.threshold,
                 signatures |-> {Signature(v, doc["checkpoint"]) : v \in keyring.members}]
<1>1. Write("witnesses", w) /\ "witnesses" \in Name
  BY DEF Sign, Name
<1>2. /\ doc' = [n \in Name |-> doc'[n]]
      /\ doc'["witnesses"] = w
      /\ \A n \in Name : n # "witnesses" => doc'[n] = doc[n]
  BY <1>1, WritesOne
<1>3. WellSigned(w)
  BY DEF WellSigned, SignedByAll
<1> QED
  BY <1>2, <1>3 DEF ChainInv, Exists, Name

LEMMA FinalizeStep ==
  ASSUME ChainInv, Finalize
  PROVE  ChainInv'
<1>1. Write("finalization", Finalization) /\ "finalization" \in Name
  BY DEF Finalize, Name
<1>2. /\ doc' = [n \in Name |-> doc'[n]]
      /\ doc'["finalization"] = Finalization
      /\ \A n \in Name : n # "finalization" => doc'[n] = doc[n]
  BY <1>1, WritesOne
<1>3. WellSigned(doc["witnesses"])
  BY DEF ChainInv, Finalize
<1>4. WellFinalized(Finalization)
  BY <1>3 DEF Finalize, WellFinalized, Finalization
<1> QED
  BY <1>2, <1>4 DEF ChainInv, Exists, Name

LEMMA RebindStep ==
  ASSUME ChainInv, Rebind
  PROVE  ChainInv'
<1>1. Write("rebinding", Rebinding) /\ "rebinding" \in Name
  BY DEF Rebind, Name
<1>2. /\ doc' = [n \in Name |-> doc'[n]]
      /\ doc'["rebinding"] = Rebinding
      /\ \A n \in Name : n # "rebinding" => doc'[n] = doc[n]
  BY <1>1, WritesOne
<1>3. WellBound(Rebinding)
  BY DEF WellBound, Rebinding
<1> QED
  BY <1>2, <1>3 DEF ChainInv, Exists, Name

LEMMA AnchorStep ==
  ASSUME ChainInv, NEW anchors, Anchor(anchors)
  PROVE  ChainInv'
<1>1. Write("external", External(anchors)) /\ "external" \in Name
  BY DEF Anchor, Name
<1>2. /\ doc' = [n \in Name |-> doc'[n]]
      /\ doc'["external"] = External(anchors)
      /\ \A n \in Name : n # "external" => doc'[n] = doc[n]
  BY <1>1, WritesOne
<1>3. Exists("rebinding") /\ RebindingAgrees
  BY DEF Anchor
<1>4. WellAnchored(External(anchors))
  BY <1>3 DEF ChainInv, WellBound, WellAnchored, External, RebindingAgrees
<1> QED
  BY <1>2, <1>4 DEF ChainInv, Exists, Name

LEMMA VerifyAnchorsStep ==
  ASSUME ChainInv, VerifyAnchors
  PROVE  ChainInv'
<1>1. Write("verification", AnchorVerification) /\ "verification" \in Name
  BY DEF VerifyAnchors, Name
<1>2. /\ doc' = [n \in Name |-> doc'[n]]
      /\ doc'["verification"] = AnchorVerification
      /\ \A n \in Name : n # "verification" => doc'[n] = doc[n]
  BY <1>1, WritesOne
<1>3. WellAnchored(AnchorVerification.of)
  BY DEF ChainInv, VerifyAnchors, AnchorVerification
<1> QED
  BY <1>2, <1>3 DEF ChainInv, Exists, Name

\* The log, its checkpoint and proof, the policy, the archive and the bridge.
LEMMA BesideStep ==
  ASSUME ChainInv,
         \/ GenericAppend
         \/ \E stamp \in Stamp : ReplayAppend(stamp) \/ RunCheckpoint(stamp)
         \/ ChangePolicy \/ Archive \/ RunProof \/ BuildBridge
  PROVE  ChainInv'
<1>1. CASE GenericAppend \/ ChangePolicy \/ Archive
  BY <1>1, WritesBeside DEF GenericAppend, ChangePolicy, Archive, ChainInv
<1>2. ASSUME NEW name \in Name \ Bound, NEW content, Write(name, content)
      PROVE  ChainInv'
  <2>1. /\ doc' = [n \in Name |-> doc'[n]]
        /\ \A n \in Name : n # name => doc'[n] = doc[n]
    BY <1>2, WritesOne
  <2> QED
    BY <2>1, WritesBeside DEF Bound, Name
<1>3. {"checkpoint", "proof", "bridge"} \subseteq Name \ Bound
  BY DEF Name, Bound
<1>4. ASSUME NEW stamp \in Stamp, RunCheckpoint(stamp)
      PROVE  ChainInv'
  BY <1>2, <1>3, <1>4 DEF RunCheckpoint
<1>5. ASSUME NEW stamp \in Stamp, ReplayAppend(stamp)
      PROVE  ChainInv'
  <2> DEFINE c == Stamped(ReplayCheckpoint(log'), stamp)
  <2>1. doc' = [doc EXCEPT !["checkpoint"] = c]
    BY <1>5 DEF ReplayAppend
  <2> HIDE DEF c
  <2>2. doc' = [n \in Name |-> doc'[n]] /\ \A n \in Bound : doc'[n] = doc[n]
    BY <2>1 DEF ChainInv, Name, Bound
  <2> QED
    BY <2>2, WritesBeside
<1>6. CASE RunProof
  BY <1>2, <1>3, <1>6 DEF RunProof
<1>7. CASE BuildBridge
  BY <1>2, <1>3, <1>7 DEF BuildBridge
<1> QED
  BY <1>1, <1>4, <1>5, <1>6, <1>7

(* ChainInv holds in every reachable state: each builder writes a file     *)
(* that is right about those it read, and no script writes two of them.    *)
THEOREM ChainInvariance == Spec => []ChainInv
<1>1. Init => ChainInv
  BY DEF Init, ChainInv, Exists, Name
<1>2. ASSUME ChainInv, [Next]_vars PROVE ChainInv'
  <2>1. CASE UNCHANGED vars
    BY <1>2, <2>1 DEF vars, ChainInv, Exists
  <2>2. CASE Next
    <3>1. \/ \E keyring \in Keyring : Sign(keyring)
          \/ Finalize \/ Rebind \/ VerifyAnchors
          \/ \E anchors \in SUBSET {"git_commit", "ipfs_cid"} : Anchor(anchors)
          \/ GenericAppend
          \/ \E stamp \in Stamp : ReplayAppend(stamp) \/ RunCheckpoint(stamp)
          \/ ChangePolicy \/ Archive \/ RunProof \/ BuildBridge
      BY <2>2 DEF Next
    <3> QED
      BY <1>2, <3>1, SignStep, FinalizeStep, RebindStep, AnchorStep, VerifyAnchorsStep, BesideStep
  <2> QED
    BY <1>2, <2>1, <2>2
<1> QED
  BY <1>1, <1>2, PTL DEF Spec

\* There are as many signatures in a witness file as members in its keyring.
LEMMA OneSignatureEach ==
  ASSUME NEW keyring \in Keyring, NEW c
  PROVE  Cardinality({Signature(v, c) : v \in keyring.members}) = Cardinality(keyring.members)
<1> DEFINE M == keyring.members
           S == {Signature(v, c) : v \in M}
           f == [v \in M |-> Signature(v, c)]
<1>1. IsFiniteSet(M)
  BY ChainAssumption, FS_Subset
<1>2. f \in Bijection(M, S)
  BY DEF Signature, Bijection, Injection, Surjection, IsInjective
<1> QED
  BY <1>1, <1>2, FS_Bijection DEF ExistsBijection

\* So there are as many as the keyring requires, all of one checkpoint.
LEMMA SignedByEnough ==
  ASSUME NEW c, NEW w, SignedByAll(c, w)
  PROVE  /\ Cardinality(w.signatures) >= w.threshold
         /\ \A s \in w.signatures : s.of = c
<1>1. PICK keyring \in Keyring : /\ w.threshold = keyring.threshold
                                /\ w.signatures = {Signature(v, c) : v \in keyring.members}
  BY DEF SignedByAll
<1>2. Cardinality(w.signatures) = Cardinality(keyring.members)
  BY <1>1, OneSignatureEach
<1> QED
  BY <1>1, <1>2, ChainAssumption DEF Signature

(* What is finalized was signed by a whole keyring, as many as it asks     *)
(* for, of any number of witnesses; what is anchored was finalized.        *)
THEOREM AnchorsAreBacked == Spec => []AnchorIsBacked
<1>1. ASSUME ChainInv PROVE FinalizedWasSigned
  <2> DEFINE f == doc["finalization"]
  <2> SUFFICES ASSUME Exists("finalization")
               PROVE  /\ f.witnesses.checkpoint = f.checkpoint
                      /\ SignedByAll(f.checkpoint, f.witnesses)
                      /\ f.satisfied >= f.witnesses.threshold
    BY DEF FinalizedWasSigned
  <2>1. WellFinalized(f)
    BY <1>1 DEF ChainInv
  <2> HIDE DEF f
  <2>2. /\ f.witnesses.checkpoint = f.checkpoint
        /\ SignedByAll(f.checkpoint, f.witnesses)
        /\ f.satisfied = Cardinality(f.witnesses.signatures)
    BY <2>1 DEF WellFinalized, WellSigned
  <2> QED
    BY <2>2, SignedByEnough
<1>2. ASSUME ChainInv PROVE AnchoredRootIsFinalized
  BY <1>2 DEF ChainInv, AnchoredRootIsFinalized, WellAnchored, AnchorVerificationVerifies
<1> QED
  BY <1>1, <1>2, ChainInvariance, PTL DEF AnchorIsBacked

(* Whoever runs the verifiers of checkpoint and finalization, and that of  *)
(* the rebinding or of the external anchor, knows that a whole keyring     *)
(* signed this checkpoint and that the root bound to it is the log's.      *)
THEOREM AcceptedIsWitnessed == Spec => []AcceptedChainIsWitnessed
<1>1. ASSUME ChainInv PROVE AcceptedChainIsWitnessed
  <2> SUFFICES ASSUME CheckpointVerifies, FinalizationVerifies, RebindingVerifies \/ ExternalVerifies
               PROVE  /\ doc["rebinding"].root = log.root
                      /\ WitnessesVerify
                      /\ SignedByAll(doc["checkpoint"], doc["witnesses"])
    BY DEF AcceptedChainIsWitnessed
  <2>1. doc["checkpoint"].root = log.root
    <3>1. PICK stamp \in Stamp : doc["checkpoint"] = Stamped(BuildCheckpoint(log), stamp)
      BY DEF CheckpointVerifies
    <3> QED
      BY <3>1 DEF BuildCheckpoint, Stamped
  <2>2. /\ doc["finalization"].checkpoint = doc["checkpoint"]
        /\ doc["witnesses"].checkpoint = doc["checkpoint"]
        /\ SignedByAll(doc["checkpoint"], doc["witnesses"])
        /\ Exists("checkpoint") /\ Exists("witnesses")
    BY <1>1 DEF ChainInv, FinalizationVerifies, WellFinalized, WellSigned
  <2>3. doc["rebinding"].root = doc["checkpoint"].root
    <3>1. CASE RebindingVerifies
      BY <3>1 DEF RebindingVerifies, Rebinding
    <3>2. CASE ExternalVerifies
      BY <1>1, <2>2, <3>2 DEF ExternalVerifies, RebindingAgrees, ChainInv, WellBound
    <3> QED
      BY <3>1, <3>2
  <2>4. /\ Cardinality(doc["witnesses"].signatures) >= doc["witnesses"].threshold
        /\ \A s \in doc["witnesses"].signatures : s.of = doc["checkpoint"]
    BY <2>2, SignedByEnough
  <2>5. WitnessesVerify
    BY <2>2, <2>4 DEF WitnessesVerify
  <2> QED
    BY <2>1, <2>2, <2>3, <2>5
<1> QED
  BY <1>1, ChainInvariance, PTL

-----------------------------------------------------------------------------
(* The bridge                                                              *)

\* The log as its two writers here leave it.
Counted(l) == (\E S : l.entries \in Seq(S)) /\ l.count = Len(l.entries)

\* A proof is of two beginnings of one list of hashes.
OfOneList(p) ==
  \E S : \E h \in Seq(S) :
    /\ p.oldSize \in 1 .. p.newSize /\ p.newSize \in 1 .. Len(h)
    /\ p.oldRoot = Root(Generic, SubSeq(h, 1, p.oldSize))
    /\ p.newRoot = Root(Generic, SubSeq(h, 1, p.newSize))

\* build-transparency-consistency-bridge.mjs
WellBridged(b) == OfOneList(b.proof) /\ b.appendOnly = BridgeChecks(b.old, b.new, b.proof)

BridgeInv ==
  /\ ChainInv
  /\ Counted(log)
  /\ Exists("proof") => OfOneList(doc["proof"])
  /\ Exists("bridge") => WellBridged(doc["bridge"])

LEMMA RebuiltIsCounted == \A S, entries : entries \in Seq(S) => Counted(FinalizeLog(entries))
<1> SUFFICES ASSUME NEW S, NEW entries \in Seq(S) PROVE Counted(FinalizeLog(entries))
  OBVIOUS
<1> DEFINE r == RebuildEntries(entries)
           n == Len(entries)
<1>1. n \in Nat /\ DOMAIN entries = 1 .. n
  OBVIOUS
<1>2. r = [i \in DOMAIN entries |-> r[i]]
  BY DEF RebuildEntries
<1> HIDE DEF r, n
<1>3. r \in Seq({r[i] : i \in 1 .. n})
  <2>1. r = [i \in 1 .. n |-> r[i]] /\ n \in Nat
    BY <1>1, <1>2
  <2> DEFINE T == {r[i] : i \in 1 .. n}
  <2>2. \A i \in 1 .. n : r[i] \in T
    OBVIOUS
  <2> HIDE DEF T
  <2>3. r \in [1 .. n -> T]
    BY <2>1, <2>2
  <2>4. r \in Seq(T)
    BY <2>1, <2>3
  <2> QED
    BY <2>4 DEF T
<1>4. FinalizeLog(entries).entries = r /\ FinalizeLog(entries).count = Len(r)
  BY DEF FinalizeLog, r
<1> QED
  BY <1>3, <1>4 DEF Counted

LEMMA AppendsAreCounted ==
  ASSUME Counted(log), NEW a
  PROVE  Counted(AppendGeneric(log, a)) /\ Counted(AppendReplay(log, a))
<1>1. PICK S : log.entries \in Seq(S)
  BY DEF Counted
<1>2. \A e : Append(log.entries, e) \in Seq(S \cup {e})
  <2> SUFFICES ASSUME NEW e PROVE Append(log.entries, e) \in Seq(S \cup {e})
    OBVIOUS
  <2>1. log.entries \in Seq(S \cup {e})
    BY <1>1
  <2> QED
    BY <2>1
<1>3. Counted(AppendGeneric(log, a))
  BY <1>2, RebuiltIsCounted DEF AppendGeneric
<1>4. \E e : /\ AppendReplay(log, a).entries = Append(log.entries, e)
             /\ AppendReplay(log, a).count = Len(Append(log.entries, e))
  BY DEF AppendReplay
<1> QED
  BY <1>2, <1>3, <1>4 DEF Counted

LEMMA HashesList ==
  ASSUME NEW S, NEW entries \in Seq(S)
  PROVE  \E T : Hashes(entries) \in Seq(T) /\ Len(Hashes(entries)) = Len(entries)
<1> DEFINE h == Hashes(entries)
<1>1. h = [i \in 1 .. Len(entries) |-> h[i]]
  BY DEF Hashes
<1> HIDE DEF h
<1>2. h \in Seq({h[i] : i \in 1 .. Len(entries)}) /\ Len(h) = Len(entries)
  BY <1>1
<1> QED
  BY <1>2 DEF h

LEMMA ProofsAreOfOneList ==
  ASSUME NEW l, Counted(l), NEW new \in 1 .. l.count, NEW old \in 1 .. new
  PROVE  OfOneList(BuildProof(l, old, new))
<1> DEFINE p == BuildProof(l, old, new)
           h == Hashes(l.entries)
<1>1. PICK S : l.entries \in Seq(S)
  BY DEF Counted
<1>2. PICK T : h \in Seq(T) /\ Len(h) = Len(l.entries)
  BY <1>1, HashesList
<1>3. /\ p.oldSize = old /\ p.newSize = new
      /\ p.oldRoot = Root(Generic, SubSeq(h, 1, old))
      /\ p.newRoot = Root(Generic, SubSeq(h, 1, new))
  BY DEF BuildProof, Prefix
<1> HIDE DEF p, h
<1>4. new \in 1 .. Len(h)
  BY <1>1, <1>2 DEF Counted
<1> QED
  BY <1>2, <1>3, <1>4 DEF OfOneList, p

LEMMA BridgeStep ==
  ASSUME BridgeInv, [Next]_vars, ChainInv'
  PROVE  BridgeInv'
<1>1. ChainInv /\ Counted(log) /\ {"proof", "bridge"} \subseteq Name
  BY DEF BridgeInv, Name
<1>2. Counted(log')
  <2>1. \/ log' = log
        \/ \E a : log' = AppendGeneric(log, a) \/ log' = AppendReplay(log, a)
    BY DEF Next, vars, GenericAppend, ReplayAppend, RunCheckpoint, Sign, ChangePolicy, Finalize,
           Rebind, Anchor, VerifyAnchors, Archive, RunProof, BuildBridge, Write
  <2> QED
    BY <1>1, <2>1, AppendsAreCounted
<1>3. CASE RunProof
  <2>1. PICK new \in 1 .. log.count : \E old \in 1 .. new : Write("proof", BuildProof(log, old, new))
    BY <1>3 DEF RunProof
  <2>2. PICK old \in 1 .. new : Write("proof", BuildProof(log, old, new))
    BY <2>1
  <2>3. doc'["proof"] = BuildProof(log, old, new) /\ doc'["bridge"] = doc["bridge"]
    BY <1>1, <2>2, WritesOne
  <2>4. OfOneList(doc'["proof"])
    BY <1>1, <2>3, ProofsAreOfOneList
  <2> QED
    BY <1>2, <2>3, <2>4 DEF BridgeInv, Exists
<1>4. CASE BuildBridge
  <2>1. PICK old : Write("bridge", Bridge(old, doc["checkpoint"], doc["proof"]))
    BY <1>4 DEF BuildBridge
  <2> DEFINE b == Bridge(old, doc["checkpoint"], doc["proof"])
  <2>2. doc'["bridge"] = b /\ doc'["proof"] = doc["proof"]
    BY <1>1, <2>1, WritesOne
  <2>3. OfOneList(doc["proof"])
    BY <1>4 DEF BuildBridge, BridgeInv
  <2>4. WellBridged(b)
    BY <2>3 DEF WellBridged, Bridge
  <2> HIDE DEF b
  <2> QED
    BY <1>2, <2>2, <2>3, <2>4 DEF BridgeInv
<1>5. CASE ~ RunProof /\ ~ BuildBridge
  <2>1. \/ doc' = doc
        \/ \E name \in Name \ {"proof", "bridge"} : \E content : doc' = [doc EXCEPT ![name] = content]
    <3>1. {"checkpoint", "witnesses", "finalization", "rebinding", "external", "verification"}
            \subseteq Name \ {"proof", "bridge"}
      BY DEF Name
    <3> QED
      BY <1>5, <3>1 DEF Next, vars, GenericAppend, ReplayAppend, RunCheckpoint, Sign, ChangePolicy,
         Finalize, Rebind, Anchor, VerifyAnchors, Archive, Write
  <2>2. doc'["proof"] = doc["proof"] /\ doc'["bridge"] = doc["bridge"]
    BY <1>1, <2>1 DEF ChainInv
  <2> QED
    BY <1>2, <2>2 DEF BridgeInv, Exists
<1> QED
  BY <1>3, <1>4, <1>5

THEOREM BridgeInvariance == Spec => []BridgeInv
<1>1. Init => BridgeInv
  <2> SUFFICES ASSUME Init PROVE BridgeInv
    OBVIOUS
  <2>1. ChainInv
    BY DEF Init, ChainInv, Exists, Name
  <2>2. log = EmptyLog /\ ~ Exists("proof") /\ ~ Exists("bridge")
    BY DEF Init, Exists, Name
  <2>3. log.entries = <<>> /\ log.count = 0
    BY <2>2 DEF EmptyLog
  <2>4. <<>> \in Seq({}) /\ Len(<<>>) = 0
    OBVIOUS
  <2> QED
    BY <2>1, <2>2, <2>3, <2>4 DEF BridgeInv, Counted
<1>2. BridgeInv /\ [Next]_vars /\ ChainInv' => BridgeInv'
  BY BridgeStep
<1> QED
  BY <1>1, <1>2, ChainInvariance, PTL DEF Spec

LEMMA Beginnings ==
  ASSUME NEW S, NEW h \in Seq(S), NEW m \in 1 .. Len(h), NEW n \in 1 .. m, n < m
  PROVE  /\ IsStrictPrefix(SubSeq(h, 1, n), SubSeq(h, 1, m))
         /\ SubSeq(h, 1, n) # <<>> /\ SubSeq(h, 1, m) # <<>>
<1> DEFINE s == SubSeq(h, 1, n)
           t == SubSeq(h, 1, m)
<1>1. s \in Seq(S) /\ Len(s) = n /\ \A i \in 1 .. n : s[i] = h[i]
  OBVIOUS
<1>2. t \in Seq(S) /\ Len(t) = m /\ \A i \in 1 .. m : t[i] = h[i]
  OBVIOUS
<1> HIDE DEF s, t
<1>3. SubSeq(s, 1, n) = [i \in 1 .. n |-> h[i]]
  BY <1>1
<1>4. SubSeq(t, 1, n) = [i \in 1 .. n |-> h[i]]
  BY <1>2
<1>5. s # t /\ s # <<>> /\ t # <<>>
  BY <1>1, <1>2
<1>6. n <= m
  OBVIOUS
<1> QED
  BY <1>1, <1>2, <1>3, <1>4, <1>5, <1>6 DEF IsStrictPrefix, IsPrefix, s, t

(* However the log was appended to, repaired or left by the replay writer, *)
(* and whichever checkpoints were kept: what the old one of a verified     *)
(* bridge commits to is a beginning of what the new one commits to.        *)
THEOREM BridgesShowExtension == Spec => []BridgeShowsExtension
<1>1. ASSUME BridgeInv PROVE BridgeShowsExtension
  <2> SUFFICES ASSUME BridgeVerifies
               PROVE  LET b == doc["bridge"] IN
                      IsStrictPrefix(b.old.root.leaves, b.new.root.leaves) /\ b.appendOnly
    BY DEF BridgeShowsExtension
  <2> DEFINE b == doc["bridge"]
             p == b.proof
             n == p.oldSize
             m == p.newSize
  <2>1. BridgeChecks(b.old, b.new, p) /\ WellBridged(b)
    BY <1>1 DEF BridgeVerifies, BridgeInv
  <2>2. /\ b.old.root = p.oldRoot /\ b.new.root = p.newRoot /\ m > n
        /\ b.appendOnly /\ OfOneList(p)
    BY <2>1 DEF BridgeChecks, WellBridged
  <2>3. PICK S : \E h \in Seq(S) :
          /\ n \in 1 .. m /\ m \in 1 .. Len(h)
          /\ p.oldRoot = Root(Generic, SubSeq(h, 1, n)) /\ p.newRoot = Root(Generic, SubSeq(h, 1, m))
    BY <2>2 DEF OfOneList
  <2>4. PICK h \in Seq(S) :
          /\ n \in 1 .. m /\ m \in 1 .. Len(h)
          /\ p.oldRoot = Root(Generic, SubSeq(h, 1, n)) /\ p.newRoot = Root(Generic, SubSeq(h, 1, m))
    BY <2>3
  <2> HIDE DEF b, p, n, m
  <2>5. n < m
    BY <2>2, <2>4
  <2>6. /\ IsStrictPrefix(SubSeq(h, 1, n), SubSeq(h, 1, m))
        /\ SubSeq(h, 1, n) # <<>> /\ SubSeq(h, 1, m) # <<>>
    BY <2>4, <2>5, Beginnings
  <2>7. \A leaves : leaves # <<>> => Root(Generic, leaves).leaves = leaves
    BY DEF Root
  <2>8. p.oldRoot.leaves = SubSeq(h, 1, n) /\ p.newRoot.leaves = SubSeq(h, 1, m)
    BY <2>4, <2>6, <2>7
  <2>9. IsStrictPrefix(b.old.root.leaves, b.new.root.leaves) /\ b.appendOnly
    BY <2>2, <2>6, <2>8
  <2> QED
    BY <2>9 DEF b
<1> QED
  BY <1>1, BridgeInvariance, PTL

-----------------------------------------------------------------------------
(* Lists of events and their order                                         *)

\* An event as build-grant-lifecycle-event.mjs writes it.
WellStated(e) ==
  /\ e # Absent
  /\ e.id \in EventId /\ e.at \in EffectiveAt /\ e.quantity \in Quantity \cup {None}
  /\ e.deltas \in [Delta -> Nat]
  /\ e.mode # "explicit" => e.deltas = Normalize(e.type, e.quantity)

\* A list of them, each under an id of its own.
EventList(es) ==
  /\ \E S : es \in Seq(S)
  /\ \A i \in DOMAIN es : WellStated(es[i])
  /\ \A i, j \in DOMAIN es : es[i].id = es[j].id => i = j

InPlace(es) == \A i, j \in DOMAIN es : i < j => EffectiveBefore(es[i], es[j])

LEMMA ListDomain ==
  ASSUME NEW es, EventList(es)
  PROVE  /\ Len(es) \in Nat /\ DOMAIN es = 1 .. Len(es)
         /\ \A i \in DOMAIN es : es[i].id \in Nat /\ es[i].at \in Nat /\ es[i].deltas \in [Delta -> Nat]
<1>1. PICK S : es \in Seq(S)
  BY DEF EventList
<1>2. Len(es) \in Nat /\ DOMAIN es = 1 .. Len(es)
  BY <1>1
<1> QED
  BY <1>2, LifecycleAssumption DEF EventList, WellStated

\* Of events with different ids one is before the other.
LEMMA BeforeIsTotal ==
  ASSUME NEW a, NEW b, a.at \in Nat, b.at \in Nat, a.id \in Nat, b.id \in Nat
  PROVE  /\ a.id # b.id => EffectiveBefore(a, b) \/ EffectiveBefore(b, a)
         /\ ~ (EffectiveBefore(a, b) /\ EffectiveBefore(b, a))
         /\ ~ EffectiveBefore(a, a)
BY DEF EffectiveBefore

\* In a set of events there is one that no other is before.
LEMMA FirstEvent ==
  ASSUME NEW D, D # {}, \A e \in D : e.at \in Nat /\ e.id \in Nat
  PROVE  \E e \in D : \A x \in D : ~ EffectiveBefore(x, e)
<1> DEFINE A == {e.at : e \in D}
           I == {e.id : e \in {x \in D : x.at = Min(A)}}
<1>1. A \in SUBSET Nat /\ A # {}
  OBVIOUS
<1>2. Min(A) \in A /\ \A n \in A : Min(A) <= n
  BY <1>1, LeastOfNaturals
<1>3. I \in SUBSET Nat /\ I # {}
  BY <1>2
<1>4. Min(I) \in I /\ \A n \in I : Min(I) <= n
  BY <1>3, LeastOfNaturals
<1>5. PICK e \in D : e.at = Min(A) /\ e.id = Min(I)
  BY <1>4
<1>6. \A x \in D : e.at <= x.at /\ (x.at = e.at => e.id <= x.id)
  <2> SUFFICES ASSUME NEW x \in D PROVE e.at <= x.at /\ (x.at = e.at => e.id <= x.id)
    OBVIOUS
  <2>1. x.at \in A /\ (x.at = e.at => x.id \in I)
    BY <1>5
  <2> HIDE DEF A, I
  <2> QED
    BY <1>2, <1>4, <1>5, <2>1
<1>7. \A x \in D : ~ EffectiveBefore(x, e)
  BY <1>6 DEF EffectiveBefore
<1> QED
  BY <1>7

\* Every finite set of events with ids of their own has a list in order.
LEMMA EventsCanBeSorted ==
  ASSUME NEW A, IsFiniteSet(A), \A e \in A : e.at \in Nat /\ e.id \in Nat
  PROVE  \A D \in SUBSET A :
           \E s \in [1 .. Cardinality(D) -> D] :
             ToSet(s) = D /\ \A i, j \in DOMAIN s : i < j => ~ EffectiveBefore(s[j], s[i])
<1> DEFINE Sorts(s, D) == ToSet(s) = D /\ \A i, j \in DOMAIN s : i < j => ~ EffectiveBefore(s[j], s[i])
           N == {n \in Nat : \A D \in SUBSET A : Cardinality(D) = n => \E s \in [1 .. n -> D] : Sorts(s, D)}
<1>0. \A D \in SUBSET A : IsFiniteSet(D) /\ Cardinality(D) \in Nat
  BY FS_Subset, FS_CardinalityType
<1>1. 0 \in N
  <2> SUFFICES ASSUME NEW D \in SUBSET A, Cardinality(D) = 0 PROVE \E s \in [1 .. 0 -> D] : Sorts(s, D)
    OBVIOUS
  <2>1. D = {}
    BY <1>0, FS_EmptySet
  <2>2. [i \in 1 .. 0 |-> i] \in [1 .. 0 -> D] /\ Sorts([i \in 1 .. 0 |-> i], D)
    BY <2>1 DEF ToSet
  <2> QED
    BY <2>2
<1>2. ASSUME NEW n \in Nat, n \in N PROVE n + 1 \in N
  <2> SUFFICES ASSUME NEW D \in SUBSET A, Cardinality(D) = n + 1
               PROVE  \E s \in [1 .. n + 1 -> D] : Sorts(s, D)
    OBVIOUS
  <2>1. D # {}
    BY FS_EmptySet
  <2>2. PICK x \in D : \A y \in D : ~ EffectiveBefore(y, x)
    BY <2>1, FirstEvent
  <2>3. Cardinality(D \ {x}) = n
    <3>1. Cardinality(D \ {x}) = Cardinality(D) - 1
      BY <1>0, FS_RemoveElement
    <3> QED
      BY <3>1
  <2>4. PICK t \in [1 .. n -> D \ {x}] : Sorts(t, D \ {x})
    BY <1>2, <2>3
  <2> DEFINE s == [i \in 1 .. n + 1 |-> IF i = 1 THEN x ELSE t[i - 1]]
  <2>5. s \in [1 .. n + 1 -> D]
    OBVIOUS
  <2>6. \A y \in D \ {x} : \E i \in 1 .. n : t[i] = y
    BY <2>4 DEF ToSet
  <2>7. ToSet(s) = D
    <3>1. ASSUME NEW y \in D PROVE \E i \in 1 .. n + 1 : s[i] = y
      <4>1. CASE y = x
        BY <4>1
      <4>2. CASE y # x
        <5>1. PICK i \in 1 .. n : t[i] = y
          BY <2>6, <4>2
        <5>2. i + 1 \in 1 .. n + 1 /\ i + 1 # 1 /\ (i + 1) - 1 = i
          OBVIOUS
        <5>3. s[i + 1] = y
          BY <5>1, <5>2
        <5> QED
          BY <5>2, <5>3
      <4> QED
        BY <4>1, <4>2
    <3> HIDE DEF s
    <3> QED
      BY <2>5, <3>1 DEF ToSet
  <2>8. ASSUME NEW i \in 1 .. n + 1, NEW j \in 1 .. n + 1, i < j PROVE ~ EffectiveBefore(s[j], s[i])
    <3>1. j # 1 /\ j - 1 \in 1 .. n /\ s[j] = t[j - 1] /\ s[j] \in D
      BY <2>8
    <3>2. CASE i = 1
      BY <2>2, <3>1, <3>2
    <3>3. CASE i # 1
      <4>1. i - 1 \in 1 .. n /\ i - 1 < j - 1 /\ s[i] = t[i - 1]
        BY <2>8, <3>3
      <4> HIDE DEF s
      <4> QED
        BY <2>4, <3>1, <4>1
    <3> QED
      BY <3>2, <3>3
  <2> HIDE DEF s
  <2>9. Sorts(s, D)
    BY <2>5, <2>7, <2>8
  <2> QED
    BY <2>5, <2>9
<1>3. Nat \subseteq N
  <2> HIDE DEF N
  <2> QED
    BY <1>1, <1>2, NumberInduction
<1> QED
  BY <1>0, <1>3

\* What sorting a list of events leaves.
LEMMA SortedList ==
  ASSUME NEW es, EventList(es)
  PROVE  /\ EventList(Sorted(es)) /\ InPlace(Sorted(es))
         /\ Len(Sorted(es)) = Len(es) /\ ToSet(Sorted(es)) = ToSet(es)
<1> DEFINE n == Len(es)
           D == ToSet(es)
           s == Sorted(es)
<1>1. n \in Nat /\ DOMAIN es = 1 .. n
  BY ListDomain
<1>2. \A e \in D : WellStated(e) /\ e.at \in Nat /\ e.id \in Nat
  BY ListDomain DEF ToSet, EventList
<1>3. es \in Bijection(1 .. n, D)
  <2>1. es \in [1 .. n -> D]
    <3>1. PICK S : es \in Seq(S)
      BY DEF EventList
    <3>2. es = [i \in 1 .. n |-> es[i]]
      BY <3>1, <1>1
    <3>3. \A i \in 1 .. n : es[i] \in D
      BY <1>1 DEF ToSet
    <3> QED
      BY <3>2, <3>3
  <2>2. \A i, j \in 1 .. n : es[i] = es[j] => i = j
    BY <1>1 DEF EventList
  <2>3. \A e \in D : \E i \in 1 .. n : es[i] = e
    BY <1>1 DEF ToSet
  <2> QED
    BY <2>1, <2>2, <2>3 DEF Bijection, Injection, Surjection, IsInjective
<1>4. IsFiniteSet(1 .. n) /\ Cardinality(1 .. n) = n
  BY <1>1, FirstNumbers
<1>5. IsFiniteSet(D) /\ Cardinality(D) = n
  BY <1>3, <1>4, FS_Bijection DEF ExistsBijection
<1> HIDE DEF D
<1>6. \E t \in [1 .. n -> D] : ToSet(t) = D /\ \A i, j \in DOMAIN t : i < j => ~ EffectiveBefore(t[j], t[i])
  BY <1>2, <1>5, EventsCanBeSorted
<1>7. s \in [1 .. n -> D] /\ ToSet(s) = D /\ \A i, j \in 1 .. n : i < j => ~ EffectiveBefore(s[j], s[i])
  BY <1>1, <1>6 DEF Sorted, D
<1> HIDE DEF s
<1>8. s \in Injection(1 .. n, D)
  <2>1. \A e \in D : \E i \in 1 .. n : s[i] = e
    BY <1>7 DEF ToSet
  <2>2. s \in Surjection(1 .. n, D)
    BY <1>7, <2>1 DEF Surjection
  <2> QED
    BY <1>4, <1>5, <2>2, FS_Surjection
<1>9. \A i, j \in 1 .. n : s[i].id = s[j].id => i = j
  <2> SUFFICES ASSUME NEW i \in 1 .. n, NEW j \in 1 .. n, s[i].id = s[j].id PROVE i = j
    OBVIOUS
  <2>1. s[i] = s[j]
    <3>1. PICK k \in 1 .. n : es[k] = s[i]
      BY <1>1, <1>7 DEF ToSet, D
    <3>2. PICK l \in 1 .. n : es[l] = s[j]
      BY <1>1, <1>7 DEF ToSet, D
    <3>3. k = l
      BY <1>1, <3>1, <3>2 DEF EventList
    <3> QED
      BY <3>1, <3>2, <3>3
  <2> QED
    BY <1>8, <2>1 DEF Injection, IsInjective
<1>10. s \in Seq(D) /\ Len(s) = n /\ DOMAIN s = 1 .. n
  BY <1>1, <1>7
<1>11. InPlace(s)
  <2> SUFFICES ASSUME NEW i \in 1 .. n, NEW j \in 1 .. n, i < j PROVE EffectiveBefore(s[i], s[j])
    BY <1>10 DEF InPlace
  <2>1. s[i].id # s[j].id /\ s[i] \in D /\ s[j] \in D
    BY <1>7, <1>9
  <2>2. s[i].at \in Nat /\ s[i].id \in Nat /\ s[j].at \in Nat /\ s[j].id \in Nat
    BY <1>2, <2>1
  <2> QED
    BY <1>7, <2>1, <2>2, BeforeIsTotal
<1>12. EventList(s)
  BY <1>2, <1>7, <1>9, <1>10 DEF EventList
<1> QED
  BY <1>7, <1>10, <1>11, <1>12 DEF s, D

-----------------------------------------------------------------------------
(* Appending an event                                                      *)

LEMMA PlaceOfId ==
  ASSUME NEW es, Len(es) \in Nat, NEW e
  PROVE  /\ PlaceOf(es, e) \in 0 .. Len(es)
         /\ PlaceOf(es, e) > 0 => es[PlaceOf(es, e)].id = e.id
         /\ PlaceOf(es, e) = 0 => \A k \in 1 .. Len(es) : es[k].id # e.id
<1> DEFINE I == {k \in 1 .. Len(es) : es[k].id = e.id}
           i == PlaceOf(es, e)
<1>1. i = IF I # {} THEN Min(I) ELSE 0
  BY DEF PlaceOf, SelectInSeq
<1>2. I \in SUBSET Nat
  OBVIOUS
<1>3. I # {} => Min(I) \in I
  <2> HIDE DEF I
  <2> QED
    BY <1>2, LeastOfNaturals
<1>4. CASE I = {}
  BY <1>1, <1>4
<1>5. CASE I # {}
  BY <1>1, <1>3, <1>5
<1> QED
  BY <1>4, <1>5

\* Exactly the entry under the event's id is replaced.
Replaces(new, es, e) ==
  /\ \E i \in DOMAIN new : new[i] = e
  /\ \A i \in DOMAIN es : es[i].id # e.id => \E j \in DOMAIN new : new[j] = es[i]
  /\ \A j \in DOMAIN new : new[j] = e \/ (new[j].id # e.id /\ \E i \in DOMAIN es : new[j] = es[i])

LEMMA UpsertReplaces ==
  ASSUME NEW es, EventList(es), NEW e, WellStated(e)
  PROVE  /\ EventList(Upsert(es, e)) /\ InPlace(Upsert(es, e))
         /\ Upsert(es, e) # <<>> /\ Replaces(Upsert(es, e), es, e)
<1> DEFINE n == Len(es)
           i == PlaceOf(es, e)
           u == IF i > 0 THEN [es EXCEPT ![i] = e] ELSE Append(es, e)
<1>1. n \in Nat /\ DOMAIN es = 1 .. n
  BY ListDomain
<1>2. /\ i \in 0 .. n /\ (i > 0 => es[i].id = e.id)
      /\ i = 0 => \A k \in 1 .. n : es[k].id # e.id
  BY <1>1, PlaceOfId
<1>3. Upsert(es, e) = Sorted(u)
  BY DEF Upsert
<1> HIDE DEF i
<1>4. PICK S : es \in Seq(S)
  BY DEF EventList
<1>5. \A k \in 1 .. n : WellStated(es[k]) /\ \A l \in 1 .. n : es[k].id = es[l].id => k = l
  BY <1>1 DEF EventList
<1>6. EventList(u) /\ u # <<>> /\ Replaces(u, es, e)
  <2>1. CASE i > 0
    <3>1. u = [es EXCEPT ![i] = e] /\ i \in 1 .. n
      BY <1>2, <2>1
    <3> HIDE DEF u
    <3>2. es \in Seq(S \cup {e})
      BY <1>1, <1>4
    <3>3. u \in Seq(S \cup {e}) /\ Len(u) = n /\ DOMAIN u = 1 .. n
      BY <1>1, <3>1, <3>2
    <3>4. u[i] = e /\ \A k \in 1 .. n : k # i => u[k] = es[k]
      BY <1>1, <3>1
    <3>5. \A k \in 1 .. n : k # i => es[k].id # e.id
      BY <1>2, <1>5, <3>1
    <3>6. \A k \in 1 .. n : WellStated(u[k])
      BY <1>5, <3>4
    <3>7. \A k, l \in 1 .. n : u[k].id = u[l].id => k = l
      BY <1>5, <3>4, <3>5
    <3>8. EventList(u)
      BY <3>3, <3>6, <3>7 DEF EventList
    <3>9. Replaces(u, es, e)
      <4>1. \A k \in 1 .. n : es[k].id # e.id => k # i
        BY <1>2, <3>1
      <4>2. \A k \in 1 .. n : es[k].id # e.id => u[k] = es[k]
        BY <3>4, <4>1
      <4>3. \A k \in 1 .. n : u[k] = e \/ (u[k].id # e.id /\ u[k] = es[k])
        BY <3>4, <3>5
      <4> QED
        BY <1>1, <3>1, <3>3, <3>4, <4>2, <4>3 DEF Replaces
    <3> QED
      BY <3>1, <3>3, <3>8, <3>9
  <2>2. CASE i = 0
    <3>1. u = Append(es, e)
      BY <2>2
    <3> HIDE DEF u
    <3>2. es \in Seq(S \cup {e})
      BY <1>1, <1>4
    <3>3. u \in Seq(S \cup {e}) /\ Len(u) = n + 1 /\ DOMAIN u = 1 .. n + 1
      BY <1>1, <3>1, <3>2
    <3>4. u[n + 1] = e /\ \A k \in 1 .. n : u[k] = es[k]
      BY <1>1, <3>1, <3>2
    <3>5. \A k \in 1 .. n : es[k].id # e.id
      BY <1>2, <2>2
    <3>6. \A k \in 1 .. n + 1 : WellStated(u[k])
      BY <1>1, <1>5, <3>4
    <3>7. \A k, l \in 1 .. n + 1 : u[k].id = u[l].id => k = l
      BY <1>1, <1>5, <3>4, <3>5
    <3>8. EventList(u)
      BY <3>3, <3>6, <3>7 DEF EventList
    <3>9. Replaces(u, es, e)
      <4>1. \A k \in 1 .. n : k \in 1 .. n + 1
        BY <1>1
      <4>2. n + 1 \in 1 .. n + 1 /\ \A k \in 1 .. n + 1 : k = n + 1 \/ k \in 1 .. n
        BY <1>1
      <4> QED
        BY <1>1, <3>3, <3>4, <3>5, <4>1, <4>2 DEF Replaces
    <3> QED
      BY <1>1, <3>3, <3>8, <3>9
  <2> QED
    BY <1>1, <1>2, <2>1, <2>2
<1> HIDE DEF u
<1> DEFINE s == Sorted(u)
<1>7. EventList(s) /\ InPlace(s) /\ Len(s) = Len(u) /\ ToSet(s) = ToSet(u)
  BY <1>6, SortedList
<1> HIDE DEF s
<1>8. s # <<>>
  <2>1. DOMAIN u = 1 .. Len(u) /\ DOMAIN s = 1 .. Len(s)
    BY <1>6, <1>7, ListDomain
  <2>2. DOMAIN u # {}
    BY <1>6 DEF Replaces
  <2>3. DOMAIN s # {}
    BY <1>7, <2>1, <2>2
  <2> QED
    BY <2>3
<1>9. Replaces(s, es, e)
  <2>1. \A k \in DOMAIN u : \E l \in DOMAIN s : s[l] = u[k]
    BY <1>7 DEF ToSet
  <2>2. \A l \in DOMAIN s : \E k \in DOMAIN u : s[l] = u[k]
    BY <1>7 DEF ToSet
  <2>3. \E l \in DOMAIN s : s[l] = e
    BY <1>6, <2>1 DEF Replaces
  <2>4. ASSUME NEW k \in DOMAIN es, es[k].id # e.id PROVE \E l \in DOMAIN s : s[l] = es[k]
    <3>1. PICK j \in DOMAIN u : u[j] = es[k]
      BY <1>6, <2>4 DEF Replaces
    <3> QED
      BY <2>1, <3>1
  <2>5. ASSUME NEW l \in DOMAIN s
        PROVE  s[l] = e \/ (s[l].id # e.id /\ \E k \in DOMAIN es : s[l] = es[k])
    <3>1. PICK j \in DOMAIN u : s[l] = u[j]
      BY <2>2
    <3>2. u[j] = e \/ (u[j].id # e.id /\ \E k \in DOMAIN es : u[j] = es[k])
      BY <1>6 DEF Replaces
    <3> QED
      BY <3>1, <3>2
  <2> QED
    BY <2>3, <2>4, <2>5 DEF Replaces
<1> QED
  BY <1>3, <1>7, <1>8, <1>9 DEF s

-----------------------------------------------------------------------------
(* The chain of a list of events                                           *)

LEMMA RehashedList ==
  ASSUME NEW es, EventList(es)
  PROVE  /\ DOMAIN Rehash(es) = 1 .. Len(es) /\ Len(Rehash(es)) = Len(es)
         /\ Events(Rehash(es)) = es
         /\ es # <<>> => Last(Rehash(es)).event = es[Len(es)] /\ Len(es) \in DOMAIN es
<1> DEFINE n == Len(es)
           r == Rehash(es)
<1>1. n \in Nat /\ DOMAIN es = 1 .. n
  BY ListDomain
<1>2. PICK S : es \in Seq(S)
  BY DEF EventList
<1>3. es = [i \in 1 .. n |-> es[i]]
  BY <1>1, <1>2
<1>4. DOMAIN r = 1 .. n /\ \A i \in 1 .. n : r[i].event = es[i]
  BY <1>1 DEF Rehash
<1>5. Len(r) = n
  BY <1>1, <1>4
<1> HIDE DEF r
<1>6. Events(r) = [i \in 1 .. n |-> es[i]]
  BY <1>4 DEF Events
<1>7. es # <<>> => n \in 1 .. n
  BY <1>1, <1>2
<1>8. es # <<>> => Last(r).event = es[n]
  BY <1>4, <1>5, <1>7 DEF Last
<1> QED
  BY <1>1, <1>3, <1>4, <1>5, <1>6, <1>7, <1>8 DEF r

\* A chain as append-lifecycle-transition-chain.mjs writes it.
ChainOf(c, es) ==
  /\ EventList(es) /\ es # <<>>
  /\ c = ChainDoc(c.grant, Rehash(es))

LEMMA WrittenChainVerifies ==
  ASSUME NEW es, chain # Absent, ChainOf(chain, es)
  PROVE  ChainVerifies
<1> DEFINE n == Len(es)
           r == Rehash(es)
<1>1. n \in Nat /\ DOMAIN es = 1 .. n
  BY ListDomain DEF ChainOf
<1>2. PICK S : es \in Seq(S)
  BY DEF ChainOf, EventList
<1>3. /\ chain.entries = r /\ chain.count = Len(r) /\ chain.head = HeadEntry(r)
      /\ chain.root = ChainRoot(chain.grant, r)
  BY DEF ChainOf, ChainDoc
<1>4. DOMAIN r = 1 .. n
  BY <1>1 DEF Rehash
<1>5. ASSUME NEW i \in 1 .. n
      PROVE  /\ r[i].index = i - 1 /\ r[i].hash = Append(r[i].prev, r[i].event)
             /\ r[i].prev = IF i = 1 THEN <<>> ELSE r[i - 1].hash
  <2>1. /\ r[i].index = i - 1 /\ r[i].event = es[i]
        /\ r[i].prev = SubSeq(es, 1, i - 1) /\ r[i].hash = SubSeq(es, 1, i)
    BY <1>1, <1>5 DEF Rehash, EntryHash
  <2>2. SubSeq(es, 1, i) = Append(SubSeq(es, 1, i - 1), es[i])
    BY <1>1, <1>2
  <2>3. CASE i = 1
    <3>1. SubSeq(es, 1, 0) = <<>>
      BY <1>2
    <3> QED
      BY <2>1, <2>2, <2>3, <3>1
  <2>4. CASE i # 1
    <3>1. i - 1 \in 1 .. n
      BY <1>1, <2>4
    <3>2. r[i - 1].hash = SubSeq(es, 1, i - 1)
      BY <1>1, <3>1 DEF Rehash, EntryHash
    <3> HIDE DEF r
    <3> QED
      BY <2>1, <2>2, <2>4, <3>2
  <2> QED
    BY <2>3, <2>4
<1> HIDE DEF r
<1> QED
  BY <1>3, <1>4, <1>5 DEF ChainVerifies

-----------------------------------------------------------------------------
(* Sums of events, exact and replayed                                      *)

LEMMA SumsOfEvents ==
  ASSUME NEW es, EventList(es)
  PROVE  Totals(es) \in [Delta -> Nat] /\ \A d \in Delta : Totals(es)[d] = SumOf(es, d)
<1> SUFFICES ASSUME NEW d \in Delta PROVE SumOf(es, d) \in Nat
  BY DEF Totals
<1> DEFINE f == [i \in DOMAIN es |-> es[i].deltas[d]]
<1>1. IsFiniteSet(DOMAIN es)
  BY ListDomain, FS_Interval
<1>2. \A i \in DOMAIN es : f[i] \in Nat
  BY ListDomain
<1> HIDE DEF f
<1>3. SumOver(DOMAIN es, f) \in Nat
  BY <1>1, <1>2, SumIsNat
<1> QED
  BY <1>3 DEF SumOf, f

LEMMA NumberIsExact ==
  ASSUME NEW n \in Int
  PROVE  /\ Number(n) \in Int /\ (n <= MaxExact => Number(n) = n)
         /\ Number(n) < MaxExact => Number(n) = n
         /\ n \in Nat => Number(n) \in Nat
<1> MaxExact \in Nat
  BY LifecycleAssumption
<1>1. CASE n <= MaxExact \/ n % 2 = 0
  BY <1>1 DEF Number
<1>2. CASE ~ (n <= MaxExact \/ n % 2 = 0)
  <2>1. Number(n) = n - 1 \/ Number(n) = n + 1
    BY <1>2 DEF Number
  <2> QED
    BY <1>2, <2>1
<1> QED
  BY <1>1, <1>2

\* The sums of ReplaySum up to a position.
ReplayStep(events, d, f, i) == IF i = 0 THEN 0 ELSE Number(f[i - 1] + Number(events[i].deltas[d]))
Replays(events, d, n, f) == f = [i \in 0 .. n |-> ReplayStep(events, d, f, i)]

LEMMA ReplaysExist ==
  ASSUME NEW events, NEW d, NEW n \in Nat
  PROVE  \E f : Replays(events, d, n, f)
<1> DEFINE S == {m \in Nat : \E f : Replays(events, d, m, f)}
<1>1. 0 \in S
  <2> DEFINE f == [i \in 0 .. 0 |-> 0]
  <2>1. \A i \in 0 .. 0 : ReplayStep(events, d, f, i) = 0
    BY DEF ReplayStep
  <2>2. f = [i \in 0 .. 0 |-> ReplayStep(events, d, f, i)]
    BY <2>1
  <2> QED
    BY <2>2 DEF Replays
<1>2. ASSUME NEW m \in Nat, m \in S PROVE m + 1 \in S
  <2>1. PICK g : Replays(events, d, m, g)
    BY <1>2
  <2> DEFINE f == [i \in 0 .. m + 1 |-> IF i = m + 1 THEN ReplayStep(events, d, g, m + 1) ELSE g[i]]
  <2>2. \A i \in 0 .. m : f[i] = g[i]
    OBVIOUS
  <2>3. \A i \in 0 .. m : g[i] = ReplayStep(events, d, g, i)
    BY <2>1 DEF Replays
  <2>4. f[m + 1] = ReplayStep(events, d, g, m + 1)
    OBVIOUS
  <2>5. f = [i \in 0 .. m + 1 |-> f[i]]
    OBVIOUS
  <2> HIDE DEF f
  <2>6. \A i \in 0 .. m + 1 : ReplayStep(events, d, f, i) = ReplayStep(events, d, g, i)
    <3> SUFFICES ASSUME NEW i \in 0 .. m + 1, i # 0 PROVE f[i - 1] = g[i - 1]
      BY DEF ReplayStep
    <3>1. i - 1 \in 0 .. m
      OBVIOUS
    <3> QED
      BY <2>2, <3>1
  <2>7. \A i \in 0 .. m + 1 : f[i] = ReplayStep(events, d, f, i)
    <3> SUFFICES ASSUME NEW i \in 0 .. m + 1 PROVE f[i] = ReplayStep(events, d, g, i)
      BY <2>6
    <3>1. CASE i = m + 1
      BY <2>4, <3>1
    <3>2. CASE i # m + 1
      <4>1. i \in 0 .. m
        BY <3>2
      <4> QED
        BY <2>2, <2>3, <4>1
    <3> QED
      BY <3>1, <3>2
  <2>8. Replays(events, d, m + 1, f)
    BY <2>5, <2>7 DEF Replays
  <2> QED
    BY <2>8
<1>3. Nat \subseteq S
  <2> HIDE DEF S
  <2> QED
    BY <1>1, <1>2, NumberInduction
<1> QED
  BY <1>3

\* A replayed sum that is a safe integer is the sum.
LEMMA ReplayIsExact ==
  ASSUME NEW es, EventList(es), NEW d \in Delta, Safe(ReplaySum(es, d))
  PROVE  ReplaySum(es, d) = SumOf(es, d)
<1> DEFINE n == Len(es)
           g == [i \in DOMAIN es |-> es[i].deltas[d]]
           P(f) == Replays(es, d, n, f)
<1>1. n \in Nat /\ DOMAIN es = 1 .. n
  BY ListDomain
<1>2. ReplaySum(es, d) = (CHOOSE f : P(f))[n]
  BY DEF ReplaySum, Replays, ReplayStep
<1>3. \E f : P(f)
  BY <1>1, ReplaysExist
<1>4. PICK f : P(f) /\ ReplaySum(es, d) = f[n]
  BY <1>2, <1>3
<1>5. \A i \in 1 .. n : g[i] \in Nat /\ g[i] = es[i].deltas[d]
  BY <1>1, ListDomain
<1> HIDE DEF g
<1>6. f[0] = 0 /\ \A i \in 1 .. n : f[i] = Number(f[i - 1] + Number(g[i]))
  <2>1. \A i \in 0 .. n : f[i] = ReplayStep(es, d, f, i)
    BY <1>4 DEF Replays
  <2> QED
    BY <1>1, <1>5, <2>1 DEF ReplayStep
<1> DEFINE S == {i \in Nat : i <= n => /\ f[i] \in Nat /\ SumOver(1 .. i, g) \in Nat
                                       /\ Safe(f[i]) => f[i] = SumOver(1 .. i, g)}
<1>7. 0 \in S
  <2>1. 1 .. 0 = {} /\ SumOver({}, g) = 0
    BY SumEmpty
  <2> QED
    BY <1>6, <2>1
<1>8. ASSUME NEW i \in Nat, i \in S PROVE i + 1 \in S
  <2> SUFFICES ASSUME i + 1 <= n
               PROVE  /\ f[i + 1] \in Nat /\ SumOver(1 .. i + 1, g) \in Nat
                      /\ Safe(f[i + 1]) => f[i + 1] = SumOver(1 .. i + 1, g)
    OBVIOUS
  <2> DEFINE j == i + 1
             a == f[i]
             b == Number(g[j])
             s == SumOver(1 .. i, g)
  <2>1. a \in Nat /\ s \in Nat /\ (Safe(a) => a = s)
    BY <1>1, <1>8
  <2>2. j \in 1 .. n /\ j - 1 = i
    BY <1>1
  <2>3. SumOver(1 .. j, g) = s + g[j]
    <3>1. \A k \in 1 .. i + 1 : g[k] \in Int
      BY <1>1, <1>5
    <3> QED
      BY <3>1, SumOfFirst
  <2> HIDE DEF j
  <2>4. f[j] = Number(a + b)
    BY <1>6, <2>2
  <2>5. g[j] \in Nat
    BY <1>5, <2>2
  <2>6. b \in Nat /\ (b < MaxExact => b = g[j])
    <3> DEFINE q == g[j]
    <3>1. q \in Nat /\ q \in Int
      BY <2>5
    <3> HIDE DEF q
    <3>2. Number(q) \in Nat /\ (Number(q) < MaxExact => Number(q) = q)
      BY <3>1, NumberIsExact
    <3> QED
      BY <3>2 DEF q
  <2> HIDE DEF a, b, s
  <2>7. f[j] \in Nat /\ (f[j] < MaxExact => f[j] = a + b)
    <3>1. a + b \in Nat
      BY <2>1, <2>6
    <3> QED
      BY <2>4, <3>1, NumberIsExact
  <2>8. Safe(f[j]) => f[j] = s + g[j]
    <3> SUFFICES ASSUME f[j] < MaxExact PROVE f[j] = s + g[j]
      BY DEF Safe
    <3>1. f[j] = a + b /\ a < MaxExact /\ b < MaxExact
      BY <2>1, <2>6, <2>7, LifecycleAssumption
    <3> QED
      BY <2>1, <2>6, <3>1 DEF Safe
  <2>9. f[j] \in Nat /\ SumOver(1 .. j, g) \in Nat /\ (Safe(f[j]) => f[j] = SumOver(1 .. j, g))
    BY <2>1, <2>3, <2>5, <2>7, <2>8
  <2> QED
    BY <2>9 DEF j
<1>9. n \in S
  <2> HIDE DEF S
  <2> QED
    BY <1>1, <1>7, <1>8, NumberInduction
<1>10. SumOf(es, d) = SumOver(1 .. n, g)
  BY <1>1 DEF SumOf, g
<1> QED
  BY <1>1, <1>4, <1>9, <1>10

\* The status says whether the replayed totals are those of the snapshot.
LEMMA StatusSaysSame ==
  ASSUME NEW es, EventList(es), NEW replay, replay = Replayed(es),
         NEW t \in [Delta -> Nat], NEW seen, seen = [d \in Delta |-> Number(t[d])],
         \A d \in Delta : Safe(replay[d]) /\ Safe(seen[d])
  PROVE  (replay = seen /\ NumberBalance(replay) = Number(Balance(t)))
           <=> \A d \in Delta : seen[d] = SumOf(es, d)
<1>1. \A d \in Delta : replay[d] = SumOf(es, d)
  <2> SUFFICES ASSUME NEW d \in Delta PROVE replay[d] = SumOf(es, d)
    OBVIOUS
  <2>1. replay[d] = ReplaySum(es, d)
    BY DEF Replayed
  <2> QED
    BY <2>1, ReplayIsExact
<1>2. \A d \in Delta : SumOf(es, d) \in Nat
  BY SumsOfEvents
<1>3. \A d \in Delta : seen[d] = t[d]
  <2> SUFFICES ASSUME NEW d \in Delta PROVE Number(t[d]) = t[d]
    OBVIOUS
  <2>1. t[d] \in Int /\ Number(t[d]) < MaxExact
    BY DEF Safe
  <2> QED
    BY <2>1, NumberIsExact
<1>4. replay = [d \in Delta |-> replay[d]] /\ seen = [d \in Delta |-> seen[d]]
  BY DEF Replayed
<1>5. ASSUME \A d \in Delta : seen[d] = SumOf(es, d)
      PROVE  replay = seen /\ NumberBalance(replay) = Number(Balance(t))
  <2>1. replay = seen
    BY <1>1, <1>4, <1>5
  <2> DEFINE v == t["vesting"]
             x == t["exercise"]
             c == t["cancellation"]
             f == t["forfeiture"]
  <2>2. /\ v \in Nat /\ x \in Nat /\ c \in Nat /\ f \in Nat /\ v < MaxExact
        /\ replay["vesting"] = v /\ replay["exercise"] = x
        /\ replay["cancellation"] = c /\ replay["forfeiture"] = f
    BY <1>3, <2>1 DEF Safe, Delta
  <2>3. Balance(t) = v - x - c - f
    BY DEF Balance
  <2>4. NumberBalance(replay) = Number(Number(Number(v - x) - c) - f)
    BY <2>2 DEF NumberBalance
  <2> HIDE DEF v, x, c, f
  <2>5. v - x \in Int /\ v - x <= MaxExact
    BY <2>2, LifecycleAssumption
  <2>6. Number(v - x) = v - x
    BY <2>5, NumberIsExact
  <2>7. v - x - c \in Int /\ v - x - c <= MaxExact
    BY <2>2, LifecycleAssumption
  <2>8. Number(v - x - c) = v - x - c
    BY <2>7, NumberIsExact
  <2> QED
    BY <2>1, <2>3, <2>4, <2>6, <2>8
<1>6. ASSUME replay = seen PROVE \A d \in Delta : seen[d] = SumOf(es, d)
  BY <1>1, <1>6
<1> QED
  BY <1>5, <1>6

-----------------------------------------------------------------------------
(* The invariant                                                           *)

\* The list holds what was last stated under each id, and nothing else.
Holds(es, st) ==
  /\ \A k \in DOMAIN es : st[es[k].id] = es[k]
  /\ \A i \in EventId : st[i] # Absent => \E k \in DOMAIN es : es[k].id = i

\* lifecycle-replay-reconciliation.json, of some snapshot's totals.
WellReconciled(r) ==
  \E t \in [Delta -> Nat] :
    /\ r.seen = [d \in Delta |-> Number(t[d])]
    /\ r.match <=> r.replay = r.seen /\ r.balance = Number(Balance(t))

ChainFollows ==
  /\ stated = [i \in EventId |-> stated[i]]
  /\ chain = Absent => \A i \in EventId : stated[i] = Absent
  /\ chain # Absent => \E es : ChainOf(chain, es) /\ InPlace(es) /\ Holds(es, stated)

LifecycleInv ==
  /\ event # Absent => WellStated(event)
  /\ ChainFollows
  /\ snapshot # Absent => snapshot.totals \in [Delta -> Nat] /\ Balance(snapshot.totals) >= 0
  /\ reconciliation # Absent => WellReconciled(reconciliation)
  /\ logged # Absent =>
       WellReconciled(logged.replay) /\ \E es : ChainOf(logged.lineage.chain, es)

\* No document is Absent.
LEMMA NotAbsent ==
  /\ \A grant, trust, i, at, type, q, explicit :
       EventDoc(grant, trust, i, at, type, q, explicit) # Absent
  /\ \A grant, es : ChainDoc(grant, es) # Absent
<1>1. "missing" \in DOMAIN Absent
  BY DEF Absent
<1>2. \A grant, trust, i, at, type, q, explicit :
        "missing" \notin DOMAIN EventDoc(grant, trust, i, at, type, q, explicit)
  BY DEF EventDoc
<1>3. \A grant, es : "missing" \notin DOMAIN ChainDoc(grant, es)
  BY DEF ChainDoc
<1> QED
  BY <1>1, <1>2, <1>3

LEMMA EventIsWellStated ==
  ASSUME NEW grant, NEW trust, NEW i \in EventId, NEW at \in EffectiveAt,
         NEW type, NEW q \in Quantity \cup {None}, NEW explicit \in BOOLEAN
  PROVE  WellStated(EventDoc(grant, trust, i, at, type, q, explicit))
<1> DEFINE e == EventDoc(grant, trust, i, at, type, q, explicit)
<1>1. e # Absent
  BY NotAbsent
<1>2. /\ e.id = i /\ e.at = at /\ e.type = type /\ e.quantity = q
      /\ e.mode = IF explicit THEN "explicit" ELSE IF type \in Delta THEN "derived" ELSE "legacy-zero"
      /\ e.deltas = IF explicit THEN [d \in Delta |-> IF d = "vesting" THEN 2 ELSE 0]
                    ELSE Normalize(type, q)
  BY DEF EventDoc
<1> HIDE DEF e
<1>3. e.mode # "explicit" => e.deltas = Normalize(e.type, e.quantity)
  BY <1>2
<1>4. e.deltas \in [Delta -> Nat]
  <2>1. Normalize(type, q) \in [Delta -> Nat]
    <3>1. q # None => q \in Nat
      BY LifecycleAssumption
    <3> QED
      BY <3>1 DEF Normalize
  <2>2. [d \in Delta |-> IF d = "vesting" THEN 2 ELSE 0] \in [Delta -> Nat]
    OBVIOUS
  <2> QED
    BY <1>2, <2>1, <2>2
<1>5. WellStated(e)
  BY <1>1, <1>2, <1>3, <1>4 DEF WellStated
<1> QED
  BY <1>5 DEF e

LEMMA OneEvent ==
  ASSUME NEW e, WellStated(e)
  PROVE  EventList(<<e>>) /\ <<e>> # <<>> /\ InPlace(<<e>>)
<1> DEFINE s == <<e>>
<1>1. s \in Seq({e}) /\ DOMAIN s = 1 .. 1 /\ s[1] = e /\ s # <<>>
  OBVIOUS
<1> HIDE DEF s
<1>2. \A i, j \in DOMAIN s : i = j /\ s[i] = e /\ ~ (i < j)
  BY <1>1
<1>3. EventList(s)
  BY <1>1, <1>2 DEF EventList
<1>4. InPlace(s)
  BY <1>2 DEF InPlace
<1> QED
  BY <1>1, <1>3, <1>4 DEF s

\* What append-lifecycle-transition-chain.mjs does to either.
LEMMA AppendFollows ==
  ASSUME NEW es, EventList(es), NEW e, WellStated(e),
         NEW st, st = [i \in EventId |-> st[i]], Holds(es, st)
  PROVE  LET u == Upsert(es, e) IN
         /\ EventList(u) /\ u # <<>> /\ InPlace(u)
         /\ Holds(u, [st EXCEPT ![e.id] = e])
<1> DEFINE u == Upsert(es, e)
           new == [st EXCEPT ![e.id] = e]
<1>1. EventList(u) /\ u # <<>> /\ InPlace(u) /\ Replaces(u, es, e)
  BY UpsertReplaces
<1> HIDE DEF u
<1>2. e.id \in EventId /\ e # Absent
  BY DEF WellStated
<1>3. new[e.id] = e /\ \A i \in EventId : i # e.id => new[i] = st[i]
  BY <1>2
<1> HIDE DEF new
<1>4. \A k \in DOMAIN u : new[u[k].id] = u[k]
  <2> SUFFICES ASSUME NEW k \in DOMAIN u PROVE new[u[k].id] = u[k]
    OBVIOUS
  <2>1. CASE u[k] = e
    BY <1>3, <2>1
  <2>2. CASE u[k].id # e.id /\ \E i \in DOMAIN es : u[k] = es[i]
    <3>1. PICK i \in DOMAIN es : u[k] = es[i]
      BY <2>2
    <3>2. es[i].id \in EventId /\ st[es[i].id] = es[i]
      BY DEF EventList, WellStated, Holds
    <3> QED
      BY <1>3, <2>2, <3>1, <3>2
  <2> QED
    BY <1>1, <2>1, <2>2 DEF Replaces
<1>5. ASSUME NEW i \in EventId, new[i] # Absent PROVE \E k \in DOMAIN u : u[k].id = i
  <2>1. CASE i = e.id
    BY <1>1, <2>1 DEF Replaces
  <2>2. CASE i # e.id
    <3>1. st[i] # Absent
      BY <1>3, <1>5, <2>2
    <3>2. PICK k \in DOMAIN es : es[k].id = i
      BY <3>1 DEF Holds
    <3>3. PICK j \in DOMAIN u : u[j] = es[k]
      BY <1>1, <2>2, <3>2 DEF Replaces
    <3> QED
      BY <3>2, <3>3
  <2> QED
    BY <2>1, <2>2
<1>6. Holds(u, new)
  BY <1>4, <1>5 DEF Holds
<1> QED
  BY <1>1, <1>6 DEF u, new

LEMMA EmptyList == EventList(<<>>) /\ \A st : (\A i \in EventId : st[i] = Absent) => Holds(<<>>, st)
<1>1. <<>> \in Seq({}) /\ DOMAIN <<>> = {}
  OBVIOUS
<1> QED
  BY <1>1 DEF EventList, Holds

LEMMA AppendChainStep == ASSUME LifecycleInv, AppendChain PROVE ChainFollows'
<1>1. WellStated(event) /\ event.id \in EventId
  BY DEF LifecycleInv, AppendChain, WellStated
<1>2. stated = [i \in EventId |-> stated[i]]
  BY DEF LifecycleInv, ChainFollows
<1> DEFINE old == IF chain = Absent THEN <<>> ELSE Events(chain.entries)
<1>3. EventList(old) /\ Holds(old, stated)
  <2>1. CASE chain = Absent
    BY <2>1, EmptyList DEF LifecycleInv, ChainFollows
  <2>2. CASE chain # Absent
    <3>1. PICK es : ChainOf(chain, es) /\ Holds(es, stated)
      BY <2>2 DEF LifecycleInv, ChainFollows
    <3>2. EventList(es) /\ chain.entries = Rehash(es)
      BY <3>1 DEF ChainOf, ChainDoc
    <3>3. old = es
      BY <2>2, <3>2, RehashedList
    <3> QED
      BY <3>1, <3>2, <3>3
  <2> QED
    BY <2>1, <2>2
<1>4. chain' = ChainDoc(event.grant, Rehash(Upsert(old, event))) /\ stated' = [stated EXCEPT ![event.id] = event]
  BY DEF AppendChain
<1> HIDE DEF old
<1> DEFINE u == Upsert(old, event)
<1>5. EventList(u) /\ u # <<>> /\ InPlace(u) /\ Holds(u, [stated EXCEPT ![event.id] = event])
  BY <1>1, <1>2, <1>3, AppendFollows
<1>6. chain' = ChainDoc(event.grant, Rehash(u))
  BY <1>4
<1> HIDE DEF u
<1>7. chain'.grant = event.grant /\ chain' # Absent
  <2>1. ChainDoc(event.grant, Rehash(u)).grant = event.grant
    BY DEF ChainDoc
  <2> QED
    BY <1>6, <2>1, NotAbsent
<1>8. ChainOf(chain', u)
  BY <1>5, <1>6, <1>7 DEF ChainOf
<1>9. stated' = [i \in EventId |-> stated'[i]]
  BY <1>1, <1>2, <1>4
<1>10. Holds(u, stated')
  BY <1>4, <1>5
<1> QED
  BY <1>5, <1>7, <1>8, <1>9, <1>10 DEF ChainFollows

\* A snapshot and a reconciliation of a chain.
LEMMA SnapshotOf ==
  ASSUME NEW c, NEW es, ChainOf(c, es)
  PROVE  /\ Events(c.entries) = es /\ EventList(es)
         /\ SnapshotDoc(c).totals = Totals(es) /\ Totals(es) \in [Delta -> Nat]
         /\ SnapshotDoc(c).latest = es[Len(es)] /\ Len(es) \in DOMAIN es
<1>1. EventList(es) /\ es # <<>> /\ c.entries = Rehash(es)
  BY DEF ChainOf, ChainDoc
<1>2. /\ Events(Rehash(es)) = es
      /\ Last(Rehash(es)).event = es[Len(es)] /\ Len(es) \in DOMAIN es
  BY <1>1, RehashedList
<1>3. SnapshotDoc(c).totals = Totals(Events(c.entries)) /\ SnapshotDoc(c).latest = Last(c.entries).event
  BY DEF SnapshotDoc
<1> QED
  BY <1>1, <1>2, <1>3, SumsOfEvents

LEMMA ReconciledIsWell ==
  ASSUME NEW replay, NEW balance, NEW c, NEW s, s.totals \in [Delta -> Nat]
  PROVE  WellReconciled(ReconciliationOf(replay, balance, c, s))
<1> DEFINE r == ReconciliationOf(replay, balance, c, s)
<1>1. /\ r.seen = [d \in Delta |-> Number(s.totals[d])] /\ r.replay = replay /\ r.balance = balance
      /\ r.match = (replay = [d \in Delta |-> Number(s.totals[d])] /\ balance = Number(Balance(s.totals)))
  BY DEF ReconciliationOf
<1> HIDE DEF r
<1>2. WellReconciled(r)
  BY <1>1 DEF WellReconciled
<1> QED
  BY <1>2 DEF r

LEMMA LifecycleStarts == LifecycleInit => LifecycleInv
BY DEF LifecycleInit, LifecycleInv, ChainFollows

LEMMA LaterStarts == InitLater => LifecycleInv
<1> SUFFICES ASSUME InitLater PROVE LifecycleInv
  OBVIOUS
<1>1. PICK grant \in GrantId, trust \in TrustHash, i \in EventId, at \in EffectiveAt, q \in Quantity :
        LET e == EventDoc(grant, trust, i, at, "vesting", q, FALSE)
            c == ChainDoc(grant, Rehash(<<e>>))
            s == SnapshotDoc(c)
            r == Replayed(<<e>>)
            match == ReconciliationOf(r, NumberBalance(r), c, s)
        IN  /\ event = e /\ chain = c /\ snapshot = s
            /\ reconciliation = match
            /\ logged = [replay |-> match, lineage |-> [chain |-> c, snapshot |-> s]]
            /\ stated = [x \in EventId |-> IF x = i THEN e ELSE Absent]
  BY DEF InitLater
<1> DEFINE es == <<event>>
           r == Replayed(es)
<1>2. /\ event = EventDoc(grant, trust, i, at, "vesting", q, FALSE)
      /\ chain = ChainDoc(grant, Rehash(es)) /\ snapshot = SnapshotDoc(chain)
      /\ reconciliation = ReconciliationOf(r, NumberBalance(r), chain, snapshot)
      /\ logged.replay = reconciliation /\ logged.lineage.chain = chain
      /\ stated = [x \in EventId |-> IF x = i THEN event ELSE Absent]
  BY <1>1
<1>3. WellStated(event) /\ event.id = i /\ event.mode = "derived" /\ event.type = "vesting" /\ event.quantity = q
  <2>1. WellStated(EventDoc(grant, trust, i, at, "vesting", q, FALSE))
    BY EventIsWellStated
  <2> QED
    BY <1>2, <2>1 DEF EventDoc, Delta
<1>4. EventList(es) /\ es # <<>> /\ InPlace(es) /\ Len(es) = 1 /\ DOMAIN es = 1 .. 1 /\ es[1] = event
  BY <1>3, OneEvent
<1> HIDE DEF es
<1>5. chain.grant = grant /\ chain # Absent
  BY <1>2, NotAbsent DEF ChainDoc
<1>6. ChainOf(chain, es)
  BY <1>2, <1>4, <1>5 DEF ChainOf
<1>7. Holds(es, stated)
  <2>1. \A k \in DOMAIN es : k = 1
    BY <1>4
  <2>2. \A x \in EventId : stated[x] # Absent => es[1].id = x
    BY <1>2, <1>3, <1>4
  <2>3. \A k \in DOMAIN es : stated[es[k].id] = es[k]
    BY <1>2, <1>3, <1>4, <2>1
  <2> QED
    BY <1>4, <2>2, <2>3 DEF Holds
<1>8. stated = [x \in EventId |-> stated[x]]
  BY <1>2
<1>9. ChainFollows
  BY <1>4, <1>5, <1>6, <1>7, <1>8 DEF ChainFollows
<1>10. snapshot.totals = Totals(es) /\ Totals(es) \in [Delta -> Nat]
  BY <1>2, <1>6, SnapshotOf
<1>11. \A d \in Delta : Totals(es)[d] = event.deltas[d] /\ event.deltas[d] \in Nat
  <2> SUFFICES ASSUME NEW d \in Delta PROVE SumOf(es, d) = event.deltas[d] /\ event.deltas[d] \in Nat
    BY <1>4, SumsOfEvents
  <2> DEFINE f == [k \in DOMAIN es |-> es[k].deltas[d]]
  <2>1. f[1] = event.deltas[d] /\ event.deltas[d] \in Nat
    BY <1>3, <1>4 DEF WellStated
  <2> HIDE DEF f
  <2>2. \A k \in 1 .. 0 + 1 : f[k] \in Int
    BY <2>1
  <2>3. SumOver(1 .. 0 + 1, f) = SumOver(1 .. 0, f) + f[0 + 1]
    BY <2>2, SumOfFirst
  <2>4. SumOver({}, f) = 0 /\ 1 .. 0 = {} /\ 0 + 1 = 1
    BY SumEmpty
  <2>5. SumOver(1 .. 1, f) = f[1]
    BY <2>1, <2>3, <2>4
  <2> QED
    BY <1>4, <2>1, <2>5 DEF SumOf, f
<1>12. Balance(snapshot.totals) >= 0
  <2>1. event.deltas = Normalize("vesting", q)
    BY <1>3 DEF WellStated
  <2>2. \A d \in {"exercise", "cancellation", "forfeiture"} : event.deltas[d] = 0
    BY <2>1 DEF Normalize, Delta
  <2>3. /\ snapshot.totals["vesting"] \in Nat /\ snapshot.totals["exercise"] = 0
        /\ snapshot.totals["cancellation"] = 0 /\ snapshot.totals["forfeiture"] = 0
    BY <1>10, <1>11, <2>2 DEF Delta
  <2> QED
    BY <2>3 DEF Balance
<1>13. WellReconciled(reconciliation)
  BY <1>2, <1>10, ReconciledIsWell
<1> QED
  BY <1>2, <1>3, <1>6, <1>9, <1>10, <1>12, <1>13 DEF LifecycleInv

LEMMA LifecycleStep == LifecycleInv /\ [LifecycleNext]_lifecycleVars => LifecycleInv'
<1> SUFFICES ASSUME LifecycleInv, [LifecycleNext]_lifecycleVars PROVE LifecycleInv'
  OBVIOUS
<1>1. CASE UNCHANGED lifecycleVars
  BY <1>1 DEF lifecycleVars, LifecycleInv, ChainFollows
<1>2. ASSUME BuildEvent PROVE LifecycleInv'
  <2>1. UNCHANGED <<chain, snapshot, reconciliation, logged, stated>>
    BY <1>2 DEF BuildEvent
  <2>2. WellStated(event')
    BY <1>2, EventIsWellStated DEF BuildEvent
  <2> QED
    BY <2>1, <2>2 DEF LifecycleInv, ChainFollows
<1>3. ASSUME AppendChain PROVE LifecycleInv'
  <2>1. UNCHANGED <<event, snapshot, reconciliation, logged>>
    BY <1>3 DEF AppendChain
  <2> QED
    BY <1>3, <2>1, AppendChainStep DEF LifecycleInv
<1>4. ASSUME BuildSnapshot PROVE LifecycleInv'
  <2>1. UNCHANGED <<event, chain, reconciliation, logged, stated>>
    BY <1>4 DEF BuildSnapshot
  <2>2. PICK es : ChainOf(chain, es)
    BY <1>4 DEF BuildSnapshot, LifecycleInv, ChainFollows
  <2>3. snapshot' = SnapshotDoc(chain) /\ Balance(Totals(Events(chain.entries))) >= 0
    BY <1>4 DEF BuildSnapshot
  <2>4. snapshot'.totals \in [Delta -> Nat] /\ Balance(snapshot'.totals) >= 0
    BY <2>2, <2>3, SnapshotOf
  <2> QED
    BY <2>1, <2>4 DEF LifecycleInv, ChainFollows
<1>5. ASSUME Reconcile PROVE LifecycleInv'
  <2>1. UNCHANGED <<event, chain, snapshot, logged, stated>>
    BY <1>5 DEF Reconcile
  <2>2. snapshot.totals \in [Delta -> Nat]
    BY <1>5 DEF Reconcile, LifecycleInv
  <2>3. WellReconciled(reconciliation')
    BY <1>5, <2>2, ReconciledIsWell DEF Reconcile
  <2> QED
    BY <2>1, <2>3 DEF LifecycleInv, ChainFollows
<1>6. ASSUME LogReplay PROVE LifecycleInv'
  <2>1. UNCHANGED <<event, chain, snapshot, reconciliation, stated>>
    BY <1>6 DEF LogReplay
  <2>2. logged'.replay = reconciliation /\ logged'.lineage.chain = chain /\ WellReconciled(reconciliation)
    BY <1>6 DEF LogReplay, Lineage, LifecycleInv
  <2>3. \E es : ChainOf(chain, es)
    BY <1>6 DEF LogReplay, LifecycleInv, ChainFollows
  <2> QED
    BY <2>1, <2>2, <2>3 DEF LifecycleInv, ChainFollows
<1> QED
  BY <1>1, <1>2, <1>3, <1>4, <1>5, <1>6 DEF LifecycleNext

THEOREM LifecycleInvariance == LifecycleSpec => []LifecycleInv
<1>1. LifecycleInit \/ InitLater => LifecycleInv
  BY LifecycleStarts, LaterStarts
<1> QED
  BY <1>1, LifecycleStep, PTL DEF LifecycleSpec

-----------------------------------------------------------------------------
(* The properties                                                          *)

\* Ids are the places of events under another name.
LEMMA StatedIsListed ==
  ASSUME NEW es, EventList(es), Holds(es, stated)
  PROVE  /\ [k \in DOMAIN es |-> es[k].id] \in Bijection(DOMAIN es, Stated)
         /\ IsFiniteSet(DOMAIN es) /\ IsFiniteSet(Stated) /\ Cardinality(Stated) = Len(es)
         /\ ToSet(es) = {stated[i] : i \in Stated}
<1> DEFINE id == [k \in DOMAIN es |-> es[k].id]
<1>1. Len(es) \in Nat /\ DOMAIN es = 1 .. Len(es)
  BY ListDomain
<1>2. \A k \in DOMAIN es : es[k].id \in EventId /\ es[k] # Absent /\ stated[es[k].id] = es[k]
  BY DEF EventList, WellStated, Holds
<1>3. id \in [DOMAIN es -> Stated]
  BY <1>2 DEF Stated
<1>4. \A k, l \in DOMAIN es : id[k] = id[l] => k = l
  BY DEF EventList
<1>5. \A i \in Stated : \E k \in DOMAIN es : id[k] = i
  BY DEF Stated, Holds
<1> HIDE DEF id
<1>6. id \in Bijection(DOMAIN es, Stated)
  BY <1>3, <1>4, <1>5 DEF Bijection, Injection, Surjection, IsInjective
<1>7. IsFiniteSet(DOMAIN es) /\ Cardinality(DOMAIN es) = Len(es)
  BY <1>1, FirstNumbers
<1>8. IsFiniteSet(Stated) /\ Cardinality(Stated) = Len(es)
  BY <1>6, <1>7, FS_Bijection DEF ExistsBijection
<1>9. ToSet(es) \subseteq {stated[i] : i \in Stated}
  <2> SUFFICES ASSUME NEW k \in DOMAIN es PROVE es[k] \in {stated[i] : i \in Stated}
    BY DEF ToSet
  <2> QED
    BY <1>2 DEF Stated
<1>10. \A i \in Stated : stated[i] \in ToSet(es)
  <2> SUFFICES ASSUME NEW i \in Stated PROVE stated[i] \in ToSet(es)
    OBVIOUS
  <2>1. PICK k \in DOMAIN es : es[k].id = i
    BY DEF Stated, Holds
  <2>2. stated[i] = es[k]
    BY <1>2, <2>1
  <2> QED
    BY <2>2 DEF ToSet
<1> QED
  BY <1>6, <1>7, <1>8, <1>9, <1>10 DEF id

\* The sum over the chain is the sum over the ids.
LEMMA StatedTotals ==
  ASSUME NEW es, EventList(es), Holds(es, stated), NEW d \in Delta
  PROVE  SumOf(es, d) = StatedTotal(d)
<1> DEFINE id == [k \in DOMAIN es |-> es[k].id]
           f == [k \in DOMAIN es |-> es[k].deltas[d]]
           h == [i \in Stated |-> stated[i].deltas[d]]
<1>1. id \in Bijection(DOMAIN es, Stated) /\ IsFiniteSet(DOMAIN es)
  BY StatedIsListed
<1>2. \A k \in DOMAIN es : /\ id[k] \in Stated /\ stated[id[k]] = es[k]
                           /\ f[k] = es[k].deltas[d] /\ f[k] \in Nat
  BY ListDomain DEF EventList, WellStated, Holds, Stated
<1>3. \A k \in DOMAIN es : f[k] = h[id[k]]
  BY <1>2
<1>4. \A i \in Stated : h[i] \in Int
  <2> SUFFICES ASSUME NEW i \in Stated PROVE h[i] \in Int
    OBVIOUS
  <2>1. PICK k \in DOMAIN es : id[k] = i
    BY <1>1 DEF Bijection, Surjection
  <2> QED
    BY <1>2, <1>3, <2>1
<1> HIDE DEF id, f, h
<1>5. SumOver(DOMAIN es, f) = SumOver(Stated, h)
  BY <1>1, <1>3, <1>4, SumReindexed
<1> QED
  BY <1>5 DEF SumOf, StatedTotal, f, h

\* Where no event has deltas of its own, it is the sum of the quantities.
LEMMA StatedQuantities ==
  ASSUME NEW es, EventList(es), Holds(es, stated), NEW d \in Delta,
         \A i \in Stated : EventVerifies(stated[i]) /\ stated[i].mode # "explicit"
  PROVE  StatedTotal(d) = StatedQuantity(d)
<1> DEFINE T == {i \in Stated : stated[i].type = d}
           h == [i \in Stated |-> stated[i].deltas[d]]
           q == [i \in Stated |-> stated[i].quantity]
<1>1. IsFiniteSet(Stated) /\ T \in SUBSET Stated
  BY StatedIsListed
<1>2. \A i \in Stated : WellStated(stated[i])
  <2> SUFFICES ASSUME NEW i \in Stated PROVE WellStated(stated[i])
    OBVIOUS
  <2>1. PICK k \in DOMAIN es : es[k].id = i
    BY DEF Stated, Holds
  <2> QED
    BY <2>1 DEF EventList, Holds
<1>3. ASSUME NEW i \in Stated
      PROVE  /\ h[i] \in Nat /\ (i \in T => h[i] = q[i]) /\ (i \notin T => h[i] = 0)
  <2>1. stated[i].deltas = Normalize(stated[i].type, stated[i].quantity)
    BY <1>2 DEF WellStated
  <2>2. h[i] = IF d = stated[i].type /\ stated[i].quantity # None THEN stated[i].quantity ELSE 0
    BY <2>1 DEF Normalize
  <2>3. stated[i].type = d => stated[i].quantity # None
    BY DEF EventVerifies
  <2>4. stated[i].quantity # None => stated[i].quantity \in Nat
    BY <1>2, LifecycleAssumption DEF WellStated
  <2> QED
    BY <2>2, <2>3, <2>4
<1>4. StatedTotal(d) = SumOver(Stated, h) /\ StatedQuantity(d) = SumOver(T, q)
  BY DEF StatedTotal, StatedQuantity
<1> HIDE DEF T, h, q
<1>5. SumOver(Stated, h) = SumOver(T, h)
  BY <1>1, <1>3, SumOfPart
<1>6. SumOver(T, h) = SumOver(T, q)
  <2>1. IsFiniteSet(T)
    BY <1>1, FS_Subset
  <2>2. \A i \in T : h[i] = q[i]
    BY <1>1, <1>3
  <2> QED
    BY <2>1, <2>2, SumSame
<1> QED
  BY <1>4, <1>5, <1>6

(* ChainIsWhatWasStated: in whatever order events are appended, stated     *)
(* again and moved to other dates, the chain holds each as last stated,    *)
(* by date, and verifies.                                                  *)
THEOREM ChainAlwaysWhatWasStated == LifecycleSpec => []ChainIsWhatWasStated
<1>1. LifecycleInv => ChainIsWhatWasStated
  <2> SUFFICES ASSUME LifecycleInv PROVE ChainIsWhatWasStated
    OBVIOUS
  <2>1. CASE chain = Absent
    <3>1. Stated = {}
      BY <2>1 DEF LifecycleInv, ChainFollows, Stated
    <3> QED
      BY <2>1, <3>1 DEF ChainIsWhatWasStated
  <2>2. CASE chain # Absent
    <3>1. PICK es : ChainOf(chain, es) /\ InPlace(es) /\ Holds(es, stated)
      BY <2>2 DEF LifecycleInv, ChainFollows
    <3>2. ChainVerifies
      BY <2>2, <3>1, WrittenChainVerifies
    <3>3. Events(chain.entries) = es /\ EventList(es)
      BY <3>1, SnapshotOf
    <3>4. Len(es) = Cardinality(Stated) /\ ToSet(es) = {stated[i] : i \in Stated}
      BY <3>1, <3>3, StatedIsListed
    <3>5. \A i, j \in DOMAIN es : i < j => EffectiveBefore(es[i], es[j])
      BY <3>1 DEF InPlace
    <3> QED
      BY <3>2, <3>3, <3>4, <3>5 DEF ChainIsWhatWasStated
  <2> QED
    BY <2>1, <2>2
<1> QED
  BY <1>1, LifecycleInvariance, PTL

(* SnapshotIsPresentState: a snapshot that verifies sums what was last     *)
(* stated of every event, is not negative, and has the state of the event  *)
(* that took effect last.                                                  *)
THEOREM SnapshotAlwaysPresentState == LifecycleSpec => []SnapshotIsPresentState
<1>1. LifecycleInv => SnapshotIsPresentState
  <2> SUFFICES ASSUME LifecycleInv, SnapshotVerifies
               PROVE  /\ \A d \in Delta : snapshot.totals[d] = StatedTotal(d)
                      /\ (\A i \in Stated : EventVerifies(stated[i]) /\ stated[i].mode # "explicit") =>
                           \A d \in Delta : snapshot.totals[d] = StatedQuantity(d)
                      /\ Balance(snapshot.totals) >= 0
                      /\ \A i \in Stated : ~ EffectiveBefore(snapshot.latest, stated[i])
    BY DEF SnapshotIsPresentState
  <2>1. chain # Absent /\ snapshot # Absent /\ snapshot = SnapshotDoc(chain)
    BY DEF SnapshotVerifies
  <2>2. PICK es : ChainOf(chain, es) /\ InPlace(es) /\ Holds(es, stated)
    BY <2>1 DEF LifecycleInv, ChainFollows
  <2>3. /\ EventList(es) /\ snapshot.totals = Totals(es)
        /\ snapshot.latest = es[Len(es)] /\ Len(es) \in DOMAIN es
    BY <2>1, <2>2, SnapshotOf
  <2>4. ASSUME NEW d \in Delta PROVE snapshot.totals[d] = StatedTotal(d)
    <3>1. Totals(es)[d] = SumOf(es, d)
      BY <2>3, SumsOfEvents
    <3>2. SumOf(es, d) = StatedTotal(d)
      BY <2>2, <2>3, StatedTotals
    <3> QED
      BY <2>3, <3>1, <3>2
  <2>5. ASSUME \A i \in Stated : EventVerifies(stated[i]) /\ stated[i].mode # "explicit", NEW d \in Delta
        PROVE  snapshot.totals[d] = StatedQuantity(d)
    <3>1. StatedTotal(d) = StatedQuantity(d)
      BY <2>2, <2>3, <2>5, StatedQuantities
    <3> QED
      BY <2>4, <3>1
  <2>6. Balance(snapshot.totals) >= 0
    BY <2>1 DEF LifecycleInv
  <2>7. ASSUME NEW i \in Stated PROVE ~ EffectiveBefore(es[Len(es)], stated[i])
    <3> DEFINE n == Len(es)
    <3>1. n \in Nat /\ DOMAIN es = 1 .. n
      BY <2>3, ListDomain
    <3>2. PICK k \in DOMAIN es : es[k].id = i
      BY <2>2 DEF Stated, Holds
    <3>3. stated[i] = es[k]
      BY <2>2, <3>2 DEF Holds
    <3>4. /\ es[n].at \in Nat /\ es[n].id \in Nat /\ es[k].at \in Nat /\ es[k].id \in Nat
      BY <2>3, ListDomain
    <3>5. CASE k = n
      BY <3>3, <3>4, <3>5, BeforeIsTotal
    <3>6. CASE k # n
      <4>1. k < n /\ n \in DOMAIN es
        BY <2>3, <3>1, <3>6
      <4>2. EffectiveBefore(es[k], es[n])
        BY <2>2, <4>1 DEF InPlace
      <4> QED
        BY <3>3, <3>4, <4>2, BeforeIsTotal
    <3> QED
      BY <3>5, <3>6
  <2> QED
    BY <2>3, <2>4, <2>5, <2>6, <2>7
<1> QED
  BY <1>1, LifecycleInvariance, PTL

(* StatusIsExact: the status of a replay that verifies can be relied on,   *)
(* in place and beside the documents the log names.                        *)
THEOREM StatusAlwaysExact == LifecycleSpec => []StatusIsExact
<1>1. LifecycleInv => ReconciliationIsExact
  <2> DEFINE r == reconciliation
  <2> SUFFICES ASSUME LifecycleInv, ReconciliationVerifies,
                      \A d \in Delta : Safe(r.replay[d]) /\ Safe(r.seen[d])
               PROVE  r.match <=> \A d \in Delta : r.seen[d] = StatedTotal(d)
    BY DEF ReconciliationIsExact
  <2>1. chain # Absent /\ r # Absent /\ Reproduces(r, chain)
    BY DEF ReconciliationVerifies
  <2>2. PICK es : ChainOf(chain, es) /\ Holds(es, stated)
    BY <2>1 DEF LifecycleInv, ChainFollows
  <2>3. Events(chain.entries) = es /\ EventList(es)
    BY <2>2, SnapshotOf
  <2>4. r.replay = Replayed(es) /\ r.balance = NumberBalance(r.replay)
    BY <2>1, <2>3 DEF Reproduces
  <2>5. WellReconciled(r)
    BY <2>1 DEF LifecycleInv
  <2>6. \A d \in Delta : SumOf(es, d) = StatedTotal(d)
    BY <2>2, <2>3, StatedTotals
  <2> HIDE DEF r
  <2>7. PICK t \in [Delta -> Nat] :
          /\ r.seen = [d \in Delta |-> Number(t[d])]
          /\ r.match <=> r.replay = r.seen /\ r.balance = Number(Balance(t))
    BY <2>5 DEF WellReconciled
  <2>8. r.match <=> \A d \in Delta : r.seen[d] = SumOf(es, d)
    BY <2>3, <2>4, <2>7, StatusSaysSame
  <2> QED
    BY <2>6, <2>8
<1>2. LifecycleInv => LoggedReplayIsCoherent
  <2> DEFINE r == logged.replay
             c == logged.lineage.chain
             s == logged.lineage.snapshot
  <2> SUFFICES ASSUME LifecycleInv, logged # Absent, Reproduces(r, c), s = SnapshotDoc(c),
                      \A d \in Delta : Safe(r.replay[d]) /\ Safe(r.seen[d])
               PROVE  r.match <=> \A d \in Delta : r.seen[d] = s.totals[d]
    BY DEF LoggedReplayIsCoherent
  <2>1. PICK es : ChainOf(c, es)
    BY DEF LifecycleInv
  <2>2. WellReconciled(r)
    BY DEF LifecycleInv
  <2> HIDE DEF r, c, s
  <2>3. Events(c.entries) = es /\ EventList(es) /\ s.totals = Totals(es)
    BY <2>1, SnapshotOf
  <2>4. r.replay = Replayed(es) /\ r.balance = NumberBalance(r.replay)
    BY <2>3 DEF Reproduces
  <2>5. \A d \in Delta : s.totals[d] = SumOf(es, d)
    BY <2>3, SumsOfEvents
  <2>6. PICK t \in [Delta -> Nat] :
          /\ r.seen = [d \in Delta |-> Number(t[d])]
          /\ r.match <=> r.replay = r.seen /\ r.balance = Number(Balance(t))
    BY <2>2 DEF WellReconciled
  <2>7. r.match <=> \A d \in Delta : r.seen[d] = SumOf(es, d)
    BY <2>3, <2>4, <2>6, StatusSaysSame
  <2> QED
    BY <2>5, <2>7
<1> QED
  BY <1>1, <1>2, LifecycleInvariance, PTL DEF StatusIsExact

=============================================================================
