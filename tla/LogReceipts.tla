------------------------------ MODULE LogReceipts ------------------------------
(***************************************************************************)
(* What proves to an outsider that something is in the transparency log:   *)
(* inclusion proofs of three kinds, and the root of the log anchored in    *)
(* TransparencyLogAnchor.sol with a receipt on disk.  The log is written   *)
(* by its three writers in turn; anchoring takes several RPC calls, so two *)
(* processes that anchor, and the writers, run in between.                 *)
(***************************************************************************)
EXTENDS LogDirectory, FiniteSetsExt

CONSTANT MaxRuns   \* bound on script runs

ASSUME ReceiptsAssumption == MaxEntries \in Nat /\ MaxRuns \in Nat

VARIABLES
  index,     \* transparency-log-index.json
  inclusion, \* the inclusion proof files by kind
  anchors,   \* TransparencyLogAnchor: the records, a set with at most one per root
  receipt,   \* transparency-log-anchor-receipt.json
  anchoring, \* what each anchoring process is doing
  runs

receiptsVars == <<log, checkpoint, index, inclusion, anchors, receipt, anchoring, runs>>
files == <<log, checkpoint, index, inclusion>>

Missing == [missing |-> TRUE]
AtRest    == [at |-> "idle"]

ReceiptsInit ==
  /\ log = EmptyLog /\ checkpoint = Missing /\ index = Missing
  /\ inclusion = [k \in {"packet", "lifecycle", "replay"} |-> Missing]
  /\ anchors = {} /\ receipt = Missing
  /\ anchoring = [p \in Process |-> AtRest] /\ runs = 0

Start == runs < MaxRuns /\ runs' = runs + 1

-----------------------------------------------------------------------------
\* Only the replay writer puts a checkpoint_hash into its checkpoint.
Hashed(c, own) == c @@ [ownHash |-> own]

AppendLog ==
  /\ Len(log.entries) < MaxEntries
  /\ \E a \in Artifact :
       \/ log' = AppendGeneric(log, a) /\ UNCHANGED checkpoint
       \/ /\ log.entries # <<>>
          /\ log' = AppendLifecycle(log, a) /\ UNCHANGED checkpoint
       \/ /\ log' = AppendReplay(log, a)
          /\ checkpoint' = Hashed(ReplayCheckpoint(log'), TRUE)
  /\ UNCHANGED <<index, inclusion, anchors, receipt, anchoring>>

RunCheckpoint ==
  /\ checkpoint' = Hashed(BuildCheckpoint(log), FALSE)
  /\ UNCHANGED <<log, index, inclusion, anchors, receipt, anchoring>>

WriteInclusion(kind, content) ==
  /\ inclusion' = [inclusion EXCEPT ![kind] = content]
  /\ UNCHANGED <<log, checkpoint, index, anchors, receipt, anchoring>>

\* The first entry of a kind about an artifact, as Array.find finds it.
FirstOf(kind, a) ==
  SelectInSeq(log.entries, LAMBDA e : e.kind = kind /\ e.artifact = a)

-----------------------------------------------------------------------------
(* Packets: an index of leaves, then a proof from log and index.           *)

BuildIndex ==
  /\ index' = [leaves |-> Hashes(log.entries), count |-> log.count,
               head |-> log.head, logRoot |-> log.root]
  /\ UNCHANGED <<log, checkpoint, inclusion, anchors, receipt, anchoring>>

BuildPacketProof(a) ==
  LET i == FirstOf(Generic, a) IN
  /\ index # Missing /\ i > 0 /\ i \in DOMAIN index.leaves
  /\ index.leaves[i] = log.entries[i].hash
  /\ WriteInclusion("packet",
       [entry |-> log.entries[i], at |-> i, leaves |-> index.leaves,
        logRoot |-> log.root, count |-> log.count, head |-> log.head])

\* The verifier climbs from the entry's hash to the root of the index; it
\* opens neither log nor index.
PacketProofVerifies ==
  LET f == inclusion["packet"] IN f # Missing /\ f.entry.hash = f.leaves[f.at]

-----------------------------------------------------------------------------
(* Lifecycle events.                                                       *)

LifecycleLeaves == [i \in DOMAIN log.entries |-> GetLeafHash(log.entries[i])]

CheckpointOfLog == checkpoint # Missing /\ checkpoint.root = log.root /\ checkpoint.count = log.count

BuildLifecycleProof(a) ==
  LET i == FirstOf(Lifecycle, a) IN
  /\ i > 0
  /\ Root(Lifecycle, LifecycleLeaves) = log.root
  /\ CheckpointOfLog
  /\ WriteInclusion("lifecycle",
       [artifact |-> a, at |-> log.entries[i].index + 1, hash |-> log.entries[i].hash,
        leaf |-> log.entries[i].leaf, leaves |-> LifecycleLeaves, count |-> log.count,
        head |-> log.head, root |-> log.root, checkpoint |-> checkpoint])

\* Mutant: the proof is only held against the entry it names.
LifecycleProofOfEntry ==
  LET f == inclusion["lifecycle"] IN
  /\ f # Missing /\ f.at \in DOMAIN log.entries
  /\ IsLifecycleOf(log.entries[f.at], f.artifact)
  /\ log.entries[f.at].hash = f.hash
  /\ f.leaves[f.at] = f.leaf /\ Root(Lifecycle, f.leaves) = f.root

LifecycleProofVerifies ==
  LET f == inclusion["lifecycle"] IN
  /\ f # Missing /\ f.at \in DOMAIN log.entries
  /\ IsLifecycleOf(log.entries[f.at], f.artifact)
  /\ log.entries[f.at].hash = f.hash
  /\ GetLeafHash(log.entries[f.at]) = f.leaf /\ f.leaves[f.at] = f.leaf
  /\ Root(Lifecycle, f.leaves) = f.root /\ f.root = log.root
  /\ Len(f.leaves) = log.count /\ f.count = log.count /\ f.head = log.head
  /\ f.checkpoint = checkpoint /\ CheckpointOfLog

-----------------------------------------------------------------------------
(* Replay reconciliations.                                                 *)

ReplayRoot == Root(Replay, Hashes(log.entries))

CheckpointHeadsLog == CheckpointOfLog /\ checkpoint.head = log.head

\* Mutant: the last entry of the artifact is looked up, with the hash of the first.
BuildReplayProofOfLast(a) ==
  LET i == FirstOf(Replay, a)
      j == SelectLastInSeq(log.entries, LAMBDA e : e.kind = Replay /\ e.artifact = a) IN
  /\ i > 0 /\ CheckpointHeadsLog
  /\ WriteInclusion("replay",
       [artifact |-> a, at |-> log.entries[j].index + 1, hash |-> log.entries[i].hash,
        count |-> log.count, head |-> log.head, root |-> log.root, checkpoint |-> checkpoint])

BuildReplayProof(a) ==
  LET i == FirstOf(Replay, a) IN
  /\ i > 0 /\ CheckpointHeadsLog
  /\ WriteInclusion("replay",
       [artifact |-> a, at |-> log.entries[i].index + 1, hash |-> log.entries[i].hash,
        count |-> log.count, head |-> log.head, root |-> log.root, checkpoint |-> checkpoint])

ReplayProofVerifies ==
  LET f == inclusion["replay"] IN
  /\ f # Missing /\ f.at \in DOMAIN log.entries
  /\ LET e == log.entries[f.at] IN
       /\ e.kind = Replay /\ e.artifact = f.artifact
       /\ e.hash = Digest(Replay, e) /\ e.hash = f.hash /\ e.index = f.at - 1
  /\ \A i \in DOMAIN log.entries : log.entries[i].index = i - 1
  /\ log.root = ReplayRoot
  /\ log.count = Len(log.entries) /\ log.head = HeadHash(log.entries)
  /\ f.count = log.count /\ f.head = log.head /\ f.root = log.root
  /\ checkpoint # Missing /\ checkpoint.ownHash /\ CheckpointHeadsLog
  /\ f.checkpoint = checkpoint

-----------------------------------------------------------------------------
(* TransparencyLogAnchor.sol.                                              *)

IsAnchored(root) == \E r \in anchors : r.root = root

\* anchorLogRoot, open to everybody.  by stands for transaction and block.
AnchorLogRoot(root, head, count, by) ==
  /\ ~IsAnchored(root)
  /\ anchors' = anchors \cup {[root |-> root, head |-> head, count |-> count, by |-> by]}

(* anchor-transparency-log-root.mjs, one step per RPC call.                *)

ReadLog(p) ==
  /\ anchoring[p] = AtRest /\ log.count > 0
  /\ Start
  /\ anchoring' = [anchoring EXCEPT
       ![p] = [at |-> "check", root |-> log.root, head |-> log.head, count |-> log.count]]
  /\ UNCHANGED <<files, anchors, receipt>>

Goto(p, at) == anchoring' = [anchoring EXCEPT ![p].at = at]

GetAnchor(p) ==
  /\ anchoring[p].at = "check"
  /\ Goto(p, IF IsAnchored(anchoring[p].root) THEN "recover" ELSE "send")
  /\ UNCHANGED <<files, anchors, receipt, runs>>

\* Mutant: head and length are read again before sending.
SendPresentHead(p) ==
  /\ anchoring[p].at = "send"
  /\ anchoring' = IF IsAnchored(anchoring[p].root) THEN [anchoring EXCEPT ![p] = AtRest]
                  ELSE [anchoring EXCEPT ![p].at = "sent", ![p].head = log.head, ![p].count = log.count]
  /\ UNCHANGED <<files, anchors, receipt, runs>>

\* Gas estimation throws when the root has been anchored meanwhile.
Send(p) ==
  /\ anchoring[p].at = "send"
  /\ IF IsAnchored(anchoring[p].root) THEN anchoring' = [anchoring EXCEPT ![p] = AtRest] ELSE Goto(p, "sent")
  /\ UNCHANGED <<files, anchors, receipt, runs>>

(* The transaction is mined, also when its process is dead; it reverts     *)
(* when another one came first.                                            *)
Mine(p) ==
  /\ anchoring[p].at \in {"sent", "orphan"}
  /\ \/ AnchorLogRoot(anchoring[p].root, anchoring[p].head, anchoring[p].count, p)
     \/ IsAnchored(anchoring[p].root) /\ UNCHANGED anchors
  /\ IF anchoring[p].at = "orphan" THEN anchoring' = [anchoring EXCEPT ![p] = AtRest]
     ELSE Goto(p, IF IsAnchored(anchoring[p].root) THEN "reverted" ELSE "mined")
  /\ UNCHANGED <<files, receipt, runs>>

EventOf(root) == CHOOSE r \in anchors : r.root = root

ReceiptDoc(r) ==
  [root |-> r.root, head |-> r.head, count |-> r.count, event |-> EventOf(r.root)]

\* Mutant: the receipt names the log as it is when the receipt is written.
WriteReceiptOfLog(p) ==
  /\ anchoring[p].at \in {"mined", "recover"}
  /\ receipt' = [ReceiptDoc(anchoring[p]) EXCEPT !.root = log.root]
  /\ anchoring' = [anchoring EXCEPT ![p] = AtRest]
  /\ UNCHANGED <<files, anchors, runs>>

\* Own transaction mined, or the event of somebody else's found again.
WriteReceipt(p) ==
  /\ anchoring[p].at \in {"mined", "recover"}
  /\ receipt' = ReceiptDoc(anchoring[p])
  /\ anchoring' = [anchoring EXCEPT ![p] = AtRest]
  /\ UNCHANGED <<files, anchors, runs>>

\* Ends without a receipt: its transaction reverted, or it is killed.
End(p) ==
  /\ anchoring[p].at \notin {"idle", "orphan"}
  /\ IF anchoring[p].at = "sent" THEN Goto(p, "orphan") ELSE anchoring' = [anchoring EXCEPT ![p] = AtRest]
  /\ UNCHANGED <<files, anchors, receipt, runs>>

(* verify-transparency-log-anchor.mjs: what it asks of the chain, and of   *)
(* the log on disk.                                                        *)
ReceiptOnChain ==
  /\ receipt # Missing
  /\ receipt.event \in anchors
  /\ receipt.event.root = receipt.root
  /\ receipt.event.head = receipt.head /\ receipt.event.count = receipt.count

AnchorVerifies ==
  /\ ReceiptOnChain
  /\ receipt.root = log.root /\ receipt.head = log.head /\ receipt.count = log.count

-----------------------------------------------------------------------------
ReceiptsNext ==
  \/ Start /\ \/ AppendLog
              \/ RunCheckpoint
              \/ BuildIndex
              \/ \E a \in Artifact : BuildPacketProof(a) \/ BuildLifecycleProof(a) \/ BuildReplayProof(a)
  \/ \E p \in Process :
       ReadLog(p) \/ GetAnchor(p) \/ Send(p) \/ Mine(p) \/ WriteReceipt(p) \/ End(p)

ReceiptsSpec == ReceiptsInit /\ [][ReceiptsNext]_receiptsVars

-----------------------------------------------------------------------------
(* A receipt is true of the chain for ever and, as long as the log has the *)
(* root it names, of the log: whoever anchored that root first, whoever    *)
(* was killed or overtaken, and however often the script was run.          *)
ReceiptHolds ==
  receipt # Missing => ReceiptOnChain /\ (receipt.root = log.root => AnchorVerifies)

(* What is anchored is one state of the log, although the log may grow     *)
(* between any two calls: the head is the last leaf under the root (or     *)
(* that leaf is made from it) and the count is the number of leaves.       *)
AnchorIsOneLog ==
  \A r \in anchors :
    /\ r.count = Len(r.root.leaves)
    /\ Last(r.root.leaves) \in {r.head, [scheme |-> "leaf", of |-> r.head]}

(* anchor-transparency-log-root.mjs and what it left on chain and in its   *)
(* receipt: each speaks of one state that the log once had.                *)
AnchoringHolds == ReceiptHolds /\ AnchorIsOneLog

(* A packet proof that verifies speaks of an entry the log still has, and  *)
(* an index older than the log does no harm, as long as one formula is     *)
(* used for all hashes.                                                    *)
PacketProofHolds ==
  (\A i \in DOMAIN log.entries : log.entries[i].kind = Generic) /\ PacketProofVerifies =>
    LET f == inclusion["packet"] IN
    /\ f.entry = log.entries[f.at]
    /\ IsPrefix(f.leaves, Hashes(log.entries))
    /\ f.entry.hash \in Range(f.logRoot.leaves)

(* The verifier reads one path, yet what it accepts is the whole log: the  *)
(* event is in it, and so is every other leaf the proof was built from.    *)
LifecycleProofHolds ==
  LifecycleProofVerifies =>
    /\ inclusion["lifecycle"].leaves = LifecycleLeaves
    /\ \E i \in DOMAIN log.entries : IsLifecycleOf(log.entries[i], inclusion["lifecycle"].artifact)

(* What the verifiers of packet and lifecycle inclusion proofs accept is   *)
(* in the log as it is now.                                                *)
ProofsHold == PacketProofHolds /\ LifecycleProofHolds

(* A rerun of the replay writer logs the same reconciliation twice: a      *)
(* fresh proof is about the first of them and verifies all the same.       *)
FreshReplayProofVerifies ==
  [][(/\ inclusion'["replay"] # inclusion["replay"]
      /\ checkpoint.ownHash
      /\ \A i \in DOMAIN log.entries : log.entries[i].kind = Replay)
       => ReplayProofVerifies']_receiptsVars
=============================================================================
