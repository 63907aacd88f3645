---------------------------- MODULE CheckpointChain ----------------------------
(***************************************************************************)
(* What is derived from the transparency log's checkpoint, one file from   *)
(* the other: checkpoint, witness signatures, finalization, rebinding,     *)
(* external anchor and its verification, and the bridge that ties two      *)
(* checkpoints to a consistency proof.  Each builder reads files, checks   *)
(* some of them and writes one; any file may be rebuilt at any time, so    *)
(* what is derived from it goes stale.                                     *)
(*                                                                         *)
(* The hash of a document is the document: a derived file holds what it    *)
(* was derived from, and two hashes agree when the contents do.  A builder *)
(* neither awaits nor writes twice: its run is one step.                   *)
(***************************************************************************)
EXTENDS LogFile, FiniteSetsExt

CONSTANTS
  Witness,     \* those who may stand in witness-keyring.json
  Keyring,     \* its contents: who is in it, and its threshold
  Threshold,   \* values of the finalization policy's threshold
  Stamp,       \* values of created_at: a rebuilt checkpoint is another file
  MaxEntries,  \* bound on the length of the log
  MaxRuns      \* bound on the number of script runs

\* A keyring has as many members as it requires.
ASSUME ChainAssumption ==
  /\ IsFiniteSet(Witness)
  /\ Keyring \subseteq [members : SUBSET Witness, threshold : Nat]
  /\ \A keyring \in Keyring : keyring.threshold <= Cardinality(keyring.members)
  /\ Threshold \subseteq Nat \ {0} /\ Threshold # {} /\ Stamp # {}
  /\ MaxEntries \in Nat /\ MaxRuns \in Nat

VARIABLES
  log,      \* transparency-log.json
  policy,   \* threshold in checkpoint-finalization-policy.json
  doc,      \* the derived files by name
  archive,  \* copies of checkpoints, kept for consistency bridges
  runs      \* script runs so far

vars == <<log, policy, doc, archive, runs>>

Name == {"checkpoint", "proof", "witnesses", "finalization", "rebinding",
         "external", "verification", "bridge"}

Missing == [missing |-> TRUE]

Exists(name) == doc[name] # Missing

Init ==
  /\ log = EmptyLog /\ policy \in Threshold
  /\ doc = [name \in Name |-> Missing]
  /\ archive = {} /\ runs = 0

Write(name, content) ==
  /\ doc' = [doc EXCEPT ![name] = content]
  /\ UNCHANGED <<log, policy, archive>>

-----------------------------------------------------------------------------
(* The log and its checkpoint.                                             *)

\* A checkpoint file: created_at makes each build another file.
Stamped(c, stamp) ==
  [count |-> c.count, head |-> c.head, root |-> c.root, cumulative |-> c.cumulative, stamp |-> stamp]

GenericAppend ==
  /\ Len(log.entries) < MaxEntries
  /\ \E a \in Artifact : log' = AppendGeneric(log, a)
  /\ UNCHANGED <<policy, doc, archive>>

\* The replay writer leaves a log and a checkpoint of its own.
ReplayAppend(stamp) ==
  /\ Len(log.entries) < MaxEntries
  /\ \E a \in Artifact : log' = AppendReplay(log, a)
  /\ doc' = [doc EXCEPT !["checkpoint"] = Stamped(ReplayCheckpoint(log'), stamp)]
  /\ UNCHANGED <<policy, archive>>

RunCheckpoint(stamp) == Write("checkpoint", Stamped(BuildCheckpoint(log), stamp))

CheckpointVerifies ==
  /\ Exists("checkpoint")
  /\ \E stamp \in Stamp : doc["checkpoint"] = Stamped(BuildCheckpoint(log), stamp)
  /\ doc["checkpoint"].cumulative = doc["checkpoint"].root

-----------------------------------------------------------------------------
(* Witnesses.                                                              *)

Signature(w, checkpoint) == [by |-> w, of |-> checkpoint]

\* Mutant: the signatures of the file before are kept.
SignKeepingOld(keyring) ==
  /\ Exists("checkpoint")
  /\ Write("witnesses",
       [checkpoint |-> doc["checkpoint"], threshold |-> keyring.threshold,
        signatures |-> IF Exists("witnesses") THEN doc["witnesses"].signatures
                       ELSE {Signature(w, doc["checkpoint"]) : w \in keyring.members}])

\* Every witness of the keyring signs the hash of the present checkpoint.
Sign(keyring) ==
  /\ Exists("checkpoint")
  /\ Write("witnesses",
       [checkpoint |-> doc["checkpoint"], threshold |-> keyring.threshold,
        signatures |-> {Signature(w, doc["checkpoint"]) : w \in keyring.members}])

WitnessesVerify ==
  LET w == doc["witnesses"] IN
  /\ Exists("checkpoint") /\ Exists("witnesses")
  /\ w.checkpoint = doc["checkpoint"]
  /\ \A s \in w.signatures : s.of = doc["checkpoint"]
  /\ Cardinality(w.signatures) >= w.threshold

-----------------------------------------------------------------------------
(* Finalization under a policy. Builder and verifier compare the number of *)
(* witnesses with the policy's required_witness_threshold. But the         *)
(* policy's field is threshold, and its schema admits no other: they       *)
(* compare with undefined, which nothing is less than. The finalization's  *)
(* own signed_witness_threshold is undefined as well and left out of the   *)
(* file. No number of witnesses is refused, and of the policy only the     *)
(* hash is used.                                                           *)

ChangePolicy ==
  /\ policy' \in Threshold \ {policy}
  /\ UNCHANGED <<log, doc, archive>>

Finalization ==
  [checkpoint |-> doc["checkpoint"], witnesses |-> doc["witnesses"], policy |-> policy,
   satisfied |-> Cardinality(doc["witnesses"].signatures)]

\* Mutant: whatever the witnesses have signed is finalized.
FinalizeUnbound ==
  /\ Exists("checkpoint") /\ Exists("witnesses")
  /\ Write("finalization", Finalization)

\* The signatures are counted, not verified.
Finalize ==
  /\ Exists("checkpoint") /\ Exists("witnesses")
  /\ doc["witnesses"].checkpoint = doc["checkpoint"]
  /\ Write("finalization", Finalization)

FinalizationVerifies ==
  LET f == doc["finalization"] IN
  /\ Exists("checkpoint") /\ Exists("witnesses") /\ Exists("finalization")
  /\ f.checkpoint = doc["checkpoint"]
  /\ f.witnesses = doc["witnesses"]
  /\ f.policy = policy

-----------------------------------------------------------------------------
(* Rebinding: hashes of what is there, whether or not it fits together.    *)

Rebinding ==
  [checkpoint |-> doc["checkpoint"], root |-> doc["checkpoint"].root,
   witnesses |-> doc["witnesses"], finalization |-> doc["finalization"]]

\* A checkpoint of an empty log has no root to resolve.
Rebind ==
  /\ \A n \in {"checkpoint", "witnesses", "finalization"} : Exists(n)
  /\ doc["checkpoint"].root # NoDigest
  /\ Write("rebinding", Rebinding)

RebindingVerifies ==
  /\ \A n \in {"checkpoint", "witnesses", "finalization", "rebinding"} : Exists(n)
  /\ doc["rebinding"] = Rebinding

-----------------------------------------------------------------------------
(* External anchor.  checkpoint_hash comes from the finalization, the root *)
(* from the rebinding, the only one of the three that has it.              *)

External(anchors) ==
  [checkpoint |-> doc["finalization"].checkpoint, root |-> doc["rebinding"].root,
   witnesses |-> doc["witnesses"], finalization |-> doc["finalization"],
   rebinding |-> doc["rebinding"], anchors |-> anchors]

RebindingAgrees == doc["rebinding"].checkpoint = doc["finalization"].checkpoint

\* Mutant: the rebinding is not compared with the finalization.
AnchorWithoutAgreement(anchors) ==
  /\ \A n \in {"witnesses", "finalization", "rebinding"} : Exists(n)
  /\ anchors # {}
  /\ Write("external", External(anchors))

Anchor(anchors) ==
  /\ \A n \in {"witnesses", "finalization", "rebinding"} : Exists(n)
  /\ RebindingAgrees
  /\ anchors # {}
  /\ Write("external", External(anchors))

ExternalVerifies ==
  /\ \A n \in {"witnesses", "finalization", "rebinding", "external"} : Exists(n)
  /\ doc["external"] = External(doc["external"].anchors)
  /\ RebindingAgrees

(* Verification of the anchors: only git commits can be resolved.          *)
AnchorVerification ==
  [of |-> doc["external"], entries |-> {<<a, doc["external"]>> : a \in doc["external"].anchors}]

VerifyAnchors ==
  /\ Exists("external") /\ doc["external"].anchors = {"git_commit"}
  /\ Write("verification", AnchorVerification)

\* Its verifier recomputes the file's own hashes; it opens the receipt,
\* which must be there, but compares nothing with it.
AnchorVerificationVerifies ==
  /\ Exists("verification") /\ Exists("external")
  /\ doc["verification"].entries =
       {<<a, doc["verification"].of>> : a \in doc["verification"].of.anchors}

-----------------------------------------------------------------------------
(* The bridge between an archived checkpoint and the present one.          *)

Archive ==
  /\ Exists("checkpoint")
  /\ archive' = archive \cup {doc["checkpoint"]}
  /\ UNCHANGED <<log, policy, doc>>

RunProof ==
  \E new \in 1 .. log.count : \E old \in 1 .. new : Write("proof", BuildProof(log, old, new))

\* Mutant: the roots of the checkpoints are not compared.
BridgeChecksSizes(old, new, proof) ==
  /\ old.count = proof.oldSize /\ new.count = proof.newSize
  /\ new.count > old.count

BridgeChecks(old, new, proof) ==
  /\ old.count = proof.oldSize /\ new.count = proof.newSize
  /\ old.root = proof.oldRoot /\ new.root = proof.newRoot
  /\ old.cumulative = proof.oldCumulative
  /\ new.count > old.count

Bridge(old, new, proof) ==
  [old |-> old, new |-> new, proof |-> proof, appendOnly |-> BridgeChecks(old, new, proof)]

\* The proof must be for these two sizes; the checks only set a flag.
BuildBridge ==
  /\ Exists("checkpoint") /\ Exists("proof")
  /\ \E old \in archive :
       /\ doc["proof"].oldSize = old.count /\ doc["proof"].newSize = doc["checkpoint"].count
       /\ Write("bridge", Bridge(old, doc["checkpoint"], doc["proof"]))

\* Every file named in the bridge is hashed again.
BridgeVerifies ==
  LET b == doc["bridge"] IN
  /\ Exists("bridge")
  /\ b.old \in archive /\ b.new = doc["checkpoint"] /\ b.proof = doc["proof"]
  /\ BridgeChecks(b.old, b.new, b.proof)

-----------------------------------------------------------------------------
Next ==
  /\ runs < MaxRuns /\ runs' = runs + 1
  /\ \/ GenericAppend
     \/ \E stamp \in Stamp : ReplayAppend(stamp) \/ RunCheckpoint(stamp)
     \/ \E keyring \in Keyring : Sign(keyring)
     \/ ChangePolicy
     \/ Finalize
     \/ Rebind
     \/ \E anchors \in SUBSET {"git_commit", "ipfs_cid"} : Anchor(anchors)
     \/ VerifyAnchors
     \/ Archive
     \/ RunProof
     \/ BuildBridge

Spec == Init /\ [][Next]_vars

-----------------------------------------------------------------------------
\* Everybody in one keyring has signed the checkpoint, and nobody else.
SignedByAll(checkpoint, w) ==
  \E keyring \in Keyring :
    /\ w.threshold = keyring.threshold
    /\ w.signatures = {Signature(v, checkpoint) : v \in keyring.members}

(* Whoever accepts the checkpoint, the finalization and, with a rebinding  *)
(* or an external anchor, the root bound to them holds one coherent chain: *)
(* the root is the log's, the witnesses pass their own verifier, and all   *)
(* members of the keyring they signed with, as many as it asks for, have   *)
(* signed this very checkpoint, although rebinding and anchor never look   *)
(* at the witnesses' checkpoint and every file may be older than the next. *)
(* It says nothing of the finalization policy's threshold.                 *)
AcceptedChainIsWitnessed ==
  CheckpointVerifies /\ FinalizationVerifies /\ (RebindingVerifies \/ ExternalVerifies) =>
    /\ doc["rebinding"].root = log.root
    /\ WitnessesVerify
    /\ SignedByAll(doc["checkpoint"], doc["witnesses"])

(* A finalization names witnesses that signed the checkpoint it names,     *)
(* also after checkpoint and witnesses have been replaced, and counts as   *)
(* many as their keyring asked for.                                        *)
FinalizedWasSigned ==
  Exists("finalization") =>
    LET f == doc["finalization"] IN
    /\ f.witnesses.checkpoint = f.checkpoint
    /\ SignedByAll(f.checkpoint, f.witnesses)
    /\ f.satisfied >= f.witnesses.threshold

(* What is anchored outside, and what a verification vouches for even when *)
(* the anchor has been rebuilt since, is the root of the checkpoint that   *)
(* was finalized: the root comes from a file that was bound to any         *)
(* checkpoint, the hash from another one.                                  *)
AnchoredRootIsFinalized ==
  LET Coherent(e) == e.root = e.checkpoint.root /\ e.finalization.checkpoint = e.checkpoint IN
  /\ Exists("external") => Coherent(doc["external"])
  /\ AnchorVerificationVerifies => Coherent(doc["verification"].of)

(* From the signatures to the root anchored outside: the finalization is   *)
(* of a checkpoint its witnesses signed, the anchor of that one.           *)
AnchorIsBacked == FinalizedWasSigned /\ AnchoredRootIsFinalized

(* A bridge that verifies shows an extension: the entries the old          *)
(* checkpoint commits to are the first of those the new one commits to.    *)
BridgeShowsExtension ==
  BridgeVerifies =>
    LET b == doc["bridge"] IN
    /\ IsStrictPrefix(b.old.root.leaves, b.new.root.leaves)
    /\ b.appendOnly
=============================================================================
