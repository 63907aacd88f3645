----------------------------- MODULE AuditPackets -----------------------------
(***************************************************************************)
(* Audit packets and what is signed about them: the archive of four input  *)
(* files with a manifest of their hashes, the packet signature, the        *)
(* attestations of several auditors, the trust policy with its signature,  *)
(* the integrity file over these three, and the transparency manifest that *)
(* says how long all of it may be relied on.  Each file is written by a    *)
(* script of its own, in any order, from other files and from hashes given *)
(* on the command line.                                                    *)
(*                                                                         *)
(* The hash of a document is the document, a signature is the signed text  *)
(* with the key.  Times of signing are left out: signing the same again    *)
(* gives the same file.                                                    *)
(***************************************************************************)
EXTENDS Integers, SequencesExt, FiniteSetsExt

CONSTANTS
  Inputs,   \* contents of the four input files together
  Commit,   \* git and network data of a packet
  Signer,   \* key ids of attesting auditors
  Key,      \* their keys, present and former
  Policy,   \* contents of trust-policy.json, which is written by hand
  MaxAge,   \* freshness_policy.max_age_seconds, in days
  MaxDay,   \* bound on the time
  MaxRuns   \* bound on script runs and edits

\* packet_manifest_hash covers the inputs: see Manifest.
PolicyType ==
  [hash : Inputs, key : UNION {[S -> Key] : S \in SUBSET Signer},
   required : SUBSET Signer, threshold : Nat \ {0}]

ASSUME AuditAssumption ==
  /\ IsFiniteSet(Signer)
  /\ Policy \subseteq PolicyType
  /\ MaxAge \in Nat /\ MaxDay \in Nat /\ MaxRuns \in Nat

VARIABLES
  inputs,        \* the input files in the working tree
  archive,       \* grant-audit-packet.tgz
  signature,     \* its detached signature
  attestations,  \* attestations.json
  policy,        \* trust-policy.json
  policySig,     \* its signature
  bundle,        \* attestation-bundle-integrity.json
  transparency,  \* transparency-manifest.json
  published,     \* history: policy and bundle verified when that was built
  day, runs

packetVars == <<inputs, archive, signature>>
trustVars  == <<attestations, policy, policySig, bundle>>
vars == <<packetVars, trustVars, transparency, published, day, runs>>

Missing == [missing |-> TRUE]

Init ==
  /\ inputs \in Inputs /\ policy \in Policy
  /\ archive = Missing /\ signature = Missing /\ attestations = Missing
  /\ policySig = Missing /\ bundle = Missing /\ transparency = Missing
  /\ published = FALSE
  /\ day = 0 /\ runs = 0

-----------------------------------------------------------------------------
(* The packet.                                                             *)

\* The input files are written anew by the scripts that make them.
EditInputs ==
  /\ inputs' \in Inputs \ {inputs}
  /\ UNCHANGED <<archive, signature, trustVars, transparency, published>>

\* Mutant: audit-packet.json is hashed too.
ManifestOfAll(in, commit) == <<in, commit>>

\* sha256-manifest.json lists the inputs; audit-packet.json, which holds the
\* manifest's hash, and the manifest itself are excluded.
Manifest(in, commit) == in

Packet(in, commit) ==
  [inputs |-> in, commit |-> commit, manifest |-> Manifest(in, commit),
   integrity |-> Manifest(in, commit)]

BuildPacket(commit) ==
  /\ archive' = Packet(inputs, commit)
  /\ UNCHANGED <<inputs, signature, trustVars, transparency, published>>

\* verifyPacketIntegrity of the signing scripts, which do not read the
\* integrity field.
ManifestHolds(a) == a # Missing /\ a.manifest = Manifest(a.inputs, a.commit)

\* replay-grant-audit and the schema check.
Replays(a) == ManifestHolds(a) /\ a.integrity = a.manifest

Reproduces(a, b) == Replays(a) /\ Replays(b) /\ a.manifest = b.manifest

SignPacket(key) ==
  /\ ManifestHolds(archive)
  /\ signature' = [hash |-> archive.manifest, key |-> key]
  /\ UNCHANGED <<inputs, archive, trustVars, transparency, published>>

\* key is --expected-public-key.
SignatureVerifies(a, key) ==
  /\ ManifestHolds(a) /\ signature # Missing
  /\ signature.hash = a.manifest
  /\ signature.key = key

-----------------------------------------------------------------------------
(* Attestations and trust policy.                                          *)

EditPolicy ==
  /\ policy' \in Policy \ {policy}
  /\ UNCHANGED <<packetVars, attestations, policySig, bundle, transparency, published>>

\* A file for another packet has to be moved away before a new one is begun.
RemoveAttestations ==
  /\ attestations # Missing /\ attestations' = Missing
  /\ UNCHANGED <<packetVars, policy, policySig, bundle, transparency, published>>

\* The hash is given by the caller; the signature is tried with the public
\* key given with it, which need not be the policy's.
AppendAttestation(hash, signer, key) ==
  LET doc == IF attestations = Missing THEN [hash |-> hash, list |-> <<>>] ELSE attestations
      signed == [hash |-> hash, signer |-> signer, key |-> key]
  IN
  /\ doc.hash = hash
  /\ \A i \in DOMAIN doc.list : doc.list[i].signer # signer
  /\ attestations' = [doc EXCEPT !.list = Append(@, signed)]
  /\ UNCHANGED <<packetVars, policy, policySig, bundle, transparency, published>>

\* Mutant: the signature is tried with the key the attestation brings.
CountsWithAnyKey(att) ==
  att.signer \in DOMAIN policy.key /\ att.hash = policy.hash

Counts(att) ==
  /\ att.signer \in DOMAIN policy.key
  /\ att.hash = policy.hash
  /\ att.key = policy.key[att.signer]

VerifiedSigners == {att.signer : att \in {x \in ToSet(attestations.list) : Counts(x)}}

PolicyVerifies ==
  /\ attestations # Missing
  /\ attestations.hash = policy.hash
  /\ Cardinality(VerifiedSigners) >= policy.threshold
  /\ policy.required \subseteq VerifiedSigners

SignPolicy(key) ==
  /\ policySig' = [policy |-> policy, hash |-> policy.hash, key |-> key]
  /\ UNCHANGED <<packetVars, attestations, policy, bundle, transparency, published>>

-----------------------------------------------------------------------------
(* The bundle.  The packet hash is the policy's; the attestations' is not  *)
(* compared with it.                                                       *)
Files == <<attestations, policy, policySig>>

\* Mutant: the attestations, which grow, are left out.
BuildBundleOfPolicy ==
  /\ attestations # Missing /\ policySig # Missing
  /\ bundle' = [hash |-> policy.hash, files |-> <<Missing, policy, policySig>>]
  /\ UNCHANGED <<packetVars, attestations, policy, policySig, transparency, published>>

BuildBundle ==
  /\ attestations # Missing /\ policySig # Missing
  /\ bundle' = [hash |-> policy.hash, files |-> Files]
  /\ UNCHANGED <<packetVars, attestations, policy, policySig, transparency, published>>

\* key is --public-key.  A file the bundle does not list is not hashed.
BundleVerifies(key) ==
  /\ bundle # Missing /\ policySig # Missing
  /\ \A i \in 1 .. 3 : bundle.files[i] # Missing => bundle.files[i] = Files[i]
  /\ bundle.hash = policy.hash /\ policySig.hash = policy.hash
  /\ policySig.policy = policy /\ policySig.key = key

-----------------------------------------------------------------------------
(* The transparency manifest.  Packet hash, status and fingerprints are    *)
(* given by the caller, and compared with nothing.                         *)
Publish(key) ==
  /\ policySig # Missing /\ bundle # Missing
  /\ \E hash \in Inputs, status \in {"active", "revoked"} :
       transparency' = [hash |-> hash, status |-> status, created |-> day, state |-> inputs,
                        policySig |-> policySig, bundle |-> bundle]
  /\ published' = (PolicyVerifies /\ BundleVerifies(key))
  /\ UNCHANGED <<packetVars, trustVars>>

Pinned(pinned, file) == file = Missing \/ file = pinned

\* Mutant: the bundle is not compared.
FreshForPolicy(hash) ==
  /\ transparency # Missing
  /\ transparency.hash = hash
  /\ transparency.status = "active"
  /\ day - transparency.created <= MaxAge
  /\ transparency.state = inputs
  /\ Pinned(transparency.policySig, policySig)

\* fresh, for an auditor who gives the packet's hash and the state's; an
\* artifact that is not there is not stale.
Fresh(hash) ==
  /\ transparency # Missing
  /\ transparency.hash = hash
  /\ transparency.status = "active"
  /\ day - transparency.created <= MaxAge
  /\ transparency.state = inputs
  /\ Pinned(transparency.policySig, policySig)
  /\ Pinned(transparency.bundle, bundle)

-----------------------------------------------------------------------------
NextDay ==
  /\ day < MaxDay /\ day' = day + 1
  /\ UNCHANGED <<packetVars, trustVars, transparency, published, runs>>

Script ==
  \/ EditInputs \/ EditPolicy \/ RemoveAttestations
  \/ \E commit \in Commit : BuildPacket(commit)
  \/ \E hash \in Inputs, signer \in Signer, key \in Key : AppendAttestation(hash, signer, key)
  \/ \E key \in Key : SignPacket(key) \/ SignPolicy(key) \/ Publish(key)
  \/ BuildBundle

Next ==
  \/ NextDay
  \/ runs < MaxRuns /\ runs' = runs + 1 /\ Script /\ UNCHANGED day

Spec == Init /\ [][Next]_vars

-----------------------------------------------------------------------------
(* A packet is its inputs: a build reproduces it if and only if it had the *)
(* same inputs, whatever commit and network it names, and a signature that *)
(* verifies for a build verifies for every such rebuild, without which the *)
(* packet an auditor builds himself could not be compared with the signed  *)
(* one.                                                                    *)
PacketIsItsInputs ==
  archive # Missing => \A commit \in Commit :
    LET rebuilt == Packet(inputs, commit) IN
    /\ Reproduces(archive, rebuilt) <=> archive.inputs = inputs
    /\ archive.inputs = inputs =>
         \A key \in Key : SignatureVerifies(archive, key) <=> SignatureVerifies(rebuilt, key)

(* No script compares attestations or policy with the archive, or the      *)
(* transparency manifest with the bundle.  Once the auditor compares the   *)
(* hashes they print, the verifications together mean that as many         *)
(* different trusted auditors as the policy asks for, the required among   *)
(* them, signed these inputs with the keys of a policy that is signed      *)
(* itself.                                                                 *)
AcceptedPacketIsAttested ==
  \A key \in Key :
    Replays(archive) /\ PolicyVerifies /\ BundleVerifies(key) /\ policy.hash = archive.manifest =>
      \E S \in SUBSET DOMAIN policySig.policy.key :
        /\ Cardinality(S) >= policySig.policy.threshold /\ policySig.policy.required \subseteq S
        /\ \A s \in S : \E att \in ToSet(attestations.list) :
             att = [hash |-> archive.inputs, signer |-> s, key |-> policySig.policy.key[s]]

(* An auditor who attests late, with whatever key, never makes a packet    *)
(* untrusted, and is never overlooked: the integrity file has to be built  *)
(* again.                                                                  *)
LateAttestation ==
  [][\A key \in Key :
       /\ PolicyVerifies /\ BundleVerifies(key)
       /\ policy' = policy /\ attestations' # Missing /\ attestations' # attestations
       => PolicyVerifies' /\ ~ BundleVerifies(key)']_vars

(* What held at publication still does: when all verified then, a manifest *)
(* that is fresh and a bundle that verifies say so without another look at *)
(* the attestations, whichever files have been replaced or removed since.  *)
PublicationStands ==
  \A hash \in Inputs, key \in Key :
    published /\ Fresh(hash) /\ BundleVerifies(key) => PolicyVerifies
=============================================================================
