-------------------------- MODULE AuditPacketsProofs --------------------------
(***************************************************************************)
(* The properties of AuditPackets for any number of inputs, auditors, keys,*)
(* policies, days and script runs.  A signed or listed file is compared as *)
(* a whole, so the invariant needs little beyond the shape of each file;   *)
(* for the publication it must remember what the bundle held then.         *)
(***************************************************************************)
EXTENDS AuditPackets, FiniteSetTheorems, TLAPS

Attested == [hash : Inputs, signer : Signer, key : Key]

ArchiveInv == archive # Missing => archive = Packet(archive.inputs, archive.commit)

AttestationsInv ==
  attestations # Missing =>
    /\ attestations = [hash |-> attestations.hash, list |-> attestations.list]
    /\ attestations.list \in Seq(Attested)

\* A bundle was built over attestations and a policy that were there.
Complete(b) == b.files[1] # Missing /\ b.files[2] # Missing

BundleInv == bundle # Missing => Complete(bundle)

\* PolicyVerifies, of two given files.
SignersOf(a, p) ==
  {att.signer : att \in {x \in ToSet(a.list) : x.signer \in DOMAIN p.key /\ x.hash = p.hash
                                               /\ x.key = p.key[x.signer]}}

Trusts(a, p) ==
  /\ a.hash = p.hash
  /\ Cardinality(SignersOf(a, p)) >= p.threshold
  /\ p.required \subseteq SignersOf(a, p)

\* What was published as verified was complete and trusted.
PublishedInv ==
  published => /\ transparency # Missing /\ Complete(transparency.bundle)
               /\ Trusts(transparency.bundle.files[1], transparency.bundle.files[2])

AuditInv == policy \in Policy /\ ArchiveInv /\ AttestationsInv /\ BundleInv /\ PublishedInv

-----------------------------------------------------------------------------
LEMMA PolicyIsThere == ASSUME policy \in Policy PROVE policy # Missing
<1>1. DOMAIN policy = {"hash", "key", "required", "threshold"}
  BY AuditAssumption DEF PolicyType
<1>2. DOMAIN Missing = {"missing"}
  BY DEF Missing
<1> QED
  BY <1>1, <1>2

LEMMA VerifiesIsTrusts == PolicyVerifies <=> attestations # Missing /\ Trusts(attestations, policy)
<1>1. VerifiedSigners = SignersOf(attestations, policy)
  BY DEF VerifiedSigners, SignersOf, Counts
<1> QED
  BY <1>1 DEF PolicyVerifies, Trusts

\* The files a verified bundle lists are those that are there.
LEMMA BundleFiles ==
  ASSUME AuditInv, NEW key, BundleVerifies(key)
  PROVE  bundle.files[1] = attestations /\ bundle.files[2] = policy
BY DEF AuditInv, BundleInv, Complete, BundleVerifies, Files

-----------------------------------------------------------------------------
LEMMA AppendStep ==
  ASSUME AuditInv, NEW hash \in Inputs, NEW signer \in Signer, NEW key \in Key,
         AppendAttestation(hash, signer, key)
  PROVE  AttestationsInv'
<1> DEFINE before == IF attestations = Missing THEN [hash |-> hash, list |-> <<>>] ELSE attestations
           signed == [hash |-> hash, signer |-> signer, key |-> key]
<1>1. signed \in Attested
  BY DEF Attested
<1>2. before = [hash |-> before.hash, list |-> before.list] /\ before.list \in Seq(Attested)
  BY DEF AuditInv, AttestationsInv
<1>3. attestations' = [before EXCEPT !.list = Append(before.list, signed)]
  BY DEF AppendAttestation
<1> HIDE DEF before, signed
<1>4. attestations' = [hash |-> before.hash, list |-> Append(before.list, signed)]
  BY <1>2, <1>3
<1>5. Append(before.list, signed) \in Seq(Attested)
  BY <1>1, <1>2
<1> QED
  BY <1>4, <1>5 DEF AttestationsInv

LEMMA PublishStep ==
  ASSUME AuditInv, NEW key, Publish(key)
  PROVE  PublishedInv'
<1>1. PICK hash \in Inputs, status \in {"active", "revoked"} :
        transparency' = [hash |-> hash, status |-> status, created |-> day, state |-> inputs,
                         policySig |-> policySig, bundle |-> bundle]
  BY DEF Publish
<1>2. transparency' # Missing /\ transparency'.bundle = bundle
  <2>1. DOMAIN transparency' = {"hash", "status", "created", "state", "policySig", "bundle"}
    BY <1>1
  <2>2. DOMAIN Missing = {"missing"}
    BY DEF Missing
  <2> QED
    BY <1>1, <2>1, <2>2
<1>3. ASSUME published'
      PROVE  Complete(bundle) /\ Trusts(bundle.files[1], bundle.files[2])
  <2>1. PolicyVerifies /\ BundleVerifies(key) /\ bundle # Missing
    BY <1>3 DEF Publish
  <2> QED
    BY <2>1, BundleFiles, VerifiesIsTrusts DEF AuditInv, BundleInv
<1> QED
  BY <1>2, <1>3 DEF PublishedInv

(* AuditInv holds in every reachable state.                                *)
THEOREM AuditInvariance == Spec => []AuditInv
<1>1. Init => AuditInv
  BY DEF Init, AuditInv, ArchiveInv, AttestationsInv, BundleInv, PublishedInv
<1>2. ASSUME AuditInv, [Next]_vars PROVE AuditInv'
  <2> USE DEF packetVars, trustVars
  <2>1. CASE UNCHANGED vars \/ NextDay
    BY <1>2, <2>1 DEF vars, NextDay, AuditInv, ArchiveInv, AttestationsInv, BundleInv, PublishedInv
  <2>2. CASE Script
    <3>1. CASE EditInputs
      BY <1>2, <3>1 DEF EditInputs, AuditInv, ArchiveInv, AttestationsInv, BundleInv, PublishedInv
    <3>2. CASE EditPolicy
      BY <1>2, <3>2 DEF EditPolicy, AuditInv, ArchiveInv, AttestationsInv, BundleInv, PublishedInv
    <3>3. CASE RemoveAttestations
      BY <1>2, <3>3 DEF RemoveAttestations, AuditInv, ArchiveInv, AttestationsInv, BundleInv, PublishedInv
    <3>4. ASSUME NEW commit \in Commit, BuildPacket(commit) PROVE AuditInv'
      BY <1>2, <3>4 DEF BuildPacket, Packet, AuditInv, ArchiveInv, AttestationsInv, BundleInv, PublishedInv
    <3>5. ASSUME NEW hash \in Inputs, NEW signer \in Signer, NEW key \in Key,
                 AppendAttestation(hash, signer, key)
          PROVE  AuditInv'
      <4>1. AttestationsInv'
        BY <1>2, <3>5, AppendStep
      <4>2. UNCHANGED <<inputs, archive, signature, policy, policySig, bundle, transparency, published>>
        BY <3>5 DEF AppendAttestation
      <4> QED
        BY <1>2, <4>1, <4>2 DEF AuditInv, ArchiveInv, BundleInv, PublishedInv
    <3>6. ASSUME NEW key \in Key, SignPacket(key) \/ SignPolicy(key) PROVE AuditInv'
      BY <1>2, <3>6 DEF SignPacket, SignPolicy, AuditInv, ArchiveInv, AttestationsInv, BundleInv, PublishedInv
    <3>7. ASSUME NEW key \in Key, Publish(key) PROVE AuditInv'
      <4>1. PublishedInv'
        BY <1>2, <3>7, PublishStep
      <4>2. UNCHANGED <<archive, attestations, policy, bundle>>
        BY <3>7 DEF Publish
      <4> QED
        BY <1>2, <4>1, <4>2 DEF AuditInv, ArchiveInv, AttestationsInv, BundleInv
    <3>8. CASE BuildBundle
      <4>1. bundle'.files[1] = attestations /\ bundle'.files[2] = policy /\ attestations # Missing
        BY <3>8 DEF BuildBundle, Files
      <4>2. BundleInv'
        BY <1>2, <4>1, PolicyIsThere DEF AuditInv, BundleInv, Complete
      <4>3. UNCHANGED <<archive, attestations, policy, transparency, published>>
        BY <3>8 DEF BuildBundle
      <4> QED
        BY <1>2, <4>2, <4>3 DEF AuditInv, ArchiveInv, AttestationsInv, PublishedInv
    <3> QED
      BY <2>2, <3>1, <3>2, <3>3, <3>4, <3>5, <3>6, <3>7, <3>8 DEF Script
  <2> QED
    BY <1>2, <2>1, <2>2 DEF Next
<1> QED
  BY <1>1, <1>2, PTL DEF Spec

-----------------------------------------------------------------------------
(* A build is reproduced by another exactly when it had the same inputs,   *)
(* whatever the repository's commit, and the signature fits all of these.  *)
THEOREM PacketsAreInputs == Spec => []PacketIsItsInputs
<1>1. ASSUME AuditInv PROVE PacketIsItsInputs
  <2> SUFFICES ASSUME archive # Missing, NEW commit \in Commit
               PROVE  /\ Reproduces(archive, Packet(inputs, commit)) <=> archive.inputs = inputs
                      /\ archive.inputs = inputs =>
                           \A key \in Key : SignatureVerifies(archive, key)
                                              <=> SignatureVerifies(Packet(inputs, commit), key)
    BY DEF PacketIsItsInputs
  <2> DEFINE p == Packet(inputs, commit)
  <2>1. p # Missing
    <3>1. DOMAIN p = {"inputs", "commit", "manifest", "integrity"}
      BY DEF Packet
    <3>2. DOMAIN Missing = {"missing"}
      BY DEF Missing
    <3> QED
      BY <3>1, <3>2
  <2>2. archive.manifest = archive.inputs /\ archive.integrity = archive.inputs
    BY <1>1 DEF AuditInv, ArchiveInv, Packet, Manifest
  <2>3. p.manifest = inputs /\ p.integrity = inputs /\ p.inputs = inputs
    BY DEF Packet, Manifest
  <2> HIDE DEF p
  <2>4. Reproduces(archive, p) <=> archive.inputs = inputs
    BY <2>1, <2>2, <2>3 DEF Reproduces, Replays, ManifestHolds, Manifest
  <2>5. ASSUME archive.inputs = inputs, NEW key \in Key
        PROVE  SignatureVerifies(archive, key) <=> SignatureVerifies(p, key)
    BY <2>1, <2>2, <2>3, <2>5 DEF SignatureVerifies, ManifestHolds, Manifest
  <2> QED
    BY <2>4, <2>5 DEF p
<1> QED
  BY <1>1, AuditInvariance, PTL

(* Policy, bundle and archive verified together mean that the auditors the *)
(* signed policy asks for signed these inputs with the keys it names.      *)
THEOREM AcceptedIsAttested == Spec => []AcceptedPacketIsAttested
<1>1. ASSUME AuditInv PROVE AcceptedPacketIsAttested
  <2> SUFFICES ASSUME NEW key \in Key, Replays(archive), PolicyVerifies, BundleVerifies(key),
                      policy.hash = archive.manifest
               PROVE  \E S \in SUBSET DOMAIN policySig.policy.key :
                        /\ Cardinality(S) >= policySig.policy.threshold
                        /\ policySig.policy.required \subseteq S
                        /\ \A s \in S : \E att \in ToSet(attestations.list) :
                             att = [hash |-> archive.inputs, signer |-> s,
                                    key |-> policySig.policy.key[s]]
    BY DEF AcceptedPacketIsAttested
  <2>1. policySig.policy = policy
    BY DEF BundleVerifies
  <2>2. policy.hash = archive.inputs
    BY DEF Replays, ManifestHolds, Manifest
  <2>3. VerifiedSigners \in SUBSET DOMAIN policy.key
    BY DEF VerifiedSigners, Counts
  <2>4. ASSUME NEW att \in ToSet(attestations.list) PROVE att \in Attested
    BY <1>1, <2>4 DEF AuditInv, AttestationsInv, PolicyVerifies, ToSet
  <2>5. ASSUME NEW s \in VerifiedSigners
        PROVE  \E att \in ToSet(attestations.list) :
                 att = [hash |-> archive.inputs, signer |-> s, key |-> policy.key[s]]
    <3>1. PICK att \in ToSet(attestations.list) : att.signer = s /\ Counts(att)
      BY DEF VerifiedSigners
    <3>2. att = [hash |-> att.hash, signer |-> att.signer, key |-> att.key]
      BY <2>4 DEF Attested
    <3> QED
      BY <2>2, <3>1, <3>2 DEF Counts
  <2> QED
    BY <2>1, <2>3, <2>5 DEF PolicyVerifies
<1> QED
  BY <1>1, AuditInvariance, PTL

(* A fresh manifest and a verified bundle stand for the trust there was    *)
(* when they were published, whatever was replaced in between.             *)
THEOREM PublicationsStand == Spec => []PublicationStands
<1>1. ASSUME AuditInv PROVE PublicationStands
  <2> SUFFICES ASSUME NEW hash \in Inputs, NEW key \in Key,
                      published, Fresh(hash), BundleVerifies(key)
               PROVE  PolicyVerifies
    BY DEF PublicationStands
  <2>1. bundle # Missing /\ bundle = transparency.bundle
    BY DEF BundleVerifies, Fresh, Pinned
  <2>2. Trusts(bundle.files[1], bundle.files[2]) /\ bundle.files[1] # Missing
    BY <1>1, <2>1 DEF AuditInv, PublishedInv, BundleInv, Complete
  <2>3. bundle.files[1] = attestations /\ bundle.files[2] = policy
    BY <1>1, BundleFiles
  <2> QED
    BY <2>2, <2>3, VerifiesIsTrusts
<1> QED
  BY <1>1, AuditInvariance, PTL

-----------------------------------------------------------------------------
\* An attestation more takes no signer away.
LEMMA SignersGrow ==
  ASSUME AuditInv, attestations # Missing, NEW hash \in Inputs, NEW signer \in Signer, NEW key \in Key,
         AppendAttestation(hash, signer, key)
  PROVE  /\ attestations'.hash = attestations.hash
         /\ SignersOf(attestations, policy) \subseteq SignersOf(attestations', policy)
         /\ SignersOf(attestations', policy) \subseteq Signer
<1> DEFINE signed == [hash |-> hash, signer |-> signer, key |-> key]
           list == attestations.list
<1>1. list \in Seq(Attested) /\ attestations = [hash |-> attestations.hash, list |-> list]
  BY DEF AuditInv, AttestationsInv
<1>2. attestations' = [attestations EXCEPT !.list = Append(list, signed)]
  BY DEF AppendAttestation
<1>3. attestations'.list = Append(list, signed) /\ attestations'.hash = attestations.hash
  BY <1>1, <1>2
<1>4. signed \in Attested
  BY DEF Attested
<1> HIDE DEF list, signed
<1>5. ToSet(Append(list, signed)) = ToSet(list) \cup {signed}
  <2>1. \A i \in DOMAIN list : i \in DOMAIN Append(list, signed) /\ Append(list, signed)[i] = list[i]
    BY <1>1, <1>4
  <2>2. Len(list) + 1 \in DOMAIN Append(list, signed) /\ Append(list, signed)[Len(list) + 1] = signed
    BY <1>1, <1>4
  <2>3. \A i \in DOMAIN Append(list, signed) : i \in DOMAIN list \/ i = Len(list) + 1
    BY <1>1, <1>4
  <2> QED
    BY <2>1, <2>2, <2>3 DEF ToSet
<1>6. ToSet(list) \subseteq Attested
  BY <1>1 DEF ToSet
<1>7. SignersOf(attestations, policy) \subseteq SignersOf(attestations', policy)
  BY <1>3, <1>5 DEF SignersOf, list
<1>8. SignersOf(attestations', policy) \subseteq Signer
  BY <1>3, <1>4, <1>5, <1>6 DEF SignersOf, Attested
<1> QED
  BY <1>3, <1>7, <1>8

(* A late attestation leaves a trusted packet trusted, and the bundle      *)
(* that does not have it no longer verifies.                               *)
THEOREM LateIsNoticed == Spec => LateAttestation
<1> DEFINE Noticed ==
      \A key \in Key :
        /\ PolicyVerifies /\ BundleVerifies(key)
        /\ policy' = policy /\ attestations' # Missing /\ attestations' # attestations
        => PolicyVerifies' /\ ~ BundleVerifies(key)'
<1>1. ASSUME AuditInv, AuditInv', [Next]_vars PROVE [Noticed]_vars
  <2> SUFFICES ASSUME Next, NEW key \in Key, PolicyVerifies, BundleVerifies(key),
                      policy' = policy, attestations' # Missing, attestations' # attestations
               PROVE  PolicyVerifies' /\ ~ BundleVerifies(key)'
    BY <1>1
  <2>1. PICK hash \in Inputs, signer \in Signer, k \in Key : AppendAttestation(hash, signer, k)
    BY DEF Next, NextDay, Script, EditInputs, EditPolicy, RemoveAttestations, BuildPacket, SignPacket,
           SignPolicy, Publish, BuildBundle, packetVars, trustVars
  <2>2. attestations # Missing /\ Trusts(attestations, policy)
    BY VerifiesIsTrusts
  <2> DEFINE now == SignersOf(attestations, policy)
             then == SignersOf(attestations', policy)
  <2>3. attestations'.hash = attestations.hash /\ now \subseteq then /\ then \subseteq Signer
    BY <1>1, <2>1, <2>2, SignersGrow
  <2>4. IsFiniteSet(then) /\ Cardinality(now) <= Cardinality(then)
        /\ Cardinality(now) \in Nat /\ Cardinality(then) \in Nat
    <3>1. IsFiniteSet(then)
      BY <2>3, AuditAssumption, FS_Subset
    <3>2. IsFiniteSet(now) /\ Cardinality(now) <= Cardinality(then)
      BY <2>3, <3>1, FS_Subset
    <3> QED
      BY <3>1, <3>2, FS_CardinalityType
  <2>5. policy.threshold \in Nat
    BY <1>1, AuditAssumption DEF AuditInv, PolicyType
  <2>6. Trusts(attestations', policy)
    BY <2>2, <2>3, <2>4, <2>5 DEF Trusts
  <2>7. PolicyVerifies'
    <3>1. VerifiedSigners' = SignersOf(attestations', policy)
      BY DEF VerifiedSigners, SignersOf, Counts
    <3> QED
      BY <2>6, <3>1 DEF PolicyVerifies, Trusts
  <2>8. bundle' = bundle
    BY <2>1 DEF AppendAttestation
  <2>9. bundle.files[1] = attestations
    BY <1>1, BundleFiles
  <2>10. ~ BundleVerifies(key)'
    BY <2>2, <2>8, <2>9 DEF BundleVerifies, Files
  <2> QED
    BY <2>7, <2>10
<1> QED
  BY <1>1, AuditInvariance, PTL DEF Spec, LateAttestation

=============================================================================
