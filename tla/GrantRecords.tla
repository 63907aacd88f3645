----------------------------- MODULE GrantRecords -----------------------------
(***************************************************************************)
(* The records of grants in manifests/grants: a manifest for every grant   *)
(* created or revoked, written before the transaction is sent; the ledger  *)
(* (index.json) rebuilt from all JSON files of the directory; the registry *)
(* of the ledger's grants; its Merkle root with proofs; its attestation.   *)
(*                                                                         *)
(* Hashes are what they are hashes of, times are left out.  A manifest's   *)
(* id is the hash of its payload, createdAt included: each run of a script *)
(* has a new one, in no particular order.                                  *)
(***************************************************************************)
EXTENDS MerkleTree

CONSTANTS
  Id,        \* ids of manifests, ordered as localeCompare orders them
  Employee,
  Terms,     \* terms of a grant
  Form,      \* forms of revocation manifests in use, see Revocation
  Before     \* ids of manifests in the directory from the start

\* Ids are hashes of 256 bits.
ASSUME RecordsAssumption ==
  /\ Id \subseteq Nat /\ IsFiniteSet(Id)
  /\ Form \subseteq {"payload", "flat"} /\ Before \subseteq Id

VARIABLES
  granted,      \* VestingContract: the terms of each employee's grant
  restricted,   \* IdentityRegistry: employees whose status is 2
  pending,      \* ids of manifests whose createGrant has been sent
  manifests,    \* <id>.json
  ledger,       \* index.json
  registry,     \* registry.json
  root,         \* merkle-root.json
  proof,        \* a proof, kept elsewhere
  attestation   \* registry-attestation.json

chainVars == <<granted, restricted, pending>>
vars == <<chainVars, manifests, ledger, registry, root, proof, attestation>>

Missing == [missing |-> TRUE]

Init ==
  /\ granted = [e \in Employee |-> Missing]
  /\ restricted = {} /\ pending = {}
  /\ manifests \in [Id -> {Missing} \cup [op : {"create"}, employee : Employee, terms : Terms]]
  /\ \A i \in Id : manifests[i] # Missing <=> i \in Before
  /\ ledger = Missing /\ registry = Missing /\ root = Missing
  /\ proof = Missing /\ attestation = Missing

-----------------------------------------------------------------------------
(* create-grant and revoke-grant.                                          *)

Derived == UNCHANGED <<ledger, registry, root, proof, attestation>>

Creation(employee, terms) == [op |-> "create", employee |-> employee, terms |-> terms]

\* The revocation of the scripts states op and grantId in its payload, one
\* written by hand may state them at the top level.
Revocation(employee, grant, form) ==
  [op |-> "revoke", employee |-> employee, grant |-> grant, form |-> form]

\* Mutant: the transaction is sent first, and the script dies.
CreateGrantSendFirst(id, employee, terms) ==
  /\ manifests[id] = Missing
  /\ granted[employee] = Missing
  /\ granted' = [granted EXCEPT ![employee] = terms]
  /\ UNCHANGED <<restricted, pending, manifests>> /\ Derived

(* Sent unless --no-send is given, the simulation reverts or the script    *)
(* dies after the manifest is written.                                     *)
CreateGrant(id, employee, terms) ==
  /\ manifests[id] = Missing
  /\ manifests' = [manifests EXCEPT ![id] = Creation(employee, terms)]
  /\ \/ UNCHANGED pending
     \/ granted[employee] = Missing /\ pending' = pending \cup {id}
  /\ UNCHANGED <<granted, restricted>> /\ Derived

\* setStatus to 2, which leaves the grant as it is.
RevokeGrant(id, employee, grant, form) ==
  /\ manifests[id] = Missing
  /\ manifests' = [manifests EXCEPT ![id] = Revocation(employee, grant, form)]
  /\ \/ UNCHANGED restricted
     \/ form = "payload" /\ restricted' = restricted \cup {employee}
  /\ UNCHANGED <<granted, pending>> /\ Derived

\* createGrant reverts when there is a grant by then.
Mine(id) ==
  /\ id \in pending /\ pending' = pending \ {id}
  /\ LET m == manifests[id] IN
       granted' = IF granted[m.employee] = Missing
                  THEN [granted EXCEPT ![m.employee] = m.terms] ELSE granted
  /\ UNCHANGED <<restricted, manifests>> /\ Derived

-----------------------------------------------------------------------------
(* update-ledger and validate-ledger scan all JSON files but index.json.   *)

Written == {i \in Id : manifests[i] # Missing}

\* detectKind looks at the top level, where a script's manifest has none.
IsRevoke(m) == m.op = "revoke" /\ m.form = "flat"

Creates == {i \in Written : ~ IsRevoke(manifests[i])}
RevokesOf(i) == {r \in Written \ Creates : manifests[r].grant = i}

Entry(i) ==
  [create |-> manifests[i], revokes |-> RevokesOf(i),
   revoke |-> IF RevokesOf(i) = {} THEN 0 ELSE Min(RevokesOf(i)),
   status |-> IF RevokesOf(i) = {} THEN "ACTIVE" ELSE "REVOKED"]

\* The artifacts of the scripts below lie in the same directory and are taken
\* for grants, with the hash of the file for an id.
Strays(aside) ==
  IF aside THEN {} ELSE {f \in {registry, root, attestation} : f # Missing}

LedgerOf(aside) ==
  [grants |-> [i \in Creates |-> Entry(i)], strays |-> Strays(aside)]

RevokesAssociated == \A r \in Written \ Creates : manifests[r].grant \in Creates

\* aside: the artifacts were moved away for the run.
UpdateLedger(aside) ==
  /\ Written # {} /\ RevokesAssociated
  /\ ledger' = LedgerOf(aside)
  /\ UNCHANGED <<chainVars, manifests, registry, root, proof, attestation>>

LedgerValidates(aside) ==
  ledger # Missing /\ Written # {} /\ RevokesAssociated /\ ledger = LedgerOf(aside)

-----------------------------------------------------------------------------
(* build-registry.  It stops when a ledger entry has no <grantId>.json,    *)
(* which a stray never has.  The terms of a revocation are zeros.          *)

RowTerms(m) == IF m.op = "create" THEN m.terms ELSE "zeros"

\* Mutant: the status is looked up when the registry is built.
RowStatusNow(i) ==
  [grantId |-> i, beneficiary |-> manifests[i].employee, terms |-> RowTerms(manifests[i]),
   status |-> IF RevokesOf(i) = {} THEN "active" ELSE "revoked"]

Row(i) ==
  [grantId |-> i, beneficiary |-> manifests[i].employee, terms |-> RowTerms(manifests[i]),
   status |-> IF ledger.grants[i].status = "ACTIVE" THEN "active" ELSE "revoked"]

\* The ledger's grants sorted by grantId.
InOrder(ids) ==
  CHOOSE s \in [1 .. Cardinality(ids) -> ids] : \A i, j \in DOMAIN s : i < j => s[i] < s[j]

BuildRegistry ==
  /\ ledger # Missing /\ ledger.strays = {}
  /\ registry' = [ledger |-> ledger,
                  grants |-> LET ids == InOrder(DOMAIN ledger.grants)
                             IN  [n \in DOMAIN ids |-> Row(ids[n])]]
  /\ UNCHANGED <<chainVars, manifests, ledger, root, proof, attestation>>

-----------------------------------------------------------------------------
(* build-merkle-root, with --grantId of the n-th grant or without.         *)

LeavesOf(r) == [n \in DOMAIN r.grants |-> Leaf(r.grants[n])]

BuildProof(r, n) ==
  [root |-> MerkleRoot(LeavesOf(r)), grantId |-> r.grants[n].grantId, leaf |-> r.grants[n],
   path |-> Path(LeavesOf(r), n)]

BuildMerkleRoot ==
  /\ registry # Missing /\ registry.grants # <<>>
  /\ root' = [registry |-> registry, root |-> MerkleRoot(LeavesOf(registry))]
  /\ \/ UNCHANGED proof
     \/ \E n \in DOMAIN registry.grants : proof' = BuildProof(registry, n)
  /\ UNCHANGED <<chainVars, manifests, ledger, registry, attestation>>

\* Mutant: the proof is held against its own root only.
ProofVerifiesAgainstItself(p) ==
  root # Missing /\ p # Missing /\ Climb(Leaf(p.leaf), p.path) = p.root

\* verify-grant-proof: neither grantId nor registry of the proof is compared.
ProofVerifies(p) ==
  /\ root # Missing /\ p # Missing
  /\ p.root = root.root
  /\ Climb(Leaf(p.leaf), p.path) = root.root

\* build-registry-attestation signs the registry; root and block are given
\* beside it.  Whether the root is the registry's is not looked at.
Attest ==
  /\ registry # Missing /\ root # Missing
  /\ attestation' = [registry |-> registry, root |-> root.root]
  /\ UNCHANGED <<chainVars, manifests, ledger, registry, root, proof>>

AttestationVerifies ==
  /\ attestation # Missing /\ registry # Missing /\ root # Missing
  /\ attestation.registry = registry /\ attestation.root = root.root

-----------------------------------------------------------------------------
RecordsNext ==
  \/ \E id \in Id, employee \in Employee :
       \/ \E terms \in Terms : CreateGrant(id, employee, terms)
       \/ \E grant \in Creates, form \in Form : RevokeGrant(id, employee, grant, form)
  \/ \E id \in pending : Mine(id)
  \/ \E aside \in BOOLEAN : UpdateLedger(aside)
  \/ BuildRegistry

ProofsNext == BuildMerkleRoot \/ Attest

Next == RecordsNext \/ ProofsNext

Spec == Init /\ [][Next]_vars

-----------------------------------------------------------------------------
(* Every grant on the chain and every restriction is on record whenever    *)
(* the ledger validates, with the employee and the terms the chain has:    *)
(* wherever a script stopped, whatever was sent twice or reverted.         *)
ChainIsOnRecord ==
  \A aside \in BOOLEAN : LedgerValidates(aside) =>
    /\ \A e \in Employee : granted[e] # Missing =>
         \E i \in DOMAIN ledger.grants : ledger.grants[i].create = Creation(e, granted[e])
    /\ \A e \in restricted : \E i \in Written : manifests[i].op = "revoke" /\ manifests[i].employee = e

(* A verified attestation and a verified proof mean that the attested      *)
(* registry lists the grant as proven, with the status its ledger gave it, *)
(* once one compares what neither script does: that the root was built     *)
(* from this registry and not from an older one.                           *)
ProvenGrantIsAttested ==
  AttestationVerifies /\ ProofVerifies(proof) /\ root.registry = registry =>
    \E n \in DOMAIN attestation.registry.grants : attestation.registry.grants[n] = proof.leaf

(* Every grant of the registry the root was built from can be proven, the  *)
(* last of an odd number included, and under its own grantId.              *)
EveryGrantCanBeProven ==
  root # Missing =>
    \A n \in DOMAIN root.registry.grants :
      LET p == BuildProof(root.registry, n) IN
      ProofVerifies(p) /\ p.leaf.grantId = p.grantId

(* Proofs and registry: what can be proven was attested, and everything    *)
(* the root was built from can be proven.                                  *)
ProofsFollowRegistry == ProvenGrantIsAttested /\ EveryGrantCanBeProven

(* What a registry row says is what the manifest of its id says, and two   *)
(* registries of one ledger have the same rows whenever they are built.    *)
RegistryFollowsLedger ==
  [][registry # Missing /\ registry' # Missing /\ registry'.ledger = registry.ledger
     => registry'.grants = registry.grants]_vars

(* The ledger knows two states and attaches revocations to grants ("Attach *)
(* revokes: try to map by grantId in revoke manifest"): in a ledger that   *)
(* validates, a grant that a script revoked is not active.                 *)
RevokedIsNotActive ==
  \A aside \in BOOLEAN : LedgerValidates(aside) =>
    \A r \in Written : manifests[r].op = "revoke" /\ manifests[r].grant \in DOMAIN ledger.grants =>
      ledger.grants[manifests[r].grant].status = "REVOKED"
=============================================================================
