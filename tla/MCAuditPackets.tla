---------------------------- MODULE MCAuditPackets ----------------------------
(* Small instances of AuditPackets.                                        *)
EXTENDS AuditPackets, TLC

\* Both auditors, one of them required; or the second alone, for either packet.
Policies ==
  {[hash |-> h, key |-> [s \in {"a1", "a2"} |-> IF s = "a1" THEN "k1" ELSE "k2"],
    required |-> {"a1"}, threshold |-> 2] : h \in Inputs}
  \cup
  {[hash |-> h, key |-> [s \in {"a2"} |-> "k1"], required |-> {}, threshold |-> 1] : h \in Inputs}

Symmetry == Permutations(Inputs) \cup Permutations(Commit)
=============================================================================
