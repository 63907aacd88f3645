---------------------------- MODULE TransparencyLog ----------------------------
(***************************************************************************)
(* The scripts around the transparency log as processes on one directory.  *)
(* A run reads the whole log file, computes, and writes the whole file; no *)
(* lock is taken.  fs.writeFileSync truncates and writes, so a process     *)
(* that dies inside it leaves a file no JSON parser accepts.               *)
(***************************************************************************)
EXTENDS LogDirectory, FiniteSetsExt

CONSTANT Practice   \* ways to use the log: which scripts, how many runs at a time

AllScripts == {"generic", "repair", "lifecycle", "replay", "checkpoint", "proof"}

ASSUME LogAssumption ==
  /\ Practice \subseteq [scripts : SUBSET AllScripts, running : Nat]
  /\ MaxEntries \in Nat

\* log is the last complete content of a file that is torn; checkpoint is
\* NoCheckpoint before it is written.
VARIABLES
  practice,     \* the one in use
  disk,         \* the log file: "absent", "json" or "torn"
  proof,        \* the consistency proof file, NoProof before it is written
  run           \* what each process is doing, and the log it has read

vars == <<practice, disk, log, checkpoint, proof, run>>

NoCheckpoint == BuildCheckpoint(EmptyLog)
NoProof      == [oldSize |-> 0]
Idle         == [script |-> "none"]

Init ==
  /\ practice \in Practice
  /\ disk = "absent" /\ log = EmptyLog
  /\ checkpoint = NoCheckpoint /\ proof = NoProof
  /\ run = [p \in Process |-> Idle]

-----------------------------------------------------------------------------
Running == {p \in Process : run[p] # Idle}

Writers == {"generic", "repair", "lifecycle", "replay"}

\* Mutant: a file that cannot be parsed is taken for a new log.
ReadTornAsEmpty(p) ==
  /\ run[p] = Idle /\ Cardinality(Running) < practice.running
  /\ \E s \in practice.scripts, a \in Artifact :
       /\ s \notin {"generic", "repair", "replay"} => disk = "json"
       /\ s \in {"generic", "lifecycle", "replay"} => Len(log.entries) < MaxEntries
       /\ run' = [run EXCEPT ![p] = [script |-> s, artifact |-> a,
                                     read |-> IF disk = "torn" THEN EmptyLog ELSE log]]
  /\ UNCHANGED <<disk, log, checkpoint, proof>>

(* A run starts and reads the log.  JSON.parse throws on a torn file; the  *)
(* lifecycle writer and the builders require that the log exists.          *)
Read(p) ==
  /\ run[p] = Idle /\ Cardinality(Running) < practice.running
  /\ disk # "torn"
  /\ \E s \in practice.scripts, a \in Artifact :
       /\ s \notin {"generic", "repair", "replay"} => disk = "json"
       /\ s \in {"generic", "lifecycle", "replay"} => Len(log.entries) < MaxEntries
       /\ run' = [run EXCEPT ![p] = [script |-> s, artifact |-> a, read |-> log]]
  /\ UNCHANGED <<disk, log, checkpoint, proof>>

Written(r) ==
  CASE r.script = "generic"   -> AppendGeneric(r.read, r.artifact)
    [] r.script = "repair"    -> RepairOnly(r.read)
    [] r.script = "lifecycle" -> AppendLifecycle(r.read, r.artifact)
    [] r.script = "replay"    -> AppendReplay(r.read, r.artifact)

\* Mutant: the replay writer writes its checkpoint first.
WriteCheckpointFirst(p) ==
  /\ run[p].script \in Writers
  /\ IF run[p].script = "replay"
     THEN /\ checkpoint' = ReplayCheckpoint(Written(run[p]))
          /\ run' = [run EXCEPT ![p].script = "generic"]
          /\ UNCHANGED <<disk, log>>
     ELSE /\ log' = Written(run[p]) /\ disk' = "json"
          /\ run' = [run EXCEPT ![p] = Idle]
          /\ UNCHANGED checkpoint
  /\ UNCHANGED proof

\* writeJson of the log; the replay writer goes on to its checkpoint.
WriteLog(p) ==
  /\ run[p].script \in Writers
  /\ log' = Written(run[p]) /\ disk' = "json"
  /\ run' = [run EXCEPT ![p] = IF @.script = "replay"
                               THEN [script |-> "replayed", read |-> Written(@)] ELSE Idle]
  /\ UNCHANGED <<checkpoint, proof>>

WriteCheckpoint(p) ==
  /\ run[p].script \in {"checkpoint", "replayed"}
  /\ checkpoint' = IF run[p].script = "checkpoint" THEN BuildCheckpoint(run[p].read)
                                                   ELSE ReplayCheckpoint(run[p].read)
  /\ run' = [run EXCEPT ![p] = Idle]
  /\ UNCHANGED <<disk, log, proof>>

\* --old-size and --new-size may be any pair the script accepts.
WriteProof(p) ==
  /\ run[p].script = "proof"
  /\ \E new \in 1 .. run[p].read.count : \E old \in 1 .. new :
       proof' = BuildProof(run[p].read, old, new)
  /\ run' = [run EXCEPT ![p] = Idle]
  /\ UNCHANGED <<disk, log, checkpoint>>

\* The process dies before it writes, or while it writes the log.
Die(p) ==
  /\ run[p] # Idle
  /\ disk' \in IF run[p].script \in Writers THEN {disk, "torn"} ELSE {disk}
  /\ run' = [run EXCEPT ![p] = Idle]
  /\ UNCHANGED <<log, checkpoint, proof>>

Next ==
  /\ \E p \in Process : Read(p) \/ WriteLog(p) \/ WriteCheckpoint(p) \/ WriteProof(p) \/ Die(p)
  /\ UNCHANGED practice

Spec == Init /\ [][Next]_vars

-----------------------------------------------------------------------------
\* A log that is counted and numbered, whoever wrote it.
WellFormed(l) ==
  /\ l.count = Len(l.entries)
  /\ l.head = HeadHash(l.entries)
  /\ \A i \in DOMAIN l.entries : l.entries[i].index = i - 1 /\ l.entries[i].artifact \in Artifact

OneAtATime == practice.running = 1

(* Every log on disk or in the memory of a run is counted and numbered,    *)
(* whichever writers have touched it, one at a time or at once.            *)
TypeOK ==
  /\ disk \in {"absent", "json", "torn"}
  /\ WellFormed(log)
  /\ checkpoint.count \in 0 .. MaxEntries
  /\ \A p \in Running : run[p].script \in practice.scripts \cup {"replayed"} /\ WellFormed(run[p].read)

(* The generic writer and the verifier use one formula for hashes and      *)
(* roots, the lifecycle and the replay writer each another.                *)
OneFormula(l) == \A i \in DOMAIN l.entries : l.entries[i].kind = Generic

(* Whatever the writers read and however their writes interleave, the      *)
(* verifier accepts a file of generic entries: each was rebuilt as a whole.*)
FileVerifies == OneFormula(log) => LogVerifies(log)

(* README.md calls the log append-only.  It is, one run at a time, as long *)
(* as nothing but generic entries is in it: rebuilding all entries gives   *)
(* each older one its position, hash and cumulative root again.            *)
GenericAppendOnly == [][OneAtATime /\ OneFormula(log') => IsPrefix(log.entries, log'.entries)]_vars

(* No writer, and no crash of one, drops, replaces or reorders what the    *)
(* log is about, even when the hashes are computed anew, one run at a time *)
(* (of two at once the later loses what the earlier appended).             *)
Subjects(l) == [i \in DOMAIN l.entries |-> <<l.entries[i].kind, l.entries[i].artifact>>]

SubjectsKept == [][OneAtATime => IsPrefix(Subjects(log), Subjects(log'))]_vars

(* Appending the same lifecycle event again adds no entry: at most one     *)
(* entry per event, also when two runs append it at the same time.         *)
LifecycleOnce ==
  \A i, j \in DOMAIN log.entries : \A a \in Artifact :
    IsLifecycleOf(log.entries[i], a) /\ IsLifecycleOf(log.entries[j], a) => i = j

(* The file, whoever wrote it last: counted and numbered, each lifecycle   *)
(* event in it once, accepted by verify-transparency-log.mjs.              *)
FileIsSound == TypeOK /\ LifecycleOnce /\ FileVerifies

(* A checkpoint commits to a prefix of the log for ever: the cumulative    *)
(* root of its last entry is still the checkpoint's root.                  *)
CheckpointIsPrefix ==
  OneAtATime /\ OneFormula(log) /\ checkpoint.count > 0 =>
    /\ checkpoint.count <= log.count
    /\ log.entries[checkpoint.count].hash = checkpoint.head
    /\ log.entries[checkpoint.count].cumulative = checkpoint.root

(* A consistency proof, once built, verifies against every later log.      *)
ProofStaysValid ==
  OneAtATime /\ OneFormula(log) /\ proof # NoProof => ProofVerifies(proof, log)

(* A checkpoint never counts entries that are not in the log, although the *)
(* replay writer writes the two files one after the other and may die      *)
(* between them.                                                           *)
CheckpointNotAhead == OneAtATime => checkpoint.count <= log.count

(* What was said of the log stays true of it: a checkpoint speaks of what  *)
(* is there and of a prefix of it, a proof once built goes on verifying.   *)
CommitmentsStand == CheckpointNotAhead /\ CheckpointIsPrefix /\ ProofStaysValid

(* Append-only: entries of the generic writer as a whole, those of the     *)
(* other writers in what they are about.                                   *)
AppendOnly == GenericAppendOnly /\ SubjectsKept

=============================================================================
