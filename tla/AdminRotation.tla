---------------------------- MODULE AdminRotation ----------------------------
(***************************************************************************)
(* rotate-protocol-admins-to-safe.js, which hands registry, token, vesting *)
(* contract and composite over to the Safe, one setAdmin after the other,  *)
(* and the scripts that do so for one contract: here with the set-stack    *)
(* script at work under the same key.  The nonces of the two interleave in *)
(* any order, so each has a mempool of its own.                            *)
(***************************************************************************)
EXTENDS SetStackScript

CONSTANTS
  Safe,              \* SAFE
  Rotations,         \* lists of contracts that a script may rotate
  Tokens,            \* whether TOKEN is one with setAdmin: EquityToken is, EquityTokenV2 is not
  MaxRotationCrashes \* bound on the crashes of the rotation

Rotated == {"registry", "token", "vesting", "composite"}

ASSUME RotationAssumption ==
  /\ Safe \in Account \ {Deployer, ZeroAddress}
  /\ Rotations \subseteq {l \in Seq(Rotated) : IsInjective(l)} /\ Tokens \subseteq BOOLEAN
  /\ MaxRotationCrashes \in Nat

VARIABLES
  admins,      \* admin() of registry, token and vesting
  tokenMoves,  \* one of Tokens
  list,        \* one of Rotations
  rotating,    \* the position in list, and what rotateOne is doing there
  pool,        \* broadcast setAdmin transactions: the contracts
  rotationCrashes

rotationVars == <<admins, tokenMoves, list, rotating, pool, rotationCrashes>>
allVars == <<vars, rotationVars>>

RotationInit ==
  /\ Init
  /\ admins = [c \in Rotated \ {"composite"} |-> Deployer]
  /\ tokenMoves \in Tokens /\ list \in Rotations
  /\ rotating = [at |-> 1, step |-> "before"]
  /\ pool = <<>> /\ rotationCrashes = 0

-----------------------------------------------------------------------------
AdminOf(c) == IF c = "composite" THEN compositeAdmin ELSE admins[c]

SetAdminSucceeds(c) == AdminOf(c) = Deployer /\ (c = "token" => tokenMoves)

MineSetAdmin ==
  /\ pool # <<>> /\ pool' = Tail(pool)
  /\ LET c == Head(pool) IN
       IF ~ SetAdminSucceeds(c) THEN UNCHANGED <<stackVars, admins>>
       ELSE IF c = "composite" THEN CompositeSetAdmin(Deployer, Safe) /\ UNCHANGED admins
       ELSE admins' = [admins EXCEPT ![c] = Safe] /\ UNCHANGED stackVars
  /\ UNCHANGED <<script, mempool, receipt, crashes, quiet, tokenMoves, list, rotating, rotationCrashes>>

-----------------------------------------------------------------------------
(* rotateOne for list[rotating.at]                                         *)

At(step) == rotating.step = step /\ rotating.at <= Len(list)

Current == list[rotating.at]

Goto(step)   == rotating' = [rotating EXCEPT !.step = step]
NextContract == rotating' = [at |-> rotating.at + 1, step |-> "before"]

RotationLocal == UNCHANGED <<vars, admins, tokenMoves, list, rotationCrashes>>

\* Mutant: an administrator already in place is not noticed.
ReadAdminAlways == At("before") /\ Goto("send") /\ UNCHANGED pool /\ RotationLocal

ReadAdmin ==
  /\ At("before")
  /\ IF AdminOf(Current) = Safe THEN NextContract ELSE Goto("send")
  /\ UNCHANGED pool /\ RotationLocal

\* Mutant: a contract that refuses is left out.
SendSetAdminOrSkip ==
  /\ At("send")
  /\ \/ SetAdminSucceeds(Current) /\ pool' = Append(pool, Current) /\ Goto("wait")
     \/ ~ SetAdminSucceeds(Current) /\ NextContract /\ UNCHANGED pool
  /\ RotationLocal

\* writeContract throws when the estimation of the call reverts.
SendSetAdmin ==
  /\ At("send")
  /\ \/ SetAdminSucceeds(Current) /\ pool' = Append(pool, Current) /\ Goto("wait")
     \/ ~ SetAdminSucceeds(Current) /\ Goto("failed") /\ UNCHANGED pool
  /\ RotationLocal

\* The receipt's status is not looked at, the administrator is.
ReadAdminAfter ==
  /\ At("wait") /\ pool = <<>>
  /\ IF AdminOf(Current) = Safe THEN NextContract ELSE Goto("failed")
  /\ UNCHANGED pool /\ RotationLocal

RotateOne == ReadAdmin \/ SendSetAdmin \/ ReadAdminAfter

RotationCrash ==
  /\ At("wait") \/ At("before")
  /\ rotationCrashes < MaxRotationCrashes /\ rotationCrashes' = rotationCrashes + 1
  /\ Goto("failed")
  /\ UNCHANGED <<vars, admins, tokenMoves, list, pool>>

RotationRerun ==
  /\ At("failed")
  /\ rotating' = [at |-> 1, step |-> "before"]
  /\ UNCHANGED pool /\ RotationLocal

RotationNext ==
  \/ Next /\ UNCHANGED rotationVars
  \/ MineSetAdmin \/ RotateOne \/ RotationCrash \/ RotationRerun

(* Both scripts run on, their transactions are mined, a failed run is       *)
(* started again by the operator.                                          *)
RotationSpec ==
  /\ RotationInit /\ [][RotationNext]_allVars
  /\ WF_allVars(Main /\ UNCHANGED rotationVars) /\ WF_allVars(Mine /\ UNCHANGED rotationVars)
  /\ WF_allVars(Rerun /\ UNCHANGED rotationVars)
  /\ WF_allVars(MineSetAdmin) /\ WF_allVars(RotateOne) /\ WF_allVars(RotationRerun)

-----------------------------------------------------------------------------
(* Wherever the rotation fails or dies, and whatever of it is mined later: *)
(* the contracts handed over are the first of its list, so that the key    *)
(* keeps the composite as long as it keeps anything before it.             *)
HandedOverInOrder ==
  \A i, j \in DOMAIN list :
    i < j /\ AdminOf(list[j]) = Safe => AdminOf(list[i]) = Safe

(* Repeated runs hand everything over, if the token can be handed over at  *)
(* all; what an earlier run did, or sent, does not stop them.              *)
RotationCompletes ==
  (tokenMoves \/ \A i \in DOMAIN list : list[i] # "token")
    => <>(\A i \in DOMAIN list : AdminOf(list[i]) = Safe)

(* Under one key both scripts come to their end, repeated after each       *)
(* failure: the stack is set or handed over, the contracts are rotated.    *)
ScriptsComplete == EventuallyDone /\ RotationCompletes
=============================================================================
