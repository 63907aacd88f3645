---------------------------- MODULE SetStackScript ----------------------------
(***************************************************************************)
(* scripts/composite-set-stack-esm.js: an administration script that turns *)
(* the stack of a CompositePolicy into a desired list.  It reads the stack *)
(* through RPC, decides from what it read, broadcasts a transaction and    *)
(* waits for its receipt before it goes on.                                *)
(*                                                                         *)
(* A broadcast transaction is mined later, in nonce order, whether or not  *)
(* the script still runs: a crash and a rerun leave it in the mempool.     *)
(* Position i stands for index i - 1, as in PolicyStack.                   *)
(***************************************************************************)
EXTENDS PolicyStack

CONSTANTS
  Desired,        \* DESIRED: the list the stack shall become
  StartStack,     \* the stacks the script may find
  MaxCrashes      \* bound on the crashes of the script

ASSUME ScriptAssumption ==
  /\ Desired \in Seq(Contract) /\ Desired # <<>> /\ IsInjective(Desired)
  /\ StartStack \subseteq {s \in Seq(Contract) : Len(s) <= MaxStack}
  /\ Len(Desired) < MaxStack
  /\ MaxCrashes \in Nat

VARIABLES
  pc,        \* the part of main() that runs
  stack,     \* let stack: the last answer of getPolicies
  at,        \* let i: the position the running loop is at
  seen,      \* const seen
  mempool,   \* broadcast transactions, in nonce order
  receipt,   \* the awaited receipt, None while no transaction is awaited
  crashes,   \* number of crashes so far
  quiet      \* history: nothing was pending when this run read the stack first

script == <<pc, stack, at, seen>>
vars   == <<stackVars, script, mempool, receipt, crashes, quiet>>

None     == "none"
Awaited  == "awaited"
Success  == "success"
Reverted == "reverted"

Phase == {"start", "dedupe", "add", "added", "place", "move", "trim", "done", "failed"}

Init ==
  /\ \E s \in StartStack : StackInit(s)
  /\ pc = "start" /\ stack = <<>> /\ at = 0 /\ seen = {}
  /\ mempool = <<>> /\ receipt = None
  /\ crashes = 0 /\ quiet = TRUE

-----------------------------------------------------------------------------
(* The chain and the RPC node                                              *)

AddCall(p)     == [fn |-> "add", policy |-> p]
RemoveCall(i)  == [fn |-> "remove", from |-> i]
MoveCall(i, j) == [fn |-> "move", from |-> i, to |-> j]

Succeeds(t) ==
  /\ compositeAdmin = Deployer
  /\ \/ t.fn = "add" /\ RequirePolicy(t.policy)
     \/ t.fn = "remove" /\ t.from <= Len(policies)
     \/ t.fn = "move" /\ t.from <= Len(policies) /\ t.to <= Len(policies)

Executes(t) ==
  \/ t.fn = "add" /\ AddPolicy(Deployer, t.policy)
  \/ t.fn = "remove" /\ RemovePolicy(Deployer, t.from)
  \/ t.fn = "move" /\ MovePolicy(Deployer, t.from, t.to)

\* A transaction that reverts is mined too and changes nothing.  The awaited
\* one is the last of the account's transactions.
Mine ==
  /\ mempool # <<>>
  /\ IF Succeeds(Head(mempool)) THEN Executes(Head(mempool)) ELSE UNCHANGED stackVars
  /\ mempool' = Tail(mempool)
  /\ receipt' = IF Tail(mempool) = <<>> /\ receipt = Awaited
                THEN IF Succeeds(Head(mempool)) THEN Success ELSE Reverted
                ELSE receipt
  /\ UNCHANGED <<script, crashes, quiet>>

\* Mutant: the transaction is broadcast a second time under the next nonce.
SendTwice(t, next) ==
  /\ IF Succeeds(t)
     THEN pc' = next /\ mempool' = mempool \o <<t, t>> /\ receipt' = Awaited
     ELSE pc' = "failed" /\ UNCHANGED <<mempool, receipt>>
  /\ UNCHANGED stackVars

\* writeContract estimates the gas on the latest block: a call that reverts
\* there throws and is not broadcast.
Send(t, next) ==
  /\ IF Succeeds(t)
     THEN pc' = next /\ mempool' = Append(mempool, t) /\ receipt' = Awaited
     ELSE pc' = "failed" /\ UNCHANGED <<mempool, receipt>>
  /\ UNCHANGED stackVars

Local == UNCHANGED <<stackVars, mempool, receipt>>

-----------------------------------------------------------------------------
(* main()                                                                  *)

Start ==
  /\ pc = "start"
  /\ pc' = "dedupe" /\ stack' = policies /\ at' = Len(policies) /\ seen' = {}
  /\ quiet' = (mempool = <<>>)
  /\ Local /\ UNCHANGED crashes

\* 1) Remove duplicates: i runs down over the stack read at the start.
Dedupe ==
  /\ pc = "dedupe"
  /\ \/ /\ at > 0 /\ stack[at] \in seen
        /\ Send(RemoveCall(at), "dedupe")
        /\ at' = at - 1 /\ UNCHANGED <<stack, seen>>
     \/ /\ at > 0 /\ stack[at] \notin seen
        /\ seen' = seen \cup {stack[at]}
        /\ at' = at - 1 /\ UNCHANGED <<pc, stack>> /\ Local
     \/ /\ at = 0
        /\ pc' = "add" /\ stack' = policies /\ at' = 1 /\ UNCHANGED seen /\ Local
  /\ UNCHANGED <<crashes, quiet>>

\* 2) Ensure each desired policy exists.
AddMissing ==
  /\ pc = "add"
  /\ \/ /\ at <= Len(Desired) /\ Desired[at] \notin Range(stack)
        /\ Send(AddCall(Desired[at]), "added")
        /\ UNCHANGED <<stack, at, seen>>
     \/ /\ at <= Len(Desired) /\ Desired[at] \in Range(stack)
        /\ at' = at + 1 /\ UNCHANGED <<pc, stack, seen>> /\ Local
     \/ /\ at > Len(Desired)
        /\ pc' = "place" /\ at' = 1 /\ UNCHANGED <<stack, seen>> /\ Local
  /\ UNCHANGED <<crashes, quiet>>

ReadAfterAdd ==
  /\ pc = "added"
  /\ pc' = "add" /\ stack' = policies /\ at' = at + 1
  /\ Local /\ UNCHANGED <<seen, crashes, quiet>>

\* Mutant: every position is placed from the same answer.
PlaceWithoutReading ==
  /\ pc = "place"
  /\ IF at <= Len(Desired) THEN pc' = "move" /\ UNCHANGED at
                           ELSE pc' = "trim" /\ at' = Len(stack)
  /\ Local /\ UNCHANGED <<stack, seen, crashes, quiet>>

\* 3) Reorder: read again before each position; 4) read again before trimming.
ReadBeforePlace ==
  /\ pc = "place"
  /\ stack' = policies
  /\ IF at <= Len(Desired) THEN pc' = "move" /\ UNCHANGED at
                           ELSE pc' = "trim" /\ at' = Len(policies)
  /\ Local /\ UNCHANGED <<seen, crashes, quiet>>

IndexOf(p) == Min({i \in DOMAIN stack : stack[i] = p})

Move ==
  /\ pc = "move"
  /\ \/ /\ Desired[at] \notin Range(stack)
        /\ pc' = "failed" /\ UNCHANGED <<stack, at, seen>> /\ Local
     \/ /\ Desired[at] \in Range(stack) /\ IndexOf(Desired[at]) # at
        /\ Send(MoveCall(IndexOf(Desired[at]), at), "place")
        /\ at' = at + 1 /\ UNCHANGED <<stack, seen>>
     \/ /\ Desired[at] \in Range(stack) /\ IndexOf(Desired[at]) = at
        /\ pc' = "place" /\ at' = at + 1 /\ UNCHANGED <<stack, seen>> /\ Local
  /\ UNCHANGED <<crashes, quiet>>

\* Mutant: the loop runs while i >= DESIRED.length - 1.
TrimOneTooMany ==
  /\ pc = "trim"
  /\ \/ /\ at >= Len(Desired)
        /\ Send(RemoveCall(at), "trim")
        /\ at' = at - 1 /\ UNCHANGED <<stack, seen>>
     \/ /\ at < Len(Desired)
        /\ pc' = "done" /\ stack' = policies /\ UNCHANGED <<at, seen>> /\ Local
  /\ UNCHANGED <<crashes, quiet>>

\* 4) Trim from the end; then the final read, which is printed, not compared.
Trim ==
  /\ pc = "trim"
  /\ \/ /\ at > Len(Desired)
        /\ Send(RemoveCall(at), "trim")
        /\ at' = at - 1 /\ UNCHANGED <<stack, seen>>
     \/ /\ at <= Len(Desired)
        /\ pc' = "done" /\ stack' = policies /\ UNCHANGED <<at, seen>> /\ Local
  /\ UNCHANGED <<crashes, quiet>>

\* Mutant: only a successful receipt ends the wait.
TakeReceiptOfSuccess ==
  /\ receipt = Success
  /\ receipt' = None
  /\ UNCHANGED <<stackVars, script, mempool, crashes, quiet>>

\* waitForTransactionReceipt, then the check of r.status.
TakeReceipt ==
  /\ receipt \in {Success, Reverted}
  /\ receipt' = None
  /\ pc' = IF receipt = Success THEN pc ELSE "failed"
  /\ UNCHANGED <<stackVars, stack, at, seen, mempool, crashes, quiet>>

\* The process dies, or an RPC call throws, anywhere in main().
Crash ==
  /\ pc \notin {"done", "failed"} /\ crashes < MaxCrashes
  /\ crashes' = crashes + 1
  /\ pc' = "failed" /\ receipt' = None
  /\ UNCHANGED <<stackVars, stack, at, seen, mempool, quiet>>

\* The operator runs the script once more after a failure.
Rerun ==
  /\ pc = "failed"
  /\ pc' = "start"
  /\ UNCHANGED <<stackVars, stack, at, seen, mempool, receipt, crashes, quiet>>

Main ==
  \/ /\ receipt = None
     /\ Start \/ Dedupe \/ AddMissing \/ ReadAfterAdd \/ ReadBeforePlace \/ Move \/ Trim
  \/ TakeReceipt

Next == Main \/ Mine \/ Crash \/ Rerun

Spec == Init /\ [][Next]_vars

-----------------------------------------------------------------------------
TypeOK ==
  /\ StackTypeOK
  /\ pc \in Phase
  /\ stack \in Seq(Contract) /\ seen \subseteq Contract
  /\ at \in 0 .. MaxStack
  /\ Len(mempool) <= MaxCrashes + 1
  /\ receipt \in {None, Awaited, Success, Reverted}
  /\ receipt = Awaited => mempool # <<>>

(* A run that began with nothing pending and says it is done has made the  *)
(* stack what was asked for, whatever duplicates, extra or missing members *)
(* it found and however many earlier runs crashed.                         *)
QuietRunSetsDesired == pc = "done" /\ quiet => policies = Desired

(* The runs of the set-stack script keep within their state, one more      *)
(* transaction than crashes under way, and end with what was asked for.    *)
RunsAreSound == TypeOK /\ QuietRunSetsDesired

(* While such runs work, no desired policy that is in the stack ever       *)
(* leaves it: the restrictions asked for are in force in every block.      *)
DesiredStaysInForce ==
  [][quiet => \A p \in Range(Desired) : p \in Range(policies) => p \in Range(policies')]_vars

(* The runs come to an end: crashed ones, and ones whose transaction       *)
(* reverted because a forgotten one was mined before it, are repeated      *)
(* until one is done, unless the key loses the stack to a new              *)
(* administrator before.                                                   *)
EventuallyDone == <>(pc = "done" \/ compositeAdmin # Deployer)
=============================================================================
