---------------------------- MODULE EquityPromise ----------------------------
(***************************************************************************)
(* What an employee is promised, without clocks, schedules or contracts:   *)
(* a grant of cap units accrues, at most the accrued part is ever paid,    *)
(* cancelling takes away only what has not accrued, and nothing the        *)
(* employee has accrued or been paid is ever taken back.                   *)
(***************************************************************************)
EXTENDS Integers

CONSTANTS
  Account,
  Units      \* the amounts a grant can have, naturals with 0

VARIABLES
  granted,   \* whether the account has, or had, a grant
  closed,    \* whether it stopped accruing by cancellation
  cap,       \* the most the grant can still amount to
  accrued,   \* what the employee is entitled to so far
  paid       \* what the employee has received under the grant

promiseVars == <<granted, closed, cap, accrued, paid>>

Init ==
  /\ granted = [e \in Account |-> FALSE]
  /\ closed  = [e \in Account |-> FALSE]
  /\ cap     = [e \in Account |-> 0]
  /\ accrued = [e \in Account |-> 0]
  /\ paid    = [e \in Account |-> 0]

\* A schedule may lie in the past: part of the grant may accrue at once.
Promise(e, amount, initial) ==
  /\ ~ granted[e]
  /\ initial <= amount
  /\ granted' = [granted EXCEPT ![e] = TRUE]
  /\ cap' = [cap EXCEPT ![e] = amount]
  /\ accrued' = [accrued EXCEPT ![e] = initial]
  /\ UNCHANGED <<closed, paid>>

\* Time passes for everybody at once.
Accrue ==
  /\ accrued' \in [Account -> Units]
  /\ \A e \in Account : /\ accrued[e] <= accrued'[e]
                        /\ accrued'[e] <= cap[e]
                        /\ closed[e] => accrued'[e] = accrued[e]
  /\ UNCHANGED <<granted, closed, cap, paid>>

Cancel(e) ==
  /\ granted[e] /\ ~ closed[e]
  /\ closed' = [closed EXCEPT ![e] = TRUE]
  /\ cap' = [cap EXCEPT ![e] = accrued[e]]
  /\ UNCHANGED <<granted, accrued, paid>>

Pay(e) ==
  /\ granted[e]
  /\ paid[e] < accrued[e]
  /\ paid' = [paid EXCEPT ![e] = accrued[e]]
  /\ UNCHANGED <<granted, closed, cap, accrued>>

Next ==
  \/ \E e \in Account, amount \in Units \ {0}, initial \in Units : Promise(e, amount, initial)
  \/ Accrue
  \/ \E e \in Account : Cancel(e) \/ Pay(e)

Spec == Init /\ [][Next]_promiseVars

=============================================================================
