---------------------------- MODULE GrantLifecycle ----------------------------
(***************************************************************************)
(* The life of an issued grant on file: lifecycle events, the chain they   *)
(* are hashed into, the state snapshot summed from the chain and the       *)
(* reconciliation that replays the chain against the snapshot.  Each       *)
(* script reads files and writes one; any of them may be run at any time,  *)
(* an event may be stated again under its id, and none is removed.         *)
(***************************************************************************)
EXTENDS SetSums, SequencesExt

CONSTANTS
  GrantId,      \* --grant-id
  TrustHash,    \* --trust-chain-hash
  EventId,      \* numbered as localeCompare orders them
  EffectiveAt,  \* dates of events
  EventType,    \* a subset of Delta's names and "transition"
  Quantity,     \* --quantity
  MaxExact,     \* 2^53: up to it every integer is a JavaScript number
  MaxEvents,    \* bound on runs of the event builder
  MaxEarly,     \* bound on runs of all scripts
  MaxLater      \* the same when all of them have run once

Absent == [missing |-> TRUE]

None == -1  \* no --quantity

Delta == {"vesting", "exercise", "cancellation", "forfeiture"}

ASSUME LifecycleAssumption ==
  /\ EventId \subseteq Nat /\ EffectiveAt \subseteq Nat
  /\ EventType \subseteq Delta \cup {"transition"}
  /\ Quantity \subseteq Nat
  /\ MaxExact \in Nat
  /\ MaxEvents \in Nat /\ MaxEarly \in Nat /\ MaxLater \in Nat

VARIABLES
  event,           \* grant-lifecycle-event.json
  chain,           \* lifecycle-transition-chain.json
  snapshot,        \* lifecycle-state-snapshot.json
  reconciliation,  \* lifecycle-replay-reconciliation.json
  logged,          \* lifecycle-replay-transparency-log-entry.json
  stated,          \* history: what was last appended under each event id
  building, left   \* runs of the event builder, and of all scripts, still to come

lifecycleVars == <<event, chain, snapshot, reconciliation, logged, stated, building, left>>

-----------------------------------------------------------------------------
(* Events.  Grant and trust chain are what the caller says: no script      *)
(* compares them with an issuance, or with the events before.              *)

\* normalizeQuantities, derived: all zero unless the type has a quantity.
Normalize(type, quantity) ==
  [d \in Delta |-> IF d = type /\ quantity # None THEN quantity ELSE 0]

\* Deltas given on the command line are taken as they are.
EventDoc(grant, trust, i, at, type, q, explicit) ==
  [grant |-> grant, trust |-> trust, id |-> i, at |-> at,
   type |-> type, quantity |-> q,
   mode |-> IF explicit THEN "explicit" ELSE IF type \in Delta THEN "derived" ELSE "legacy-zero",
   deltas |-> IF explicit THEN [d \in Delta |-> IF d = "vesting" THEN 2 ELSE 0]
              ELSE Normalize(type, q)]

BuildEvent ==
  /\ \E grant \in GrantId, trust \in TrustHash, i \in EventId, at \in EffectiveAt,
        type \in EventType, q \in Quantity \cup {None}, explicit \in BOOLEAN :
       event' = EventDoc(grant, trust, i, at, type, q, explicit)
  /\ UNCHANGED <<chain, snapshot, reconciliation, logged, stated>>

\* A quantity that is left out is 0 for the builder and an error here.
EventVerifies(e) ==
  e.type \in Delta =>
    /\ e.quantity # None
    /\ e.mode = "explicit" \/ e.deltas = Normalize(e.type, e.quantity)

-----------------------------------------------------------------------------
(* The chain.                                                              *)

EffectiveBefore(a, b) == a.at < b.at \/ (a.at = b.at /\ a.id < b.id)

PlaceOf(entries, e) == SelectInSeq(entries, LAMBDA x : x.id = e.id)

\* The same entries, none of which belongs before one in front of it.
Sorted(entries) ==
  CHOOSE s \in [DOMAIN entries -> ToSet(entries)] :
    /\ ToSet(s) = ToSet(entries)
    /\ \A i, j \in DOMAIN s : i < j => ~ EffectiveBefore(s[j], s[i])

\* Mutant: entries are chained in the order in which they are appended.
UpsertUnsorted(entries, e) ==
  LET i == PlaceOf(entries, e)
  IN  IF i > 0 THEN [entries EXCEPT ![i] = e] ELSE Append(entries, e)

Upsert(entries, e) ==
  LET i == PlaceOf(entries, e)
  IN  Sorted(IF i > 0 THEN [entries EXCEPT ![i] = e] ELSE Append(entries, e))

\* entry_hash of entry i covers index, event and the hash before it: the
\* events up to i.
EntryHash(events, i) == SubSeq(events, 1, i)

Rehash(events) ==
  [i \in DOMAIN events |-> [index |-> i - 1, event |-> events[i],
                            prev |-> EntryHash(events, i - 1), hash |-> EntryHash(events, i)]]

Events(entries) == [i \in DOMAIN entries |-> entries[i].event]

ChainRoot(grant, entries) == <<grant, [i \in DOMAIN entries |-> entries[i].hash]>>

HeadEntry(entries) == IF entries = <<>> THEN <<>> ELSE Last(entries).hash

ChainDoc(grant, entries) ==
  [grant |-> grant, count |-> Len(entries), head |-> HeadEntry(entries),
   root |-> ChainRoot(grant, entries), entries |-> entries]

AppendChain ==
  /\ event # Absent
  /\ LET old == IF chain = Absent THEN <<>> ELSE Events(chain.entries)
     IN  chain' = ChainDoc(event.grant, Rehash(Upsert(old, event)))
  /\ stated' = [stated EXCEPT ![event.id] = event]
  /\ UNCHANGED <<event, snapshot, reconciliation, logged>>

ChainVerifies ==
  /\ chain # Absent
  /\ \A i \in DOMAIN chain.entries : LET x == chain.entries[i] IN
       /\ x.index = i - 1
       /\ x.hash = Append(x.prev, x.event)
       /\ x.prev = IF i = 1 THEN <<>> ELSE chain.entries[i - 1].hash
  /\ chain.count = Len(chain.entries)
  /\ chain.head = HeadEntry(chain.entries)
  /\ chain.root = ChainRoot(chain.grant, chain.entries)

-----------------------------------------------------------------------------
(* The snapshot, summed with big integers.                                 *)

SumOf(events, d) == SumOver(DOMAIN events, [i \in DOMAIN events |-> events[i].deltas[d]])

Balance(t) == t["vesting"] - t["exercise"] - t["cancellation"] - t["forfeiture"]

Totals(events) == [d \in Delta |-> SumOf(events, d)]

SnapshotDoc(c) ==
  [grant |-> c.grant, count |-> c.count, latest |-> Last(c.entries).event,
   totals |-> Totals(Events(c.entries)), head |-> c.head, root |-> c.root]

\* Throws when more has been exercised, cancelled and forfeited than vested.
BuildSnapshot ==
  /\ chain # Absent
  /\ Balance(Totals(Events(chain.entries))) >= 0
  /\ snapshot' = SnapshotDoc(chain)
  /\ UNCHANGED <<event, chain, reconciliation, logged, stated>>

\* Mutant: totals only.
SnapshotTotalsVerify ==
  /\ chain # Absent /\ snapshot # Absent
  /\ snapshot.totals = Totals(Events(chain.entries))

SnapshotVerifies ==
  /\ chain # Absent /\ snapshot # Absent
  /\ snapshot = SnapshotDoc(chain)

-----------------------------------------------------------------------------
(* The reconciliation, replayed with JavaScript numbers: above 2^53 sums   *)
(* are rounded to an even significand.  (That is the whole rule up to      *)
(* 2^54, where the bounds of the runs end.  Further up numbers are rarer;  *)
(* the proofs use only that a sum above 2^53 is not rounded below it.)     *)

Number(n) ==
  IF n <= MaxExact \/ n % 2 = 0 THEN n ELSE IF n % 4 = 1 THEN n - 1 ELSE n + 1

ReplaySum(events, d) ==
  LET sum[i \in 0 .. Len(events)] ==
        IF i = 0 THEN 0 ELSE Number(sum[i - 1] + Number(events[i].deltas[d]))
  IN  sum[Len(events)]

\* Mutant: the snapshot's own totals are replayed.
ReplayOfSnapshot(events) == [d \in Delta |-> Number(snapshot.totals[d])]

Replayed(events) == [d \in Delta |-> ReplaySum(events, d)]

NumberBalance(t) ==
  Number(Number(Number(t["vesting"] - t["exercise"]) - t["cancellation"]) - t["forfeiture"])

\* Mutant: the status compares what has vested, nothing else.
ReconciliationOfVested(replay, balance, c, s) ==
  LET seen == [d \in Delta |-> Number(s.totals[d])] IN
  [grant |-> c.grant, root |-> c.root, head |-> c.head, replay |-> replay, balance |-> balance,
   seen |-> seen, seenBalance |-> Number(Balance(s.totals)),
   match |-> replay["vesting"] = seen["vesting"]]

ReconciliationOf(replay, balance, c, s) ==
  LET seen == [d \in Delta |-> Number(s.totals[d])] IN
  [grant |-> c.grant, root |-> c.root, head |-> c.head, replay |-> replay, balance |-> balance,
   seen |-> seen, seenBalance |-> Number(Balance(s.totals)),
   match |-> replay = seen /\ balance = Number(Balance(s.totals))]

Reproduces(r, c) ==
  LET replay == Replayed(Events(c.entries)) IN
  r.replay = replay /\ r.balance = NumberBalance(replay)

Reconcile ==
  /\ chain # Absent /\ snapshot # Absent
  /\ LET r == Replayed(Events(chain.entries)) IN
       /\ NumberBalance(r) >= 0
       /\ reconciliation' = ReconciliationOf(r, NumberBalance(r), chain, snapshot)
  /\ UNCHANGED <<event, chain, snapshot, logged, stated>>

\* Neither the snapshot nor the status is looked at.
ReconciliationVerifies ==
  /\ chain # Absent /\ snapshot # Absent /\ reconciliation # Absent
  /\ Reproduces(reconciliation, chain)

-----------------------------------------------------------------------------
(* What the log is told of a replay.  A reconciliation has none of the     *)
(* fields in which the script looks for the hashes and paths of chain and  *)
(* snapshot, so it hashes the files that lie there when it runs.           *)

Lineage == [chain |-> chain, snapshot |-> snapshot]

LogReplay ==
  /\ reconciliation # Absent /\ chain # Absent /\ snapshot # Absent
  /\ logged' = [replay |-> reconciliation, lineage |-> Lineage]
  /\ UNCHANGED <<event, chain, snapshot, reconciliation, stated>>

-----------------------------------------------------------------------------
LifecycleInit ==
  /\ event = Absent /\ chain = Absent /\ snapshot = Absent /\ reconciliation = Absent
  /\ logged = Absent
  /\ stated = [i \in EventId |-> Absent]
  /\ building = MaxEvents /\ left = MaxEarly

\* All scripts have run once, in order, with one vesting event.
InitLater ==
  /\ \E grant \in GrantId, trust \in TrustHash, i \in EventId, at \in EffectiveAt, q \in Quantity :
       LET e == EventDoc(grant, trust, i, at, "vesting", q, FALSE)
           c == ChainDoc(grant, Rehash(<<e>>))
           s == SnapshotDoc(c)
           r == Replayed(<<e>>)
           match == ReconciliationOf(r, NumberBalance(r), c, s)
       IN  /\ event = e /\ chain = c /\ snapshot = s
           /\ reconciliation = match
           /\ logged = [replay |-> match, lineage |-> [chain |-> c, snapshot |-> s]]
           /\ stated = [x \in EventId |-> IF x = i THEN e ELSE Absent]
  /\ building = MaxEvents /\ left = MaxLater

LifecycleNext ==
  /\ left > 0 /\ left' = left - 1
  /\ \/ building > 0 /\ building' = building - 1 /\ BuildEvent
     \/ /\ AppendChain \/ BuildSnapshot \/ Reconcile \/ LogReplay
        /\ UNCHANGED building

LifecycleSpec == (LifecycleInit \/ InitLater) /\ [][LifecycleNext]_lifecycleVars

-----------------------------------------------------------------------------
Stated == {i \in EventId : stated[i] # Absent}

StatedQuantity(d) ==
  SumOver({i \in Stated : stated[i].type = d}, [i \in Stated |-> stated[i].quantity])

StatedTotal(d) == SumOver(Stated, [i \in Stated |-> stated[i].deltas[d]])

(* Whatever the order in which events were appended, stated again and      *)
(* moved to another date, the chain verifies and holds the last statement  *)
(* of each event once, by date: two offices that append the same events    *)
(* of one grant get the same root.  Events of another grant enter the same *)
(* chain, which then bears the name of the grant appended last.            *)
ChainIsWhatWasStated ==
  /\ Stated # {} => ChainVerifies
  /\ chain # Absent =>
       LET es == Events(chain.entries) IN
       /\ Len(es) = Cardinality(Stated) /\ ToSet(es) = {stated[i] : i \in Stated}
       /\ \A i, j \in DOMAIN es : i < j => EffectiveBefore(es[i], es[j])

(* A snapshot that verifies is the present state: the sum of what was last *)
(* stated of every event, whatever grant it names, never negative, with    *)
(* the state and the trust chain of the event that took effect last, not   *)
(* of the last one appended.  When all these events verify and none has    *)
(* deltas of its own, the sum is that of the quantities stated.            *)
SnapshotIsPresentState ==
  SnapshotVerifies =>
    /\ \A d \in Delta : snapshot.totals[d] = StatedTotal(d)
    /\ (\A i \in Stated : EventVerifies(stated[i]) /\ stated[i].mode # "explicit") =>
         \A d \in Delta : snapshot.totals[d] = StatedQuantity(d)
    /\ Balance(snapshot.totals) >= 0
    /\ \A i \in Stated : ~ EffectiveBefore(snapshot.latest, stated[i])

(* The reconciliation's verifier reads neither snapshot nor status, yet as *)
(* long as all numbers are safe integers a verified match says that the    *)
(* snapshot it replayed had the totals of the present chain, and a         *)
(* verified mismatch that it had not, whichever of the files is older.     *)
Safe(n) == n < MaxExact

ReconciliationIsExact ==
  LET r == reconciliation IN
  /\ ReconciliationVerifies
  /\ \A d \in Delta : Safe(r.replay[d]) /\ Safe(r.seen[d])
  => (r.match <=> \A d \in Delta : r.seen[d] = StatedTotal(d))

(* The log's entry of a replay names the chain and the snapshot that were  *)
(* there when it was written, not those that were replayed.  An auditor    *)
(* for whom the three recorded documents verify against each other can     *)
(* still rely on the recorded status: a match says that the replayed       *)
(* snapshot had the totals of the named one, a mismatch that it had not.   *)
LoggedReplayIsCoherent ==
  logged # Absent =>
    LET r == logged.replay  c == logged.lineage.chain  s == logged.lineage.snapshot IN
    /\ Reproduces(r, c) /\ s = SnapshotDoc(c)
    /\ \A d \in Delta : Safe(r.replay[d]) /\ Safe(r.seen[d])
    => (r.match <=> \A d \in Delta : r.seen[d] = s.totals[d])

(* The status of a reconciliation can be relied on: as it was computed,    *)
(* and as the transparency log recorded it beside other documents.         *)
StatusIsExact == ReconciliationIsExact /\ LoggedReplayIsCoherent
=============================================================================
