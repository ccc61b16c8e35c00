----------------------------- MODULE Scheduler -----------------------------
(***************************************************************************)
(* The durable personal scheduler (adaptive/schedule.rs): the schedules    *)
(* table, the /schedule command that adds and cancels rows, and the firing *)
(* loop, which sweeps the due rows, calls on_fire for each as often as     *)
(* plan_fire says, and only then advances or revokes the row.              *)
(*                                                                         *)
(* The loop awaits at the sweep, at every on_fire and at every store call: *)
(* each is an action, so the command, a crash or a store error can come in *)
(* between.  The loop works from the snapshot its sweep read.              *)
(*                                                                         *)
(* Time is in units of which DayLen make a day and TickLen the loop's tick *)
(* (30 s in main.rs).  It passes by itself (PassTime); the loop is late    *)
(* when time passes while it has work to do, or while the daemon is down.  *)
(***************************************************************************)
EXTENDS Naturals

CONSTANTS
  Ids,        \* schedule ids
  NoRow,      \* stands for an id the table does not hold
  Kinds,      \* the kinds /schedule add asks for, see Kind
  Policies,   \* the missed-run policies rows are added with, see Policy
  TickLen,    \* units between two ticks of the loop
  DayLen,     \* units in a day
  MaxNow,     \* bound: the clock stops here
  MaxFaults,  \* bound: crashes and failed store calls in a behaviour
  MaxRev      \* bound: revisions the cancel command may bump a row to

\* "every" with interval 0 also stands for one that overflows to <= 0.
Kind == [type : {"once"}] \cup [type : {"every"}, interval : Nat]
          \cup [type : {"daily"}, at : 0 .. DayLen - 1]
Policy == [name : {"skip", "run_once"}] \cup [name : {"catch_up"}, max : Nat]

ASSUME ConstantsAssumption ==
  /\ DayLen \in Nat \ {0}
  /\ TickLen \in Nat \ {0}
  /\ Kinds \subseteq Kind
  /\ Policies \subseteq Policy
  /\ MaxNow \in Nat /\ MaxFaults \in Nat /\ MaxRev \in Nat

ScheduleSpec == [kind : Kind, missed : Policy, next : Nat,
                 revoked : BOOLEAN, rev : Nat]

ASSUME NoRowAssumption == NoRow \notin ScheduleSpec /\ NoRow \notin Ids

VARIABLES
  now,      \* wall clock
  rows,     \* [Ids -> ScheduleSpec \cup {NoRow}]: the table
  up,       \* the daemon process runs
  tickAt,   \* when the loop's interval ticks next
  sweptAt,  \* when the current sweep read the table
  todo,     \* [Ids -> ScheduleSpec \cup {NoRow}]: snapshots left to service
  cur,      \* the id being serviced, or NoRow
  left,     \* on_fire calls still to make for cur
  fired,    \* [Ids -> Nat]: history: fires since the row's next was set
  lost,     \* history: ids whose service a fault cut short since then
  late,     \* history: the daemon has been down or behind
  faults    \* crashes and failed store calls so far

loopVars == <<tickAt, sweptAt, todo, cur, left>>
vars == <<now, rows, up, tickAt, sweptAt, todo, cur, left,
          fired, lost, late, faults>>

Nothing == [i \in Ids |-> NoRow]

TypeOK ==
  /\ now \in Nat
  /\ rows \in [Ids -> ScheduleSpec \cup {NoRow}]
  /\ up \in BOOLEAN
  /\ tickAt \in Nat
  /\ sweptAt \in Nat
  /\ todo \in [Ids -> ScheduleSpec \cup {NoRow}]
  /\ cur \in Ids \cup {NoRow}
  /\ left \in Nat
  /\ fired \in [Ids -> Nat]
  /\ lost \subseteq Ids
  /\ late \in BOOLEAN
  /\ faults \in Nat

Init ==
  /\ now = 0
  /\ rows = [i \in Ids |-> NoRow]
  /\ up = TRUE
  /\ tickAt = 0
  /\ sweptAt = 0
  /\ todo = Nothing
  /\ cur = NoRow
  /\ left = 0
  /\ fired = [i \in Ids |-> 0]
  /\ lost = {}
  /\ late = FALSE
  /\ faults = 0

----------------------------------------------------------------------------
(* The pure planning functions.                                            *)

\* Mutant: today's slot is taken even when it is exactly now.
MutNextDaily(at, after) ==
  LET today == after - (after % DayLen) + at
  IN IF today >= after THEN today ELSE today + DayLen

\* next_daily_fire: the first instant strictly after with that wall clock.
NextDaily(at, after) ==
  LET today == after - (after % DayLen) + at
  IN IF today > after THEN today ELSE today + DayLen

\* The slots of a recurring row at or before now, the row being due.
MissedSlots(spec, at) == ((at - spec.next) \div spec.kind.interval) + 1

\* Mutant: a bounded catch-up is not bounded by the backlog.
MutEveryCount(spec, at) ==
  IF spec.missed.name = "skip"
  THEN IF MissedSlots(spec, at) >= 2 THEN 0 ELSE 1
  ELSE IF spec.missed.name = "run_once" THEN 1
  ELSE spec.missed.max

EveryCount(spec, at) ==
  IF spec.missed.name = "skip"
  THEN IF MissedSlots(spec, at) >= 2 THEN 0 ELSE 1
  ELSE IF spec.missed.name = "run_once" THEN 1
  ELSE IF MissedSlots(spec, at) < spec.missed.max
       THEN MissedSlots(spec, at) ELSE spec.missed.max

\* plan_fire, in two parts: the row never fires again after this service,
\* or what its next fire is; and how often on_fire is called now.
Degenerate(spec) ==
  \/ spec.kind.type = "once"
  \/ spec.kind.type = "every" /\ spec.kind.interval = 0

PlannedNext(spec, at) ==
  IF spec.kind.type = "every"
  THEN spec.next + MissedSlots(spec, at) * spec.kind.interval
  ELSE NextDaily(spec.kind.at, at)

FireCount(spec, at) ==
  IF Degenerate(spec) THEN 1
  ELSE IF spec.kind.type = "every" THEN EveryCount(spec, at)
  ELSE IF spec.missed.name = "skip" /\ at - spec.next >= DayLen THEN 0 ELSE 1

----------------------------------------------------------------------------
(* The command and the environment.                                        *)

Stored == {i \in Ids : rows[i] # NoRow}

\* The first fire of a row added now.
FirstFire(kind, delay) ==
  IF kind.type = "daily" THEN NextDaily(kind.at, now)
  ELSE IF kind.type = "every" THEN now + kind.interval
  ELSE now + delay

\* /schedule add; a one-shot is asked for `delay' units ahead.
Add(i, kind, missed, delay) ==
  /\ up /\ rows[i] = NoRow
  /\ rows' = [rows EXCEPT ![i] =
                [kind |-> kind, missed |-> missed,
                 next |-> FirstFire(kind, delay), revoked |-> FALSE, rev |-> 1]]
  /\ UNCHANGED <<now, up, loopVars, fired, lost, late, faults>>

Revoked(row) == [kind |-> row.kind, missed |-> row.missed, next |-> row.next,
                 revoked |-> TRUE, rev |-> row.rev + 1]

\* /schedule cancel: the owner revokes the row, whatever the loop is doing.
Cancel(i) ==
  /\ up /\ rows[i] # NoRow /\ rows[i].rev < MaxRev
  /\ rows' = [rows EXCEPT ![i] = Revoked(rows[i])]
  /\ UNCHANGED <<now, up, loopVars, fired, lost, late, faults>>

Waiting == cur = NoRow /\ \A i \in Ids : todo[i] = NoRow

PassTime ==
  /\ now < MaxNow
  /\ now' = now + 1
  /\ late' = (late \/ ~up \/ ~Waiting \/ now >= tickAt)
  /\ UNCHANGED <<rows, up, loopVars, fired, lost, faults>>

Crash ==
  /\ up /\ faults < MaxFaults
  /\ faults' = faults + 1
  /\ up' = FALSE
  /\ todo' = Nothing /\ cur' = NoRow /\ left' = 0
  /\ lost' = IF cur = NoRow THEN lost ELSE lost \cup {cur}
  /\ UNCHANGED <<now, rows, tickAt, sweptAt, fired, late>>

\* The first tick of a new interval completes at once.
Restart ==
  /\ ~up
  /\ up' = TRUE
  /\ tickAt' = now
  /\ UNCHANGED <<now, rows, sweptAt, todo, cur, left, fired, lost, late, faults>>

----------------------------------------------------------------------------
(* The firing loop.                                                        *)

Due == {i \in Stored : ~rows[i].revoked /\ rows[i].next <= now}

\* MissedTickBehavior::Skip: the next tick is the first one still ahead.
\* When the clock has stopped at its bound the loop just keeps ticking.
NextTick ==
  LET tick == tickAt + (((now - tickAt) \div TickLen) + 1) * TickLen
  IN IF tick <= MaxNow THEN tick ELSE MaxNow

\* A tick: due(now) reads the rows this sweep will service.
Sweep ==
  /\ up /\ Waiting /\ now >= tickAt
  /\ tickAt' = NextTick
  /\ sweptAt' = now
  /\ todo' = [i \in Ids |-> IF i \in Due THEN rows[i] ELSE NoRow]
  /\ UNCHANGED <<now, rows, up, cur, left, fired, lost, late, faults>>

\* A tick whose due query fails.
SweepFails ==
  /\ up /\ Waiting /\ now >= tickAt /\ faults < MaxFaults
  /\ faults' = faults + 1
  /\ tickAt' = NextTick
  /\ UNCHANGED <<now, rows, up, sweptAt, todo, cur, left, fired, lost, late>>

\* The next snapshot, soonest first, is planned for the time of the sweep.
Service(i) ==
  /\ up /\ cur = NoRow
  /\ todo[i] # NoRow
  /\ \A j \in Ids : todo[j] # NoRow
                      => todo[i].next <= todo[j].next
  /\ cur' = i
  /\ left' = FireCount(todo[i], sweptAt)
  /\ UNCHANGED <<now, rows, up, tickAt, sweptAt, todo, fired, lost, late, faults>>

\* Mutant: the row is advanced while fires are still to be made.
MutServed == cur # NoRow

Served == cur # NoRow /\ left = 0

\* on_fire is awaited: it may wait for room in the turn queue.
Fire ==
  /\ up /\ cur # NoRow /\ left > 0
  /\ left' = left - 1
  /\ fired' = [fired EXCEPT ![cur] = @ + 1]
  /\ UNCHANGED <<now, rows, up, tickAt, sweptAt, todo, cur, lost, late, faults>>

Done(i) == /\ cur' = NoRow /\ left' = 0
           /\ todo' = [todo EXCEPT ![i] = NoRow]

\* Mutant: the optimistic-concurrency check is gone.
MutCurrent(i) == rows[i] # NoRow

\* Mutant: the row is compared with the revision it is about to get.
MutCurrentNew(i) == rows[i] # NoRow /\ rows[i].rev = todo[i].rev + 1

\* The revision of the row is still the one the sweep read.
Current(i) == rows[i] # NoRow /\ rows[i].rev = todo[i].rev

\* set_next_fire writes the next fire and the revision, nothing else.
Moved(row, next) == [kind |-> row.kind, missed |-> row.missed, next |-> next,
                     revoked |-> row.revoked, rev |-> row.rev + 1]

\* revoke, or set_next_fire under the snapshot's revision; the latter
\* changes nothing when the row has been revoked since.
Advance ==
  /\ up /\ Served
  /\ LET i == cur
         spec == todo[i]
     IN /\ IF Degenerate(spec)
           THEN rows' = [rows EXCEPT ![i] = Revoked(rows[i])]
           ELSE IF Current(i)
           THEN rows' = [rows EXCEPT ![i] =
                           Moved(rows[i], PlannedNext(spec, sweptAt))]
           ELSE rows' = rows
        /\ fired' = [fired EXCEPT ![i] = 0]
        /\ lost' = lost \ {i}
        /\ Done(i)
  /\ UNCHANGED <<now, up, tickAt, sweptAt, late, faults>>

\* The store call fails: it is logged and the loop goes on.
AdvanceFails ==
  /\ up /\ Served /\ faults < MaxFaults
  /\ faults' = faults + 1
  /\ lost' = lost \cup {cur}
  /\ Done(cur)
  /\ UNCHANGED <<now, rows, up, tickAt, sweptAt, fired, late>>

Environment ==
  \/ \E i \in Ids, k \in Kinds, p \in Policies, d \in 0 .. TickLen :
        (k.type = "once" \/ d = 0) /\ Add(i, k, p, d)
  \/ \E i \in Ids : Cancel(i)
  \/ PassTime \/ Crash \/ Restart \/ SweepFails \/ AdvanceFails

Loop == Sweep \/ (\E i \in Ids : Service(i)) \/ Fire \/ Advance

Next == Environment \/ Loop

Spec == Init /\ [][Next]_vars

\* The loop is polled, the clock moves, the supervisor restarts the daemon.
FairSpec == Spec /\ WF_vars(Loop) /\ WF_vars(PassTime) /\ WF_vars(Restart)

----------------------------------------------------------------------------
(* What the scheduler promises.                                            *)

\* Occurrences of a row that have come due by now.
Occurrences(row) ==
  IF row.next > now THEN 0
  ELSE IF row.kind.type = "every" /\ row.kind.interval > 0
  THEN MissedSlots(row, now)
  ELSE 1

(* Unless a crash or a store error cut its service short, on_fire is never *)
(* called more often for a row than it had occurrences: run_scheduler      *)
(* fires plan_fire's count and advances the row past all of them.          *)
NoExtraFires ==
  \A i \in Stored : i \notin lost => fired[i] <= Occurrences(rows[i])

(* A row moves on only after every fire planned for it was dispatched: the *)
(* advance comes last, so a crash repeats fires rather than losing them.   *)
FiresBeforeAdvance ==
  [][\A i \in Stored : rows'[i].next # rows[i].next
        => fired[i] >= FireCount(rows[i], sweptAt)]_vars

(* set_next_fire's revision check: the loop, working from its snapshot,    *)
(* never moves or revives a row its owner has cancelled meanwhile.         *)
CancelledStays ==
  [][\A i \in Stored : rows[i].revoked
        => rows'[i].revoked /\ rows'[i].next = rows[i].next]_vars

(* A row that changes is revoked or next due after the sweep that serviced *)
(* it: no row can spin the loop.                                           *)
NeverSpins ==
  [][\A i \in Stored : rows'[i] # rows[i]
        => rows'[i].revoked \/ rows'[i].next > sweptAt]_vars

(* What a sweep still fires of a cancelled row, it read before the cancel: *)
(* a cancel that precedes the sweep is always respected.                   *)
SweptBeforeCancel ==
  \A i \in Ids : /\ todo[i] # NoRow
                 /\ rows[i].revoked
                 => todo[i].rev < rows[i].rev

(* Every due row is serviced in the end, whatever crashes: it is advanced  *)
(* past now or revoked.                                                    *)
DueIsServiced == \A i \in Ids : i \in Due ~> i \notin Due
=============================================================================
