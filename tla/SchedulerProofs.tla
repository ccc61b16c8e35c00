-------------------------- MODULE SchedulerProofs --------------------------
(***************************************************************************)
(* Theorems about Scheduler, for any schedules, kinds, policies, tick, day *)
(* and bounds, and about DailySlot, for any length of the day, change and  *)
(* instant.  The inductive invariant of the loop relates its snapshots to  *)
(* the rows they were read from: a snapshot at the row's revision is the   *)
(* row, an older one belongs to a row that was cancelled since.            *)
(***************************************************************************)
EXTENDS Scheduler, DailySlot, TLAPS

(* What a remainder is bounded by. *)
LEMMA Remainder ==
  ASSUME NEW a \in Nat, NEW d \in Nat \ {0}
  PROVE  a % d \in Nat /\ a % d <= a
<1>1. CASE a < d  BY <1>1
<1>2. CASE a >= d BY <1>2
<1> QED BY <1>1, <1>2

(* A whole number of intervals is counted by a natural number. *)
LEMMA Quotient ==
  ASSUME NEW a \in Nat, NEW d \in Nat \ {0}
  PROVE  a \div d \in Nat
OBVIOUS

(* The next daily slot is a natural number. *)
LEMMA NextDailyType ==
  ASSUME NEW at \in Nat, NEW after \in Nat
  PROVE  NextDaily(at, after) \in Nat
BY Remainder, ConstantsAssumption DEF NextDaily

----------------------------------------------------------------------------
(* The inductive invariant.                                                *)

\* A snapshot was due and not cancelled; its row has not gone back, and is
\* the snapshot as long as their revisions agree.
Snapshot(i) ==
  todo[i] # NoRow =>
    /\ rows[i] # NoRow
    /\ ~todo[i].revoked
    /\ todo[i].next <= sweptAt
    /\ rows[i].kind = todo[i].kind /\ rows[i].next = todo[i].next
    /\ todo[i].rev <= rows[i].rev
    /\ todo[i].rev = rows[i].rev => rows[i] = todo[i]

\* The row in service is one of the sweep's, and its planned fires are
\* those already made and those left.
InService ==
  cur # NoRow =>
    /\ todo[cur] # NoRow
    /\ fired[cur] + left >= FireCount(todo[cur], sweptAt)

SchedInv ==
  /\ TypeOK
  /\ sweptAt <= now
  /\ \A i \in Ids : Snapshot(i)
  /\ InService

(* plan_fire counts with natural numbers when the row is due. *)
LEMMA PlanType ==
  ASSUME NEW spec \in ScheduleSpec, NEW at \in Nat, spec.next <= at
  PROVE  /\ FireCount(spec, at) \in Nat
         /\ ~Degenerate(spec) => PlannedNext(spec, at) \in Nat
<1>1. spec.kind \in Kind /\ spec.missed \in Policy /\ spec.next \in Nat
  BY DEF ScheduleSpec
<1>2. spec.missed.name \notin {"skip", "run_once"} => spec.missed.max \in Nat
  BY <1>1 DEF Policy
<1>3. CASE Degenerate(spec)
  BY <1>3 DEF FireCount
<1>4. CASE ~Degenerate(spec) /\ spec.kind.type = "every"
  <2>1. spec.kind.interval \in Nat \ {0}
    BY <1>1, <1>4 DEF Kind, Degenerate
  <2>2. at - spec.next \in Nat
    BY <1>1
  <2>3. MissedSlots(spec, at) \in Nat
    BY <2>1, <2>2, Quotient DEF MissedSlots
  <2>4. EveryCount(spec, at) \in Nat
    BY <2>3, <1>2 DEF EveryCount
  <2>5. PlannedNext(spec, at) \in Nat
    BY <1>1, <1>4, <2>1, <2>3 DEF PlannedNext
  <2> QED
    BY <1>4, <2>4, <2>5 DEF FireCount
<1>5. CASE ~Degenerate(spec) /\ spec.kind.type # "every"
  <2>1. spec.kind.at \in Nat
    BY <1>1, <1>5, ConstantsAssumption DEF Kind, Degenerate
  <2>2. NextDaily(spec.kind.at, at) \in Nat
    BY <2>1, NextDailyType
  <2> QED
    BY <1>5, <2>2 DEF FireCount, PlannedNext
<1> QED
  BY <1>3, <1>4, <1>5

(* So is the first fire of a new row. *)
LEMMA FirstFireType ==
  ASSUME TypeOK, NEW kind \in Kind, NEW delay \in Nat
  PROVE  FirstFire(kind, delay) \in Nat
<1>1. CASE kind.type = "daily"
  <2>1. kind.at \in Nat
    BY <1>1, ConstantsAssumption DEF Kind
  <2> QED
    BY <1>1, <2>1, NextDailyType DEF FirstFire, TypeOK
<1>2. CASE kind.type = "every"
  <2>1. kind.interval \in Nat
    BY <1>2 DEF Kind
  <2> QED
    BY <1>2, <2>1 DEF FirstFire, TypeOK
<1>3. CASE kind.type # "daily" /\ kind.type # "every"
  BY <1>3 DEF FirstFire, TypeOK
<1> QED
  BY <1>1, <1>2, <1>3

LEMMA RevokedType ==
  ASSUME NEW row \in ScheduleSpec
  PROVE  Revoked(row) \in ScheduleSpec /\ Revoked(row).rev = row.rev + 1
BY DEF Revoked, ScheduleSpec

(* The deadline of the next tick. *)
LEMMA NextTickType ==
  ASSUME TypeOK, now >= tickAt
  PROVE  NextTick \in Nat
<1>1. now - tickAt \in Nat
  BY DEF TypeOK
<1>2. (now - tickAt) \div TickLen \in Nat
  BY <1>1, Quotient, ConstantsAssumption
<1> DEFINE q == (now - tickAt) \div TickLen
<1>3. q \in Nat
  BY <1>2
<1> HIDE DEF q
<1>4. tickAt + (q + 1) * TickLen \in Nat
  BY <1>3, ConstantsAssumption DEF TypeOK
<1> QED
  BY <1>4, ConstantsAssumption DEF NextTick, q

LEMMA MovedType ==
  ASSUME NEW row \in ScheduleSpec, NEW next \in Nat
  PROVE  Moved(row, next) \in ScheduleSpec /\ Moved(row, next).rev = row.rev + 1
BY DEF Moved, ScheduleSpec

LEMMA InitInv == Init => SchedInv
<1> SUFFICES ASSUME Init PROVE SchedInv
  OBVIOUS
<1>1. sweptAt = 0 /\ \A i \in Ids : todo[i] = NoRow
  BY DEF Init, Nothing
<1>2. TypeOK
  BY DEF Init, TypeOK, Nothing
<1> QED
  BY <1>1, <1>2 DEF Init, SchedInv, Snapshot, InService

(* A sweep reads rows that are due and not cancelled. *)
LEMMA NextInv == SchedInv /\ [Next]_vars => SchedInv'
<1> SUFFICES ASSUME SchedInv, [Next]_vars
             PROVE  SchedInv'
  OBVIOUS
<1> USE DEF SchedInv
<1>1. ASSUME NEW i \in Ids, NEW k \in Kinds, NEW p \in Policies,
             NEW d \in 0 .. TickLen, Add(i, k, p, d)
      PROVE  SchedInv'
  <2>1. FirstFire(k, d) \in Nat
    BY FirstFireType, ConstantsAssumption
  <2>2. TypeOK'
    BY <1>1, <2>1, ConstantsAssumption DEF Add, TypeOK, ScheduleSpec, loopVars
  <2>3. ASSUME NEW j \in Ids PROVE Snapshot(j)'
    BY <1>1, Snapshot(j) DEF Add, Snapshot, loopVars, TypeOK
  <2> QED
    BY <1>1, <2>2, <2>3 DEF Add, InService, loopVars
<1>2. ASSUME NEW i \in Ids, Cancel(i)
      PROVE  SchedInv'
  <2>1. rows[i] \in ScheduleSpec
    BY <1>2 DEF Cancel, TypeOK
  <2>2. TypeOK'
    BY <1>2, <2>1, RevokedType DEF Cancel, TypeOK, loopVars
  <2>3. ASSUME NEW j \in Ids PROVE Snapshot(j)'
    <3>1. CASE j = i
      <4>1. rows'[i] = Revoked(rows[i]) /\ todo' = todo /\ sweptAt' = sweptAt
        BY <1>2 DEF Cancel, loopVars, TypeOK
      <4>2. rows'[i] \in ScheduleSpec /\ rows'[i].rev = rows[i].rev + 1
        BY <2>1, <4>1, RevokedType
      <4>3. rows'[i].kind = rows[i].kind /\ rows'[i].next = rows[i].next
        BY <4>1 DEF Revoked
      <4>4. todo[i] # NoRow => todo[i].rev \in Nat
        BY DEF TypeOK, ScheduleSpec
      <4>5. rows[i].rev \in Nat
        BY <2>1 DEF ScheduleSpec
      <4> QED
        BY <3>1, <4>1, <4>2, <4>3, <4>4, <4>5, NoRowAssumption, Snapshot(i)
           DEF Snapshot
    <3>2. CASE j # i
      BY <1>2, <3>2, Snapshot(j) DEF Cancel, Snapshot, loopVars, TypeOK
    <3> QED
      BY <3>1, <3>2
  <2> QED
    BY <1>2, <2>2, <2>3 DEF Cancel, InService, loopVars
<1>3. CASE PassTime
  BY <1>3 DEF PassTime, TypeOK, Snapshot, InService, loopVars
<1>4. CASE Crash
  <2>0. lost' \subseteq Ids
    <3>1. CASE cur = NoRow
      BY <1>4, <3>1 DEF Crash, TypeOK
    <3>2. CASE cur # NoRow
      BY <1>4, <3>2 DEF Crash, TypeOK
    <3> QED
      BY <3>1, <3>2
  <2>1. TypeOK'
    <3>1. todo' \in [Ids -> ScheduleSpec \cup {NoRow}]
      BY <1>4 DEF Crash, Nothing
    <3>2. faults' \in Nat /\ left' \in Nat
      BY <1>4 DEF Crash, TypeOK
    <3>4. up' \in BOOLEAN
      BY <1>4, Zenon DEF Crash
    <3>3. cur' \in Ids \cup {NoRow}
      BY <1>4 DEF Crash
    <3> QED
      BY <1>4, <2>0, <3>1, <3>2, <3>3, <3>4 DEF Crash, TypeOK
  <2>2. sweptAt' = sweptAt /\ \A j \in Ids : todo'[j] = NoRow
    BY <1>4 DEF Crash, Nothing
  <2> QED
    BY <1>4, <2>1, <2>2 DEF Crash, Snapshot, InService, TypeOK
<1>5. CASE Restart
  BY <1>5 DEF Restart, TypeOK, Snapshot, InService
<1>6. CASE SweepFails
  BY <1>6, NextTickType DEF SweepFails, TypeOK, Snapshot, InService
<1>7. CASE AdvanceFails
  <2>1. cur \in Ids
    BY <1>7 DEF AdvanceFails, Served, TypeOK
  <2>2. todo' = [todo EXCEPT ![cur] = NoRow] /\ cur' = NoRow
    BY <1>7 DEF AdvanceFails, Done
  <2>3. TypeOK'
    BY <1>7, <2>1, <2>2 DEF AdvanceFails, Done, TypeOK
  <2>4. ASSUME NEW j \in Ids PROVE Snapshot(j)'
    BY <1>7, <2>1, <2>2, Snapshot(j) DEF AdvanceFails, Snapshot, TypeOK
  <2> QED
    BY <1>7, <2>2, <2>3, <2>4 DEF AdvanceFails, InService, TypeOK
<1>8. CASE Sweep
  <2>1. sweptAt' = now
    BY <1>8 DEF Sweep
  <2>2. ASSUME NEW j \in Ids
        PROVE todo'[j] = IF j \in Due THEN rows[j] ELSE NoRow
    BY <1>8 DEF Sweep
  <2>3. TypeOK'
    BY <1>8, NextTickType DEF Sweep, TypeOK
  <2>4. ASSUME NEW j \in Ids PROVE Snapshot(j)'
    BY <1>8, <2>1, <2>2 DEF Sweep, Snapshot, TypeOK, Due, Stored, ScheduleSpec
  <2> QED
    BY <1>8, <2>1, <2>3, <2>4 DEF Sweep, InService, Waiting, TypeOK
<1>9. ASSUME NEW i \in Ids, Service(i)
      PROVE  SchedInv'
  <2>1. todo[i] \in ScheduleSpec /\ todo[i].next <= sweptAt
    BY <1>9, Snapshot(i) DEF Service, TypeOK, Snapshot
  <2>2. left' \in Nat
    BY <1>9, <2>1, PlanType DEF Service, TypeOK
  <2> QED
    BY <1>9, <2>1, <2>2 DEF Service, TypeOK, Snapshot, InService
<1>10. CASE Fire
  <2>1. cur \in Ids
    BY <1>10 DEF Fire, TypeOK
  <2>2. fired'[cur] = fired[cur] + 1 /\ left' = left - 1 /\ left' \in Nat
    BY <1>10, <2>1 DEF Fire, TypeOK
  <2>3. TypeOK'
    BY <1>10, <2>1, <2>2 DEF Fire, TypeOK
  <2>4. fired'[cur] + left' = fired[cur] + left
    BY <2>1, <2>2 DEF TypeOK
  <2> QED
    BY <1>10, <2>3, <2>4 DEF Fire, Snapshot, InService
<1>11. CASE Advance
  <2> DEFINE i == cur
             spec == todo[i]
  <2>1. i \in Ids /\ spec \in ScheduleSpec /\ spec.next <= sweptAt
    BY <1>11, Snapshot(cur) DEF Advance, Served, TypeOK, Snapshot, InService
  <2>2. rows[i] \in ScheduleSpec
    BY <1>11, <2>1, Snapshot(cur) DEF Snapshot, TypeOK, Advance, Served, InService
  <2>3. cur' = NoRow /\ todo' = [todo EXCEPT ![i] = NoRow] /\ left' = 0
    BY <1>11 DEF Advance, Done
  <2>4. \E row \in ScheduleSpec : rows' = [rows EXCEPT ![i] = row]
    <3>1. CASE Degenerate(spec)
      BY <1>11, <2>2, <3>1, RevokedType DEF Advance
    <3>2. CASE ~Degenerate(spec) /\ Current(i)
      BY <1>11, <2>1, <2>2, <3>2, PlanType, MovedType DEF Advance, TypeOK
    <3>3. CASE ~Degenerate(spec) /\ ~Current(i)
      BY <1>11, <2>1, <2>2, <3>3 DEF Advance, TypeOK
    <3> QED
      BY <3>1, <3>2, <3>3
  <2>5. TypeOK'
    BY <1>11, <2>1, <2>3, <2>4 DEF Advance, TypeOK
  <2>6. ASSUME NEW j \in Ids PROVE Snapshot(j)'
    BY <1>11, <2>1, <2>3, <2>4, Snapshot(j) DEF Advance, Snapshot, TypeOK
  <2> QED
    BY <1>11, <2>3, <2>5, <2>6 DEF Advance, InService, TypeOK
<1>12. CASE UNCHANGED vars
  BY <1>12 DEF vars, TypeOK, Snapshot, InService
<1> QED
  BY <1>1, <1>2, <1>3, <1>4, <1>5, <1>6, <1>7, <1>8, <1>9, <1>10, <1>11, <1>12
     DEF Next, Environment, Loop

(* Every step of the scheduler keeps the invariant. *)
THEOREM SchedulerInvariant == Spec => []SchedInv
<1>1. Init => SchedInv
  BY InitInv
<1>2. SchedInv /\ [Next]_vars => SchedInv'
  BY NextInv
<1> QED
  BY <1>1, <1>2, PTL DEF Spec

(* The variables of the scheduler keep their types: rows, snapshots, the   *)
(* fire counts and deadlines plan_fire computes.                           *)
THEOREM TypeCorrect == Spec => []TypeOK
<1>1. SchedInv => TypeOK
  BY DEF SchedInv
<1> QED
  BY <1>1, SchedulerInvariant, PTL

(* A sweep never holds a snapshot of a row cancelled before it. *)
THEOREM SweepsRespectCancels == Spec => []SweptBeforeCancel
<1>1. SchedInv => SweptBeforeCancel
  <2> SUFFICES ASSUME SchedInv, NEW i \in Ids, todo[i] # NoRow, rows[i].revoked
               PROVE  todo[i].rev < rows[i].rev
    BY DEF SweptBeforeCancel
  <2>1. Snapshot(i)
    BY DEF SchedInv
  <2>2. todo[i].rev \in Nat /\ rows[i].rev \in Nat
    BY <2>1 DEF SchedInv, TypeOK, Snapshot, ScheduleSpec
  <2> QED
    BY <2>1, <2>2 DEF Snapshot
<1> QED
  BY <1>1, SchedulerInvariant, PTL

(* A row changes only by the cancel command, which keeps its next fire, or *)
(* by Advance; the latter moves next only from the snapshot that is the    *)
(* row, once all its planned fires were made.                              *)
LEMMA RowSteps ==
  ASSUME SchedInv, [Next]_vars, NEW i \in Stored
  PROVE  \/ rows'[i] = rows[i]
         \/ rows'[i] = Revoked(rows[i])
         \/ /\ cur = i /\ left = 0 /\ todo[i] = rows[i]
            /\ todo[i] # NoRow /\ ~Degenerate(todo[i])
            /\ rows'[i] = Moved(rows[i], PlannedNext(todo[i], sweptAt))
<1>0. i \in Ids /\ rows[i] # NoRow
  BY DEF Stored
<1>1. ASSUME NEW j \in Ids, NEW k \in Kinds, NEW p \in Policies,
             NEW d \in 0 .. TickLen, Add(j, k, p, d)
      PROVE  rows'[i] = rows[i]
  BY <1>0, <1>1 DEF Add, SchedInv, TypeOK
<1>2. ASSUME NEW j \in Ids, Cancel(j)
      PROVE  rows'[i] = rows[i] \/ rows'[i] = Revoked(rows[i])
  BY <1>0, <1>2 DEF Cancel, SchedInv, TypeOK
<1>3. CASE Advance
  <2>1. cur \in Ids /\ left = 0
    BY <1>3 DEF Advance, Served, SchedInv, TypeOK
  <2>2. CASE i # cur
    BY <1>0, <1>3, <2>1, <2>2 DEF Advance, SchedInv, TypeOK
  <2>3. CASE i = cur /\ Degenerate(todo[cur])
    BY <1>0, <1>3, <2>3 DEF Advance, SchedInv, TypeOK
  <2>4. CASE i = cur /\ ~Degenerate(todo[cur]) /\ ~Current(cur)
    BY <1>0, <1>3, <2>4 DEF Advance, SchedInv, TypeOK
  <2>5. CASE i = cur /\ ~Degenerate(todo[cur]) /\ Current(cur)
    <3>1. todo[i] # NoRow /\ todo[i] = rows[i]
      BY <1>0, <2>1, <2>5, NoRowAssumption
         DEF SchedInv, InService, Snapshot, Current
    <3>2. rows'[i] = Moved(rows[i], PlannedNext(todo[i], sweptAt))
      BY <1>0, <1>3, <2>5 DEF Advance, SchedInv, TypeOK
    <3> QED
      BY <2>1, <2>5, <3>1, <3>2
  <2> QED
    BY <2>2, <2>3, <2>4, <2>5
<1>4. CASE PassTime \/ Crash \/ Restart \/ SweepFails \/ AdvanceFails
           \/ Sweep \/ (\E j \in Ids : Service(j)) \/ Fire \/ UNCHANGED vars
  BY <1>4 DEF PassTime, Crash, Restart, SweepFails, AdvanceFails, Sweep,
              Service, Fire, vars
<1> QED
  BY <1>1, <1>2, <1>3, <1>4 DEF Next, Environment, Loop

(* The loop, working from snapshots, never moves or revives a cancelled    *)
(* schedule: set_next_fire's revision check sees the cancel.               *)
THEOREM CancelIsFinal == Spec => CancelledStays
<1>1. ASSUME SchedInv, [Next]_vars, NEW i \in Stored, rows[i].revoked
      PROVE  rows'[i].revoked /\ rows'[i].next = rows[i].next
  <2>1. i \in Ids /\ rows[i] # NoRow
    BY DEF Stored
  <2>2. todo[i] # NoRow => ~(todo[i] = rows[i])
    BY <1>1, <2>1 DEF SchedInv, Snapshot
  <2>3. rows'[i] = rows[i] \/ rows'[i] = Revoked(rows[i])
    BY <1>1, <2>2, RowSteps
  <2> QED
    BY <1>1, <2>3 DEF Revoked
<1>2. SchedInv /\ [Next]_vars =>
        [\A i \in Stored : rows[i].revoked
            => rows'[i].revoked /\ rows'[i].next = rows[i].next]_vars
  BY <1>1
<1> QED
  BY <1>2, SchedulerInvariant, PTL DEF Spec, CancelledStays

(* A row moves on only when every fire planned for it has been dispatched, *)
(* so that a crash repeats fires and never loses one.                      *)
THEOREM FiresComeFirst == Spec => FiresBeforeAdvance
<1>1. ASSUME SchedInv, [Next]_vars, NEW i \in Stored,
             rows'[i].next # rows[i].next
      PROVE  fired[i] >= FireCount(rows[i], sweptAt)
  <2>1. i \in Ids /\ rows[i] # NoRow
    BY DEF Stored
  <2>2. Revoked(rows[i]).next = rows[i].next
    BY DEF Revoked
  <2>3. cur = i /\ left = 0 /\ todo[i] = rows[i] /\ todo[i] # NoRow
    BY <1>1, <2>2, RowSteps
  <2>4. fired[i] + left >= FireCount(rows[i], sweptAt)
    BY <1>1, <2>1, <2>3, NoRowAssumption DEF SchedInv, InService
  <2> QED
    BY <1>1, <2>1, <2>3, <2>4 DEF SchedInv, TypeOK
<1>2. SchedInv /\ [Next]_vars =>
        [\A i \in Stored : rows'[i].next # rows[i].next
            => fired[i] >= FireCount(rows[i], sweptAt)]_vars
  BY <1>1
<1> QED
  BY <1>2, SchedulerInvariant, PTL DEF Spec, FiresBeforeAdvance

----------------------------------------------------------------------------
(* Counting the fires.                                                     *)

(* What the planned next fire and the planned count are bounded by. *)
LEMMA PlanBounds ==
  ASSUME NEW spec \in ScheduleSpec, NEW at \in Nat, spec.next <= at
  PROVE  /\ ~Degenerate(spec) => PlannedNext(spec, at) > at
         /\ \/ FireCount(spec, at) <= 1
            \/ /\ spec.kind.type = "every" /\ spec.kind.interval > 0
               /\ FireCount(spec, at) <= MissedSlots(spec, at)
<1>1. spec.kind \in Kind /\ spec.missed \in Policy /\ spec.next \in Nat
  BY DEF ScheduleSpec
<1>2. CASE Degenerate(spec)
  BY <1>2 DEF FireCount
<1>3. CASE ~Degenerate(spec) /\ spec.kind.type = "every"
  <2>1. spec.kind.interval \in Nat \ {0}
    BY <1>1, <1>3 DEF Kind, Degenerate
  <2>2. at - spec.next \in Nat
    BY <1>1
  <2> DEFINE q == (at - spec.next) \div spec.kind.interval
  <2>3. q \in Nat /\ at - spec.next < (q + 1) * spec.kind.interval
    BY <2>1, <2>2
  <2>4. MissedSlots(spec, at) = q + 1
    BY DEF MissedSlots
  <2> HIDE DEF q
  <2>5. (q + 1) * spec.kind.interval \in Nat
    BY <2>1, <2>3
  <2>6. PlannedNext(spec, at) > at
    BY <1>1, <1>3, <2>3, <2>4, <2>5 DEF PlannedNext
  <2>7. spec.missed.name \notin {"skip", "run_once"} => spec.missed.max \in Nat
    BY <1>1 DEF Policy
  <2>8. EveryCount(spec, at) <= MissedSlots(spec, at)
    BY <2>3, <2>4, <2>7 DEF EveryCount
  <2> QED
    BY <1>3, <2>1, <2>6, <2>8 DEF FireCount
<1>4. CASE ~Degenerate(spec) /\ spec.kind.type # "every"
  <2>1. spec.kind.at \in Nat
    BY <1>1, <1>4, ConstantsAssumption DEF Kind, Degenerate
  <2>2. at % DayLen \in Nat /\ at % DayLen < DayLen
    BY ConstantsAssumption
  <2>3. NextDaily(spec.kind.at, at) > at
    BY <2>1, <2>2, ConstantsAssumption DEF NextDaily
  <2> QED
    BY <1>4, <2>3 DEF FireCount, PlannedNext
<1> QED
  BY <1>2, <1>3, <1>4

(* More slots are missed as time goes by. *)
LEMMA MissedSlotsGrow ==
  ASSUME NEW spec \in ScheduleSpec, NEW a \in Nat, NEW b \in Nat,
         spec.next <= a, a <= b,
         spec.kind.type = "every", spec.kind.interval > 0
  PROVE  MissedSlots(spec, a) \in Nat /\ MissedSlots(spec, a) <= MissedSlots(spec, b)
<1>1. spec.next \in Nat /\ spec.kind.interval \in Nat \ {0}
  BY DEF ScheduleSpec, Kind
<1> DEFINE d == spec.kind.interval
           m == a - spec.next
           n == b - spec.next
<1>2. m \in Nat /\ n \in Nat /\ m <= n /\ d \in Nat \ {0}
  BY <1>1
<1> HIDE DEF d, m, n
<1>3. m \div d \in Nat /\ n \div d \in Nat /\ m \div d <= n \div d
  BY <1>2
<1> QED
  BY <1>3 DEF MissedSlots, d, m, n

(* A serviced row is next due after its sweep: nothing spins the loop. *)
THEOREM NothingSpins == Spec => NeverSpins
<1>1. ASSUME SchedInv, [Next]_vars, NEW i \in Stored,
             rows'[i] # rows[i]
      PROVE  rows'[i].revoked \/ rows'[i].next > sweptAt
  <2>1. i \in Ids /\ rows[i] # NoRow
    BY DEF Stored
  <2>2. Revoked(rows[i]).revoked
    BY Zenon DEF Revoked
  <2>3. CASE rows'[i] = Revoked(rows[i])
    BY <2>2, <2>3
  <2>4. CASE
        /\ todo[i] # NoRow /\ ~Degenerate(todo[i])
        /\ rows'[i] = Moved(rows[i], PlannedNext(todo[i], sweptAt))
    <3>1. /\ todo[i] \in ScheduleSpec /\ todo[i].next <= sweptAt
          /\ sweptAt \in Nat
      BY <1>1, <2>1, <2>4 DEF SchedInv, TypeOK, Snapshot
    <3>2. PlannedNext(todo[i], sweptAt) > sweptAt
      BY <2>4, <3>1, PlanBounds
    <3> QED
      BY <2>4, <3>2 DEF Moved
  <2> QED
    BY <1>1, <2>3, <2>4, RowSteps
<1>2. SchedInv /\ [Next]_vars =>
        [\A i \in Stored : rows'[i] # rows[i]
            => rows'[i].revoked \/ rows'[i].next > sweptAt]_vars
  BY <1>1
<1> QED
  BY <1>2, SchedulerInvariant, PTL DEF Spec, NeverSpins

\* Unless its service was cut short, a row not in service has not fired
\* since its next was set, and one in service no more than planned.
FireInv ==
  \A i \in Ids : i \notin lost =>
    /\ cur # i => fired[i] = 0
    /\ cur = i => fired[i] + left <= FireCount(todo[i], sweptAt)

LEMMA FireStep == SchedInv /\ FireInv /\ [Next]_vars => FireInv'
<1> SUFFICES ASSUME SchedInv, FireInv, [Next]_vars, NEW i \in Ids, i \notin lost'
             PROVE  /\ cur' # i => fired'[i] = 0
                    /\ cur' = i => fired'[i] + left' <= FireCount(todo'[i], sweptAt')
  BY DEF FireInv
<1>1. CASE \/ \E j \in Ids, k \in Kinds, p \in Policies, d \in 0 .. TickLen :
                 Add(j, k, p, d)
           \/ \E j \in Ids : Cancel(j)
           \/ PassTime \/ UNCHANGED vars
  BY <1>1 DEF FireInv, Add, Cancel, PassTime, loopVars, vars
<1>2. CASE Restart \/ SweepFails
  BY <1>2 DEF FireInv, Restart, SweepFails
<1>3. CASE Crash
  <2>1. cur' = NoRow /\ fired' = fired
    BY <1>3 DEF Crash
  <2>2. i \notin lost /\ cur # i
    <3>1. CASE cur = NoRow
      BY <1>3, <3>1, NoRowAssumption DEF Crash
    <3>2. CASE cur # NoRow
      BY <1>3, <3>2 DEF Crash
    <3> QED
      BY <3>1, <3>2
  <2> QED
    BY <2>1, <2>2, NoRowAssumption DEF FireInv
<1>4. CASE AdvanceFails
  <2>1. i \notin lost /\ cur # i /\ cur' = NoRow /\ fired' = fired
    BY <1>4 DEF AdvanceFails, Done
  <2> QED
    BY <2>1, NoRowAssumption DEF FireInv
<1>5. CASE Sweep
  <2>1. cur = NoRow /\ cur' = NoRow /\ fired' = fired /\ lost' = lost
    BY <1>5 DEF Sweep, Waiting
  <2> QED
    BY <2>1, NoRowAssumption DEF FireInv
<1>6. ASSUME NEW j \in Ids, Service(j)
      PROVE  /\ cur' # i => fired'[i] = 0
             /\ cur' = i => fired'[i] + left' <= FireCount(todo'[i], sweptAt')
  <2>1. /\ cur = NoRow /\ cur' = j /\ left' = FireCount(todo[j], sweptAt)
        /\ UNCHANGED <<fired, lost, todo, sweptAt>>
    BY <1>6 DEF Service
  <2>2. fired[i] = 0
    BY <2>1, NoRowAssumption DEF FireInv
  <2>3. todo[j] \in ScheduleSpec /\ todo[j].next <= sweptAt /\ sweptAt \in Nat
    BY <1>6 DEF Service, SchedInv, TypeOK, Snapshot
  <2>4. FireCount(todo[j], sweptAt) \in Nat
    BY <2>3, PlanType
  <2>5. CASE i = j
    BY <2>1, <2>2, <2>4, <2>5
  <2>6. CASE i # j
    BY <2>1, <2>2, <2>6
  <2> QED
    BY <2>5, <2>6
<1>7. CASE Fire
  <2>1. cur \in Ids /\ left \in Nat /\ left > 0 /\ fired \in [Ids -> Nat]
    BY <1>7 DEF Fire, SchedInv, TypeOK
  <2>2. /\ cur' = cur /\ left' = left - 1 /\ lost' = lost
        /\ todo' = todo /\ sweptAt' = sweptAt
        /\ fired' = [fired EXCEPT ![cur] = @ + 1]
    BY <1>7 DEF Fire
  <2>3. CASE cur = i
    <3>1. fired'[i] + left' = fired[i] + left
      BY <2>1, <2>2, <2>3
    <3> QED
      BY <2>2, <2>3, <3>1 DEF FireInv
  <2>4. CASE cur # i
    BY <2>1, <2>2, <2>4 DEF FireInv
  <2> QED
    BY <2>3, <2>4
<1>8. CASE Advance
  <2>1. cur \in Ids /\ fired \in [Ids -> Nat]
    BY <1>8 DEF Advance, Served, SchedInv, TypeOK
  <2>2. /\ cur' = NoRow /\ fired' = [fired EXCEPT ![cur] = 0]
        /\ lost' = lost \ {cur}
    BY <1>8 DEF Advance, Done
  <2>3. CASE cur = i
    BY <2>1, <2>2, <2>3, NoRowAssumption
  <2>4. CASE cur # i
    BY <2>1, <2>2, <2>4, NoRowAssumption DEF FireInv
  <2> QED
    BY <2>3, <2>4
<1> QED
  BY <1>1, <1>2, <1>3, <1>4, <1>5, <1>6, <1>7, <1>8 DEF Next, Environment, Loop

(* Without a fault, a row never fires more often than it had occurrences:  *)
(* whatever its kind and policy, however late the loop, whatever it is     *)
(* interleaved with.                                                       *)
THEOREM FiresAreOccurrences == Spec => []NoExtraFires
<1>1. Init => FireInv
  BY NoRowAssumption DEF Init, FireInv
<1>2. Spec => []FireInv
  BY <1>1, FireStep, SchedulerInvariant, PTL DEF Spec
<1>3. SchedInv /\ FireInv => NoExtraFires
  <2> SUFFICES ASSUME SchedInv, FireInv, NEW i \in Stored, i \notin lost
               PROVE  fired[i] <= Occurrences(rows[i])
    BY DEF NoExtraFires
  <2>1. /\ i \in Ids /\ rows[i] \in ScheduleSpec /\ now \in Nat
        /\ fired[i] \in Nat /\ left \in Nat
    BY DEF Stored, SchedInv, TypeOK
  <2>2. CASE cur # i
    <3>1. fired[i] = 0
      BY <2>1, <2>2 DEF FireInv
    <3>2. CASE rows[i].next > now
      BY <3>1, <3>2 DEF Occurrences
    <3>3. CASE rows[i].next <= now /\ rows[i].kind.type = "every"
               /\ rows[i].kind.interval > 0
      BY <2>1, <3>1, <3>3, MissedSlotsGrow DEF Occurrences, ScheduleSpec
    <3>4. CASE ~(rows[i].next > now) /\ ~(rows[i].kind.type = "every"
               /\ rows[i].kind.interval > 0)
      BY <3>1, <3>4 DEF Occurrences
    <3> QED
      BY <2>1, <3>2, <3>3, <3>4 DEF ScheduleSpec
  <2>3. CASE cur = i
    <3>1. /\ todo[i] \in ScheduleSpec /\ todo[i].next <= sweptAt
          /\ rows[i].kind = todo[i].kind /\ rows[i].next = todo[i].next
          /\ sweptAt \in Nat /\ sweptAt <= now
      BY <2>1, <2>3, NoRowAssumption DEF SchedInv, InService, TypeOK, Snapshot
    <3>2. FireCount(todo[i], sweptAt) \in Nat
      BY <3>1, PlanType
    <3>3. fired[i] <= FireCount(todo[i], sweptAt)
      BY <2>1, <2>3, <3>2 DEF FireInv
    <3>4. rows[i].next \in Nat /\ rows[i].next <= now
      BY <2>1, <3>1 DEF ScheduleSpec
    <3>5. CASE rows[i].kind.type = "every" /\ rows[i].kind.interval > 0
      <4>1. Occurrences(rows[i]) = MissedSlots(rows[i], now)
        BY <2>1, <3>4, <3>5 DEF Occurrences
      <4>2. /\ MissedSlots(rows[i], sweptAt) \in Nat
            /\ MissedSlots(rows[i], sweptAt) <= MissedSlots(rows[i], now)
        BY <2>1, <3>1, <3>5, MissedSlotsGrow
      <4>3. MissedSlots(rows[i], sweptAt) >= 1
        <5>1. rows[i].kind.interval \in Nat \ {0}
          BY <2>1, <3>5 DEF ScheduleSpec, Kind
        <5>0. sweptAt - rows[i].next \in Nat
          BY <3>1, <3>4
        <5>2. (sweptAt - rows[i].next) \div rows[i].kind.interval \in Nat
          BY <5>0, <5>1, Quotient
        <5> DEFINE q == (sweptAt - rows[i].next) \div rows[i].kind.interval
        <5>3. MissedSlots(rows[i], sweptAt) = q + 1
          BY DEF MissedSlots
        <5> HIDE DEF q
        <5>4. q \in Nat
          BY <5>2 DEF q
        <5> QED
          BY <5>3, <5>4
      <4>4. MissedSlots(todo[i], sweptAt) = MissedSlots(rows[i], sweptAt)
        BY <3>1 DEF MissedSlots
      <4>5. MissedSlots(rows[i], now) \in Nat
        BY <2>1, <3>4, <3>5, MissedSlotsGrow
      <4>6. FireCount(todo[i], sweptAt) <= MissedSlots(rows[i], sweptAt)
        BY <3>1, <3>2, <4>2, <4>3, <4>4, PlanBounds
      <4> QED
        BY <2>1, <3>2, <3>3, <4>1, <4>2, <4>5, <4>6
    <3>6. CASE ~(rows[i].kind.type = "every" /\ rows[i].kind.interval > 0)
      <4>1. Occurrences(rows[i]) = 1
        BY <2>1, <3>4, <3>6 DEF Occurrences
      <4>2. FireCount(todo[i], sweptAt) <= 1
        BY <3>1, <3>6, PlanBounds
      <4> QED
        BY <2>1, <3>2, <3>3, <4>1, <4>2
    <3> QED
      BY <3>5, <3>6
  <2> QED
    BY <2>2, <2>3
<1> QED
  BY <1>2, <1>3, SchedulerInvariant, PTL

----------------------------------------------------------------------------
(* The daily slot.  Everything is said in wall-clock hours: the first      *)
(* instant of an hour is ahead of u exactly when the hour is ahead of u's  *)
(* wall clock, so comparing slots is comparing hours, and a date is the    *)
(* quotient q with q * DayHours <= hour < q * DayHours + DayHours.         *)

\* The zones of the module, the wall-clock hour a gap leaves out, and the
\* first instant of any other.
Gap(z, l) == z.shift = 1 /\ l = z.change
First(z, l) == IF l < z.change THEN l ELSE l - z.shift
Zones == {z \in [shift : {-1, 0, 1}, change : Nat] : z.shift = 0 \/ z.change >= 1}

LEMMA MinIs ==
  ASSUME NEW S \in SUBSET Int, NEW x \in S, \A y \in S : x <= y
  PROVE  Min(S) = x
PROOF
<1>1. \A y \in S : (\A w \in S : y <= w) => y = x
  OBVIOUS
<1> QED BY <1>1 DEF Min

\* Min of the instants, in closed form.
LEMMA InstantsAre ==
  ASSUME NEW z \in Zones, NEW l \in Nat
  PROVE  /\ Instants(z, l) = {} <=> Gap(z, l)
         /\ ~Gap(z, l) => Min(Instants(z, l)) = First(z, l)
PROOF
<1>0. z.shift \in {-1, 0, 1} /\ z.change \in Nat
  BY DEF Zones
<1> DEFINE s == z.shift
           c == z.change
<1>1. \A u \in Int : u \in Instants(z, l) <=>
        \/ u = l /\ (l >= c => s = 0)
        \/ u = l - s /\ (l - s < c => s = 0)
  BY <1>0 DEF Instants, Local, Offset
<1>2. Instants(z, l) \subseteq Int
  BY <1>0 DEF Instants
<1> HIDE DEF s, c
<1>3. Instants(z, l) = {} <=> Gap(z, l)
  <2>1. CASE Gap(z, l)
    <3>1. \A u \in Int : u \notin Instants(z, l)
      BY <1>0, <1>1, <2>1 DEF Gap, s, c
    <3> QED BY <1>2, <2>1, <3>1
  <2>2. CASE ~Gap(z, l)
    <3>1. l \in Instants(z, l) \/ l - s \in Instants(z, l)
      BY <1>0, <1>1, <2>2 DEF Gap, s, c
    <3> QED BY <2>2, <3>1
  <2> QED BY <2>1, <2>2
<1>4. ASSUME ~Gap(z, l) PROVE Min(Instants(z, l)) = First(z, l)
  <2>1. First(z, l) \in Int
    BY <1>0 DEF First
  <2>2. First(z, l) \in Instants(z, l)
    BY <1>0, <1>1, <1>4, <2>1 DEF First, Gap, s, c
  <2>3. \A u \in Instants(z, l) : First(z, l) <= u
    BY <1>0, <1>1, <1>2, <1>4 DEF First, Gap, s, c
  <2> QED BY <1>2, <2>2, <2>3, MinIs
<1> QED BY <1>3, <1>4

LEMMA LocalIs ==
  ASSUME NEW z \in Zones, NEW u \in Nat
  PROVE  Local(z, u) \in Nat
BY DEF Zones, Local, Offset

\* An hour's first instant is ahead when the hour is ahead of the clock.
LEMMA FirstIs ==
  ASSUME NEW z \in Zones, NEW l \in Nat, ~Gap(z, l)
  PROVE  /\ First(z, l) \in Nat
         /\ Local(z, First(z, l)) = l
         /\ \A u \in Nat : First(z, l) > u <=> l > Local(z, u)
PROOF
<1>0. z.shift \in {-1, 0, 1} /\ z.change \in Nat /\ (z.shift = 0 \/ z.change >= 1)
  BY DEF Zones
<1>1. First(z, l) \in Nat
  BY <1>0 DEF First, Gap
<1>2. Local(z, First(z, l)) = l
  BY <1>0 DEF First, Gap, Local, Offset
<1>3. ASSUME NEW u \in Nat PROVE First(z, l) > u <=> l > Local(z, u)
  BY <1>0 DEF First, Gap, Local, Offset
<1> QED BY <1>1, <1>2, <1>3

\* Dates are quotients: their products and their bounds.
LEMMA DaysApart ==
  ASSUME NEW a \in Int, NEW b \in Int, a < b
  PROVE  /\ a * DayHours \in Int /\ b * DayHours \in Int
         /\ a * DayHours + DayHours <= b * DayHours
PROOF
<1>1. DayHours \in Nat /\ DayHours >= 1
  BY DailyAssumption
<1>2. b - a - 1 \in Nat
  OBVIOUS
<1>3. (b - a - 1) * DayHours >= 0
  BY <1>1, <1>2
<1>4. (b - a - 1) * DayHours = b * DayHours - a * DayHours - DayHours
  BY <1>1
<1> QED BY <1>1, <1>3, <1>4

LEMMA DateOf ==
  ASSUME NEW x \in Nat
  PROVE  /\ x \div DayHours \in Nat
         /\ (x \div DayHours) * DayHours <= x
         /\ x < (x \div DayHours) * DayHours + DayHours
PROOF
BY DailyAssumption

LEMMA DateIs ==
  ASSUME NEW x \in Nat, NEW q \in Nat, q * DayHours <= x, x < q * DayHours + DayHours
  PROVE  x \div DayHours = q
PROOF
<1>1. /\ x \div DayHours \in Nat
      /\ (x \div DayHours) * DayHours <= x
      /\ x < (x \div DayHours) * DayHours + DayHours
  BY DateOf
<1> DEFINE p == x \div DayHours
<1> HIDE DEF p
<1>2. ~(p < q) /\ ~(q < p)
  BY <1>1, DaysApart, DailyAssumption DEF p
<1> QED BY <1>1, <1>2 DEF p
LEMMA LeastOfThree ==
  ASSUME NEW a \in Int, NEW b \in Int, NEW c \in Int, NEW S \in SUBSET {a, b, c}, S # {}
  PROVE  \E m \in S : \A x \in S : m <= x
PROOF
<1>1. CASE a \in S /\ (b \in S => a <= b) /\ (c \in S => a <= c)
  BY <1>1
<1>2. CASE b \in S /\ (a \in S => b <= a) /\ (c \in S => b <= c)
  BY <1>2
<1>3. CASE c \in S /\ (a \in S => c <= a) /\ (b \in S => c <= b)
  BY <1>3
<1>4. a \in S \/ b \in S \/ c \in S
  OBVIOUS
<1> QED BY <1>1, <1>2, <1>3, <1>4

\* What the code asks of a date, in wall-clock hours.
LEMMA SlotsAre ==
  ASSUME NEW z \in Zones, NEW h \in 0 .. DayHours - 1, NEW d \in Nat
  PROVE  /\ d * DayHours + h \in Nat
         /\ HasSlot(z, d, h) <=> ~Gap(z, d * DayHours + h)
         /\ HasSlot(z, d, h) => /\ SlotOf(z, d, h) = First(z, d * DayHours + h)
                                /\ SlotOf(z, d, h) \in Nat
                                /\ Local(z, SlotOf(z, d, h)) = d * DayHours + h
                                /\ Date(z, SlotOf(z, d, h)) = d
         /\ \A u \in Nat : IsNext(z, d, h, u) <=>
              ~Gap(z, d * DayHours + h) /\ d * DayHours + h > Local(z, u)
PROOF
<1> DEFINE l == d * DayHours + h
<1>0. h \in Nat /\ h < DayHours /\ DayHours \in Nat
  BY DailyAssumption
<1>1. d * DayHours \in Nat
  BY <1>0
<1>2. l \in Nat
  BY <1>0, <1>1
<1>3. HasSlot(z, d, h) <=> ~Gap(z, l)
  BY <1>2, InstantsAre DEF HasSlot
<1>4. ~Gap(z, l) => SlotOf(z, d, h) = First(z, l)
  BY <1>2, InstantsAre DEF SlotOf
<1>5. ~Gap(z, l) => /\ First(z, l) \in Nat
                    /\ Local(z, First(z, l)) = l
                    /\ \A u \in Nat : First(z, l) > u <=> l > Local(z, u)
  BY <1>2, FirstIs
<1>6. l \div DayHours = d
  BY <1>0, <1>1, <1>2, DateIs
<1> HIDE DEF l
<1>7. HasSlot(z, d, h) => Date(z, SlotOf(z, d, h)) = d
  BY <1>3, <1>4, <1>5, <1>6 DEF Date
<1>8. \A u \in Nat : IsNext(z, d, h, u) <=> ~Gap(z, l) /\ l > Local(z, u)
  BY <1>3, <1>4, <1>5 DEF IsNext
<1> QED BY <1>2, <1>3, <1>4, <1>5, <1>7, <1>8 DEF l

\* The wall clock and the date, one and two days of elapsed time later.
LEMMA DatesAre ==
  ASSUME NEW z \in Zones, NEW u \in Nat
  PROVE  LET y == Local(z, u)
             q == Date(z, u)
         IN /\ y \in Nat /\ q \in Nat
            /\ q * DayHours \in Nat
            /\ q * DayHours <= y /\ y < q * DayHours + DayHours
PROOF
BY LocalIs, DateOf, DailyAssumption DEF Date

LEMMA DaysAre ==
  ASSUME NEW z \in Zones, NEW u \in Nat
  PROVE  /\ Days(z, u, 1) = {Date(z, u), Date(z, u + DayHours)}
         /\ Days(z, u, 2) = {Date(z, u), Date(z, u + DayHours), Date(z, u + 2 * DayHours)}
PROOF
<1>1. 0 .. 1 = {0, 1} /\ 0 .. 2 = {0, 1, 2}
  OBVIOUS
<1>2. u + 0 * DayHours = u /\ u + 1 * DayHours = u + DayHours
  BY DailyAssumption
<1>3. Days(z, u, 1) = {Date(z, u + k * DayHours) : k \in {0, 1}}
  BY <1>1 DEF Days
<1>4. Days(z, u, 2) = {Date(z, u + k * DayHours) : k \in {0, 1, 2}}
  BY <1>1 DEF Days
<1> QED BY <1>2, <1>3, <1>4

\* How the wall clock moves in one day of elapsed time and in two.
LEMMA ClockMoves ==
  ASSUME NEW z \in Zones, NEW u \in Nat
  PROVE  LET y == Local(z, u)
             y1 == Local(z, u + DayHours)
             y2 == Local(z, u + 2 * DayHours)
         IN \/ /\ u + 2 * DayHours < z.change
               /\ y = u /\ y1 = u + DayHours /\ y2 = u + 2 * DayHours
            \/ /\ u + DayHours < z.change /\ z.change <= u + 2 * DayHours
               /\ y = u /\ y1 = u + DayHours /\ y2 = u + 2 * DayHours + z.shift
            \/ /\ u < z.change /\ z.change <= u + DayHours
               /\ y = u /\ y1 = u + DayHours + z.shift /\ y2 = u + 2 * DayHours + z.shift
            \/ /\ z.change <= u
               /\ y = u + z.shift /\ y1 = u + DayHours + z.shift
               /\ y2 = u + 2 * DayHours + z.shift
PROOF
BY DailyAssumption DEF Zones, Local, Offset

\* A search over one day finds a slot where the offset is fixed, one over two
\* days wherever it is.
LEMMA SomeIsNext ==
  ASSUME NEW z \in Zones, NEW h \in 0 .. DayHours - 1, NEW u \in Nat,
         NEW span \in {1, 2}, span = 1 => z.shift = 0
  PROVE  /\ \E d \in Days(z, u, span) : IsNext(z, d, h, u)
         /\ \A d \in Days(z, u, span) : d \in Nat /\ d <= Date(z, u) + 3
PROOF
<1> DEFINE D == DayHours
           s == z.shift
           c == z.change
           y == Local(z, u)
           y1 == Local(z, u + D)
           y2 == Local(z, u + 2 * D)
           q == Date(z, u)
           q1 == Date(z, u + D)
           q2 == Date(z, u + 2 * D)
<1>0. /\ D \in Nat /\ D >= 1 /\ h \in Nat /\ h < D
      /\ s \in {-1, 0, 1} /\ c \in Nat /\ u + D \in Nat /\ u + 2 * D \in Nat
  BY DailyAssumption DEF Zones
<1>1. /\ y \in Nat /\ q \in Nat /\ q * D \in Nat /\ q * D <= y /\ y < q * D + D
      /\ y1 \in Nat /\ q1 \in Nat /\ q1 * D \in Nat /\ q1 * D <= y1 /\ y1 < q1 * D + D
      /\ y2 \in Nat /\ q2 \in Nat /\ q2 * D \in Nat /\ q2 * D <= y2 /\ y2 < q2 * D + D
  BY <1>0, DatesAre
<1>2. \/ u + 2 * D < c /\ y = u /\ y1 = u + D /\ y2 = u + 2 * D
      \/ u + D < c /\ c <= u + 2 * D /\ y = u /\ y1 = u + D /\ y2 = u + 2 * D + s
      \/ u < c /\ c <= u + D /\ y = u /\ y1 = u + D + s /\ y2 = u + 2 * D + s
      \/ c <= u /\ y = u + s /\ y1 = u + D + s /\ y2 = u + 2 * D + s
  BY ClockMoves
<1>3. \A a, b \in Nat : a < b => a * D + D <= b * D
  BY DaysApart
<1>4. \A d \in Nat : IsNext(z, d, h, u) <=> ~Gap(z, d * D + h) /\ d * D + h > y
  BY SlotsAre
<1>5. q1 \in Days(z, u, span) /\ (span = 2 => q2 \in Days(z, u, span))
      /\ \A d \in Days(z, u, span) : d \in {q, q1, q2}
  BY DaysAre
<1> HIDE DEF D, s, c, y, y1, y2, q, q1, q2
<1>6. q1 <= q + 3 /\ q2 <= q + 3
  <2>1. ASSUME NEW p \in Nat, p * D \in Nat, p * D <= y + 2 * D + 1 PROVE p <= q + 3
    <3>1. SUFFICES ASSUME q + 3 < p PROVE FALSE
      BY <1>1
    <3>2. (q + 3) * D = q * D + 3 * D
      BY <1>0, <1>1
    <3>3. (q + 3) * D + D <= p * D
      BY <1>1, <1>3, <3>1
    <3> QED BY <1>0, <1>1, <2>1, <3>2, <3>3
  <2>2. y1 <= y + 2 * D + 1 /\ y2 <= y + 2 * D + 1
    BY <1>0, <1>1, <1>2
  <2>3. q1 * D <= y + 2 * D + 1 /\ q2 * D <= y + 2 * D + 1
    BY <1>0, <1>1, <2>2
  <2> QED BY <1>1, <2>1, <2>3
<1>7. \A d \in Days(z, u, span) : d \in Nat /\ d <= q + 3
  BY <1>1, <1>5, <1>6
<1>8. s >= 0 => q1 * D + h > y
  BY <1>0, <1>1, <1>2
<1>9. s # 0 => span = 2
  BY DEF s
<1>10. \E d \in Days(z, u, span) : IsNext(z, d, h, u)
  <2>1. CASE s = 0
    <3>1. ~Gap(z, q1 * D + h)
      BY <2>1 DEF Gap, s
    <3> QED BY <1>1, <1>4, <1>5, <1>8, <2>1, <3>1
  <2>2. CASE s = -1
    <3>1. ~Gap(z, q2 * D + h)
      BY <2>2 DEF Gap, s
    <3>2. q2 * D + h > y
      <4>1. q2 * D > y
        BY <1>0, <1>1, <1>2, <2>2
      <4> QED BY <1>0, <1>1, <4>1
    <3> QED BY <1>1, <1>4, <1>5, <1>9, <2>2, <3>1, <3>2
  <2>3. CASE s = 1
    <3>1. q2 * D + h > y /\ y2 >= y1 + D
      BY <1>0, <1>1, <1>2, <2>3
    <3>2. q1 < q2
      <4>1. SUFFICES ASSUME q2 <= q1 PROVE FALSE
        BY <1>1
      <4>2. q2 * D <= q1 * D
        BY <1>0, <1>1, <1>3, <4>1
      <4> QED BY <1>0, <1>1, <3>1, <4>2
    <3>3. q1 * D + h # q2 * D + h
      BY <1>0, <1>1, <1>3, <3>2
    <3>4. ~Gap(z, q1 * D + h) \/ ~Gap(z, q2 * D + h)
      BY <3>3 DEF Gap
    <3> QED BY <1>1, <1>4, <1>5, <1>8, <1>9, <2>3, <3>1, <3>4
  <2> QED BY <1>0, <2>1, <2>2, <2>3
<1> QED BY <1>7, <1>10 DEF q

\* The search answers with the slot of the first date it finds.
LEMMA SearchIs ==
  ASSUME NEW z \in Zones, NEW h \in 0 .. DayHours - 1, NEW u \in Nat,
         NEW span \in {1, 2}, span = 1 => z.shift = 0
  PROVE  \E d \in Days(z, u, span) :
           /\ d \in Nat /\ d <= Date(z, u) + 3
           /\ IsNext(z, d, h, u)
           /\ \A e \in Days(z, u, span) : IsNext(z, e, h, u) => d <= e
           /\ Search(z, h, u, span) = SlotOf(z, d, h)
PROOF
<1> DEFINE found == {d \in Days(z, u, span) : IsNext(z, d, h, u)}
<1>1. found # {} /\ \A d \in Days(z, u, span) : d \in Nat /\ d <= Date(z, u) + 3
  BY SomeIsNext
<1>2. PICK a, b, c : a \in Int /\ b \in Int /\ c \in Int /\ found \subseteq {a, b, c}
  <2>1. /\ Date(z, u) \in Int /\ Date(z, u + DayHours) \in Int
        /\ Date(z, u + 2 * DayHours) \in Int
    <3>1. u + DayHours \in Nat /\ u + 2 * DayHours \in Nat
      BY DailyAssumption
    <3> QED BY <3>1, DatesAre
  <2> QED BY <2>1, DaysAre
<1>3. PICK d \in found : \A e \in found : d <= e
  BY <1>1, <1>2, LeastOfThree
<1>4. Min(found) = d
  <2>1. found \in SUBSET Int
    BY <1>2
  <2> QED BY <1>3, <2>1, MinIs
<1>5. Search(z, h, u, span) = SlotOf(z, d, h)
  BY <1>1, <1>4 DEF Search
<1> QED BY <1>1, <1>3, <1>5

\* The search steps over no date with a slot ahead, unless it starts in the
\* last hour of the eve of a day with a gap.
LEMMA NoneIsSteppedOver ==
  ASSUME NEW z \in Zones, NEW h \in 0 .. DayHours - 1, NEW u \in Nat,
         NEW span \in {1, 2}, span = 1 => z.shift = 0,
         NEW d \in Days(z, u, span),
         \A e \in Days(z, u, span) : IsNext(z, e, h, u) => d <= e,
         NEW e \in Nat, IsNext(z, e, h, u), e < d
  PROVE  LET q == Date(z, u)
         IN /\ z.shift = 1
            /\ Local(z, u) = q * DayHours + DayHours - 1
            /\ (q + 1) * DayHours <= z.change
            /\ z.change < (q + 1) * DayHours + DayHours
PROOF
<1> DEFINE D == DayHours
           s == z.shift
           c == z.change
           y == Local(z, u)
           y1 == Local(z, u + D)
           y2 == Local(z, u + 2 * D)
           q == Date(z, u)
           q1 == Date(z, u + D)
           q2 == Date(z, u + 2 * D)
<1>0. /\ D \in Nat /\ D >= 1 /\ h \in Nat /\ h < D
      /\ s \in {-1, 0, 1} /\ c \in Nat /\ u + D \in Nat /\ u + 2 * D \in Nat
  BY DailyAssumption DEF Zones
<1>1. /\ y \in Nat /\ q \in Nat /\ q * D \in Nat /\ q * D <= y /\ y < q * D + D
      /\ y1 \in Nat /\ q1 \in Nat /\ q1 * D \in Nat /\ q1 * D <= y1 /\ y1 < q1 * D + D
      /\ y2 \in Nat /\ q2 \in Nat /\ q2 * D \in Nat /\ q2 * D <= y2 /\ y2 < q2 * D + D
  BY <1>0, DatesAre
<1>2. \/ u + 2 * D < c /\ y = u /\ y1 = u + D /\ y2 = u + 2 * D
      \/ u + D < c /\ c <= u + 2 * D /\ y = u /\ y1 = u + D /\ y2 = u + 2 * D + s
      \/ u < c /\ c <= u + D /\ y = u /\ y1 = u + D + s /\ y2 = u + 2 * D + s
      \/ c <= u /\ y = u + s /\ y1 = u + D + s /\ y2 = u + 2 * D + s
  BY ClockMoves
<1>3. \A a, b \in Nat : a < b => a * D + D <= b * D
  BY DaysApart
<1>4. \A p \in Nat : IsNext(z, p, h, u) <=> ~Gap(z, p * D + h) /\ p * D + h > y
  BY SlotsAre
<1>5. /\ q \in Days(z, u, span) /\ q1 \in Days(z, u, span)
      /\ span = 2 => q2 \in Days(z, u, span)
      /\ d \in {q, q1} \/ (span = 2 /\ d = q2)
  BY DaysAre
<1>6. \A p \in Nat : p * D \in Nat /\ (p + 1) * D = p * D + D
  BY <1>0
<1>7. s = 1 => span = 2
  OBVIOUS
<1>8. Gap(z, q1 * D + h) => c = q1 * D + h
  BY DEF Gap
<1> HIDE DEF D, s, c, y, y1, y2, q, q1, q2
<1>9. e >= q + 1
  <2>1. ~(e < q)
    BY <1>0, <1>1, <1>3, <1>4, <1>6
  <2>2. e # q
    BY <1>1, <1>5
  <2> QED BY <1>1, <2>1, <2>2
<1>10. d >= q + 2 /\ e # q1 /\ (span = 2 => e # q2)
  BY <1>1, <1>5, <1>9
<1>11. \A p \in Nat : (p + 2) * D = p * D + 2 * D /\ (p + 3) * D = p * D + 3 * D
  BY <1>0
<1>12. \A a, b \in Nat : a * D < b * D + D => a <= b
  BY <1>0, <1>3, <1>6
<1>13. CASE s <= 0
  <2>1. q1 <= q + 1
    <3>1. q1 * D < (q + 1) * D + D
      BY <1>0, <1>1, <1>2, <1>6, <1>13
    <3> QED BY <1>1, <1>12, <3>1
  <2>2. d = q2 /\ span = 2
    BY <1>1, <1>5, <1>10, <2>1
  <2>3. q2 <= q1 + 1
    <3>1. q2 * D < (q1 + 1) * D + D
      BY <1>0, <1>1, <1>2, <1>6, <1>13
    <3> QED BY <1>1, <1>12, <3>1
  <2> QED BY <1>1, <1>9, <1>10, <2>1, <2>2, <2>3
<1>14. CASE s = 1
  <2>1. q1 >= q + 1
    <3>1. (q + 1) * D < q1 * D + D
      BY <1>0, <1>1, <1>2, <1>6, <1>14
    <3> QED BY <1>1, <1>12, <3>1
  <2>2. q1 <= q + 2
    <3>1. q1 * D < (q + 2) * D + D
      BY <1>0, <1>1, <1>2, <1>11, <1>14
    <3> QED BY <1>1, <1>12, <3>1
  <2>3. CASE q1 = q + 1
    <3>1. d = q2
      BY <1>1, <1>5, <1>10, <2>3
    <3>2. q2 >= q1 + 2
      BY <1>1, <1>9, <1>10, <2>3, <3>1
    <3>3. q1 * D + 2 * D <= q2 * D
      <4>1. (q1 + 2) * D <= q2 * D
        BY <1>0, <1>1, <1>3, <3>2
      <4> QED BY <1>1, <1>11, <4>1
    <3>4. u + D < c /\ y1 = u + D /\ y1 >= q1 * D + D - 1
      BY <1>0, <1>1, <1>2, <1>14, <3>3
    <3>5. ~Gap(z, q1 * D + h)
      BY <1>0, <1>1, <1>8, <3>4
    <3>6. q1 * D + h > y
      BY <1>0, <1>1, <1>2, <1>14
    <3>7. d <= q1
      BY <1>1, <1>4, <1>5, <3>5, <3>6
    <3> QED BY <1>1, <3>1, <3>2, <3>7
  <2>4. CASE q1 = q + 2
    <3>1. q1 * D = q * D + 2 * D
      BY <1>1, <1>11, <2>4
    <3>2. u < c /\ c <= u + D /\ y = u /\ y = q * D + D - 1
      BY <1>0, <1>1, <1>2, <1>14, <3>1
    <3> QED BY <1>0, <1>1, <1>6, <1>14, <3>2 DEF D, s, c, y, q
  <2> QED BY <1>1, <2>1, <2>2, <2>3, <2>4
<1> QED BY <1>0, <1>13, <1>14

\* A later date has a later slot.
LEMMA SlotsInOrder ==
  ASSUME NEW z \in Zones, NEW h \in 0 .. DayHours - 1, NEW d \in Nat, NEW e \in Nat,
         HasSlot(z, d, h), HasSlot(z, e, h), d <= e
  PROVE  SlotOf(z, d, h) <= SlotOf(z, e, h)
PROOF
<1>1. d * DayHours + h <= e * DayHours + h
  <2>1. d * DayHours <= e * DayHours
    BY DaysApart, DailyAssumption
  <2>2. d * DayHours \in Nat /\ e * DayHours \in Nat
    BY DailyAssumption
  <2> QED BY <2>1, <2>2, DailyAssumption
<1>2. /\ SlotOf(z, d, h) \in Nat /\ SlotOf(z, e, h) \in Nat
      /\ Local(z, SlotOf(z, e, h)) = e * DayHours + h
      /\ d * DayHours + h \in Nat /\ e * DayHours + h \in Nat
  BY SlotsAre
<1>3. SlotOf(z, d, h) > SlotOf(z, e, h) =>
        d * DayHours + h > Local(z, SlotOf(z, e, h))
  BY <1>2, SlotsAre DEF IsNext
<1> QED BY <1>1, <1>2, <1>3

\* The chain of a schedule: what it fires next is what its search found.
DailyInv ==
  /\ \E s \in Shifts, c \in ChangeHours :
       zone = [shift |-> s, change |-> ChangeDay * DayHours + c]
  /\ named \in BOOLEAN
  /\ hour \in 0 .. DayHours - 1
  /\ computed \in Nat
  /\ nextFire = NextDailySlot(hour, computed)

Span == IF named THEN 2 ELSE 1

\* Both forms of the search are one search of the schedule's own zone.
LEMMA AnchorIs ==
  ASSUME DailyInv
  PROVE  /\ Anchor \in Zones /\ Span \in {1, 2} /\ (Span = 1 => Anchor.shift = 0)
         /\ \A u : NextDailySlot(hour, u) = Search(Anchor, hour, u, Span)
         /\ Anchor.shift # 0 => Anchor.change \div DayHours = ChangeDay
PROOF
<1>1. PICK s \in Shifts, c \in ChangeHours :
        zone = [shift |-> s, change |-> ChangeDay * DayHours + c]
  BY DEF DailyInv
<1>2. /\ s \in {-1, 0, 1} /\ c \in Nat /\ c < DayHours
      /\ DayHours \in Nat /\ DayHours >= 1 /\ ChangeDay \in Nat /\ ChangeDay >= 2
  BY DailyAssumption
<1>3. ChangeDay * DayHours \in Nat /\ ChangeDay * DayHours >= 1
  <2>1. 0 * DayHours + DayHours <= ChangeDay * DayHours
    BY <1>2, DaysApart
  <2> QED BY <1>2, <2>1
<1>4. zone \in Zones
  BY <1>1, <1>2, <1>3 DEF Zones
<1>5. zone.change \div DayHours = ChangeDay
  BY <1>1, <1>2, <1>3, DateIs
<1>6. NoChange \in Zones /\ NoChange.shift = 0
  BY DEF NoChange, Zones
<1> QED
  BY <1>4, <1>5, <1>6
     DEF DailyInv, Anchor, Span, NextDailySlot, NextNamedZoneDailyFire, NextDailyFire

\* What a fire that is set is.
LEMMA NextFireIs ==
  ASSUME DailyInv
  PROVE  \E d \in Nat :
           /\ d <= Date(Anchor, computed) + 3
           /\ IsNext(Anchor, d, hour, computed)
           /\ nextFire = SlotOf(Anchor, d, hour)
           /\ \A e \in Nat : IsNext(Anchor, e, hour, computed) /\ e < d => LastHourBeforeGap
PROOF
<1>1. /\ Anchor \in Zones /\ Span \in {1, 2} /\ (Span = 1 => Anchor.shift = 0)
      /\ nextFire = Search(Anchor, hour, computed, Span)
      /\ hour \in 0 .. DayHours - 1 /\ computed \in Nat
  BY AnchorIs DEF DailyInv
<1>2. PICK d \in Days(Anchor, computed, Span) :
        /\ d \in Nat /\ d <= Date(Anchor, computed) + 3
        /\ IsNext(Anchor, d, hour, computed)
        /\ \A e \in Days(Anchor, computed, Span) : IsNext(Anchor, e, hour, computed) => d <= e
        /\ nextFire = SlotOf(Anchor, d, hour)
  BY <1>1, SearchIs
<1>3. ASSUME NEW e \in Nat, IsNext(Anchor, e, hour, computed), e < d
      PROVE  LastHourBeforeGap
  <2> DEFINE q == Date(Anchor, computed)
             y == Local(Anchor, computed)
  <2>1. /\ Anchor.shift = 1
        /\ y = q * DayHours + DayHours - 1
        /\ (q + 1) * DayHours <= Anchor.change
        /\ Anchor.change < (q + 1) * DayHours + DayHours
    BY <1>1, <1>2, <1>3, NoneIsSteppedOver
  <2>2. q \in Nat /\ y \in Nat /\ Anchor.change \in Nat
    BY <1>1, DatesAre DEF Zones
  <2>3. Anchor.change \div DayHours = q + 1
    BY <2>1, <2>2, DateIs
  <2>4. q = ChangeDay - 1
    BY <2>1, <2>2, <2>3, AnchorIs, DailyAssumption
  <2>5. y % DayHours = DayHours - 1
    <3>1. y \div DayHours = q
      BY DEF Date
    <3> HIDE DEF q, y
    <3>2. y % DayHours = y - DayHours * (y \div DayHours)
      BY <2>2, DailyAssumption
    <3>3. DayHours * q = q * DayHours
      BY <2>2, DailyAssumption
    <3> QED BY <2>1, <2>2, <3>1, <3>2, <3>3, DailyAssumption
  <2> QED BY <2>1, <2>4, <2>5 DEF LastHourBeforeGap
<1> QED BY <1>2, <1>3

LEMMA DailyStep ==
  ASSUME DailyInv, [SlotNext]_slotVars
  PROVE  DailyInv'
PROOF
<1>1. CASE UNCHANGED slotVars
  BY <1>1 DEF DailyInv, slotVars, NextDailySlot, NextNamedZoneDailyFire
<1>2. ASSUME NEW delay \in 0 .. Late, SlotFire(delay) PROVE DailyInv'
  <2>1. nextFire \in Nat
    <3>1. PICK d \in Nat : IsNext(Anchor, d, hour, computed) /\ nextFire = SlotOf(Anchor, d, hour)
      BY NextFireIs
    <3> QED BY <3>1, AnchorIs, SlotsAre DEF IsNext, DailyInv
  <2>2. computed' \in Nat
    BY <1>2, <2>1, DailyAssumption DEF SlotFire
  <2>3. nextFire' = NextDailySlot(hour, computed)'
    BY <1>2 DEF SlotFire, NextDailySlot, NextNamedZoneDailyFire
  <2> QED BY <1>2, <2>2, <2>3 DEF DailyInv, SlotFire
<1> QED BY <1>1, <1>2 DEF SlotNext

LEMMA InitDaily == SlotInit => DailyInv
PROOF
<1> SUFFICES ASSUME SlotInit PROVE DailyInv
  OBVIOUS
<1>1. (ChangeDay - 2) * DayHours \in Nat
  BY DailyAssumption
<1>2. (ChangeDay + 1) * DayHours \in Nat
  BY DailyAssumption
<1>3. computed \in Nat
  BY <1>1, <1>2 DEF SlotInit
<1> QED BY <1>3 DEF SlotInit, DailyInv

\* next_daily_slot was run on the schedule's zone and hour whenever a row's
\* next fire was set, by /schedule add or by plan_fire.
THEOREM DailyInvariant == SlotSpec => []DailyInv
PROOF
<1>1. SlotInit => DailyInv
  BY InitDaily
<1>2. DailyInv /\ [SlotNext]_slotVars => DailyInv'
  BY DailyStep
<1> QED BY <1>1, <1>2, PTL DEF SlotSpec

\* The next fire is always an instant, never the None of a degenerate row.
THEOREM DailyTypeCorrect == SlotSpec => []SlotTypeOK
PROOF
<1>1. DailyInv => SlotTypeOK
  <2> SUFFICES ASSUME DailyInv PROVE SlotTypeOK
    OBVIOUS
  <2>1. zone \in [shift : Shifts, change : Nat]
    <3>1. PICK s \in Shifts, c \in ChangeHours :
            zone = [shift |-> s, change |-> ChangeDay * DayHours + c]
      BY DEF DailyInv
    <3>2. ChangeDay * DayHours + c \in Nat
      BY DailyAssumption
    <3> QED BY <3>1, <3>2
  <2>2. nextFire \in Nat
    <3>1. PICK d \in Nat :
            IsNext(Anchor, d, hour, computed) /\ nextFire = SlotOf(Anchor, d, hour)
      BY NextFireIs
    <3> QED BY <3>1, AnchorIs, SlotsAre DEF IsNext, DailyInv
  <2> QED BY <2>1, <2>2 DEF DailyInv, SlotTypeOK
<1> QED BY <1>1, DailyInvariant, PTL

\* The search never gives up and never answers with an hour that does not
\* exist: next_named_zone_daily_fire finds the earliest instant of a date in
\* three days, and next_daily_fire in two.
THEOREM DailySlotExists == SlotSpec => []NextIsASlot
PROOF
<1>1. DailyInv => NextIsASlot
  <2> SUFFICES ASSUME DailyInv PROVE NextIsASlot
    OBVIOUS
  <2>1. PICK d \in Nat : /\ d <= Date(Anchor, computed) + 3
                         /\ IsNext(Anchor, d, hour, computed)
                         /\ nextFire = SlotOf(Anchor, d, hour)
    BY NextFireIs
  <2>2. Date(Anchor, computed) \in Nat
    BY AnchorIs, DatesAre DEF DailyInv
  <2>3. d \in 0 .. Date(Anchor, computed) + 3
    BY <2>1, <2>2
  <2> QED BY <2>1, <2>3 DEF NextIsASlot, SlotsAfter, IsNext
<1> QED BY <1>1, DailyInvariant, PTL

\* Nor does it step over a slot, but for the one case the module names: each
\* `+ Duration::days` is a day of elapsed time, which in the last hour before
\* a gap day reaches past that day.
THEOREM DailySlotIsFirst == SlotSpec => []FirstButForTheGapsEve
PROOF
<1>1. DailyInv => FirstButForTheGapsEve
  <2> SUFFICES ASSUME DailyInv, ~LastHourBeforeGap
               PROVE  nextFire = FirstSlotAfter(computed)
    BY DEF FirstButForTheGapsEve
  <2>1. PICK d \in Nat : /\ d <= Date(Anchor, computed) + 3
                         /\ IsNext(Anchor, d, hour, computed)
                         /\ nextFire = SlotOf(Anchor, d, hour)
                         /\ \A e \in Nat : IsNext(Anchor, e, hour, computed) => ~(e < d)
    BY NextFireIs
  <2>2. /\ Anchor \in Zones /\ hour \in 0 .. DayHours - 1
        /\ Date(Anchor, computed) \in Nat
    BY AnchorIs, DatesAre DEF DailyInv
  <2>3. nextFire \in SlotsAfter(computed)
    <3>1. d \in 0 .. Date(Anchor, computed) + 3
      BY <2>1, <2>2
    <3> QED BY <2>1, <3>1 DEF SlotsAfter, IsNext
  <2>4. ASSUME NEW x \in SlotsAfter(computed) PROVE x \in Nat /\ nextFire <= x
    <3>1. PICK e \in 0 .. Date(Anchor, computed) + 3 :
            HasSlot(Anchor, e, hour) /\ SlotOf(Anchor, e, hour) > computed
            /\ x = SlotOf(Anchor, e, hour)
      BY DEF SlotsAfter
    <3>2. e \in Nat /\ IsNext(Anchor, e, hour, computed)
      BY <2>2, <3>1 DEF IsNext
    <3>3. d <= e
      BY <2>1, <3>2
    <3> QED BY <2>1, <2>2, <3>1, <3>2, <3>3, SlotsAre, SlotsInOrder DEF IsNext
  <2>5. SlotsAfter(computed) \in SUBSET Int
    BY <2>4
  <2> QED BY <2>3, <2>4, <2>5, MinIs DEF FirstSlotAfter
<1> QED BY <1>1, DailyInvariant, PTL

\* A fold's second hour never fires the same date again: plan_fire takes the
\* next slot strictly after the service of the last one.
THEOREM OneFirePerDate == SlotSpec => OncePerDate
PROOF
<1>1. DailyInv /\ [SlotNext]_slotVars =>
        [Date(Anchor, nextFire') > Date(Anchor, nextFire)]_slotVars
  <2> SUFFICES ASSUME DailyInv, NEW delay \in 0 .. Late, SlotFire(delay)
               PROVE  Date(Anchor, nextFire') > Date(Anchor, nextFire)
    BY DEF SlotNext
  <2>1. /\ Anchor \in Zones /\ hour \in 0 .. DayHours - 1
        /\ Span \in {1, 2} /\ (Span = 1 => Anchor.shift = 0)
        /\ nextFire' = Search(Anchor, hour, computed', Span)
    BY AnchorIs DEF DailyInv, SlotFire
  <2>2. PICK d \in Nat : /\ IsNext(Anchor, d, hour, computed)
                         /\ nextFire = SlotOf(Anchor, d, hour)
    BY NextFireIs
  <2>3. nextFire \in Nat /\ Date(Anchor, nextFire) = d
    BY <2>1, <2>2, SlotsAre DEF IsNext
  <2>4. computed' \in Nat /\ computed' >= nextFire
    BY <2>3, DailyAssumption DEF SlotFire
  <2>5. PICK e \in Nat : /\ IsNext(Anchor, e, hour, computed')
                         /\ nextFire' = SlotOf(Anchor, e, hour)
    BY <2>1, <2>4, SearchIs
  <2>6. nextFire' \in Nat /\ Date(Anchor, nextFire') = e /\ nextFire' > computed'
    BY <2>1, <2>5, SlotsAre DEF IsNext
  <2>7. ~(e <= d)
    <3>1. e <= d => SlotOf(Anchor, e, hour) <= SlotOf(Anchor, d, hour)
      BY <2>1, <2>2, <2>5, SlotsInOrder DEF IsNext
    <3> QED BY <2>2, <2>3, <2>4, <2>5, <2>6, <3>1
  <2> QED BY <2>3, <2>6, <2>7
<1> QED BY <1>1, DailyInvariant, PTL DEF SlotSpec, OncePerDate
=============================================================================
