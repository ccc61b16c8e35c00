----------------------------- MODULE DailySlot -----------------------------
(***************************************************************************)
(* When a daily schedule fires next (adaptive/schedule.rs: next_daily_slot *)
(* with its fixed-offset and named-zone forms), in a zone that may change  *)
(* its offset once, at a gap (clocks jump forward) or a fold (they fall    *)
(* back), against the definition of the slot it looks for.                 *)
(*                                                                         *)
(* Instants and wall clocks are in hours; a day has DayHours of them.  The *)
(* schedule's life is a chain: a fire is computed at some instant; the     *)
(* loop services it up to Late hours after its slot and computes the next. *)
(***************************************************************************)
EXTENDS Integers, FiniteSetsExt

CONSTANTS
  DayHours,     \* hours in a day
  Late,         \* how late the firing loop may service a slot
  Shifts,       \* changes of the offset to consider: 1 gap, -1 fold, 0 none
  ChangeHours,  \* local hours at which the change may happen, on ChangeDay
  ChangeDay,    \* the day of the change
  LastDay       \* bound: the behaviours end here

ASSUME DailyAssumption ==
  /\ DayHours \in Nat \ {0} /\ Late \in Nat
  /\ Shifts \subseteq {-1, 0, 1}
  /\ ChangeHours \subseteq 0 .. DayHours - 1
  /\ ChangeDay \in 2 .. LastDay /\ LastDay \in Nat

VARIABLES
  zone,      \* [shift, change]: the offset grows by shift at instant change
  named,     \* the schedule names the zone; otherwise its offset is fixed at 0
  hour,      \* the wall-clock hour asked for
  computed,  \* when nextFire was computed
  nextFire   \* the instant of the next fire

slotVars == <<zone, named, hour, computed, nextFire>>

Never == -1

----------------------------------------------------------------------------
(* The zone, as chrono-tz answers for it.                                  *)

Offset(z, u) == IF u >= z.change THEN z.shift ELSE 0
Local(z, u) == u + Offset(z, u)
Date(z, u) == Local(z, u) \div DayHours

\* The instants whose wall clock is l: none in a gap, two in a fold.
Instants(z, l) == {u \in {l, l - z.shift} : Local(z, u) = l}

\* The first instant at which it is hour h of date d.
SlotOf(z, d, h) == Min(Instants(z, d * DayHours + h))
HasSlot(z, d, h) == Instants(z, d * DayHours + h) # {}

----------------------------------------------------------------------------
(* The code.                                                               *)

NoChange == [shift |-> 0, change |-> 0]

\* Mutant: the slot may be the very instant it is computed at.
MutIsNext(z, d, h, after) == HasSlot(z, d, h) /\ SlotOf(z, d, h) >= after

\* The candidate of date d is a slot, and still ahead.
IsNext(z, d, h, after) == HasSlot(z, d, h) /\ SlotOf(z, d, h) > after

\* Mutant: the search begins with tomorrow.
MutDays(z, after, span) == {Date(z, after + k * DayHours) : k \in 1 .. span}

\* The dates a search looks at: those of after, and of after plus k days,
\* each day being DayHours hours of elapsed time.
Days(z, after, span) == {Date(z, after + k * DayHours) : k \in 0 .. span}

\* Mutant: both instants of a fold count as slots.
MutSearch(z, h, after, span) ==
  LET found == {u \in UNION {Instants(z, d * DayHours + h) : d \in Days(z, after, span)} :
                  u > after}
  IN IF found = {} THEN Never ELSE Min(found)

Search(z, h, after, span) ==
  LET found == {d \in Days(z, after, span) : IsNext(z, d, h, after)}
  IN IF found = {} THEN Never ELSE SlotOf(z, Min(found), h)

NextNamedZoneDailyFire(z, h, after) == Search(z, h, after, 2)
NextDailyFire(h, after) == Search(NoChange, h, after, 1)

NextDailySlot(h, after) ==
  IF named THEN NextNamedZoneDailyFire(zone, h, after)
  ELSE NextDailyFire(h, after)

\* /schedule add daily, at any hour of the days around the change.
SlotInit ==
  /\ \E s \in Shifts, c \in ChangeHours :
       zone = [shift |-> s, change |-> ChangeDay * DayHours + c]
  /\ named \in BOOLEAN
  /\ hour \in 0 .. DayHours - 1
  /\ computed \in ((ChangeDay - 2) * DayHours) .. ((ChangeDay + 1) * DayHours)
  /\ nextFire = NextDailySlot(hour, computed)

\* The loop services the slot: plan_fire computes the next one.
SlotFire(delay) ==
  /\ nextFire # Never /\ nextFire < LastDay * DayHours
  /\ computed' = nextFire + delay
  /\ nextFire' = NextDailySlot(hour, computed')
  /\ UNCHANGED <<zone, named, hour>>

SlotNext == \E delay \in 0 .. Late : SlotFire(delay)

SlotSpec == SlotInit /\ [][SlotNext]_slotVars

----------------------------------------------------------------------------
(* What it promises.                                                       *)

SlotTypeOK ==
  /\ zone \in [shift : Shifts, change : Nat] /\ named \in BOOLEAN
  /\ hour \in 0 .. DayHours - 1
  /\ computed \in Nat /\ nextFire \in Nat

\* The zone the schedule is anchored in, and its slots.
Anchor == IF named THEN zone ELSE NoChange
\* The slots after an instant, those of dates far beyond it left out.
SlotsAfter(u) == {SlotOf(Anchor, d, hour) : d \in
                    {d \in 0 .. Date(Anchor, u) + 3 :
                       HasSlot(Anchor, d, hour) /\ SlotOf(Anchor, d, hour) > u}}
FirstSlotAfter(u) == Min(SlotsAfter(u))

(* next_daily_slot finds a slot, always ahead and always the earliest      *)
(* instant of its date at that wall clock: gaps are skipped, folds fire at *)
(* their first occurrence.                                                 *)
NextIsASlot == nextFire \in SlotsAfter(computed)

(* Two fires never fall on one date of the zone, folds included.           *)
OncePerDate == [][Date(Anchor, nextFire') > Date(Anchor, nextFire)]_slotVars

(* The slot found is the first one, save for the one case in which the     *)
(* search steps over a date: a slot computed in the last hour of the eve   *)
(* of a day with a gap.                                                    *)
LastHourBeforeGap ==
  /\ Anchor.shift = 1
  /\ Date(Anchor, computed) = ChangeDay - 1
  /\ Local(Anchor, computed) % DayHours = DayHours - 1
FirstButForTheGapsEve == ~LastHourBeforeGap => nextFire = FirstSlotAfter(computed)
=============================================================================
