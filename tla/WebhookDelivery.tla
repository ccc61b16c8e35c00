-------------------------- MODULE WebhookDelivery --------------------------
(***************************************************************************)
(* The outbound webhook queue (control_plane/webhook_delivery.rs): a       *)
(* durable table of deliveries and the one loop that sweeps the due ones,  *)
(* POSTs each to its receiver and then records the outcome.                *)
(*                                                                         *)
(* A POST and the store call that records it are two awaits: the process   *)
(* can die, or the store fail, in between.  A receiver may take a request  *)
(* whose answer the loop never hears (its client times out after 10 s).    *)
(*                                                                         *)
(* next_attempt_at only orders the due rows and keeps a failed one away    *)
(* until its backoff is over: ready holds the due rows in that order.      *)
(***************************************************************************)
EXTENDS Naturals, Sequences

CONSTANTS
  Deliveries,   \* ids of the rows
  MaxAttempts,  \* MAX_ATTEMPTS: failures after which a row is dead
  MaxFaults     \* bound: crashes and failed store calls in a behaviour

ASSUME QueueAssumption ==
  MaxAttempts \in Nat \ {0} /\ MaxFaults \in Nat

VARIABLES
  status,    \* [Deliveries -> DeliveryStatus]; "none" is a row not inserted yet
  attempts,  \* [Deliveries -> Nat]: attempt_count
  ready,     \* pending rows whose next_attempt_at has come, oldest first
  sweep,     \* rows of the current sweep still to attempt
  outcome,   \* what the POST of Head(sweep) came to, or "none"
  tries,     \* [Deliveries -> Nat]: history: POSTs made
  taken,     \* [Deliveries -> Nat]: history: POSTs the receiver took
  unheard,   \* [Deliveries -> Nat]: history: taken, but the answer was lost
  faults     \* crashes and failed store calls so far

queueVars == <<status, attempts, ready, sweep, outcome, tries, taken,
               unheard, faults>>

DeliveryStatus == {"none", "pending", "delivered", "dead"}
Outcome == {"none", "ok", "failed"}

QueueTypeOK ==
  /\ status \in [Deliveries -> DeliveryStatus]
  /\ attempts \in [Deliveries -> Nat]
  /\ ready \in Seq(Deliveries)
  /\ sweep \in Seq(Deliveries)
  /\ outcome \in Outcome
  /\ tries \in [Deliveries -> Nat]
  /\ taken \in [Deliveries -> Nat]
  /\ unheard \in [Deliveries -> Nat]
  /\ faults \in Nat

QueueInit ==
  /\ status = [d \in Deliveries |-> "none"]
  /\ attempts = [d \in Deliveries |-> 0]
  /\ ready = <<>>
  /\ sweep = <<>>
  /\ outcome = "none"
  /\ tries = [d \in Deliveries |-> 0]
  /\ taken = [d \in Deliveries |-> 0]
  /\ unheard = [d \in Deliveries |-> 0]
  /\ faults = 0

----------------------------------------------------------------------------
\* A new row is due at once.
Enqueue(d) ==
  /\ status[d] = "none"
  /\ status' = [status EXCEPT ![d] = "pending"]
  /\ ready' = Append(ready, d)
  /\ UNCHANGED <<attempts, sweep, outcome, tries, taken, unheard, faults>>

\* A tick of the loop reads the due rows.
Sweep ==
  /\ sweep = <<>>
  /\ ready # <<>>
  /\ sweep' = ready
  /\ UNCHANGED <<status, attempts, ready, outcome, tries, taken, unheard,
                 faults>>

\* The receiver takes the POST or not, and its answer is heard or not.
Post(took, heard) ==
  /\ sweep # <<>>
  /\ outcome = "none"
  /\ heard => took
  /\ LET d == Head(sweep)
     IN /\ tries' = [tries EXCEPT ![d] = @ + 1]
        /\ taken' = IF took THEN [taken EXCEPT ![d] = @ + 1] ELSE taken
        /\ unheard' = IF took /\ ~heard
                      THEN [unheard EXCEPT ![d] = @ + 1] ELSE unheard
  /\ outcome' = IF heard THEN "ok" ELSE "failed"
  /\ UNCHANGED <<status, attempts, ready, sweep, faults>>

\* Mutant: one attempt too few, the backoff table taken for the attempts.
MutNoMoreRetries(d) == attempts[d] + 2 >= MaxAttempts

\* attempt_count, read before this failure, is past the backoff table.
NoMoreRetries(d) == attempts[d] + 1 >= MaxAttempts

\* What the outcome makes of the row.
Recorded(d) ==
  IF outcome = "ok" THEN "delivered"
  ELSE IF NoMoreRetries(d) THEN "dead" ELSE "pending"

\* Mutant: due forgets the status filter and the backoff: the row stays due.
MutStillReady(d) == ready

\* The rows still due once d is recorded: its next_attempt_at moved, or it is
\* not pending any more.  A row has one place in the order.
StillReady(d) ==
  IF \E i \in DOMAIN ready : ready[i] = d
  THEN LET i == CHOOSE i \in DOMAIN ready : ready[i] = d
       IN SubSeq(ready, 1, i - 1) \o SubSeq(ready, i + 1, Len(ready))
  ELSE ready

\* Mutant: the last failure reads past the backoff table and the loop dies.
MutRecord ==
  /\ outcome = "ok" \/ (outcome = "failed" /\ ~NoMoreRetries(Head(sweep)))
  /\ LET d == Head(sweep)
     IN /\ status' = [status EXCEPT ![d] = Recorded(d)]
        /\ attempts' = [attempts EXCEPT
                          ![d] = IF outcome = "ok" THEN @ ELSE @ + 1]
        /\ ready' = StillReady(d)
  /\ sweep' = Tail(sweep)
  /\ outcome' = "none"
  /\ UNCHANGED <<tries, taken, unheard, faults>>

\* mark_delivered or mark_failed_and_reschedule.
Record ==
  /\ outcome # "none"
  /\ LET d == Head(sweep)
     IN /\ status' = [status EXCEPT ![d] = Recorded(d)]
        /\ attempts' = [attempts EXCEPT
                          ![d] = IF outcome = "ok" THEN @ ELSE @ + 1]
        /\ ready' = StillReady(d)
  /\ sweep' = Tail(sweep)
  /\ outcome' = "none"
  /\ UNCHANGED <<tries, taken, unheard, faults>>

\* The store call that records the outcome fails: it is logged, and the row
\* is due again at the next tick.
RecordFails ==
  /\ outcome # "none"
  /\ faults < MaxFaults
  /\ faults' = faults + 1
  /\ sweep' = Tail(sweep)
  /\ outcome' = "none"
  /\ UNCHANGED <<status, attempts, ready, tries, taken, unheard>>

\* The backoff of a failed row is over.
Elapse(d) ==
  /\ status[d] = "pending"
  /\ \A i \in DOMAIN ready : ready[i] # d
  /\ ready' = Append(ready, d)
  /\ UNCHANGED <<status, attempts, sweep, outcome, tries, taken, unheard,
                 faults>>

\* The daemon dies and starts again: the table stays, the sweep is gone.
LoopCrash ==
  /\ faults < MaxFaults
  /\ faults' = faults + 1
  /\ sweep' = <<>>
  /\ outcome' = "none"
  /\ UNCHANGED <<status, attempts, ready, tries, taken, unheard>>

LoopStep ==
  \/ Sweep
  \/ \E took, heard \in BOOLEAN : Post(took, heard)
  \/ Record

QueueNext ==
  \/ \E d \in Deliveries : Enqueue(d) \/ Elapse(d)
  \/ LoopStep
  \/ RecordFails
  \/ LoopCrash

\* The spawned loop keeps ticking, its client gives every POST an outcome
\* within 10 s, and time passes.
QueueFairness ==
  /\ WF_queueVars(LoopStep)
  /\ WF_queueVars(\E d \in Deliveries : Elapse(d))

InFlight(d) == outcome # "none" /\ Head(sweep) = d

\* A delivery is given up exactly when MAX_ATTEMPTS failures were recorded,
\* never earlier and never tried again, and attempt_count is the number of
\* POSTs but for the one in flight, the one that was delivered and those a
\* fault kept from being recorded.
AttemptsAreSpent ==
  \A d \in Deliveries :
    /\ status[d] = "dead" => attempts[d] = MaxAttempts
    /\ status[d] # "dead" => attempts[d] < MaxAttempts
    /\ attempts[d] + (IF status[d] = "delivered" THEN 1 ELSE 0) <= tries[d]
    /\ tries[d] <= attempts[d] + faults
                    + (IF status[d] = "delivered" THEN 1 ELSE 0)
                    + (IF InFlight(d) THEN 1 ELSE 0)

\* A delivered row was taken by its receiver, and a receiver whose answer was
\* heard gets the event again only because of a crash or a failed store call:
\* at-least-once, and no more often than that without a cause.
TakenOnce ==
  \A d \in Deliveries :
    /\ status[d] = "delivered" => taken[d] > unheard[d]
    /\ taken[d] <= unheard[d] + faults
                    + (IF status[d] = "delivered" THEN 1 ELSE 0)
                    + (IF InFlight(d) /\ outcome = "ok" THEN 1 ELSE 0)

\* Whatever the receivers do, every delivery is delivered or given up in the
\* end, also behind receivers that fail.  (A row is inserted once.)
Settles == <>[](\A d \in Deliveries : status[d] # "pending")

QueueSpec == QueueInit /\ [][QueueNext]_queueVars /\ QueueFairness
=============================================================================
