---------------------------- MODULE ControlPlane ----------------------------
(***************************************************************************)
(* The external control plane (control_plane/core_ops.rs): create, pause,  *)
(* resume, cancel and steer on durable tasks, called by HTTP and MCP       *)
(* clients that give the revision they know, next to the owner's /task     *)
(* cockpit (agent/task_command.rs) and the engine that runs the task, and  *)
(* the events the calls enqueue for webhook subscribers; the observer of   *)
(* the engine's own events (observability.rs), which enqueues two more     *)
(* types under the revision it then finds; and the marker the driver of a  *)
(* task leaves in it after its end (adaptive/procedural.rs).               *)
(*                                                                         *)
(* Each call is a sequence of awaits: load, guarded write, look up the     *)
(* subscriptions, insert a delivery for each.  Other calls, the engine, a  *)
(* revocation, a client that hangs up or a crash come in between.          *)
(*                                                                         *)
(* The task store is bastion-core's: it is modelled from how core_ops.rs   *)
(* uses it, as a log of the revisions of each task.  So is the engine,     *)
(* which runs the tasks the daemon enqueued itself; whether such a task    *)
(* still has a driver is the subject of Pursue.                            *)
(***************************************************************************)
EXTENDS WebhookDelivery, FiniteSets

CONSTANTS
  Tasks,    \* task ids
  Pursued,  \* those of the daemon's own; the others stand for one
            \* (owner, idempotency key) each
  Calls,    \* calls of the API, of the cockpit and of the observer
  Console,  \* those that are /task commands
  VerbsOf,  \* [Calls -> SUBSET Verbs]: what each call may ask
  Subs,     \* webhook subscriptions of the owner
  Wants,    \* [Subs -> SUBSET Types]: the event types each asked for
  Engine,   \* stands for the adaptive loop that runs the task
  Learner,  \* stands for the driver that attributes its outcome
  MaxRev    \* bound: revisions the engine may take a task to

Verbs == {"create", "pause", "resume", "cancel", "steer", "record"}
EngineEvents == {"attempt.completed", "task.escalated"}
Types == {"task.created", "task.status_changed", "task.terminal"} \cup EngineEvents

ASSUME ControlPlaneAssumption ==
  /\ Tasks # {} /\ Pursued \subseteq Tasks
  /\ Console \subseteq Calls
  /\ VerbsOf \in [Calls -> SUBSET Verbs]
  /\ \A c \in Console : {"create", "record"} \cap VerbsOf[c] = {}
  /\ Wants \in [Subs -> SUBSET Types]
  /\ Engine \notin Calls /\ Learner \notin Calls \cup {Engine}
  /\ MaxRev \in Nat
  /\ Deliveries = [call : Calls, type : Types, sub : Subs]

VARIABLES
  log,      \* [Tasks -> Seq(Revision)]: the stored case and what it was
  judged,   \* [Tasks -> Nat]: the revision being attributed, 0 if none
  pc,       \* [Calls -> Pcs]: where each call is
  verb,     \* [Calls -> Verbs]
  task,     \* [Calls -> Tasks]
  expect,   \* [Calls -> Nat]: expected_revision
  copy,     \* [Calls -> Case]: the case the call loaded
  seen,     \* [Calls -> [rev, status]]: what the call's events carry
  events,   \* [Calls -> Seq(Types)]: events still to emit
  targets,  \* [Calls -> SUBSET Subs]: matches of the event left to enqueue
  reply,    \* [Calls -> Replies]
  subs,     \* [Subs -> SubState]: the subscription table
  steady    \* [Calls -> SUBSET Subs]: history: active since the call began

callVars == <<pc, verb, task, expect, copy, seen, events, targets, reply,
              steady>>
vars == <<queueVars, log, judged, callVars, subs>>

TaskStatus == {"pending", "running", "paused", "completed", "escalated",
               "cancelled"}
Terminal == {"completed", "escalated", "cancelled"}
Case == [status : TaskStatus, notes : SUBSET Calls]
Writers == Calls \cup {Engine, Learner}
Revision == [status : TaskStatus, notes : SUBSET Calls, by : Writers]
Pcs == {"idle", "missed", "created", "loaded", "raised", "lookup", "enqueue",
        "done", "gone"}
SubState == {"none", "active", "revoked"}
Replies == {"none", "created", "replayed", "ok", "refused", "conflict"}

TypeOK ==
  /\ QueueTypeOK
  /\ log \in [Tasks -> Seq(Revision)]
  /\ judged \in [Tasks -> Nat]
  /\ pc \in [Calls -> Pcs]
  /\ verb \in [Calls -> Verbs]
  /\ task \in [Calls -> Tasks]
  /\ expect \in [Calls -> Nat]
  /\ copy \in [Calls -> Case]
  /\ seen \in [Calls -> [rev : Nat, status : TaskStatus]]
  /\ events \in [Calls -> Seq(Types)]
  /\ targets \in [Calls -> SUBSET Subs]
  /\ reply \in [Calls -> Replies]
  /\ subs \in [Subs -> SubState]
  /\ steady \in [Calls -> SUBSET Subs]

Active == {s \in Subs : subs[s] = "active"}

\* The case create_task stores.
NewCase == [status |-> "pending", notes |-> {}]

Init ==
  /\ QueueInit
  /\ log = [t \in Tasks |-> <<>>]
  /\ judged = [t \in Tasks |-> 0]
  /\ pc = [c \in Calls |-> "idle"]
  /\ verb \in [Calls -> {"create"}]
  /\ task \in [Calls -> {CHOOSE t \in Tasks : TRUE}]
  /\ expect = [c \in Calls |-> 0]
  /\ copy = [c \in Calls |-> NewCase]
  /\ seen = [c \in Calls |-> [rev |-> 0, status |-> "pending"]]
  /\ events = [c \in Calls |-> <<>>]
  /\ targets = [c \in Calls |-> {}]
  /\ reply = [c \in Calls |-> "none"]
  /\ subs = [s \in Subs |-> "none"]
  /\ steady = [c \in Calls |-> {}]

----------------------------------------------------------------------------
(* The task store of bastion-core.                                         *)

Rev(t) == Len(log[t])
Status(t) == log[t][Rev(t)].status
Stored(t) == [status |-> Status(t), notes |-> log[t][Rev(t)].notes]

\* TaskStatus::can_transition_to, for the statuses kept here.
CanTransition(from, to) ==
  \/ <<from, to>> \in {<<"pending", "running">>, <<"running", "paused">>,
                       <<"paused", "running">>, <<"running", "completed">>,
                       <<"running", "escalated">>}
  \/ from \notin Terminal /\ to = "cancelled"

\* A write appends a revision.
Commit(t, case, by) ==
  log' = [log EXCEPT ![t] = Append(@, [status |-> case.status,
                                       notes |-> case.notes, by |-> by])]

\* Mutant: the write is made at whatever revision the store has by then.
MutRevisionGuard(c) == TRUE

\* The owner and revision guard of transition_status and update_case.
RevisionGuard(c) == Rev(task[c]) = expect[c]

\* enqueue_pursue: the daemon stores a task of its own.
EnqueueTask(t) ==
  /\ t \in Pursued
  /\ log[t] = <<>>
  /\ Commit(t, NewCase, Engine)
  /\ UNCHANGED <<queueVars, judged, callVars, subs>>

\* The engine starts, completes or just updates the task.
EngineStep(t, to) ==
  /\ t \in Pursued
  /\ log[t] # <<>>
  /\ Rev(t) < MaxRev
  /\ Status(t) \notin Terminal
  /\ to # "cancelled"
  /\ to = Status(t) \/ CanTransition(Status(t), to)
  /\ Commit(t, [Stored(t) EXCEPT !.status = to], Engine)
  /\ UNCHANGED <<queueVars, judged, callVars, subs>>

\* procedural_attributed is what the case was last given.
Marked(t) == log[t][Rev(t)].by = Learner

\* The observer's record of a task's event is awaited by its driver.
BeingRecorded(t) ==
  \E c \in Calls : /\ verb[c] = "record"
                   /\ pc[c] \in {"raised", "lookup", "enqueue"}
                   /\ task[c] = t

\* attribute_terminal: once the cycle has returned, the ended task is loaded,
\* with an attempt that was verified, and is left alone if it is marked.
Attribute(t) ==
  /\ t \in Pursued
  /\ log[t] # <<>>
  /\ judged[t] = 0
  /\ Status(t) \in Terminal
  /\ \E i \in 1 .. Rev(t) : log[t][i].status = "running"
  /\ ~Marked(t)
  /\ ~BeingRecorded(t)
  /\ judged' = [judged EXCEPT ![t] = Rev(t)]
  /\ UNCHANGED <<queueVars, log, callVars, subs>>

\* After the beliefs are credited the marker is written, at the revision that
\* was loaded.  It is a member of an object: a business_state that steering
\* has made an array is replaced by it, notes and all.
Mark(t) ==
  /\ judged[t] # 0
  /\ IF Rev(t) = judged[t]
     THEN Commit(t, [Stored(t) EXCEPT !.notes = {}], Learner)
     ELSE UNCHANGED log
  /\ judged' = [judged EXCEPT ![t] = 0]
  /\ UNCHANGED <<queueVars, callVars, subs>>

----------------------------------------------------------------------------
(* The calls.                                                              *)

Goto(c, where) == pc' = [pc EXCEPT ![c] = where]

Answer(c, what) ==
  /\ Goto(c, "done")
  /\ reply' = [reply EXCEPT ![c] = what]

\* The status each verb asks for.
Target(v) ==
  IF v = "pause" THEN "paused" ELSE IF v = "resume" THEN "running"
  ELSE "cancelled"

\* Mutant: steer_task does not look at the status it loaded.
MutRefused(c, v, t, exp) ==
  /\ c \notin Console
  /\ \/ v # "steer" /\ ~CanTransition(Status(t), Target(v))
     \/ Rev(t) # exp

\* The checks on the loaded case.  The cockpit has the store judge a
\* transition and only looks at the status itself before it steers.
Refused(c, v, t, exp) ==
  \/ v = "steer" /\ Status(t) \in Terminal
  \/ /\ c \notin Console
     /\ \/ v # "steer" /\ ~CanTransition(Status(t), Target(v))
        \/ Rev(t) # exp

\* create_task looks its derived id up.
LookUpTask(c, t) ==
  /\ pc[c] = "idle"
  /\ "create" \in VerbsOf[c]
  /\ t \notin Pursued
  /\ verb' = [verb EXCEPT ![c] = "create"]
  /\ task' = [task EXCEPT ![c] = t]
  /\ steady' = [steady EXCEPT ![c] = Active]
  /\ IF log[t] # <<>>
     THEN Answer(c, "replayed")
     ELSE Goto(c, "missed") /\ UNCHANGED reply
  /\ UNCHANGED <<queueVars, log, judged, expect, copy, seen, events, targets, subs>>

\* create_case: idempotent on the derived id.
CreateCase(c) ==
  /\ pc[c] = "missed"
  /\ IF log[task[c]] = <<>>
     THEN Commit(task[c], NewCase, c)
     ELSE UNCHANGED log
  /\ Goto(c, "created")
  /\ UNCHANGED <<queueVars, judged, verb, task, expect, copy, seen, events, targets,
                 reply, subs, steady>>

\* The stored row is read back and is what the event describes.
Refetch(c) ==
  /\ pc[c] = "created"
  /\ seen' = [seen EXCEPT ![c] = [rev |-> Rev(task[c]),
                                  status |-> Status(task[c])]]
  /\ events' = [events EXCEPT ![c] = <<"task.created">>]
  /\ Goto(c, "lookup")
  /\ UNCHANGED <<queueVars, log, judged, verb, task, expect, copy, targets, reply,
                 subs, steady>>

\* transition_task and steer_task load the case and check it against the
\* revision the client knows; the cockpit takes the one it has just read.
Load(c, v, t, exp) ==
  /\ pc[c] = "idle"
  /\ v \in VerbsOf[c] \ {"create", "record"}
  /\ log[t] # <<>>
  /\ exp \in 1 .. Rev(t)
  /\ c \in Console => exp = Rev(t)
  /\ verb' = [verb EXCEPT ![c] = v]
  /\ task' = [task EXCEPT ![c] = t]
  /\ expect' = [expect EXCEPT ![c] = exp]
  /\ copy' = [copy EXCEPT ![c] = Stored(t)]
  /\ steady' = [steady EXCEPT ![c] = Active]
  /\ IF Refused(c, v, t, exp)
     THEN Answer(c, "refused")
     ELSE Goto(c, "loaded") /\ UNCHANGED reply
  /\ UNCHANGED <<queueVars, log, judged, seen, events, targets, subs>>

\* Mutant: the new status is looked at in the case that was loaded.
MutEventsOf(c, to) ==
  IF c \in Console THEN <<>>
  ELSE IF copy[c].status \in Terminal
  THEN <<"task.status_changed", "task.terminal">>
  ELSE <<"task.status_changed">>

\* What a transition announces; the cockpit announces nothing.
EventsOf(c, to) ==
  IF c \in Console THEN <<>>
  ELSE IF to \in Terminal THEN <<"task.status_changed", "task.terminal">>
  ELSE <<"task.status_changed">>

\* Mutant: the event carries the revision the case had when it was loaded.
MutNewRevision(c) == expect[c]

\* The revision transition_status returns.
NewRevision(c) == expect[c] + 1

\* transition_status: a revision guard and the state machine decide.
Transition(c) ==
  /\ pc[c] = "loaded"
  /\ verb[c] # "steer"
  /\ LET t == task[c]
         to == Target(verb[c])
     IN IF RevisionGuard(c) /\ CanTransition(Status(t), to)
        THEN /\ Commit(t, [Stored(t) EXCEPT !.status = to], c)
             /\ seen' = [seen EXCEPT ![c] = [rev |-> NewRevision(c),
                                             status |-> to]]
             /\ events' = [events EXCEPT ![c] = EventsOf(c, to)]
             /\ IF EventsOf(c, to) = <<>>
                THEN Answer(c, "ok")
                ELSE Goto(c, "lookup") /\ UNCHANGED reply
        ELSE Answer(c, "conflict") /\ UNCHANGED <<log, seen, events>>
  /\ UNCHANGED <<queueVars, judged, verb, task, expect, copy, targets, subs, steady>>

\* update_case writes the loaded case back with the guidance added.
Steer(c) ==
  /\ pc[c] = "loaded"
  /\ verb[c] = "steer"
  /\ IF RevisionGuard(c)
     THEN /\ Commit(task[c], [copy[c] EXCEPT !.notes = @ \cup {c}], c)
          /\ Answer(c, "ok")
     ELSE Answer(c, "conflict") /\ UNCHANGED log
  /\ UNCHANGED <<queueVars, judged, verb, task, expect, copy, seen, events, targets,
                 subs, steady>>

\* The engine tells the observer of what it has just done: an attempt was
\* verified, or the task was escalated.  expect keeps the revision of that
\* moment, which the event itself does not carry.
Raise(c, t, type) ==
  /\ pc[c] = "idle"
  /\ "record" \in VerbsOf[c]
  /\ judged[t] = 0
  /\ type = "attempt.completed" =>
       \E i \in 1 .. Rev(t) : log[t][i].status = "running"
  /\ type = "task.escalated" => Rev(t) > 0 /\ Status(t) = "escalated"
  /\ ~Marked(t)
  /\ verb' = [verb EXCEPT ![c] = "record"]
  /\ task' = [task EXCEPT ![c] = t]
  /\ expect' = [expect EXCEPT ![c] = Rev(t)]
  /\ events' = [events EXCEPT ![c] = <<type>>]
  /\ Goto(c, "raised")
  /\ UNCHANGED <<queueVars, log, judged, copy, seen, targets, reply, subs, steady>>

\* revision_of: the task is loaded for the envelope's revision.
Revise(c) ==
  /\ pc[c] = "raised"
  /\ seen' = [seen EXCEPT ![c] = [rev |-> Rev(task[c]),
                                  status |-> Status(task[c])]]
  /\ Goto(c, "lookup")
  /\ UNCHANGED <<queueVars, log, judged, verb, task, expect, copy, events, targets,
                 reply, subs, steady>>

\* It cannot be loaded: the event is dropped.
ReviseFails(c) ==
  /\ pc[c] = "raised"
  /\ faults < MaxFaults
  /\ faults' = faults + 1
  /\ Goto(c, "gone")
  /\ UNCHANGED <<status, attempts, ready, sweep, outcome, tries, taken,
                 unheard, log, judged, verb, task, expect, copy, seen, events,
                 targets, reply, subs, steady>>

\* emit_event: the active subscriptions that want the type.
Matches(type) == {s \in Active : type \in Wants[s]}

LookUpSubs(c) ==
  /\ pc[c] = "lookup"
  /\ targets' = [targets EXCEPT ![c] = Matches(Head(events[c]))]
  /\ Goto(c, "enqueue")
  /\ UNCHANGED <<queueVars, log, judged, verb, task, expect, copy, seen, events,
                 reply, subs, steady>>

\* A delivery is inserted for one of the matches; if that fails the event is
\* logged and lost for that subscriber.
EnqueueOne(c, s) ==
  /\ pc[c] = "enqueue"
  /\ s \in targets[c]
  /\ targets' = [targets EXCEPT ![c] = @ \ {s}]
  /\ \/ Enqueue([call |-> c, type |-> Head(events[c]), sub |-> s])
     \/ /\ faults < MaxFaults
        /\ faults' = faults + 1
        /\ UNCHANGED <<status, attempts, ready, sweep, outcome, tries, taken,
                       unheard>>
  /\ UNCHANGED <<log, judged, pc, verb, task, expect, copy, seen, events, reply,
                 subs, steady>>

\* The observer answers nobody.
ReplyOf(v) ==
  IF v = "create" THEN "created" ELSE IF v = "record" THEN "none" ELSE "ok"

\* The event is out: the next one, or the reply.
Emitted(c) ==
  /\ pc[c] = "enqueue"
  /\ targets[c] = {}
  /\ events' = [events EXCEPT ![c] = Tail(@)]
  /\ IF Len(events[c]) > 1
     THEN Goto(c, "lookup") /\ UNCHANGED reply
     ELSE Answer(c, ReplyOf(verb[c]))
  /\ UNCHANGED <<queueVars, log, judged, verb, task, expect, copy, seen, targets,
                 subs, steady>>

\* The lookup of the subscriptions fails: the whole event is lost.
LookUpFails(c) ==
  /\ pc[c] = "lookup"
  /\ faults < MaxFaults
  /\ faults' = faults + 1
  /\ targets' = [targets EXCEPT ![c] = {}]
  /\ Goto(c, "enqueue")
  /\ UNCHANGED <<status, attempts, ready, sweep, outcome, tries, taken,
                 unheard, log, judged, verb, task, expect, copy, seen, events, reply,
                 subs, steady>>

InProgress(c) == pc[c] \notin {"idle", "done", "gone"}

\* The client closes its connection and the server drops the handler; a
\* failing task store (500) leaves the same behind.  A handler dropped before
\* its write leaves nothing, as if it had not been called.  The observer runs
\* in the engine's task, which nobody drops.
HangUp(c) ==
  /\ verb[c] # "record"
  /\ pc[c] \in {"created", "lookup", "enqueue"}
  /\ Goto(c, "gone")
  /\ UNCHANGED <<queueVars, log, judged, verb, task, expect, copy, seen, events,
                 targets, reply, subs, steady>>

\* SqliteWebhookSubscriptionStore::issue and revoke (a tombstone).
Issue(s) ==
  /\ subs[s] = "none"
  /\ subs' = [subs EXCEPT ![s] = "active"]
  /\ UNCHANGED <<queueVars, log, judged, callVars>>

Revoke(s) ==
  /\ subs[s] = "active"
  /\ subs' = [subs EXCEPT ![s] = "revoked"]
  /\ steady' = [c \in Calls |-> steady[c] \ {s}]
  /\ UNCHANGED <<queueVars, log, judged, pc, verb, task, expect, copy, seen, events,
                 targets, reply>>

\* The daemon dies: the calls and drivers in progress go with the sweep.
Crash ==
  /\ LoopCrash
  /\ pc' = [c \in Calls |-> IF InProgress(c) THEN "gone" ELSE pc[c]]
  /\ judged' = [t \in Tasks |-> 0]
  /\ UNCHANGED <<log, verb, task, expect, copy, seen, events, targets, reply,
                 subs, steady>>

Queue == \/ LoopStep \/ RecordFails \/ \E d \in Deliveries : Elapse(d)

CallStep(c) ==
  \/ \E t \in Tasks :
       \/ LookUpTask(c, t)
       \/ \E type \in EngineEvents : Raise(c, t, type)
       \/ \E v \in Verbs, exp \in 1 .. Rev(t) : Load(c, v, t, exp)
  \/ CreateCase(c)
  \/ Refetch(c)
  \/ Revise(c)
  \/ ReviseFails(c)
  \/ Transition(c)
  \/ Steer(c)
  \/ LookUpSubs(c)
  \/ \E s \in Subs : EnqueueOne(c, s)
  \/ Emitted(c)
  \/ LookUpFails(c)
  \/ HangUp(c)

\* The API without the delivery loop, which it neither reads nor waits for.
ApiNext ==
  \/ \E c \in Calls : CallStep(c)
  \/ \E t \in Tasks : EnqueueTask(t) \/ Attribute(t) \/ Mark(t)
  \/ \E t \in Tasks, to \in TaskStatus : EngineStep(t, to)
  \/ \E s \in Subs : Issue(s) \/ Revoke(s)
  \/ Crash

Next == ApiNext \/ (Queue /\ UNCHANGED <<log, judged, callVars, subs>>)

ApiSpec == Init /\ [][ApiNext]_vars

\* The fairness of the queue, for the composition.
Fairness ==
  /\ WF_vars(LoopStep /\ UNCHANGED <<log, judged, callVars, subs>>)
  /\ WF_vars((\E d \in Deliveries : Elapse(d))
               /\ UNCHANGED <<log, judged, callVars, subs>>)

Spec == Init /\ [][Next]_vars /\ Fairness

----------------------------------------------------------------------------
\* What is queued tells of a revision the store really has: the status of
\* the event is the status of that revision, a status change names the
\* revision its own call made, and task.terminal only a terminal status.
\* What the observer records comes later than the event it was told of: an
\* attempt may carry the revision of somebody's later write, never that of
\* an earlier one, and an escalation is the very revision that escalated.
AnnouncedIsCommitted ==
  \A d \in Deliveries :
    status[d] # "none" =>
      LET about == seen[d.call]
          revs == log[task[d.call]]
      IN /\ about.rev \in DOMAIN revs
         /\ revs[about.rev].status = about.status
         /\ d.type \notin {"task.created"} \cup EngineEvents =>
              revs[about.rev].by = d.call
         /\ d.type \in EngineEvents => about.rev >= expect[d.call]
         /\ d.type = "task.escalated" =>
              /\ about.rev = expect[d.call]
              /\ revs[about.rev].by = Engine
         /\ d.type = "task.terminal" => about.status \in Terminal

\* No write clobbers another: a call's write follows the very revision its
\* client knew, steering does not undo a status it did not see, and guidance
\* that was accepted stays for as long as the task can be run. What becomes of
\* it once the task has ended is GuidanceIsKept.
NothingClobbered ==
  \A t \in Tasks : \A i \in 2 .. Len(log[t]) :
    LET now == log[t][i]
        before == log[t][i - 1]
    IN /\ before.notes \subseteq now.notes \/ before.status \in Terminal
       /\ now.by \in Calls => expect[now.by] + 1 = i
       /\ now.by \in Calls /\ verb[now.by] = "steer" =>
            now.status = before.status

\* After its end a task is written once more at most, by the driver that
\* marks it, whoever loaded it before; and it stays ended as it did.
TerminalIsLast ==
  \A t \in Tasks : \A i \in 1 .. Len(log[t]) - 1 :
    log[t][i].status \in Terminal =>
      /\ i = Len(log[t]) - 1
      /\ log[t][i + 1].by = Learner
      /\ log[t][i + 1].status = log[t][i].status

\* business_state.rs:14 says that what the control plane writes there "must
\* survive" the other writers, which "freely interleave" with it (line 16). The
\* code contradicts it: the marker of an ended task replaces an array, and with
\* it the guidance (procedural.rs:137).
GuidanceIsKept ==
  \A t \in Tasks : \A i \in 2 .. Len(log[t]) :
    log[t][i - 1].notes \subseteq log[t][i].notes

\* A client that was told its change happened can count on the events: they
\* are queued, terminal one included, for every subscription that was active
\* all along, unless a store call failed.
RepliedMeansQueued ==
  \A c \in Calls \ Console, s \in Subs, type \in Types :
    /\ faults = 0
    /\ s \in steady[c]
    /\ type \in Wants[s]
    /\ \/ reply[c] = "created" /\ type = "task.created"
       \/ /\ reply[c] = "ok"
          /\ verb[c] # "steer"
          /\ type = "task.status_changed"
       \/ /\ reply[c] = "ok"
          /\ log[task[c]][expect[c] + 1].status \in Terminal
          /\ type = "task.terminal"
    => status[[call |-> c, type |-> type, sub |-> s]] # "none"
=============================================================================
