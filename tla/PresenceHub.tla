---------------------------- MODULE PresenceHub ----------------------------
(***************************************************************************)
(* The presence hub (presence/hub.rs) and the two HTTP handlers that drive *)
(* it (presence/routes.rs): host agents report events and open `remote'    *)
(* approvals, surfaces answer them, everybody reads snapshots.             *)
(*                                                                         *)
(* One mutex guards the hub, so every critical section is one action.      *)
(* What is not atomic, and is not here either: a waiting approval request  *)
(* (the timer, the reply channel, the lock it takes again to withdraw),    *)
(* and an answer (it looks at the approval, then resolves it).             *)
(*                                                                         *)
(* Time is what the hub asks of it: a session can have been silent for     *)
(* longer than SESSION_TTL_SECS (overdue), or done for longer than         *)
(* DONE_TO_IDLE_SECS (longDone).  Display fields, notes, personas and the  *)
(* counters of the day are not told apart.                                 *)
(***************************************************************************)
EXTENDS Naturals, Sequences

CONSTANTS
  Owners,
  Keys,          \* session keys: owner, source and session id
  Calls,         \* requests for a remote approval; each gets a fresh id
  Surfaces,      \* clients with the owner's token, and paired devices
  OwnerOf,       \* [Keys -> Owners]
  KeyOf,         \* [Calls -> Keys]
  Complete,      \* [Calls -> BOOLEAN]: input_complete
  SurfaceOwner,  \* [Surfaces -> Owners]
  MayAnswer,     \* [Surfaces -> BOOLEAN]: owner, or device_approvals and touch
  Impatient,     \* calls whose client may close the connection while it waits
  MaxSeq         \* bound on the events and requests a behaviour contains

ASSUME ConstantsAssumption ==
  /\ OwnerOf \in [Keys -> Owners]
  /\ KeyOf \in [Calls -> Keys]
  /\ Complete \in [Calls -> BOOLEAN]
  /\ SurfaceOwner \in [Surfaces -> Owners]
  /\ MayAnswer \in [Surfaces -> BOOLEAN]
  /\ Impatient \subseteq Calls
  /\ MaxSeq \in Nat

VARIABLES
  state,      \* [Keys -> States]: the sessions map, "absent" when not in it
  alerts,     \* the question and error alerts
  approvals,  \* the calls whose approval is in the pending map
  seq,        \* the snapshot's sequence number
  waiter,     \* [Calls -> Phases]: the request handler that waits for a reply
  reply,      \* [Calls -> Replies]: the value in the reply channel
  feed,       \* [Calls -> Seq(Resolved)]: approval.resolved events broadcast
  acting,     \* [Surfaces -> Acts]: an answer between its look and its resolve
  overdue,    \* sessions silent for longer than SESSION_TTL_SECS
  longDone    \* sessions done for longer than DONE_TO_IDLE_SECS

hubVars == <<state, alerts, approvals, seq>>
vars == <<state, alerts, approvals, seq, waiter, reply, feed, acting,
          overdue, longDone>>

States == {"absent", "idle", "working", "waiting", "done", "error"}
Phases == {"unasked", "waiting", "elapsed",
           "approved", "denied", "timedout", "gone"}
Replies == {"none", "approve", "deny"}
Alert == [id : Nat, kind : {"question", "error"}, key : Keys]
Resolved == [decision : {"approve", "deny"}, by : Surfaces]
              \cup {[decision |-> "timeout", by |-> "timeout"]}
TimedOut == [decision |-> "timeout", by |-> "timeout"]
NoAct == [call |-> "none", decision |-> "none"]
Acts == [call : Calls, decision : {"approve", "deny"}] \cup {NoAct}

\* The events of HOST_EVENTS; a Notification is split by what it notifies.
Events == {"SessionStart", "UserPromptSubmit", "PreToolUse",
           "PermissionRequest", "PostToolUse", "PostToolUseFailure",
           "NotificationPrompt", "NotificationOther", "SubagentStart",
           "SubagentStop", "PreCompact", "Stop", "StopFailure"}

TypeOK ==
  /\ state \in [Keys -> States]
  /\ alerts \subseteq Alert
  /\ approvals \subseteq Calls
  /\ seq \in Nat
  /\ waiter \in [Calls -> Phases]
  /\ reply \in [Calls -> Replies]
  /\ feed \in [Calls -> Seq(Resolved)]
  /\ acting \in [Surfaces -> Acts]
  /\ overdue \subseteq Keys
  /\ longDone \subseteq Keys

Init ==
  /\ state = [k \in Keys |-> "absent"]
  /\ alerts = {}
  /\ approvals = {}
  /\ seq = 0
  /\ waiter = [c \in Calls |-> "unasked"]
  /\ reply = [c \in Calls |-> "none"]
  /\ feed = [c \in Calls |-> << >>]
  /\ acting = [s \in Surfaces |-> NoAct]
  /\ overdue = {}
  /\ longDone = {}

----------------------------------------------------------------------------
(* Helpers of the critical sections.                                       *)

\* prune: silent sessions go with their alerts, old done sessions turn idle.
PrunedState ==
  [k \in Keys |-> IF k \in overdue THEN "absent"
                  ELSE IF k \in longDone THEN "idle"
                  ELSE state[k]]

PrunedAlerts == {a \in alerts : a.key \notin overdue}

PruneClocks == overdue' = {} /\ longDone' = {}

Live(k) == {c \in Calls : KeyOf[c] = k /\ waiter[c] \in {"waiting", "elapsed"}}

HasApproval(k) == \E c \in approvals : KeyOf[c] = k

\* Mutant: back to working without looking for another approval.
MutRestoredState(c) ==
  IF state[KeyOf[c]] = "waiting"
  THEN [state EXCEPT ![KeyOf[c]] = "working"]
  ELSE state

\* restore_working, called when the approval of c has left the map.
RestoredState(c) ==
  IF /\ state[KeyOf[c]] = "waiting"
     /\ \A d \in approvals \ {c} : KeyOf[d] # KeyOf[c]
  THEN [state EXCEPT ![KeyOf[c]] = "working"]
  ELSE state

\* The state a host event puts its session in.
StateAfter(e, old) ==
  IF e = "SessionStart" THEN "idle"
  ELSE IF e \in {"UserPromptSubmit", "PreToolUse", "PostToolUse",
                 "PostToolUseFailure", "SubagentStart"} THEN "working"
  ELSE IF e \in {"PermissionRequest", "NotificationPrompt"} THEN "waiting"
  ELSE IF e = "Stop" THEN "done"
  ELSE IF e = "StopFailure" THEN "error"
  ELSE old

ClearsQuestions ==
  {"UserPromptSubmit", "PostToolUse", "PostToolUseFailure", "Stop"}

AsksAtTheHost == {"PermissionRequest", "NotificationPrompt"}

\* The alerts that outlive the event, before it raises its own.
KeptAlerts(k, e) ==
  {a \in PrunedAlerts :
     /\ e = "StopFailure" => a.key # k
     /\ e \in ClearsQuestions => ~(a.key = k /\ a.kind = "question")}

\* Mutant: any pending approval, of whatever session, hides the question.
MutRaisedKinds(k, e) ==
  IF e = "StopFailure" THEN {"error"}
  ELSE IF e \in AsksAtTheHost /\ approvals = {} THEN {"question"}
  ELSE {}

RaisedKinds(k, e) ==
  IF e = "StopFailure" THEN {"error"}
  ELSE IF e \in AsksAtTheHost /\ ~HasApproval(k) THEN {"question"}
  ELSE {}

\* At most one alert of a kind per session; its id is the next seq.
RaisedAlerts(k, e) ==
  {a \in [id : {seq + 1}, kind : RaisedKinds(k, e), key : {k}] :
     \A b \in KeptAlerts(k, e) : ~(b.key = k /\ b.kind = a.kind)}

----------------------------------------------------------------------------
(* Host agents.                                                            *)

\* PresenceHub::record, every event but SessionEnd.
Record(k, e) ==
  /\ seq < MaxSeq
  /\ PruneClocks
  /\ state' = [PrunedState EXCEPT
                 ![k] = StateAfter(e, IF @ = "absent" THEN "idle" ELSE @)]
  /\ alerts' = KeptAlerts(k, e) \cup RaisedAlerts(k, e)
  /\ seq' = seq + 1
  /\ UNCHANGED <<approvals, waiter, reply, feed, acting>>

\* PresenceHub::record, SessionEnd: the approvals of the session stay.
EndSession(k) ==
  /\ seq < MaxSeq
  /\ PruneClocks
  /\ state' = [PrunedState EXCEPT ![k] = "absent"]
  /\ alerts' = {a \in PrunedAlerts : a.key # k}
  /\ seq' = seq + 1
  /\ UNCHANGED <<approvals, waiter, reply, feed, acting>>

\* PresenceHub::request_approval up to its wait.
OpenApproval(c) ==
  /\ waiter[c] = "unasked"
  /\ seq < MaxSeq
  /\ PruneClocks
  /\ state' = [PrunedState EXCEPT
                 ![KeyOf[c]] = IF @ = "absent" THEN "absent" ELSE "waiting"]
  /\ alerts' = PrunedAlerts
  /\ approvals' = approvals \cup {c}
  /\ waiter' = [waiter EXCEPT ![c] = "waiting"]
  /\ seq' = seq + 1
  /\ UNCHANGED <<reply, feed, acting>>

\* The reply reaches the waiting request.
Deliver(c) ==
  /\ waiter[c] = "waiting"
  /\ reply[c] # "none"
  /\ waiter' = [waiter EXCEPT
                  ![c] = IF reply[c] = "approve" THEN "approved" ELSE "denied"]
  /\ UNCHANGED <<hubVars, reply, feed, acting, overdue, longDone>>

\* The timer fires; the channel is polled first, and it was empty.
Elapse(c) ==
  /\ waiter[c] = "waiting"
  /\ reply[c] = "none"
  /\ waiter' = [waiter EXCEPT ![c] = "elapsed"]
  /\ UNCHANGED <<hubVars, reply, feed, acting, overdue, longDone>>

\* Mutant: the timed-out request returns without withdrawing.
MutWithdraw(c) ==
  /\ waiter[c] = "elapsed"
  /\ waiter' = [waiter EXCEPT ![c] = "timedout"]
  /\ UNCHANGED <<hubVars, reply, feed, acting, overdue, longDone>>

\* The request takes the lock again and withdraws what is still pending.
Withdraw(c) ==
  /\ waiter[c] = "elapsed"
  /\ waiter' = [waiter EXCEPT ![c] = "timedout"]
  /\ IF c \in approvals
       THEN /\ approvals' = approvals \ {c}
            /\ feed' = [feed EXCEPT ![c] = Append(@, TimedOut)]
            /\ state' = RestoredState(c)
            /\ seq' = seq + 1
       ELSE UNCHANGED <<approvals, feed, state, seq>>
  /\ UNCHANGED <<alerts, reply, acting, overdue, longDone>>

\* The client closes the connection: the server drops the waiting handler.
HangUp(c) ==
  /\ c \in Impatient
  /\ waiter[c] = "waiting"
  /\ waiter' = [waiter EXCEPT ![c] = "gone"]
  /\ UNCHANGED <<hubVars, reply, feed, acting, overdue, longDone>>

----------------------------------------------------------------------------
(* Surfaces.                                                               *)

\* Mutant: nothing checks that the call was shown whole.
MutShownIncomplete(s, c) == FALSE

\* approval_complete, for an approval of the caller's owner.
ShownIncomplete(s, c) ==
  /\ c \in approvals
  /\ OwnerOf[KeyOf[c]] = SurfaceOwner[s]
  /\ ~Complete[c]

\* action_handler, approve or deny, up to the lock of resolve.
BeginAnswer(s, c, d) ==
  /\ acting[s] = NoAct
  /\ waiter[c] # "unasked"
  /\ MayAnswer[s]
  /\ d = "approve" => ~ShownIncomplete(s, c)
  /\ acting' = [acting EXCEPT ![s] = [call |-> c, decision |-> d]]
  /\ UNCHANGED <<hubVars, waiter, reply, feed, overdue, longDone>>

\* Mutant: the answered approval stays in the map.
MutResolve(s, c, d) ==
  /\ c \in approvals
  /\ OwnerOf[KeyOf[c]] = SurfaceOwner[s]
  /\ reply' = IF waiter[c] = "waiting" THEN [reply EXCEPT ![c] = d] ELSE reply
  /\ feed' = [feed EXCEPT ![c] = Append(@, [decision |-> d, by |-> s])]
  /\ seq' = seq + 1
  /\ UNCHANGED <<alerts, approvals, state>>

\* PresenceHub::resolve: takes the approval out, replies, tells the feed.
Resolve(s, c, d) ==
  /\ c \in approvals
  /\ OwnerOf[KeyOf[c]] = SurfaceOwner[s]
  /\ approvals' = approvals \ {c}
  /\ reply' = IF waiter[c] = "waiting" THEN [reply EXCEPT ![c] = d] ELSE reply
  /\ feed' = [feed EXCEPT ![c] = Append(@, [decision |-> d, by |-> s])]
  /\ state' = RestoredState(c)
  /\ seq' = seq + 1
  /\ UNCHANGED alerts

FinishAnswer(s) ==
  /\ acting[s] # NoAct
  /\ acting' = [acting EXCEPT ![s] = NoAct]
  /\ LET c == acting[s].call
         d == acting[s].decision
     IN \/ Resolve(s, c, d)
        \/ /\ ~(c \in approvals /\ OwnerOf[KeyOf[c]] = SurfaceOwner[s])
           /\ UNCHANGED <<hubVars, reply, feed>>
  /\ UNCHANGED <<waiter, overdue, longDone>>

\* PresenceHub::snapshot, when it finds something to prune.
Snapshot ==
  /\ overdue \cup longDone # {}
  /\ PruneClocks
  /\ state' = PrunedState
  /\ alerts' = PrunedAlerts
  /\ UNCHANGED <<approvals, seq, waiter, reply, feed, acting>>

----------------------------------------------------------------------------
(* Time.                                                                   *)

\* Twelve hours without a sign of the session: longer than any wait.
FallSilent(k) ==
  /\ state[k] # "absent"
  /\ k \notin overdue
  /\ Live(k) = {}
  /\ overdue' = overdue \cup {k}
  /\ UNCHANGED <<hubVars, waiter, reply, feed, acting, longDone>>

StayDone(k) ==
  /\ state[k] = "done"
  /\ k \notin longDone
  /\ longDone' = longDone \cup {k}
  /\ UNCHANGED <<hubVars, waiter, reply, feed, acting, overdue>>

Next ==
  \/ \E k \in Keys : \/ \E e \in Events : Record(k, e)
                     \/ EndSession(k)
                     \/ FallSilent(k)
                     \/ StayDone(k)
  \/ \E c \in Calls : \/ OpenApproval(c)
                      \/ Deliver(c)
                      \/ Elapse(c)
                      \/ Withdraw(c)
                      \/ HangUp(c)
  \/ \E s \in Surfaces : \/ \E c \in Calls, d \in {"approve", "deny"} :
                              BeginAnswer(s, c, d)
                         \/ FinishAnswer(s)
  \/ Snapshot

\* The runtime keeps polling the request it parked, and timers fire; an
\* answer has no await between its look and its resolve.
Fairness ==
  /\ \A c \in Calls : WF_vars(Deliver(c) \/ Elapse(c) \/ Withdraw(c))
  /\ \A s \in Surfaces : WF_vars(FinishAnswer(s))

Spec == Init /\ [][Next]_vars

FairSpec == Spec /\ Fairness

----------------------------------------------------------------------------
(* What the host is promised.                                              *)

\* The hub implements RemoteApproval: an answer is the decision the feed
\* carries, a verdict is how the waiting request ended.
VerdictOf(phase) ==
  IF phase \in {"waiting", "elapsed"} THEN "open"
  ELSE IF phase = "approved" THEN "allow"
  ELSE IF phase = "denied" THEN "deny"
  ELSE IF phase = "timedout" THEN "ask"
  ELSE IF phase = "gone" THEN "hungup"
  ELSE "unasked"

AbstractVerdict == [c \in Calls |-> VerdictOf(waiter[c])]

AbstractAnswer ==
  [c \in Calls |->
     IF feed[c] = << >> \/ feed[c][1].decision = "timeout"
     THEN [decision |-> "none", by |-> "nobody"]
     ELSE feed[c][1]]

Promise == INSTANCE RemoteApproval WITH
             CallOwner <- [c \in Calls |-> OwnerOf[KeyOf[c]]],
             verdict <- AbstractVerdict,
             answer <- AbstractAnswer

\* Whatever the interleaving of requests, timers, hang-ups and answers, the
\* host hears allow or deny only as a surface of the owner decided it.
KeepsPromise == Promise!Spec

\* An approval is answered, denied or withdrawn once: resolve and the
\* withdrawal on timeout never both tell the feed about the same call.
AnsweredOnce == \A c \in Calls : Len(feed[c]) <= 1

\* While its approval is pending a request has no reply; once the approval
\* has left the map, a request that still waits has one to read (the sender
\* never vanishes under it).
ReplyOrPending ==
  \A c \in Calls :
    /\ c \in approvals => reply[c] = "none"
    /\ waiter[c] = "waiting" => (c \in approvals <=> reply[c] = "none")

\* A session that waits for the person has something on show that says why:
\* a pending approval or a question, through any mix of host events,
\* answers, withdrawals and pruning.
WaitingHasCause ==
  \A k \in Keys :
    state[k] = "waiting" =>
      \/ HasApproval(k)
      \/ \E a \in alerts : a.key = k /\ a.kind = "question"

\* Answering or withdrawing one approval takes its session out of waiting
\* only when no other approval of that session is pending.
LastAnswerRestores ==
  [][\A c \in approvals \ approvals' :
       LET k == KeyOf[c]
       IN state[k] = "waiting" => (state'[k] = "waiting" <=> HasApproval(k)')]_vars

\* docs/en/presence.md:87 says of the snapshot that "seq grows on every change".
\* The code contradicts it: snapshot prunes and does not bump (hub.rs:851).
SeqGrowsOnEveryChange ==
  [][<<state, alerts, approvals>>' # <<state, alerts, approvals>>
       => seq' > seq]_vars

\* A request whose client stays gets its verdict, and its approval does not
\* stay on the surfaces.
PatientCallsEnd ==
  \A c \in Calls \ Impatient :
    /\ waiter[c] = "waiting" ~> waiter[c] \in {"approved", "denied", "timedout"}
    /\ c \in approvals ~> c \notin approvals
=============================================================================
