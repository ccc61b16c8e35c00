------------------------- MODULE PresenceHubProofs -------------------------
(***************************************************************************)
(* Proofs about PresenceHub for any owners, sessions, calls and surfaces.  *)
(***************************************************************************)
EXTENDS PresenceHub, TLAPS

(***************************************************************************)
(* The inductive invariant.  An approval that left the map left exactly    *)
(* one event on the feed, and the reply a request reads is that event.     *)
(***************************************************************************)

\* The life of one call: where its approval, its reply and its event are.
CallInv(c) ==
  /\ waiter[c] = "unasked" => c \notin approvals /\ feed[c] = << >>
  /\ c \in approvals => feed[c] = << >> /\ reply[c] = "none"
  /\ waiter[c] # "unasked" /\ c \notin approvals =>
       \E r \in Resolved : feed[c] = <<r>>
  /\ waiter[c] = "unasked" => reply[c] = "none"
  /\ waiter[c] = "waiting" /\ c \notin approvals => reply[c] # "none"
  /\ reply[c] # "none" => feed[c] # << >> /\ feed[c][1].decision = reply[c]
  /\ waiter[c] = "elapsed" => reply[c] = "none"
  /\ waiter[c] \in {"approved", "denied", "timedout"} => c \notin approvals
  /\ waiter[c] = "approved" => reply[c] = "approve"
  /\ waiter[c] = "denied" => reply[c] = "deny"
  /\ feed[c] = <<TimedOut>> => waiter[c] = "timedout"

\* A surface that acts may answer, and approves only what it could be shown.
ActInv(s) ==
  acting[s] # NoAct =>
    /\ MayAnswer[s]
    /\ waiter[acting[s].call] # "unasked"
    /\ acting[s].decision = "approve" => ~ShownIncomplete(s, acting[s].call)

HubInv ==
  /\ TypeOK
  /\ \A c \in Calls : CallInv(c)
  /\ \A s \in Surfaces : ActInv(s)

----------------------------------------------------------------------------
(* Type correctness.                                                       *)

LEMMA InitTypeOK == Init => TypeOK
BY DEF Init, TypeOK, States, Phases, Replies, Acts, NoAct

\* Pruning keeps the sessions map and the alerts well typed.
LEMMA PrunedType ==
  ASSUME TypeOK
  PROVE  PrunedState \in [Keys -> States] /\ PrunedAlerts \subseteq Alert
BY DEF TypeOK, PrunedState, PrunedAlerts, States

\* So does an event, whichever it is.
LEMMA StateAfterType ==
  ASSUME NEW e \in Events, NEW old \in States
  PROVE  StateAfter(e, old) \in States
BY DEF StateAfter, States, Events

LEMMA RestoredType ==
  ASSUME TypeOK, NEW c \in Calls
  PROVE  RestoredState(c) \in [Keys -> States]
BY ConstantsAssumption DEF TypeOK, RestoredState, States

LEMMA RaisedType ==
  ASSUME TypeOK, NEW k \in Keys, NEW e \in Events
  PROVE  KeptAlerts(k, e) \subseteq Alert /\ RaisedAlerts(k, e) \subseteq Alert
<1>1. KeptAlerts(k, e) \subseteq Alert
  BY PrunedType DEF KeptAlerts
<1>2. RaisedKinds(k, e) \subseteq {"question", "error"}
  BY DEF RaisedKinds
<1>3. seq + 1 \in Nat
  BY DEF TypeOK
<1>4. RaisedAlerts(k, e) \subseteq Alert
  BY <1>2, <1>3 DEF RaisedAlerts, Alert
<1> QED
  BY <1>1, <1>4

LEMMA ResolveType ==
  ASSUME TypeOK, NEW s \in Surfaces, NEW c \in Calls,
         NEW d \in {"approve", "deny"}, Resolve(s, c, d)
  PROVE  /\ state' \in [Keys -> States]
         /\ approvals' \subseteq Calls
         /\ seq' \in Nat
         /\ reply' \in [Calls -> Replies]
         /\ feed' \in [Calls -> Seq(Resolved)]
         /\ alerts' \subseteq Alert
<1>1. [decision |-> d, by |-> s] \in Resolved
  BY DEF Resolved
<1>2. feed' \in [Calls -> Seq(Resolved)]
  BY <1>1 DEF Resolve, TypeOK
<1>3. reply' \in [Calls -> Replies]
  BY DEF Resolve, TypeOK, Replies
<1> QED
  BY <1>2, <1>3, RestoredType DEF Resolve, TypeOK

LEMMA NextTypeOK == TypeOK /\ [Next]_vars => TypeOK'
<1> SUFFICES ASSUME TypeOK, [Next]_vars
             PROVE  TypeOK'
  OBVIOUS
<1>1. ASSUME NEW k \in Keys, NEW e \in Events, Record(k, e)
      PROVE  TypeOK'
  <2>1. state' \in [Keys -> States]
    BY <1>1, PrunedType, StateAfterType DEF Record, States
  <2>2. alerts' \subseteq Alert
    BY <1>1, RaisedType DEF Record
  <2> QED
    BY <1>1, <2>1, <2>2 DEF Record, TypeOK, PruneClocks
<1>2. ASSUME NEW k \in Keys, EndSession(k)
      PROVE  TypeOK'
  <2>1. state' \in [Keys -> States]
    BY <1>2, PrunedType DEF EndSession, States
  <2>2. alerts' \subseteq Alert
    BY <1>2, PrunedType DEF EndSession
  <2> QED
    BY <1>2, <2>1, <2>2 DEF EndSession, TypeOK, PruneClocks
<1>3. ASSUME NEW c \in Calls, OpenApproval(c)
      PROVE  TypeOK'
  <2>1. state' \in [Keys -> States]
    BY <1>3, PrunedType, ConstantsAssumption DEF OpenApproval, States
  <2>2. waiter' \in [Calls -> Phases]
    BY <1>3 DEF OpenApproval, TypeOK, Phases
  <2> QED
    BY <1>3, <2>1, <2>2, PrunedType DEF OpenApproval, TypeOK, PruneClocks
<1>4. ASSUME NEW c \in Calls, Deliver(c) \/ Elapse(c) \/ HangUp(c)
      PROVE  TypeOK'
  BY <1>4 DEF Deliver, Elapse, HangUp, TypeOK, Phases, hubVars
<1>5. ASSUME NEW c \in Calls, Withdraw(c)
      PROVE  TypeOK'
  <2>1. waiter' \in [Calls -> Phases]
    BY <1>5 DEF Withdraw, TypeOK, Phases
  <2>2. TimedOut \in Resolved
    BY DEF TimedOut, Resolved
  <2>3. feed' \in [Calls -> Seq(Resolved)]
    <3>1. Append(feed[c], TimedOut) \in Seq(Resolved)
      BY <2>2 DEF TypeOK
    <3>2. CASE c \in approvals
      BY <1>5, <3>1, <3>2 DEF Withdraw, TypeOK
    <3>3. CASE c \notin approvals
      BY <1>5, <3>3 DEF Withdraw, TypeOK
    <3> QED
      BY <3>2, <3>3
  <2>4. state' \in [Keys -> States]
    BY <1>5, RestoredType DEF Withdraw, TypeOK
  <2> QED
    BY <1>5, <2>1, <2>3, <2>4 DEF Withdraw, TypeOK
<1>6. ASSUME NEW s \in Surfaces, NEW c \in Calls, NEW d \in {"approve", "deny"},
             BeginAnswer(s, c, d)
      PROVE  TypeOK'
  <2>1. acting' \in [Surfaces -> Acts]
    BY <1>6 DEF BeginAnswer, TypeOK, Acts
  <2> QED
    BY <1>6, <2>1 DEF BeginAnswer, TypeOK, hubVars
<1>7. ASSUME NEW s \in Surfaces, FinishAnswer(s)
      PROVE  TypeOK'
  <2>1. acting' \in [Surfaces -> Acts]
    BY <1>7 DEF FinishAnswer, TypeOK, Acts
  <2>2. acting[s].call \in Calls /\ acting[s].decision \in {"approve", "deny"}
    BY <1>7 DEF FinishAnswer, TypeOK, Acts
  <2>3. CASE Resolve(s, acting[s].call, acting[s].decision)
    BY <1>7, <2>1, <2>2, <2>3, ResolveType DEF FinishAnswer, TypeOK
  <2>4. CASE UNCHANGED <<hubVars, reply, feed>>
    BY <1>7, <2>1, <2>4 DEF FinishAnswer, TypeOK, hubVars
  <2> QED
    BY <1>7, <2>3, <2>4 DEF FinishAnswer
<1>8. CASE Snapshot
  BY <1>8, PrunedType DEF Snapshot, TypeOK, PruneClocks
<1>9. ASSUME NEW k \in Keys, FallSilent(k) \/ StayDone(k)
      PROVE  TypeOK'
  BY <1>9 DEF FallSilent, StayDone, TypeOK, hubVars
<1>10. CASE UNCHANGED vars
  BY <1>10 DEF vars, TypeOK
<1> QED
  BY <1>1, <1>2, <1>3, <1>4, <1>5, <1>6, <1>7, <1>8, <1>9, <1>10 DEF Next

\* Every variable of the hub keeps its type, for any number of owners,
\* sessions, calls and surfaces.
THEOREM TypeCorrect == Spec => []TypeOK
BY InitTypeOK, NextTypeOK, PTL DEF Spec

----------------------------------------------------------------------------
(* The life of a call.                                                     *)

LEMMA InitHubInv == Init => HubInv
BY InitTypeOK DEF Init, HubInv, CallInv, ActInv, Resolved

\* A step that leaves the request, its approval, its reply and its event
\* alone leaves its CallInv alone.
LEMMA OtherCall ==
  ASSUME NEW c \in Calls, CallInv(c),
         waiter'[c] = waiter[c], reply'[c] = reply[c], feed'[c] = feed[c],
         c \in approvals' <=> c \in approvals
  PROVE  CallInv(c)'
BY DEF CallInv

\* The same for a surface that is not acting, or whose call keeps its state.
LEMMA OtherAct ==
  ASSUME NEW s \in Surfaces, ActInv(s), TypeOK, acting'[s] = acting[s],
         approvals' \subseteq approvals,
         \A c \in Calls : waiter[c] # "unasked" => waiter'[c] # "unasked"
  PROVE  ActInv(s)'
BY DEF ActInv, ShownIncomplete, TypeOK, Acts

\* Resolving and withdrawing append to an empty feed.
LEMMA FirstEvent ==
  ASSUME TypeOK, NEW c \in Calls, feed[c] = << >>, NEW r \in Resolved
  PROVE  Append(feed[c], r) = <<r>> /\ <<r>> # << >> /\ <<r>>[1] = r
OBVIOUS

LEMMA NextHubInv == HubInv /\ [Next]_vars => HubInv'
<1> SUFFICES ASSUME HubInv, [Next]_vars
             PROVE  (\A c \in Calls : CallInv(c)') /\ (\A s \in Surfaces : ActInv(s)')
  BY NextTypeOK DEF HubInv
<1> USE DEF HubInv
<1>1. CASE UNCHANGED <<approvals, waiter, reply, feed, acting>>
  BY <1>1, OtherCall, OtherAct
<1>2. ASSUME NEW c \in Calls, OpenApproval(c)
      PROVE  (\A d \in Calls : CallInv(d)') /\ (\A s \in Surfaces : ActInv(s)')
  <2>1. CallInv(c)'
    BY <1>2 DEF OpenApproval, CallInv, TypeOK, TimedOut
  <2>2. \A d \in Calls : d # c => CallInv(d)'
    BY <1>2, OtherCall DEF OpenApproval, TypeOK
  <2>3. ASSUME NEW s \in Surfaces PROVE ActInv(s)'
    BY <1>2, <2>3 DEF OpenApproval, ActInv, ShownIncomplete, TypeOK, Acts
  <2> QED
    BY <2>1, <2>2, <2>3
<1>3. ASSUME NEW c \in Calls, Deliver(c) \/ Elapse(c) \/ HangUp(c)
      PROVE  (\A d \in Calls : CallInv(d)') /\ (\A s \in Surfaces : ActInv(s)')
  <2>1. CallInv(c)'
    <3>1. CASE Deliver(c)
      BY <3>1 DEF Deliver, hubVars, CallInv, TypeOK, Replies, TimedOut
    <3>2. CASE Elapse(c)
      BY <3>2 DEF Elapse, hubVars, CallInv, TypeOK, TimedOut
    <3>3. CASE HangUp(c)
      BY <3>3 DEF HangUp, hubVars, CallInv, TypeOK, TimedOut
    <3> QED
      BY <1>3, <3>1, <3>2, <3>3
  <2>2. \A d \in Calls : d # c => CallInv(d)'
    BY <1>3, OtherCall DEF Deliver, Elapse, HangUp, hubVars, TypeOK
  <2>3. ASSUME NEW s \in Surfaces PROVE ActInv(s)'
    BY <1>3, <2>3, OtherAct DEF Deliver, Elapse, HangUp, hubVars, TypeOK
  <2> QED
    BY <2>1, <2>2, <2>3
<1>4. ASSUME NEW c \in Calls, Withdraw(c)
      PROVE  (\A d \in Calls : CallInv(d)') /\ (\A s \in Surfaces : ActInv(s)')
  <2>1. CallInv(c)'
    <3>1. CASE c \in approvals
      <4>1. TimedOut \in Resolved
        BY DEF TimedOut, Resolved
      <4>2. feed'[c] = <<TimedOut>>
        BY <1>4, <3>1, <4>1, FirstEvent DEF Withdraw, CallInv, TypeOK
      <4> QED
        BY <1>4, <3>1, <4>1, <4>2 DEF Withdraw, CallInv, TypeOK
    <3>2. CASE c \notin approvals
      BY <1>4, <3>2 DEF Withdraw, CallInv, TypeOK
    <3> QED
      BY <3>1, <3>2
  <2>2. \A d \in Calls : d # c => CallInv(d)'
    BY <1>4, OtherCall DEF Withdraw, TypeOK
  <2>3. ASSUME NEW s \in Surfaces PROVE ActInv(s)'
    BY <1>4, <2>3, OtherAct DEF Withdraw, TypeOK
  <2> QED
    BY <2>1, <2>2, <2>3
<1>5. ASSUME NEW s \in Surfaces, NEW c \in Calls, NEW d \in {"approve", "deny"},
             BeginAnswer(s, c, d)
      PROVE  (\A e \in Calls : CallInv(e)') /\ (\A t \in Surfaces : ActInv(t)')
  <2>1. \A e \in Calls : CallInv(e)'
    BY <1>5, OtherCall DEF BeginAnswer, hubVars
  <2>2. ActInv(s)'
    BY <1>5 DEF BeginAnswer, hubVars, ActInv, ShownIncomplete, TypeOK
  <2>3. \A t \in Surfaces : t # s => ActInv(t)'
    BY <1>5, OtherAct DEF BeginAnswer, hubVars, TypeOK
  <2> QED
    BY <2>1, <2>2, <2>3
<1>6. ASSUME NEW s \in Surfaces, FinishAnswer(s)
      PROVE  (\A c \in Calls : CallInv(c)') /\ (\A t \in Surfaces : ActInv(t)')
  <2>1. PICK c \in Calls, d \in {"approve", "deny"} :
               acting[s].call = c /\ acting[s].decision = d
    BY <1>6 DEF FinishAnswer, TypeOK, Acts
  <2>2. CASE Resolve(s, c, d)
    <3> DEFINE r == [decision |-> d, by |-> s]
    <3>1. r \in Resolved /\ r # TimedOut /\ r.decision = d
      BY <2>1 DEF Resolved, TimedOut
    <3>2. feed'[c] = <<r>>
      BY <2>1, <2>2, <3>1, FirstEvent DEF Resolve, CallInv, TypeOK
    <3>3. CallInv(c)'
      <4>1. waiter'[c] = waiter[c] /\ c \notin approvals'
        BY <1>6, <2>2 DEF FinishAnswer, Resolve
      <4>2. waiter[c] \in {"waiting", "elapsed", "gone"}
        BY <2>1, <2>2 DEF Resolve, CallInv, TypeOK, Phases
      <4>3. reply'[c] = IF waiter[c] = "waiting" THEN d ELSE "none"
        BY <2>1, <2>2 DEF Resolve, CallInv, TypeOK
      <4>4. feed'[c] # << >> /\ feed'[c][1] = r /\ feed'[c] # <<TimedOut>>
        BY <3>1, <3>2
      <4> HIDE DEF r
      <4> QED
        BY <2>1, <3>1, <3>2, <4>1, <4>2, <4>3, <4>4 DEF CallInv
    <3>4. \A e \in Calls : e # c => CallInv(e)'
      BY <1>6, <2>1, <2>2, OtherCall DEF FinishAnswer, Resolve, TypeOK
    <3> QED
      BY <3>3, <3>4, <1>6, <2>2, OtherAct, <2>1 DEF FinishAnswer, Resolve, ActInv, TypeOK
  <2>3. CASE UNCHANGED <<hubVars, reply, feed>>
    <3>1. \A e \in Calls : CallInv(e)'
      BY <1>6, <2>3, OtherCall DEF FinishAnswer, hubVars
    <3>2. ActInv(s)'
      BY <1>6 DEF FinishAnswer, ActInv, TypeOK
    <3>3. \A t \in Surfaces : t # s => ActInv(t)'
      BY <1>6, <2>3, OtherAct DEF FinishAnswer, hubVars, TypeOK
    <3> QED
      BY <3>1, <3>2, <3>3
  <2> QED
    BY <1>6, <2>1, <2>2, <2>3 DEF FinishAnswer
<1> QED
  <2>1. ASSUME NEW k \in Keys, NEW e \in Events, Record(k, e)
        PROVE  UNCHANGED <<approvals, waiter, reply, feed, acting>>
    BY <2>1 DEF Record
  <2>2. ASSUME NEW k \in Keys, EndSession(k) \/ FallSilent(k) \/ StayDone(k)
        PROVE  UNCHANGED <<approvals, waiter, reply, feed, acting>>
    BY <2>2 DEF EndSession, FallSilent, StayDone, hubVars
  <2>3. CASE Snapshot \/ UNCHANGED vars
    BY <2>3, <1>1 DEF Snapshot, vars
  <2> QED
    BY <1>1, <1>2, <1>3, <1>4, <1>5, <1>6, <2>1, <2>2, <2>3 DEF Next

\* The life of a call is an invariant of the hub.
THEOREM HubInvariant == Spec => []HubInv
BY InitHubInv, NextHubInv, PTL DEF Spec

\* A call's approval is answered, denied or withdrawn at most once, however
\* answers, timers and hang-ups interleave.
THEOREM OneAnswer == Spec => []AnsweredOnce
<1>1. ASSUME HubInv, NEW c \in Calls
      PROVE  Len(feed[c]) <= 1
  <2>1. feed[c] = << >> \/ \E r \in Resolved : feed[c] = <<r>>
    BY <1>1 DEF HubInv, CallInv
  <2>2. CASE feed[c] = << >>
    BY <2>2
  <2>3. ASSUME NEW r \in Resolved, feed[c] = <<r>>
        PROVE  Len(feed[c]) <= 1
    BY <2>3
  <2> QED
    BY <2>1, <2>2, <2>3
<1>2. HubInv => AnsweredOnce
  BY <1>1 DEF AnsweredOnce
<1> QED
  BY <1>2, HubInvariant, PTL

\* A request that still waits finds its approval pending or a reply to read.
THEOREM ReplyOrPendingAlways == Spec => []ReplyOrPending
<1>1. HubInv => ReplyOrPending
  BY DEF HubInv, CallInv, ReplyOrPending
<1> QED
  BY <1>1, HubInvariant, PTL

----------------------------------------------------------------------------
(* The hub keeps the promise of RemoteApproval.                            *)

LEMMA InitPromise == Init => Promise!Init
BY DEF Init, Promise!Init, AbstractVerdict, VerdictOf, AbstractAnswer, Promise!NoAnswer

\* A step that changes neither a verdict nor an answer is a stutter.
LEMMA PromiseStutter ==
  ASSUME \A c \in Calls : VerdictOf(waiter'[c]) = VerdictOf(waiter[c]),
         \A c \in Calls : AbstractAnswer'[c] = AbstractAnswer[c]
  PROVE  UNCHANGED Promise!vars
BY DEF Promise!vars, AbstractVerdict, AbstractAnswer

LEMMA NextPromise == HubInv /\ [Next]_vars => [Promise!Next]_(Promise!vars)
<1> SUFFICES ASSUME HubInv, [Next]_vars
             PROVE  Promise!Next \/ UNCHANGED Promise!vars
  OBVIOUS
<1> USE DEF HubInv
<1>1. CASE UNCHANGED <<waiter, feed>>
  BY <1>1 DEF Promise!vars, AbstractVerdict, AbstractAnswer
<1>2. ASSUME NEW c \in Calls, OpenApproval(c)
      PROVE  Promise!Open(c)
  <2>1. AbstractVerdict' = [AbstractVerdict EXCEPT ![c] = "open"]
    BY <1>2 DEF OpenApproval, AbstractVerdict, VerdictOf, TypeOK
  <2>2. AbstractVerdict[c] = "unasked"
    BY <1>2 DEF OpenApproval, AbstractVerdict, VerdictOf
  <2>3. AbstractAnswer' = AbstractAnswer
    BY <1>2 DEF OpenApproval, AbstractAnswer
  <2> QED
    BY <2>1, <2>2, <2>3 DEF Promise!Open
<1>3. ASSUME NEW c \in Calls, Deliver(c)
      PROVE  Promise!Allow(c) \/ Promise!Deny(c)
  <2>1. AbstractVerdict[c] = "open"
    BY <1>3 DEF Deliver, AbstractVerdict, VerdictOf
  <2>2. AbstractAnswer' = AbstractAnswer
    BY <1>3 DEF Deliver, AbstractAnswer
  <2>3. AbstractAnswer[c].decision = reply[c]
    BY <1>3 DEF Deliver, CallInv, AbstractAnswer, TypeOK, Replies
  <2>4. CASE reply[c] = "approve"
    <3>1. AbstractVerdict' = [AbstractVerdict EXCEPT ![c] = "allow"]
      BY <1>3, <2>4 DEF Deliver, AbstractVerdict, VerdictOf, TypeOK
    <3> QED
      BY <2>1, <2>2, <2>3, <2>4, <3>1 DEF Promise!Allow
  <2>5. CASE reply[c] = "deny"
    <3>1. AbstractVerdict' = [AbstractVerdict EXCEPT ![c] = "deny"]
      BY <1>3, <2>5 DEF Deliver, AbstractVerdict, VerdictOf, TypeOK
    <3> QED
      BY <2>1, <2>2, <2>3, <2>5, <3>1 DEF Promise!Deny
  <2> QED
    BY <1>3, <2>4, <2>5 DEF Deliver, TypeOK, Replies
<1>4. ASSUME NEW c \in Calls, Elapse(c)
      PROVE  UNCHANGED Promise!vars
  <2>1. \A e \in Calls : VerdictOf(waiter'[e]) = VerdictOf(waiter[e])
    BY <1>4 DEF Elapse, VerdictOf, TypeOK
  <2>2. AbstractAnswer' = AbstractAnswer
    BY <1>4 DEF Elapse, AbstractAnswer
  <2> QED
    BY <2>1, <2>2, PromiseStutter
<1>5. ASSUME NEW c \in Calls, Withdraw(c)
      PROVE  Promise!Ask(c)
  <2>1. AbstractVerdict[c] = "open"
    BY <1>5 DEF Withdraw, AbstractVerdict, VerdictOf
  <2>2. AbstractVerdict' = [AbstractVerdict EXCEPT ![c] = "ask"]
    BY <1>5 DEF Withdraw, AbstractVerdict, VerdictOf, TypeOK
  <2>3. AbstractAnswer' = AbstractAnswer
    <3>1. CASE c \notin approvals
      BY <1>5, <3>1 DEF Withdraw, AbstractAnswer
    <3>2. CASE c \in approvals
      <4>1. TimedOut \in Resolved
        BY DEF TimedOut, Resolved
      <4>2. feed[c] = << >> /\ feed'[c] = <<TimedOut>>
        BY <1>5, <3>2, <4>1, FirstEvent DEF Withdraw, CallInv, TypeOK
      <4>3. feed'[c][1].decision = "timeout"
        BY <4>2 DEF TimedOut
      <4>4. \A e \in Calls : e # c => feed'[e] = feed[e]
        BY <1>5, <3>2 DEF Withdraw, TypeOK
      <4> QED
        BY <4>2, <4>3, <4>4 DEF AbstractAnswer
    <3> QED
      BY <3>1, <3>2
  <2> QED
    BY <2>1, <2>2, <2>3 DEF Promise!Ask
<1>6. ASSUME NEW c \in Calls, HangUp(c)
      PROVE  Promise!HangUp(c)
  <2>1. AbstractVerdict[c] = "open"
    BY <1>6 DEF HangUp, AbstractVerdict, VerdictOf
  <2>2. AbstractVerdict' = [AbstractVerdict EXCEPT ![c] = "hungup"]
    BY <1>6 DEF HangUp, AbstractVerdict, VerdictOf, TypeOK
  <2>3. AbstractAnswer' = AbstractAnswer
    BY <1>6 DEF HangUp, AbstractAnswer
  <2> QED
    BY <2>1, <2>2, <2>3 DEF Promise!HangUp
<1>7. ASSUME NEW s \in Surfaces, NEW c \in Calls, NEW d \in {"approve", "deny"},
             FinishAnswer(s), acting[s].call = c, acting[s].decision = d,
             Resolve(s, c, d)
      PROVE  Promise!Answer(c, s, d)
  <2> DEFINE r == [decision |-> d, by |-> s]
  <2>1. acting[s] # NoAct
    BY <1>7 DEF FinishAnswer
  <2>2. MayAnswer[s] /\ (d = "approve" => Complete[c])
    BY <1>7, <2>1, ConstantsAssumption DEF ActInv, ShownIncomplete, Resolve
  <2>3. r \in Resolved /\ r.decision # "timeout"
    BY DEF Resolved
  <2>4. feed[c] = << >> /\ feed' = [feed EXCEPT ![c] = <<r>>]
    <3>1. feed[c] = << >>
      BY <1>7 DEF Resolve, CallInv
    <3>2. feed' = [feed EXCEPT ![c] = Append(feed[c], r)]
      BY <1>7 DEF Resolve
    <3>3. Append(feed[c], r) = <<r>>
      BY <2>3, <3>1, FirstEvent
    <3> QED
      BY <3>1, <3>2, <3>3
  <2>5. waiter[c] \in {"waiting", "elapsed", "gone"}
    BY <1>7 DEF Resolve, CallInv, TypeOK, Phases
  <2>6. AbstractVerdict' = AbstractVerdict
    BY <1>7 DEF FinishAnswer, AbstractVerdict
  <2>7. AbstractVerdict[c] \in {"open", "hungup"}
    BY <2>5 DEF AbstractVerdict, VerdictOf
  <2>8. AbstractAnswer[c] = Promise!NoAnswer
    BY <2>4 DEF AbstractAnswer, Promise!NoAnswer
  <2>9. AbstractAnswer' = [AbstractAnswer EXCEPT ![c] = r]
    <3>1. feed'[c] = <<r>> /\ \A e \in Calls : e # c => feed'[e] = feed[e]
      BY <2>4 DEF TypeOK
    <3>2. AbstractAnswer'[c] = r
      <4>1. feed'[c] # << >> /\ feed'[c][1] = r
        BY <3>1
      <4> QED
        BY <2>3, <4>1 DEF AbstractAnswer
    <3>3. \A e \in Calls : e # c => AbstractAnswer'[e] = AbstractAnswer[e]
      BY <3>1 DEF AbstractAnswer
    <3> HIDE DEF r
    <3>4. /\ AbstractAnswer = [e \in Calls |-> AbstractAnswer[e]]
          /\ AbstractAnswer' = [e \in Calls |-> AbstractAnswer'[e]]
      BY DEF AbstractAnswer
    <3> QED
      BY <3>2, <3>3, <3>4
  <2>10. SurfaceOwner[s] = OwnerOf[KeyOf[c]]
    BY <1>7 DEF Resolve
  <2> QED
    BY <2>2, <2>6, <2>7, <2>8, <2>9, <2>10 DEF Promise!Answer
<1>8. ASSUME NEW s \in Surfaces, FinishAnswer(s)
      PROVE  Promise!Next \/ UNCHANGED Promise!vars
  <2>1. PICK c \in Calls, d \in {"approve", "deny"} :
               acting[s].call = c /\ acting[s].decision = d
    BY <1>8 DEF FinishAnswer, TypeOK, Acts
  <2>2. CASE Resolve(s, c, d)
    BY <1>7, <1>8, <2>1, <2>2 DEF Promise!Next
  <2>3. CASE ~Resolve(s, c, d)
    BY <1>1, <1>8, <2>1, <2>3 DEF FinishAnswer
  <2> QED
    BY <2>2, <2>3
<1> QED
  <2>1. ASSUME NEW k \in Keys, NEW e \in Events, Record(k, e)
        PROVE  UNCHANGED <<waiter, feed>>
    BY <2>1 DEF Record
  <2>2. ASSUME NEW k \in Keys, EndSession(k) \/ FallSilent(k) \/ StayDone(k)
        PROVE  UNCHANGED <<waiter, feed>>
    BY <2>2 DEF EndSession, FallSilent, StayDone
  <2>3. ASSUME NEW s \in Surfaces, NEW c \in Calls,
               NEW d \in {"approve", "deny"}, BeginAnswer(s, c, d)
        PROVE  UNCHANGED <<waiter, feed>>
    BY <2>3 DEF BeginAnswer
  <2>4. CASE Snapshot \/ UNCHANGED vars
    BY <2>4, <1>1 DEF Snapshot, vars
  <2> QED
    BY <1>1, <1>2, <1>3, <1>4, <1>5, <1>6, <1>8, <2>1, <2>2, <2>3, <2>4
       DEF Next, Promise!Next

\* The hub implements RemoteApproval: no interleaving lets a host run a call
\* that no surface of its owner, entitled to, approved.
THEOREM HubKeepsPromise == Spec => KeepsPromise
<1>1. Spec => Promise!Init
  BY InitPromise DEF Spec
<1>2. Spec => [][Promise!Next]_(Promise!vars)
  BY HubInvariant, NextPromise, PTL DEF Spec
<1> QED
  BY <1>1, <1>2 DEF KeepsPromise, Promise!Spec

----------------------------------------------------------------------------
(* What surfaces are shown.                                                *)

\* Answers and withdrawals put a session to work only from waiting, and only
\* when it has no approval left.
LEMMA RestoredFacts ==
  ASSUME TypeOK, NEW c \in Calls, NEW k \in Keys
  PROVE  /\ RestoredState(c)[k] = "absent" <=> state[k] = "absent"
         /\ RestoredState(c)[k] = "waiting" =>
              /\ state[k] = "waiting"
              /\ k # KeyOf[c] \/ \E d \in approvals \ {c} : KeyOf[d] = k
BY ConstantsAssumption DEF RestoredState, TypeOK

LEMMA NextWaitingHasCause == TypeOK /\ WaitingHasCause /\ [Next]_vars => WaitingHasCause'
<1> SUFFICES ASSUME TypeOK, WaitingHasCause, [Next]_vars, NEW k \in Keys,
                    state'[k] = "waiting"
             PROVE  \/ HasApproval(k)'
                    \/ \E a \in alerts' : a.key = k /\ a.kind = "question"
  BY DEF WaitingHasCause
<1> DEFINE Asked == \E a \in alerts : a.key = k /\ a.kind = "question"
<1>1. ASSUME NEW j \in Keys, NEW e \in Events, Record(j, e)
      PROVE  HasApproval(k)' \/ Asked'
  <2>1. HasApproval(k)' <=> HasApproval(k)
    BY <1>1 DEF Record, HasApproval
  <2>2. CASE j = k /\ e \in AsksAtTheHost
    <3>1. SUFFICES ASSUME ~HasApproval(k) PROVE Asked'
      BY <2>1
    <3>2. RaisedKinds(k, e) = {"question"}
      BY <2>2, <3>1 DEF RaisedKinds, AsksAtTheHost
    <3>3. alerts' = KeptAlerts(k, e) \cup RaisedAlerts(k, e)
      BY <1>1, <2>2 DEF Record
    <3>4. CASE \E b \in KeptAlerts(k, e) : b.key = k /\ b.kind = "question"
      BY <3>3, <3>4
    <3>5. CASE \A b \in KeptAlerts(k, e) : ~(b.key = k /\ b.kind = "question")
      <4> DEFINE new == [id |-> seq + 1, kind |-> "question", key |-> k]
      <4>1. new \in [id : {seq + 1}, kind : RaisedKinds(k, e), key : {k}]
        BY <3>2
      <4>2. new \in RaisedAlerts(k, e)
        BY <4>1, <3>5 DEF RaisedAlerts
      <4> QED
        BY <4>2, <3>3
    <3> QED
      BY <3>4, <3>5
  <2>3. CASE ~(j = k /\ e \in AsksAtTheHost)
    <3>1. state[k] = "waiting" /\ k \notin overdue
      BY <1>1, <2>3 DEF Record, PrunedState, StateAfter, AsksAtTheHost, TypeOK
    <3>2. j = k => e \notin ClearsQuestions /\ e # "StopFailure"
      BY <1>1, <2>3 DEF Record, PrunedState, StateAfter, ClearsQuestions, TypeOK
    <3>3. ASSUME NEW a \in alerts, a.key = k, a.kind = "question"
          PROVE  a \in alerts'
      BY <1>1, <3>1, <3>2, <3>3 DEF Record, KeptAlerts, PrunedAlerts
    <3> QED
      BY <2>1, <3>1, <3>3 DEF WaitingHasCause
  <2> QED
    BY <2>2, <2>3
<1>2. ASSUME NEW j \in Keys, EndSession(j)
      PROVE  HasApproval(k)' \/ Asked'
  <2>1. state[k] = "waiting" /\ k \notin overdue /\ k # j
    BY <1>2 DEF EndSession, PrunedState, TypeOK
  <2> QED
    BY <1>2, <2>1 DEF EndSession, PrunedAlerts, HasApproval, WaitingHasCause
<1>3. ASSUME NEW c \in Calls, OpenApproval(c)
      PROVE  HasApproval(k)' \/ Asked'
  <2>1. CASE k = KeyOf[c]
    BY <1>3, <2>1 DEF OpenApproval, HasApproval
  <2>2. CASE k # KeyOf[c]
    <3>1. state[k] = "waiting" /\ k \notin overdue
      BY <1>3, <2>2 DEF OpenApproval, PrunedState, TypeOK
    <3> QED
      BY <1>3, <3>1 DEF OpenApproval, PrunedAlerts, HasApproval, WaitingHasCause
  <2> QED
    BY <2>1, <2>2
<1>4. ASSUME NEW c \in Calls, approvals' = approvals \ {c},
             state' = RestoredState(c), alerts' = alerts
      PROVE  HasApproval(k)' \/ Asked'
  BY <1>4, RestoredFacts DEF HasApproval, WaitingHasCause
<1>5. CASE UNCHANGED <<state, alerts, approvals>>
  BY <1>5 DEF HasApproval, WaitingHasCause
<1>6. CASE Snapshot
  <2>1. state[k] = "waiting" /\ k \notin overdue
    BY <1>6 DEF Snapshot, PrunedState, TypeOK
  <2> QED
    BY <1>6, <2>1 DEF Snapshot, PrunedAlerts, HasApproval, WaitingHasCause
<1> QED
  <2>1. ASSUME NEW j \in Keys, FallSilent(j) \/ StayDone(j)
        PROVE  UNCHANGED <<state, alerts, approvals>>
    BY <2>1 DEF FallSilent, StayDone, hubVars
  <2>2. ASSUME NEW c \in Calls, Deliver(c) \/ Elapse(c) \/ HangUp(c)
        PROVE  UNCHANGED <<state, alerts, approvals>>
    BY <2>2 DEF Deliver, Elapse, HangUp, hubVars
  <2>3. ASSUME NEW c \in Calls, Withdraw(c)
        PROVE  HasApproval(k)' \/ Asked'
    BY <2>3, <1>4, <1>5 DEF Withdraw
  <2>4. ASSUME NEW s \in Surfaces, FinishAnswer(s)
        PROVE  HasApproval(k)' \/ Asked'
    <3>1. PICK c \in Calls, d \in {"approve", "deny"} :
                 acting[s].call = c /\ acting[s].decision = d
      BY <2>4 DEF FinishAnswer, TypeOK, Acts
    <3> QED
      BY <2>4, <3>1, <1>4, <1>5 DEF FinishAnswer, Resolve, hubVars
  <2>5. ASSUME NEW s \in Surfaces, NEW c \in Calls,
               NEW d \in {"approve", "deny"}, BeginAnswer(s, c, d)
        PROVE  UNCHANGED <<state, alerts, approvals>>
    BY <2>5 DEF BeginAnswer, hubVars
  <2>6. CASE UNCHANGED vars
    BY <2>6, <1>5 DEF vars
  <2> QED
    BY <1>1, <1>2, <1>3, <1>5, <1>6, <2>1, <2>2, <2>3, <2>4, <2>5, <2>6 DEF Next

\* A waiting session always shows why it waits: a pending approval or a
\* question, whatever events, answers, withdrawals and prunings came.
THEOREM WaitingIsExplained == Spec => []WaitingHasCause
<1>1. Init => WaitingHasCause
  BY DEF Init, WaitingHasCause
<1> QED
  BY <1>1, NextWaitingHasCause, TypeCorrect, PTL DEF Spec

\* Answering one approval leaves a waiting session waiting exactly as long
\* as another approval of that session is pending.
THEOREM AnswersRestoreLast == Spec => LastAnswerRestores
<1>1. ASSUME TypeOK, NEW c \in Calls, approvals' = approvals \ {c},
             state' = RestoredState(c), NEW d \in approvals \ approvals'
      PROVE  state[KeyOf[d]] = "waiting" =>
               (state'[KeyOf[d]] = "waiting" <=> HasApproval(KeyOf[d])')
  BY <1>1, ConstantsAssumption DEF RestoredState, HasApproval, TypeOK
<1>2. TypeOK /\ [Next]_vars =>
        \A c \in approvals \ approvals' :
          LET k == KeyOf[c]
          IN state[k] = "waiting" => (state'[k] = "waiting" <=> HasApproval(k)')
  <2> SUFFICES ASSUME TypeOK, [Next]_vars, NEW d \in approvals \ approvals'
               PROVE  state[KeyOf[d]] = "waiting" =>
                        (state'[KeyOf[d]] = "waiting" <=> HasApproval(KeyOf[d])')
    OBVIOUS
  <2>1. CASE \E c \in Calls : Withdraw(c)
    BY <1>1, <2>1 DEF Withdraw
  <2>2. ASSUME NEW s \in Surfaces, FinishAnswer(s)
        PROVE  \E c \in Calls : approvals' = approvals \ {c} /\ state' = RestoredState(c)
    <3>1. PICK c \in Calls, e \in {"approve", "deny"} :
                 acting[s].call = c /\ acting[s].decision = e
      BY <2>2 DEF FinishAnswer, TypeOK, Acts
    <3> QED
      BY <2>2, <3>1 DEF FinishAnswer, Resolve, hubVars
  <2>3. CASE approvals \subseteq approvals'
    BY <2>3
  <2> QED
    BY <1>1, <2>1, <2>2, <2>3
       DEF Next, Record, EndSession, FallSilent, StayDone, OpenApproval, Deliver,
           Elapse, HangUp, BeginAnswer, Snapshot, hubVars, vars
<1> QED
  BY <1>2, TypeCorrect, PTL DEF Spec, LastAnswerRestores
=============================================================================
