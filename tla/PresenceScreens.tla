-------------------------- MODULE PresenceScreens --------------------------
(***************************************************************************)
(* A desk screen and the daemon that pushes the presence snapshot to it:   *)
(* the device registry and its file, the pairing handler, the pusher       *)
(* (src/src/presence/devices.rs, routes.rs), and the reference firmware    *)
(* (src/firmware/smalltv/src) with its code, its pairing and its screen.   *)
(*                                                                         *)
(* One device.  A snapshot is abstracted to the version of the content it  *)
(* was built from.  Tokens are numbered: a request's number is the Bastion *)
(* token it carries, an acceptance's number is the push token the device   *)
(* issues for it.  The device's HTTP server handles one request at a time. *)
(***************************************************************************)
EXTENDS Naturals, FiniteSets

CONSTANTS
  Owners,        \* the owners who pair the device
  None,          \* no pairing, no push, no snapshot
  Pro,           \* the board: the pro (ESP32, touch pad) or the ultra (ESP8266, none)
  MaxWrong,      \* MAX_WRONG: misses that lock pairing
  MaxPairings,   \* bound: pairing requests
  MaxVersion,    \* bound: no change is made of content of this version
  MaxRemovals,   \* bound: removals an owner asks for
  MaxUnstored,   \* bound: pairings the device stores in part
  MaxFaults      \* bound: lost messages, failed writes, restarts, reboots

ASSUME ScreensAssumption ==
  /\ Owners # {} /\ Pro \in BOOLEAN
  /\ MaxWrong \in Nat \ {0}
  /\ MaxPairings \in Nat /\ MaxVersion \in Nat
  /\ MaxRemovals \in Nat /\ MaxUnstored \in Nat /\ MaxFaults \in Nat

VARIABLES
  registry,   \* devices of DeviceRegistry: a set of records
  file,       \* devices.json: a set of records, none when it was truncated
  torn,       \* the file was truncated and not written
  version,    \* the content surfaces show; a change of it bumps the watch
  seen,       \* the version the pusher's watch receiver has seen
  pusher,     \* where the pusher's task is
  todo,       \* the records of its round it has not come to
  post,       \* the push on the wire, or None
  request,    \* the pairing requests
  cfg,        \* the pairing the device acts on, in its memory, or None
  flash,      \* the keys of the pairing it has stored
  code,       \* the device's pairing code (the count of its rotations)
  showing,    \* showUntil is open: the code is on the screen of a paired device
  wrong,      \* misses since the last success or lockout
  locked,     \* lockedUntil is open
  shown,      \* the version on the screen, or None since boot
  fresh,      \* a push arrived within BASTION_STALE_MS
  posted,     \* history: the push tokens the present content was posted with
  rounded,    \* history: a round has begun since the daemon started
  removed,    \* history: the records whose removal was answered with success
  paired,     \* history: those whose pairing was saved, not replaced or removed since
  unsaved,    \* history: records added whose save failed, since the start
  wiped,      \* history: a start could not read the file
  unstored,   \* history: requests the device accepted without storing every key
  faults      \* faults so far

daemonVars == <<registry, file, torn, version, seen>>
pushVars   == <<pusher, todo, post>>
deviceVars == <<cfg, flash, code, showing, wrong, locked, shown, fresh>>
history    == <<posted, rounded, removed, paired, unsaved, wiped, unstored>>
vars == <<daemonVars, pushVars, request, deviceVars, history, faults>>


Requests == 1 .. MaxPairings
Record(o, p, t) == [owner |-> o, push |-> p, token |-> t]
Records  == [owner : Owners, push : Requests, token : Requests]

\* What the flash of a device that was never paired, or was cleared, holds.
Empty == [push |-> 0, url |-> FALSE, token |-> 0]

Unsent == [at |-> "unsent", owner |-> CHOOSE o \in Owners : TRUE, typed |-> 0]

Init ==
  /\ registry = {} /\ file = {} /\ torn = FALSE
  /\ version = 0 /\ seen = 0
  /\ pusher = "idle" /\ todo = {} /\ post = None
  /\ request = [r \in Requests |-> Unsent]
  /\ cfg = None /\ flash = Empty /\ code = 1 /\ showing = FALSE
  /\ wrong = 0 /\ locked = FALSE
  /\ shown = None /\ fresh = FALSE
  /\ posted = {}
  /\ rounded = FALSE
  /\ removed = {} /\ paired = {} /\ unsaved = {} /\ wiped = FALSE
  /\ unstored = {}
  /\ faults = 0

Fault == faults < MaxFaults /\ faults' = faults + 1

----------------------------------------------------------------------------
(* The content: host events, approvals, notes, care, the persona.          *)

\* bump: the version grows and every receiver of the watch has a change.
NewContent == version' = version + 1 /\ posted' = {}

Change ==
  /\ version < MaxVersion
  /\ NewContent
  /\ UNCHANGED <<registry, file, torn, seen, pushVars, request, deviceVars, rounded,
                 removed, paired, unsaved, wiped, unstored, faults>>

----------------------------------------------------------------------------
(* The pairing handler of the daemon.                                      *)

\* The owner types what the screen shows, or mistypes it (0).
StartPair(r, o) ==
  /\ request[r].at = "unsent"
  /\ \A q \in Requests : q < r => request[q].at # "unsent"
  /\ \E typed \in {0, code} :
       request' = [request EXCEPT ![r] = [at |-> "sent", owner |-> o, typed |-> typed]]
  /\ UNCHANGED <<daemonVars, pushVars, deviceVars, history, faults>>

\* The handler gives up (5 s) or its answer is lost; what the device has on
\* its socket it may still handle ("late").
PairFails(r) ==
  /\ Fault
  /\ \/ /\ request[r].at = "sent"
        /\ \E to \in {"late", "over"} : request' = [request EXCEPT ![r].at = to]
     \/ /\ request[r].at = "answered"
        /\ request' = [request EXCEPT ![r].at = "over"]
  /\ UNCHANGED <<daemonVars, pushVars, deviceVars, history>>

RecordOf(r) == Record(request[r].owner, r, r)

\* save: opened and truncated, then written; either may fail.
Saved(devices) == file' = devices /\ torn' = FALSE
FailedSave ==
  \/ UNCHANGED <<file, torn>>
  \/ file' = {} /\ torn' = TRUE

\* upsert: replaces the owner's record of this device, in memory, then saves.
Added(r) == {d \in registry : d.owner # request[r].owner} \cup {RecordOf(r)}

OthersPaired(r) == {d \in paired : d.owner # request[r].owner}

Upsert(r) ==
  /\ request[r].at = "answered"
  /\ registry' = Added(r)
  /\ \/ /\ Saved(Added(r))
        /\ request' = [request EXCEPT ![r].at = "saved"]
        /\ paired' = OthersPaired(r) \cup {RecordOf(r)}
        /\ UNCHANGED <<unsaved, faults>>
     \/ /\ Fault                                 \* the save fails: 500
        /\ FailedSave
        /\ request' = [request EXCEPT ![r].at = "over"]
        /\ paired' = OthersPaired(r)
        /\ unsaved' = unsaved \cup {RecordOf(r)}
  /\ UNCHANGED <<version, seen, pushVars, deviceVars, posted, rounded, removed, wiped,
                 unstored>>

\* hub.touch(), and the handler answers with the device's view.
AnswerPaired(r) ==
  /\ request[r].at = "saved"
  /\ NewContent
  /\ request' = [request EXCEPT ![r].at = "over"]
  /\ UNCHANGED <<registry, file, torn, seen, pushVars, deviceVars, rounded, removed,
                 paired, unsaved, wiped, unstored, faults>>

\* Mutant: the file is left as it is.
MutRemove(d) ==
  /\ d \in registry /\ Cardinality(removed) < MaxRemovals
  /\ registry' = registry \ {d}
  /\ removed' = removed \cup {d} /\ paired' = paired \ {d}
  /\ UNCHANGED <<file, torn, version, seen, pushVars, request, deviceVars, posted, rounded,
                 unsaved, wiped, unstored, faults>>

\* remove: memory first, then the file; a failed save is answered with 500.
Remove(d) ==
  /\ d \in registry /\ Cardinality(removed) < MaxRemovals
  /\ registry' = registry \ {d}
  /\ \/ /\ Saved(registry \ {d})
        /\ removed' = removed \cup {d}
        /\ UNCHANGED faults
     \/ /\ Fault
        /\ FailedSave
        /\ UNCHANGED removed
  /\ paired' = paired \ {d}
  /\ UNCHANGED <<version, seen, pushVars, request, deviceVars, posted, rounded,
                 unsaved, wiped, unstored>>

----------------------------------------------------------------------------
(* The pusher's task.                                                      *)

\* changes.changed(): the receiver has seen the version; the debounce begins.
SeeChange ==
  /\ pusher = "idle" /\ seen # version
  /\ seen' = version /\ pusher' = "debounce"
  /\ UNCHANGED <<registry, file, torn, version, todo, post, request, deviceVars, history, faults>>

\* borrow_and_update after the debounce, and the round's copy of the registry.
BeginRound ==
  /\ pusher = "debounce"
  /\ seen' = version
  /\ pusher' = "round" /\ todo' = registry
  /\ rounded' = TRUE
  /\ UNCHANGED <<registry, file, torn, version, post, request, deviceVars, posted,
                 removed, paired, unsaved, wiped, unstored, faults>>

\* Mutant: the heartbeat leaves out the devices the content was sent to.
MutHeartbeat ==
  /\ pusher = "idle"
  /\ pusher' = "round" /\ todo' = {d \in registry : d.push \notin posted}
  /\ rounded' = TRUE
  /\ UNCHANGED <<daemonVars, post, request, deviceVars, posted, removed, paired,
                 unsaved, wiped, unstored, faults>>

\* Ten seconds without a change: a round of the same content.
Heartbeat ==
  /\ pusher = "idle"
  /\ pusher' = "round" /\ todo' = registry
  /\ rounded' = TRUE
  /\ UNCHANGED <<daemonVars, post, request, deviceVars, posted, removed, paired,
                 unsaved, wiped, unstored, faults>>

\* snapshot_for builds the body at the device's turn; then it is sent.
Post(d) ==
  /\ pusher = "round" /\ post = None /\ d \in todo
  /\ todo' = todo \ {d}
  /\ post' = [push |-> d.push, body |-> version]
  /\ posted' = posted \cup {d.push}
  /\ UNCHANGED <<daemonVars, pusher, request, deviceVars, rounded, removed, paired,
                 unsaved, wiped, unstored, faults>>

\* The device is unreachable, busy (503) or slow: PUSH_TIMEOUT, and the next one.
LosePost ==
  /\ post # None /\ Fault
  /\ post' = None
  /\ UNCHANGED <<daemonVars, pusher, todo, request, deviceVars, history>>

\* Mutant: the receiver is brought up to date after the round.
MutEndRound ==
  /\ pusher = "round" /\ post = None /\ todo = {}
  /\ pusher' = "idle" /\ seen' = version
  /\ UNCHANGED <<registry, file, torn, version, todo, post, request, deviceVars, history, faults>>

EndRound ==
  /\ pusher = "round" /\ post = None /\ todo = {}
  /\ pusher' = "idle"
  /\ UNCHANGED <<daemonVars, todo, post, request, deviceVars, history, faults>>

----------------------------------------------------------------------------
(* A restart of the daemon, at any point or in the middle of a save.       *)

\* read has been read of f: nothing when f is torn or cannot be read.
AfterRestart(read, f, t) ==
  /\ registry' = read
  /\ file' = f /\ torn' = t /\ wiped' = (wiped \/ t \/ read # f)
  /\ NewContent /\ seen' = version'
  /\ pusher' = "idle" /\ todo' = {} /\ post' = None
  /\ request' = [r \in Requests |->
       CASE request[r].at = "sent" -> [request[r] EXCEPT !.at = "late"]
         [] request[r].at \in {"answered", "saved"} -> [request[r] EXCEPT !.at = "over"]
         [] OTHER -> request[r]]
  /\ rounded' = FALSE /\ unsaved' = {}
  /\ UNCHANGED <<deviceVars, removed, paired, unstored>>

\* load: read_to_string's error is dropped (ok), and so is a parse error.
Restart == Fault /\ \E read \in {file, {}} : AfterRestart(read, file, torn)

\* write_private has truncated the file and not written it: in an upsert, or
\* in a removal.
CrashInSave ==
  /\ \/ \E r \in Requests : request[r].at = "answered"
     \/ registry # {} /\ Cardinality(removed) < MaxRemovals
  /\ Fault /\ AfterRestart({}, {}, TRUE)

----------------------------------------------------------------------------
(* The device.                                                             *)

CodeVisible == cfg = None \/ showing

Screen ==
  IF CodeVisible THEN "pair" ELSE IF fresh THEN "main" ELSE "disconnected"

\* The answer finds the handler waiting, or nobody.
Reply(r, answer) ==
  request' = [request EXCEPT ![r].at = IF @ = "late" THEN "over" ELSE answer]

\* handlePair: locked, closed, a miss (the code rotates), or a new pairing.
RefusePair(r) ==
  /\ request[r].at \in {"sent", "late"}
  /\ \/ locked
     \/ ~CodeVisible
  /\ Reply(r, "over")
  /\ UNCHANGED <<daemonVars, pushVars, deviceVars, history, faults>>

MissPair(r) ==
  /\ request[r].at \in {"sent", "late"}
  /\ ~locked /\ CodeVisible /\ request[r].typed # code
  /\ code' = code + 1
  /\ locked' = (wrong + 1 >= MaxWrong)
  /\ wrong' = IF wrong + 1 >= MaxWrong THEN 0 ELSE wrong + 1
  /\ Reply(r, "over")
  /\ UNCHANGED <<daemonVars, pushVars, cfg, flash, showing, shown, fresh, history, faults>>

\* Mutant: a pairing keeps the Bastion token of the one it replaces.
MutPairing(r) == [push |-> r, token |-> IF cfg = None THEN r ELSE cfg.token]

Pairing(r) == [push |-> r, token |-> r]

Keys(p) == [push |-> p.push, url |-> TRUE, token |-> p.token]

\* savePaired: the ESP32 puts each key, and one not put stays as it was.  The
\* ESP8266 opens the file, which stays as it was or is truncated and then
\* written; truncated it reads as none.  Nothing looks at what became of it.
PutKeys(p) ==
  IF Pro
    THEN [push : {p.push, flash.push}, url : {TRUE, flash.url}, token : {p.token, flash.token}]
    ELSE {flash, Empty, Keys(p)}

AcceptPair(r) ==
  /\ request[r].at \in {"sent", "late"}
  /\ ~locked /\ CodeVisible /\ request[r].typed = code
  /\ \/ flash' = Keys(Pairing(r)) /\ UNCHANGED unstored
     \/ /\ Cardinality(unstored) < MaxUnstored
        /\ flash' \in PutKeys(Pairing(r)) \ {Keys(Pairing(r))}
        /\ unstored' = unstored \cup {r}
  /\ cfg' = Pairing(r)
  /\ wrong' = 0 /\ showing' = FALSE /\ code' = code + 1
  /\ Reply(r, "answered")
  /\ UNCHANGED <<daemonVars, pushVars, locked, shown, fresh, posted, rounded, removed,
                 paired, unsaved, wiped, faults>>

\* loadPaired: a pairing without its push token or its url is none.
Loaded(keys) ==
  IF keys.push # 0 /\ keys.url THEN [push |-> keys.push, token |-> keys.token] ELSE None

\* Power returns: the pairing is read back, everything else starts anew.
Reboot(keys) ==
  /\ Fault
  /\ flash' = keys /\ cfg' = Loaded(keys)
  /\ code' = code + 1 /\ showing' = FALSE /\ wrong' = 0 /\ locked' = FALSE
  /\ shown' = None /\ fresh' = FALSE

\* At any point (an accepted request has been answered, or not: PairFails).
PowerCycle ==
  /\ Reboot(flash)
  /\ UNCHANGED <<daemonVars, pushVars, request, history>>

\* Six quick power cycles.
FactoryReset ==
  /\ flash # Empty /\ Reboot(Empty)
  /\ UNCHANGED <<daemonVars, pushVars, request, history>>

\* Power fails inside savePaired: the ESP8266's file is truncated, the
\* ESP32's keys are put in their order up to the url's or the push token's.
PowerCutInSave(r) ==
  /\ request[r].at \in {"sent", "late"}
  /\ ~locked /\ CodeVisible /\ request[r].typed = code
  /\ IF Pro
       THEN \E put \in {TRUE, flash.url} :
              Reboot([push |-> r, url |-> put, token |-> flash.token])
       ELSE Reboot(Empty)
  /\ request' = [request EXCEPT ![r].at = "over"]
  /\ UNCHANGED <<daemonVars, pushVars, history>>

\* onState: only the pairing's push token is let in; the snapshot is kept.
TakePush ==
  /\ post # None
  /\ IF cfg # None /\ cfg.push = post.push
       THEN shown' = post.body /\ fresh' = TRUE
       ELSE UNCHANGED <<shown, fresh>>
  /\ post' = None
  /\ UNCHANGED <<daemonVars, pusher, todo, request, cfg, flash, code, showing, wrong,
                 locked, history, faults>>

\* A hold on the main screen shows the code; a tap or the deadline hides it.
ShowCode ==
  /\ Pro /\ Screen = "main"
  /\ showing' = TRUE
  /\ UNCHANGED <<daemonVars, pushVars, request, cfg, flash, code, wrong, locked, shown, fresh,
                 history, faults>>

HideCode ==
  /\ showing /\ showing' = FALSE
  /\ UNCHANGED <<daemonVars, pushVars, request, cfg, flash, code, wrong, locked, shown, fresh,
                 history, faults>>

\* LOCKOUT_MS have passed.
Unlock ==
  /\ locked /\ locked' = FALSE
  /\ UNCHANGED <<daemonVars, pushVars, request, cfg, flash, code, showing, wrong, shown, fresh,
                 history, faults>>

\* BASTION_STALE_MS have passed without a push.
GoStale ==
  /\ fresh /\ fresh' = FALSE
  /\ UNCHANGED <<daemonVars, pushVars, request, cfg, flash, code, showing, wrong, locked, shown,
                 history, faults>>

----------------------------------------------------------------------------
Next ==
  \/ Change \/ SeeChange \/ BeginRound \/ Heartbeat \/ LosePost \/ EndRound
  \/ Restart \/ CrashInSave
  \/ TakePush \/ ShowCode \/ HideCode \/ Unlock \/ GoStale
  \/ PowerCycle \/ FactoryReset
  \/ \E d \in registry : Remove(d)
  \/ \E d \in todo : Post(d)
  \/ \E r \in Requests :
       \/ \E o \in Owners : StartPair(r, o)
       \/ PairFails(r) \/ Upsert(r) \/ AnswerPaired(r)
       \/ RefusePair(r) \/ MissPair(r) \/ AcceptPair(r) \/ PowerCutInSave(r)

\* The pusher's task runs on, and the device's server answers.
Fairness ==
  /\ WF_vars(SeeChange) /\ WF_vars(BeginRound) /\ WF_vars(Heartbeat)
  /\ WF_vars(\E d \in todo : Post(d)) /\ WF_vars(TakePush) /\ WF_vars(EndRound)

Spec == Init /\ [][Next]_vars /\ Fairness

----------------------------------------------------------------------------
TypeOK ==
  /\ registry \subseteq Records
  /\ file \subseteq Records /\ torn \in BOOLEAN
  /\ version \in Nat /\ seen \in Nat
  /\ pusher \in {"idle", "debounce", "round"}
  /\ todo \subseteq Records
  /\ post = None \/ post \in [push : Requests, body : Nat]
  /\ request \in [Requests -> [at : {"unsent", "sent", "late", "answered", "saved", "over"},
                               owner : Owners, typed : Nat]]
  /\ cfg = None \/ cfg \in [push : Requests, token : Requests \cup {0}]
  /\ flash \in [push : Requests \cup {0}, url : BOOLEAN, token : Requests \cup {0}]
  /\ code \in Nat /\ showing \in BOOLEAN
  /\ wrong \in 0 .. MaxWrong - 1 /\ locked \in BOOLEAN
  /\ shown = None \/ shown \in Nat
  /\ fresh \in BOOLEAN
  /\ posted \subseteq Requests
  /\ rounded \in BOOLEAN /\ wiped \in BOOLEAN /\ unstored \subseteq Requests
  /\ removed \subseteq Records /\ paired \subseteq Records /\ unsaved \subseteq Records
  /\ faults \in 0 .. MaxFaults

(***************************************************************************)
(* What a screen takes and what it does go to the same owner: a device     *)
(* that lets in the pushes of a record acts with that record's token.  A   *)
(* paired device keeps the url and the token to act with, says presence.md *)
(* and the code does not: savePaired reports no key it failed to put, and  *)
(* the device answers 200.                                                 *)
(***************************************************************************)
TokensAgree ==
  \A d \in registry : cfg # None /\ cfg.push = d.push => cfg.token = d.token

(***************************************************************************)
(* A failed put is all that sets the two apart: whatever was lost,         *)
(* repeated or cut off while the device was paired again, tokens disagree  *)
(* only as a boot read them, and one of the two belongs to a pairing that  *)
(* the device answered without storing every key of it.                    *)
(***************************************************************************)
StoredTokensAgree ==
  \A d \in registry : cfg # None /\ cfg.push = d.push =>
    \/ cfg.token = d.token
    \/ cfg = Loaded(flash) /\ {cfg.push, cfg.token} \cap unstored # {}

(***************************************************************************)
(* No change is slept over: a pusher that waits and has no change pending  *)
(* has posted the present content to every device of the registry, those   *)
(* paired during its last round or its debounce included.                  *)
(***************************************************************************)
SettledIsPosted ==
  pusher = "idle" /\ seen = version /\ rounded =>
    \A d \in registry :
      \/ d.push \in posted
      \/ d \in unsaved
      \/ request[d.push].at = "saved"

(***************************************************************************)
(* An owner's answers outlive a restart: a record whose removal was        *)
(* answered does not come back, and a pairing that was answered stays      *)
(* until it is removed, replaced by its owner or lost with a file a start   *)
(* could not read.                                                         *)
(***************************************************************************)
AnswersLast ==
  /\ registry \cap removed = {}
  /\ wiped \/ paired \subseteq registry

\* The daemon has a record whose pushes the device lets in.
Agree == \E d \in registry : cfg # None /\ cfg.push = d.push

(***************************************************************************)
(* A screen both ends agree on catches up with the content for good, lost  *)
(* pushes and restarts of either end notwithstanding.                      *)
(***************************************************************************)
ScreenCatchesUp == <>[]Agree => <>[](shown = version)

=============================================================================
