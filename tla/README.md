# Verification of Bastion

TLA+ models of the parts of Bastion (the self-hosted agent daemon of this
repository) whose correctness rests on orders of events: what TLC checks on
small instances and what TLAPS proves for every value of the constants.
`PROJECT.json` lists every run, mutant, theorem, mapped definition, finding
and hazard; this file says what they mean.

Paths are relative to the repository. `bastion-core` (task store, adaptive
cycle, capability registry, mesh) is an external dependency: it is modelled
only as far as this repository's code relies on it.

## 1. The system

Bastion is one tokio process. HTTP handlers, spawned loops and a
single-threaded console (the *cockpit*) share SQLite tables, files under
`.bastion` and mutex-guarded maps. Anything between two `.await`s of different
tasks can interleave, an HTTP handler's future is dropped when its client
closes the connection, and the process may be killed at any point; SQLite
statements are atomic.

| Component | State | Operations | Hard behaviour |
|---|---|---|---|
| **Presence hub** `presence/hub.rs`, `routes.rs` | sessions, alerts, pending approvals, sequence number, broadcast feed (in memory) | `record_event`, `request_approval`, `answer`/`resolve`, `end_session`, `snapshot`, `prune` | a waiting request crosses its timer, answers and hang-ups; hooks arrive in any order; sessions age out |
| **Personal scheduler** `adaptive/schedule.rs` | `schedules` table with OCC revisions; the loop's snapshot | `add`, `list`, `cancel`, tick: `due`, `plan_fire`, `on_fire`, `advance` | at-least-once over crashes, cancel during a sweep, missed-fire policies, DST |
| **Control plane** `control_plane/core_ops.rs`, `agent/task_command.rs` | task cases with revisions (in `bastion-core`'s store), in-memory progress of each call | create (idempotent), pause, resume, cancel, steer; their events and those the engine's observer (`observability.rs`) records | stale loads, OCC conflicts with cockpit and engine, retried creates, dropped handlers |
| **Webhooks** `control_plane/webhook_*.rs` | subscriptions, deliveries, the loop's sweep | issue, revoke, enqueue, sweep, POST, record, retry, give up | at-least-once delivery, lost answers, crash between POST and record |
| **Extension host** `extension/host.rs`, `facade.rs`, `declarative.rs`, `persistence.rs`, `agent/extension_command.rs` | registry, installed map, history, lockfile; `installed_extension` table | install, upgrade, rollback, revoke, reload at boot | half-done activations, collisions, store and memory out of step |
| **Proposals and model choice** `proposals.rs`, `loadout.rs`, `agent/proposal_command.rs`, `config_store.rs`, `agent/{command,backend_command}.rs` | proposal rows, secret pen (memory), append-only override log, secrets directory, persona files, live provider, ladder and backend | create, approve, reject, the four applies; `/model`, `/model reset`, `/backend use`; start | a row is resolved once and then applied in several writes; values live in one process; live state and log change apart |
| **Device registry** `devices/{primary,pending,state,routes}.rs` | codes and requests (`pending.json`), registry (`registry.json`), both also in memory | pair, enroll, approve, refuse, revoke, grant, address, secrets | snapshots cloned under a lock and written after it, one temporary file name, opposite answers |
| **Device epochs, vault, screens' catalog** `devices/{refresh,secret_sync,node_cmd,vault,catalog}.rs` | role and epoch fence (`bastion_mesh`'s) | promote, reconcile, sync | a superseded primary |
| **Pursue tasks** `adaptive/{exec,delegate,enqueue,procedural}.rs`, `main.rs` | cases and child cases (store), their drivers (process), attribution marker | enqueue, drive a coding cycle, delegate and join, attribute; `/task` | parent closed while it is cancelled, reinforcement repeated, drivers that die with the process |
| **Desk screens** `presence/devices.rs`, `routes.rs`; `firmware/smalltv` | device file and registry of pushes (daemon); stored pairing, code, shown screen (device) | pair, remove, push with debounce and heartbeat; code on screen, power cycle, factory reset | two ends that store a pairing each, lost or late answers, torn files, changes during a round |
| **Host sessions' personas** `presence/{context,hook,routes}.rs` | chosen persona (file), persona given to each session (memory) | choose, `SessionStart`, prompt, `SessionEnd`, prune | recorded before it is delivered, forgotten by a restart |
| **Presence policy, journal, command line** `presence/{policy,cli}.rs` | none | first matching rule, one insert, one call | none |
| Channels, MCP, routing, login, sidecars, UI | little or none of their own | adapters and I/O | see PROJECT.json for each |

How they interact. A host agent's hook posts events and opens approvals at the
hub; surfaces (web, phone, desk device) read snapshots and answer. The
scheduler's `on_fire` enqueues Pursue tasks into the task store that the
control plane, the cockpit and the engine all write under revisions; each
control-plane write looks up subscriptions and inserts deliveries, which the
delivery loop posts. Extensions register capabilities the engine's turns call.
Proposals written by the web are applied by the cockpit to the config store
and the live provider, which `/model` and `/backend` also write and a start
reads back. A device enrolls with the primary and is in its registry once the
owner approves. A pairing of a screen is stored at both ends; the daemon's
pusher posts snapshots of the hub to it. A host's hook asks for a context at
each prompt, and the owner switches personas next to it.

What makes each correct:

- *Hub*: a tool call is let through only by an answer of its owner's surface
  that may answer and saw it whole; one answer per approval; every request
  whose client stays hears a verdict; what surfaces show has a cause.
- *Scheduler*: nothing fires more often than it came due without a fault; a
  row advances only after its fires; a cancel is final; the loop neither spins
  nor starves a due row; the next daily slot is the first one.
- *Control plane*: no write clobbers another but the marker of an ended task;
  nothing else follows a terminal status; events tell of committed revisions;
  told ok means events queued.
- *Webhooks*: every delivery settles, after exactly the promised attempts, and
  is repeated only for a cause.
- *Extensions*: registry, installed map and lockfile agree; a failed call
  changes nothing; a revoked extension does not come back.
- *Proposals*: only what was approved takes effect; what runs is what the log
  says; a proposal of two settings is applied whole; a secret is lost only by a
  failed write, a crash or a dropped handler; no text of a persona is
  overwritten without a backup unless the look for it failed.
- *Device registry*: one request per code; an answer stands; what the owner
  was told is on disk.
- *Pursue*: a verdict is true of the children and overrides nobody; credit
  goes once to the last attempt; every driver ends.
- *Screens*: what both ends hold agrees, but for a key the device failed to
  store; no change is slept over; the owner's answers outlive the daemon. *Personas*: a switch reaches the next prompt.

## 2. Modules

| Module | Models | Extended by / composed in |
|---|---|---|
| `RemoteApproval` | abstract: what a `remote` rule promises host and owner | refined by `PresenceHub` (`Promise`) |
| `PresenceHub` | `hub.rs` approvals, sessions, alerts, `routes.rs` handlers | `MCPresenceHub`, `PresenceHubProofs` |
| `Scheduler` | `schedule.rs` store, planner and loop | `MCScheduler`, `SchedulerProofs` |
| `DailySlot` | the search for the next daily slot in a zone with one change | `MCDailySlot`, `SchedulerProofs` |
| `WebhookDelivery` | the delivery table and its loop | extended by `ControlPlane`, `ControlPlaneProofs` |
| `ControlPlane` | task calls, cockpit, engine, subscriptions, events | `MCControlPlane`, `ControlPlaneProofs` |
| `ExtensionHost` | host, persisted rows, boot | `MCExtensionHost`, `ExtensionHostProofs` |
| `Proposals` | proposals, pen, applies, model and backend choice, start | `MCProposals`, `ProposalsProofs` |
| `DeviceRegistry` | pairing, requests, registry and their files | `MCDeviceRegistry`, `DeviceRegistryProofs` |
| `Pursue` | enqueued tasks, their drivers, delegation, attribution | `MCPursue`, `PursueProofs` |
| `PresenceScreens` | pairing, pushing and the screen's own state | `MCPresenceScreens`, `PresenceScreensProofs` |
| `PersonaSwitch` | choice, memory of what was given, the hooks that ask | `MCPersonaSwitch` |

`Mut...` operators stand right before the definition they change: each is a
plausible bug in the code that definition models, and the property it is
listed with in PROJECT.json must fail under it. They are used nowhere else.

### Presence hub

State: `state` (sessions by key), `alerts`, `approvals` (the pending map),
`seq`; the handler of each request (`waiter`), its oneshot channel (`reply`),
the broadcast feed; an answer between its two locks (`acting`). One mutex
guards the hub, so a critical section is one action: `Record` (record_event
with its prune and alert bookkeeping), `EndSession`, `OpenApproval`,
`Resolve`, `Snapshot`. What is *not* atomic is several actions: a request is
opened, hears its channel (`Deliver`), or its timer fires (`Elapse`) and later
takes the lock again (`Withdraw`), or its future is dropped (`HangUp`); an
answer looks (`BeginAnswer`) and then resolves (`FinishAnswer`). Time is two
predicates, silent for longer than the TTL and done for longer than the
done-to-idle span, raised by `FallSilent` and `StayDone`. Every request of the
model belongs to a `remote` rule; the policy itself, personas, notes and the
journal are not in it.

### Scheduler and daily slot

State: `rows`, the loop's snapshot (`todo`) and the row in service (`cur`,
`left`), `now`, `nextTick`. `Add`, `Cancel`, `PassTime`, `Crash`, `Restart`
are the environment; `Sweep` (or `SweepFails`), `Service` (plan_fire),
`Fire`, `Advance` (or `AdvanceFails`) are the loop, each between two awaits.
`plan_fire` is arithmetic on slots (`MissedSlots`, `EveryCount`, `PlannedNext`)
for one-shot, interval, degenerate and daily rows. `/schedule add` only
creates `Skip` rows; the store API accepts every policy and the model checks
them all. Daily rows step by a whole day there; the calendar is `DailySlot`,
which models `next_named_zone_daily_fire` and the fixed-offset form over one
offset change (gap or fold), searching the dates the code searches.

### Control plane and webhooks

A call is a program counter: `LookUpTask`, `CreateCase`, `Refetch`, `Load`,
`Transition`/`Steer`, then `LookUpSubs`, `EnqueueOne` per subscriber,
`Emitted`. Each is one store await of `core_ops.rs`; other calls, the cockpit
(`Console` calls: load and guarded write, no events), the engine and the
webhook loop run between them. `log[t]` is the case's history of committed
revisions, the current one last, so that a property can speak of the revision
an event names. A call may also be one of the observer's: the engine tells it of
a verified attempt or an escalation (`Raise`), and it loads the revision for
the envelope afterwards (`Revise`, `ReviseFails`), so an `attempt.completed`
may carry the revision of somebody's later write; an escalation, being
terminal, cannot. A task of the daemon's own (`Pursued`) is stored by
`EnqueueTask`; when it has ended, its driver loads it (`Attribute`, `judged`)
and some awaits later writes its marker (`Mark`), the one write on a terminal
case: it keeps an object in `business_state` and replaces anything else, so the
guidance a steer put there is gone. The engine itself (`EngineStep`) writes a
case that has not ended and keeps what is in `business_state`. `HangUp` drops a handler at any await, `LookUpFails` and the
failing inserts are store errors, `Crash` ends the process. The queue
(`WebhookDelivery`) has `Enqueue`, `Sweep`, `Post` (taken or not, heard or
not), `Record` (`RecordFails`), `Elapse` (backoff) and `LoopCrash`.
`ApiSpec` is the API without the loop, `Spec` the composition.

### Extension host

Host methods take `&mut self` and their activations await nothing that lets
another in, so each is one action (`InstallHost`, `Upgrade`, `Rollback`,
`RevokeHost`); the store calls around them are their own (`Save`,
`RemoveRow`, `Revoke`), and `Restart` may come between. An activation is the
sequence of names a version registers, cut where the facade refuses
(undeclared) or the registry does (taken). The reload visits rows in the order
SQLite returns them, which nothing fixes, so any maximal collision-free set of
rows may come up, or none if the table cannot be read. `upgrade` and
`rollback` are called only by tests today (docs/en/extensions.md:120): the
model lets them run between commands, as a caller of the host would.

### Proposals and the choice of model

`log` is the override table, `file` and `soul` the secrets directory and the
persona's text; `live`, `ladder` and `backend` what this process runs; `cmd`
the one console command under way (the cockpit is single-threaded) with the
next write it makes (`pc`), while the web creates proposals (`Create`, `Put`:
row first, value into the pen later) and reads. The handler of a proposal may be
dropped between the two (`Abandon`: the row is committed, the value is gone),
and the look whether there is a SOUL.md to copy may fail (`LookFails`: the copy
is skipped); `dropped` and `unseen` remember of which proposals. Each write of `approve`,
`apply`, `/model`, `/model reset` and `/backend use` is an action, which may
fail; `Crash` ends the command, the pen and everything live, and `Boot` reads
the store back, chat_turn rule before selected model, as `main.rs` does.
Personas, models and secrets are a few model values.

### Device registry

A handler is a program counter (`call`). `pending.json` changes and is written
under one mutex (`With`: memory first, so a failed write leaves memory ahead);
the registry changes under its lock, and `registry_changed` clones it, opens
the shared temporary file, fills it and renames it in four actions, so that two
handlers overlap in every way the code allows, a torn file included. `Restart`
loads both files. `admit`, `update` and `revoke` are `bastion_mesh`'s,
modelled from how the primary uses them.

### Pursue

`status`, `attempts` and `marked` are the store, `driver`, `current`,
`spawned`, `summary` the process. A driver goes through the steps of
`run_coding_pursue` and `attribute_terminal`, or of `run_delegated` for the
parent; `current` says whose loaded revision is still the stored one, which is
all a revision guard asks. `Pause`, `Resume`, `Cancel`, `Steer` are
`/task`; `Restart` drops every driver and starts none, as the code does. The
cycle's own writes (`Act`, `Conclude`) are `bastion-core`'s and take effect
only on a task that is not paused or ended by then.

### Desk screens

The daemon's side is a registry in memory and its file, a request per owner,
and the pusher: `SeeChange`, the debounce, `BeginRound` (which takes the
registry as it is), one `Post` or `LosePost` per device, `EndRound`, or a
`Heartbeat` when nothing changed. The device's side is the firmware's: the
pairing it acts on (`cfg`, memory) and the keys it has stored (`flash`), the code
and whether it is on the screen, the last snapshot and whether it is fresh, and
what handling a pairing request does (`RefusePair`, `MissPair`, `AcceptPair`).
An accepted pairing is in memory whole and in the flash as `savePaired` left it
(`PutKeys`): each key put or not on the pro's ESP32, the file written, truncated
or not opened on the ultra's ESP8266, with the same answer of 200. The next boot
(`Reboot`, `Loaded`) acts on what it reads back; `unstored` remembers which
pairings were stored in part. Requests and answers may be lost or arrive after
the daemon gave up, either end may lose power, a save of `devices.json` may be
torn and a start may fail to read it; all of these draw on one bound,
`MaxFaults`.

### Personas

`chosen` is the owner's choice and outlives the process; `injected`, what the
hub remembers to have given each session, does not, and is pruned with the
session. A hook asks at `SessionStart` and at each prompt; the handler reads
the choice, reads what was given, builds the context and records it, and the
answer may be lost after that.

## 3. Runs

| Run | Expect | Question |
|---|---|---|
| `hub` | pass | approvals, sessions, alerts: the safety properties, the refinement of `RemoteApproval` and the liveness of a patient call |
| `sched` | pass | the firing loop under lateness, cancels, one crash or store error |
| `sched_daily` | pass | the daily search at every hour around a gap, a fold or no change |
| `control_plane` | pass | a create, a transition or a recorded event, a cockpit command and the engine on one task, with subscriptions, hang-ups and a fault |
| `webhooks` | pass | the same API feeding the delivery loop: attempts, repeats, and that everything settles |
| `extensions` | pass | two extensions, three versions, faults and restarts |
| `proposals` | pass | two proposals of any kind and two console switches, with two failed writes or crashes anywhere |
| `devices` | pass | two handlers at a time on codes, requests and the registry, with a failed write and a restart |
| `pursue` | pass | a delegated task and its two children under owner commands, a failure and a restart |
| `screens` | pass | the pro board, two owners who pair it, pairings stored in part, a change, a removal and one fault of any kind: what the two ends hold, what was posted, and does a screen catch up? |
| `pursue_restart` | violation | is a pending task drained after a restart? (adaptive/enqueue.rs) |
| `persona_switch` | violation | is a switch effective from the next prompt? (integrations/claude-code/README.md:8) |

Reading the properties (each is commented where it is defined):

- `KeepsPromise` is the refinement: the host hears `allow` only after an
  accepted approve by a surface of the owner that may answer, of a call shown
  whole. `WaitingHasCause` ties a session's `waiting` to a pending approval or
  a question; `LastAnswerRestores` to the other approvals of the session;
  `PatientCallsEnd` is the liveness of a request whose client stays.
- `NoExtraFires` counts dispatches against due slots; `FiresBeforeAdvance`
  orders dispatch and advance; `CancelledStays` bounds
  what a snapshot may do to a cancelled row (a fire already in a sweep still
  happens, so "revoked never fires" is *not* claimed); `NeverSpins` and
  `DueIsServiced` bound the loop from both sides.
- `NothingClobbered`, `TerminalIsLast`, `AnnouncedIsCommitted` are about the
  whole committed history: every write of a call builds on the revision it
  loaded and keeps the guidance there; only the marker of the driver follows a
  terminal revision, once, and only it may drop guidance (and does, see
  Findings). `RepliedMeansQueued` ties a client's answer to the queue, without a
  fault.
- `AttemptsAreSpent`, `TakenOnce` count POSTs, receipts and records against
  each other; `Settles` is liveness.
- `ZeroOrphan` relates registry, installed map, lockfile and history;
  `AllOrNothing` is the action property of a failed call; `NoComeback` is
  about rows, faults and restarts.
- `EffectsAreApproved` ties every effect to a row of the log or a command;
  `LiveFollowsTheLog` compares the provider and the backend that run with the
  log, `LadderSurvives` the ladder with what a start would read;
  `AppliedWhole` orders the writes of a default and a ladder, and says which harm
  may leave half of them. `SecretIsAccountedFor` says where a secret may be at
  every moment, and which harm or dropped handler may lose it; `SoulIsBackedUp`
  is about two files, and excepts a look that failed.
- `OneRequestPerCode` and `AnswerStands` hold across failed writes and
  restarts; `AckedIsDurable` compares `registry.json` with what the owner was
  answered, as long as no two handlers had a clone to write at once: with two,
  the older clone may be renamed over the newer, and the file may be torn (see
  Findings).
- `ParentFollowsChildren` relates a verdict to the children for ever after;
  `CreditedOnce` counts reinforcements and says of which attempt;
  `TerminalStays` is an action property; `DriversEnd` is liveness.
- `StoredTokensAgree` relates the two ends and the device's own keys, and says
  that a key the device failed to store, once a boot has read the flash, is the
  only way: lost answers, repeated pairings and power cuts in the middle of the
  keys are not. `SettledIsPosted` the pusher's idleness
  to what every device was last offered; `AnswersLast` the file to what the
  owner was answered; `ScreenCatchesUp` is liveness: a screen whose ends agree
  shows the current content again, by the heartbeat if by nothing else.

### Bounds

The bounds limit only what the environment may start (events, adds, faults,
upgrades); everything that is started can run to its end.

- `hub`: two owners, one session each, two calls, three surfaces (client,
  display, another owner's client), three events or requests (`MaxSeq`). Two
  calls of one session are what `LastAnswerRestores` and the shared state need;
  a third adds no new pair.
- `sched`: two rows, so one is serviced while the other's snapshot ages; time
  to 3 with a tick of 2 and a day of 3, so a row can miss no, one or several
  slots; two revisions and one fault.
- `sched_daily`: days of 24 hours, one change of -1, 0 or +1 hour at 0, 2 or
  23 h: every hour of the day is asked for from every hour around the change.
- `control_plane`: one task, three calls (one the cockpit's), one subscriber of
  every event, three revisions, one fault: about 2.8 million states. The observer shares
  its slot with an API call, so each meets the cockpit and the engine.
- `webhooks`: two calls (a create and a cancel), two attempts, one fault: the
  queue holds two rows of one subscriber, one of them in its backoff.
- `extensions`: two extensions over three capabilities, with a version that
  collides half-way, one that registers an undeclared name, one that breaks a
  requirement; two upgrades of history and three faults or restarts.

- `proposals`: two proposals and two switches are what it takes for one effect
  to be overwritten by another; two failures reach every pair of failing
  writes of one apply.
- `devices`: one device is enough, since handlers on different devices share
  only the file; two handlers, two codes, two requests, one revision, with
  symmetry over handlers, codes and requests (no liveness is checked there).
- `pursue`: two children, so one may end while the other waits for the only
  permit (`max_parallelism` 0 is the boundary the code mends); three commands
  pause, resume and cancel one task. A single task is in `pursue_restart`.
- `screens`: two owners and two pairings for an ousted pairing; two mistyped
  codes reach the lockout; one content change beside the first; one pairing may
  be stored in part, which is no fault of the bound, and one fault of any kind,
  so that a boot reads it back: about 4.8 million states. The safety properties
  were also checked with both pairings stored in part (10.9 million states), and
  `ScreenCatchesUp` on the ultra board (`Pro = FALSE`), which pairs again only
  after a boot found no pairing, under two faults.
- `persona_switch`: two personas, two sessions, two switches, one fault.

The type invariants of all modules were checked by TLC over these same
instances; they are listed in no run, because those of every module but
`PersonaSwitch` and the abstract `RemoteApproval` are proved.

`CHECK_DEADLOCK FALSE` is set where the bounds let the environment run dry
(every event used, every call answered, time at its end); `extensions` never
stops and checks deadlock.

### Fairness, and why the code justifies it

- Hub: the runtime keeps polling a parked request, and `tokio::time::timeout`
  fires; an answer between its two locks awaits nothing, so it finishes. No
  surface has to answer and no client has to stay.
- Scheduler: the spawned loop is polled (weak fairness of its step), time
  passes, a crashed daemon is restarted by its supervisor (installer unit,
  compose `restart`).
- Webhooks: the loop ticks every 5 s, its client's 10 s timeout gives every
  POST an outcome, time passes. No receiver has to answer.
- Pursue: a spawned driver is polled, a session ends (`per_task` bounds it) and
  tokio's semaphore is fair, hence strong fairness of a child's permit. No
  owner has to act.
- Screens: the pusher task is polled and each of its requests ends by its
  timeout; the firmware's loop runs. Nobody has to pair or touch anything, and
  a device that was reset need not be paired again.
- Personas: none is needed beyond the hook being asked at each prompt, since
  a prompt is what the property counts.

### Findings

Disagreements between the code and its own words, each with a `violation` run
and an entry with its lines in PROJECT.json:

- `pursue_restart`: a driver is spawned only where a task is enqueued, so a
  task that was pending before a restart is never drained.
- `persona_switch`: after a restart of the daemon, twelve silent hours or a
  lost answer a session goes on as the persona it had before a switch, prompt
  after prompt. With no fault the property holds of the same instance.

Ten more are stated as definitions in the modules, each with the words of the
sources it quotes. No run lists them, but TLC finds every one of them violated
when it is added to the configuration of the module's passing run (to a copy
without the other properties).

| Definition | The sources say | The code |
|---|---|---|
| `SeqGrowsOnEveryChange` (`PresenceHub`) | "`seq` grows on every change" (docs/en/presence.md:87) | a snapshot prunes before it answers, and what it prunes bumps nothing (hub.rs:851): two snapshots of one `seq` differ, and a surface that polls by `seq` keeps what time took away |
| `GuidanceIsKept` (`ControlPlane`) | what is written to `business_state` "must survive" and is not clobbered (business_state.rs:14-17) | the marker of an ended task replaces what is not an object, which is what steering makes of it (procedural.rs:137): notes and `external_ref` of a steered task are gone |
| `EveryMethodIsAllOrNothing` (`ExtensionHost`) | "Every state-changing method here is all-or-nothing" (host.rs:5) | `rollback` takes its target and the current version out before it activates the target, and returns its error with `?` (host.rs:408): a failed one leaves neither |
| `LadderIsReadAtStart` (`Proposals`) | the ladder override "is read at STARTUP only" (config_store.rs:47; proposals.rs:17, main.rs:1012 and the console's text on such a proposal, proposal_command.rs:118, say so too) | `apply_model_config` swaps it in through the handle the daemon passes (proposals.rs:719, main.rs:1759): it runs from the next turn on |
| `ExpiredMeansRestarted` (`Proposals`) | "secret value expired (the daemon restarted ... or it was already consumed)" (proposals.rs:770) | a client that hangs up while its row is inserted takes the value with it (loadout.rs:735) |
| `SoulHasBackup` (`Proposals`) | "with a timestamped backup next to the file it replaces" (proposals.rs:9) | a failed look for SOUL.md counts as "no file" (proposals.rs:434): the persona is overwritten without a copy |
| `ChangesArePersisted` (`DeviceRegistry`) | "Persist the registry after a change" (devices/primary.rs:224) | two overlapping handlers may write their clones in the wrong order (primary.rs:226): an answered revocation is lost at the next start |
| `NeverHalfARegistry` (`DeviceRegistry`) | "a crash never leaves half a registry" (devices/state.rs:118) | overlapping handlers share one temporary file (state.rs:122) and publish each other's half-written one |
| `RefusedStaysOut` (`DeviceRegistry`) | "Admit a pending request the owner approved" (devices/primary.rs:384) | approving a refused request admits its device (primary.rs:412) |
| `TokensAgree` (`PresenceScreens`) | the device "keeps `bastion_url` + `bastion_token` to send actions" (docs/en/presence.md:164) | the firmware looks at no result of its stores (store.cpp:39,97): after a boot a screen may take one owner's pushes and act with another's token |

What a passing property excepts is among these: `AllOrNothing` and `ZeroOrphan`
a failed rollback, `AckedIsDurable` overlapping saves (`overlapped`),
`SecretIsAccountedFor` a dropped handler, `SoulIsBackedUp` a failed look,
`NothingClobbered` the marker of an ended task, `StoredTokensAgree` a key that
was not stored.

The following were found with the same models and have no definition of their
own.

- Hub: an answer is accepted while the request's timer has already fired, and
  the host hears `TimedOut` (docs/en/presence.md:48); an approval whose host
  hung up is never withdrawn (hub.rs:616-617).
- Scheduler: an interval of at most half a tick with `Skip` never fires
  (schedule.rs:67,89); asked on the eve of a gap, the daily search steps over
  the first slot (schedule.rs:222-223, e.g. 23:30 America/New_York on
  2024-03-09), which `FirstButForTheGapsEve` excepts.
- Control plane: two overlapping creates of one idempotency key both answer
  `created` (docs/en/control-plane-security.md:46).
- Proposals: an approved default model whose key is only in the secrets
  directory works in this process, which publishes the key in its environment;
  the next start refuses it (main.rs:916-917, proposals.rs:654).

Smaller ones, seen while reading:

- `/schedule` says a revoked schedule never fires again (schedule.rs:125)
  although a sweep in progress still fires its snapshot; "Fire exactly once"
  (schedule.rs:65) is at-least-once over a crash.
- A `task.created` event is lost for good when the handler is dropped between
  insert and emit, since a retry answers from the row; deliveries already
  queued are still posted after their subscription is revoked; the comment on
  `MAX_ATTEMPTS` adds the backoffs to about 3.4 hours where they add to about 9.
- `/model X` says "Saved for the next restart" although a chat_turn rule
  overrides it there; a rejected secret stays in the pen; an approval between
  a proposal's row and its pen entry spends the proposal; `write_secret_file`
  truncates in place.
- `refuse` answers 204 for a request that was approved before; a crash between `pending.json` and
  `registry.json` leaves an approved device unadmitted; two nodes promoted from
  the same registry copy get the same epoch.
- `/task resume` sets a task running and nothing drives it; pausing or
  cancelling a delegated parent does not touch its children; a task created
  through the control plane has no driver; steering a task replaces its
  procedural references, so its beliefs get no credit.
- A screen whose pairing answer was lost, that was removed, or whose
  `devices.json` was torn or could not be read at a start stays paired with its code hidden: only a factory
  reset gets it back. Two pairings of one owner answered in reverse order leave
  the older record. A device removed during a round still gets that round's
  push (devices.rs:14-15). Seven or more unreachable devices make the others
  show "disconnected", at 3 s each in one round.
- A context recorded after `SessionEnd` leaves an entry nothing removes.

## 4. Proofs

TLAPS proves the theorems PROJECT.json lists, for every value of the constants
that the named assumptions allow: `ConstantsAssumption` (hub and scheduler),
`NoRowAssumption`, `DailyAssumption`, `ExtensionAssumption`,
`DeviceRegistryAssumption`, `PursueAssumption`, `QueueAssumption`,
`ControlPlaneAssumption`, `ProposalsAssumption` and `ScreensAssumption`. They say
that the constants are sets, functions and numbers of the right kind, that
`None` and its like are none of the values they stand beside, and what the code
guarantees of them: a delegation has children, a task of the control plane
exists, the cockpit does not create, a model proposal names a model or a ladder, a
device has an owner. TLC evaluates them in the runs of the modules that extend
theirs.

Each of the eight proof modules has an inductive invariant for every
specification it is about, a lemma for the initial states, one for every action,
and the theorems that follow. Every invariant, action property and refinement
that a passing run checks is a theorem; what is left to TLC is liveness.

- *Hub* (`PresenceHubProofs`). `HubInv` = `TypeOK` and what a call and an answer
  in progress may be in each phase (`CallInv`, `ActInv`). `AnsweredOnce` alone
  is not inductive: that the feed is empty while an approval is pending, and the
  reply channel empty while it waits, is what makes the next answer the first.
  From `HubInv` follow `OneAnswer`, `ReplyOrPendingAlways`, and `HubKeepsPromise`:
  initial states map to initial states and every step to a step of
  `RemoteApproval` or a stutter. `WaitingIsExplained` is inductive together with
  the type; `AnswersRestoreLast` is an action property.
- *Scheduler* (`SchedulerProofs`). `SchedInv` = `TypeOK` and that a snapshot
  equals its row as long as their revisions agree, and that the row in service
  was due when it was swept. `NoExtraFires` needs `FireInv` on top: fires made,
  plus fires left of the row in service, never exceed the slots up to the sweep;
  the step rests on the arithmetic lemmas `PlanBounds` and `MissedSlotsGrow`
  (integer division of the backlog by the interval). `SweepsRespectCancels` says
  that a sweep never holds a row cancelled before it; `CancelIsFinal`,
  `FiresComeFirst` and `NothingSpins` are action properties.
- *Daily slot* (`SchedulerProofs`, last part). `DailyInv` says that what is set to
  fire is what the search found at the instant it was computed; the rest is about
  the search. `FirstIs` moves it from instants to wall-clock hours: an hour's first
  instant is ahead of `u` exactly when the hour is ahead of `u`'s clock, folds
  included, so slots are in the order of their dates (`SlotsInOrder`). Dates are
  quotients by a day of any length, which `DateOf`, `DateIs` and `DaysApart` turn
  into linear bounds; `ClockMoves` splits on where the change lies. `SomeIsNext`
  (two of the dates the code looks at are ahead and at most one has no such hour)
  gives `DailySlotExists`; `NoneIsSteppedOver` (a date is stepped over only from
  the last hour of a gap's eve) gives `DailySlotIsFirst`; order alone gives
  `OneFirePerDate`. The length of the day, the hour, the instant of the change and
  the lateness of the loop are arbitrary; the change is of at most one hour.
- *Extensions* (`ExtensionHostProofs`). `HostInv` = `TypeOK` and, of every
  extension: if it is installed, its version would activate in an empty registry
  (`Fit`), `held` is exactly that version's names and the registry has them all
  under its id; a persisted row holds a fit version too. That is what makes a
  reactivation succeed: after a failed upgrade the old version finds its names
  free again, so `RestoresAll` gives back the very same registry, and
  `FailedCallsAreClean` follows. `GoneInv` strengthens `NoComeback`: a revoked
  id has no rollback target either, and the id between its row's removal and its
  revoke has no row. `NoOrphan` is the converse of `HostInv` (what is registered
  is held by an installed extension), lost only by a failed rollback; the two
  together are `ZeroOrphan`.
- *Device registry* (`DeviceRegistryProofs`). `CodeInv`: a code that was spent
  is in neither copy of `pending.json` nor with a second handler, so
  `OneRequestPerCode` survives failed writes and restarts. `AnswerInv`: memory is
  never behind the file on an answer, so what the next write persists cannot take
  one back. `SavingInv`: while handlers save one at a time, what was promised, the
  file, the snapshot of the one that saves and memory are in that order, and
  every step moves one of them towards the next; `AckedIsDurable` is its first
  link.
- *Pursue* (`PursueProofs`). That there is no second credit rests on no driver
  ever restarting a task that has ended; which attempt is credited is the rest of
  `CreditedOnce`. `CreditInv`: a task is credited only after its end
  and by a driver that is then past the credit. `FreshInv` and `VerdictInv`: no
  child has a driver before the parent starts them, nor from the join on, so the
  summary its driver read stays true until the guarded verdict, and after it no
  step can change a child any more.
- *Webhooks* (`ControlPlaneProofs`, part on the queue). `LineInv`: a row in the
  due order or in the sweep is pending and has one place in each, so recording one
  row says nothing of the next. `AttemptOK` and `TakenOK` are the two counting
  properties with the row in flight made explicit; the step is arithmetic per row.
  Removing a row from the order is the lemma `StillReadyRows`.
- *Control plane* (`ControlPlaneProofs`). The store only appends, so what is true
  of a revision stays true (`AboutStays`, `KnowsStays`); each call's invariant
  speaks of the revision it loaded, never of the last one, and the revision guard
  makes the two the same at the moment of the write (`HistoryAppend`). Events carry
  such a fact from the write to the queue (`Emits`, `QueuedInv`). That an escalation
  is reported at the very revision that escalated needs `TerminalIsLast`.
  `JudgeInv` says of a driver at its marker that the revision it holds is terminal
  and not a marker, and that no driver attributes a task while an event of it is
  still to be recorded; with the marker's own revision guard it gives `EndsStay`
  (one marker at most after the end) and `GuardsHold` (a write that drops guidance
  is a marker).
  `RepliesAreKept` needs `PromiseInv`: of the events a call owes for its change,
  each is queued for every steady subscriber or is still in the call's list, and of
  the one being emitted only the subscribers left as targets are without their row;
  so when the list is empty, and the answer is given, nothing is owed. The theorems
  hold of the API alone and of its composition with the delivery loop (`Runs`), the
  queue's own invariant included.
- *Proposals* (`ProposalsProofs`). What the store says of a key is its last row.
  That a non-empty set of positions has a last one is `HasLast`, by the
  well-foundedness of the naturals; what an append does to it is `NewLast` and
  `OldLast`. `ProposalInv` has a part for each thing a command under way can be in
  the middle of: the rows it has not written yet (`OwnUnwritten`), which is why each
  row of a proposal is written once (`ApprovedOnce`); the value it will swap in, so
  that the log's last word is what is live or about to be (`LiveSoon`, `LadderSoon`:
  `LiveIsPersisted`, `LadderIsReloaded`); what a command has written so far of the
  two rows of a model proposal (`WholeInv`: `AppliedInOrder`); the secret in its hand, so that a secret is
  with the web, in the pen, in a command's hand or in its file, and never in two
  (`SecretInv`: `SecretIsKept`), and in none only by harm or for a handler that was
  dropped; and the backup that precedes the open of SOUL.md, unless the look for it
  failed (`SoulInv`: `SoulIsKept`).
- *Desk screens* (`PresenceScreensProofs`). A request goes one way, so one that is
  saved or over stays so (`ClosedKept`) and every record belongs to such a request
  (`RecordsInv`): a new record is none that was removed. Only the flash
  holds keys of two pairings, and each such pair is explained (`CutOffInv`): its push
  token's request ended unanswered, hence belongs to no record, or one of the two
  keys is of a pairing the device answered and stored in part. That is
  `ScreenTokensAgree`. `PushInv` says it during the round as well: a record
  was posted, is left in the round, or its handler has still to touch the hub; that
  gives `SettledScreensArePosted`. `AnswerInv` extends `AnswersLast` to the file a
  start would read, the one fact a restart needs: `ScreenAnswersLast`.

Theorems without a run property: `ReplyOrPendingAlways`, `SweepsRespectCancels`
and the types and invariants.

Only model-checked: liveness (`PatientCallsEnd`, `DueIsServiced`, `Settles`,
`DriversEnd`, `ScreenCatchesUp`), since liveness under fairness and ENABLED are
beyond the prover, and `PersonaSwitch`, whose one property the code violates.

## 5. Not modelled, and the plan

The modules stand for a small share of the source's lines. Most of the rest is
adapters, parsing, rendering and wiring: transports and third-party protocols
(channels, MCP, OAuth, WASM and subprocess sandboxes, the browser), formatting and
signing, configuration, the terminal UI and the clients in `web`, `mobile`,
`desktop`, `firmware` (but for the screen's pairing and freshness), `sdk` and
`skills`. They have no ordering of their own that the modelled APIs do not show.
PROJECT.json says of every component what is modelled and why the rest is not.

Left out on purpose of the parts that are modelled:

- *Libraries whose source is not in the repository.* `bastion_core`'s engine,
  task store and credential lifecycle and `bastion_mesh`'s registry, epochs, fence
  and replica are used as their callers use them; the epoch protocol itself, a
  superseded primary and reconciliation are not modelled.
- *Pure decisions* are inputs: the presence policy (first matching rule), the
  adaptive profile's choice of an executor, routing classes other than those that
  swap a model, URL and signature checks.
- *Presence*: journal and notes, answering by touch, the layout of a snapshot,
  over-the-air updates, and posts of the pusher that the device still handles
  after the daemon gave up waiting.
- *Single statements*: access credentials, subscription profiles, provider
  credential state and the committee's row are one guarded statement each; the
  rate limit counts under one lock and documents that it is not exact.
- *Migrations* of files of earlier versions.

Next, in this order:

1. An abstract task store (one compare-and-set per call) that `ControlPlane` and
   `Pursue` both implement.
2. The subscription login (`subscription_auth.rs` with `codex_connector.rs`):
   two logins of one profile, a disconnect in between and the refresh authority.
