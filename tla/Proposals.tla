----------------------------- MODULE Proposals -----------------------------
(***************************************************************************)
(* Staged configuration (proposals.rs): the web proposes a change, the     *)
(* console approves it and the daemon applies it in several writes, to the *)
(* append-only config store (config_store.rs), to the live handles of the  *)
(* running loop and to files. Next to it the console's own switches,       *)
(* /model and /backend, which write to the same store.                     *)
(*                                                                         *)
(* Console commands run one after the other in the daemon's loop; a web    *)
(* POST may come between any two of their awaits, a write may fail, and    *)
(* the process may die. The next start reads the store again.              *)
(*                                                                         *)
(* One owner, one persona, and of the routing classes the one that is      *)
(* applied live (chat_turn): a rule of None is a map that does not name    *)
(* it. Validation of names and sizes is the same at creation and at        *)
(* approval, so the payloads offered here have passed it.                  *)
(***************************************************************************)
EXTENDS Naturals, Sequences

CONSTANTS
  Ids,          \* proposal ids
  Payloads,     \* the changes the web may propose
  Models,
  Ladders,      \* fallback ladders
  Backends,     \* conversation backends
  Keys,         \* provider keys: environment variables and file names
  KeyOf,        \* [Models -> Keys \cup {None}]: the key a provider needs
  ProcessEnv,   \* keys every process of the daemon starts with
  TomlModel, TomlLadder, TomlRule, TomlBackend,   \* bastion.toml
  NoModels,     \* the empty ladder: "override cleared"
  None,
  Mounted,      \* a key file that was there at the first start
  Torn,         \* a file truncated, its content not yet written
  MaxSwitches,  \* bound: /model and /backend commands
  MaxHarm       \* bound: failed writes and crashes

\* A provider constructor reads its key from the environment.
Built(m, e) == KeyOf[m] \in e \cup {None}

ASSUME ProposalsAssumption ==
  /\ TomlModel \in Models /\ TomlLadder \in Ladders /\ NoModels \in Ladders
  /\ TomlRule \in Models \cup {None} /\ TomlBackend \in Backends
  /\ KeyOf \in [Models -> Keys \cup {None}]
  /\ ProcessEnv \subseteq Keys
  /\ None \notin Models \cup Ladders \cup Keys \cup Ids \cup Backends
  /\ Torn \notin Ids \cup {None} /\ Mounted \notin Ids \cup {None, Torn}
  /\ MaxSwitches \in Nat /\ MaxHarm \in Nat
  /\ \A p \in Payloads :
       \/ p.kind = "persona"
       \/ /\ p.kind = "model" /\ p.model \in Models \cup {None}
          /\ p.ladder \in Ladders \cup {None}
          /\ <<p.model, p.ladder>> # <<None, None>>
       \/ p.kind = "secret" /\ p.key \in Keys
       \/ p.kind = "routing" /\ p.rule \in Models \cup {None}

VARIABLES
  row,       \* [Ids -> status of the row, or "none"]
  asked,     \* [Ids -> Payloads \cup {None}]: the payload of the row
  log,       \* config_overrides, oldest first: [key, val, by]
  soul,      \* the proposal whose text SOUL.md holds, None, or Torn
  backups,   \* contents of the backup files beside it
  file,      \* [Keys -> the proposal whose value the file holds, ...]
  status,    \* of the daemon: "up", "down", "refused" (it did not start)
  putting,   \* rows created, the value not yet in the pen
  pen,       \* PendingSecretValues: ids whose value it holds
  env,       \* keys in the environment of the process
  live,      \* model of the running provider
  ladder,    \* ladder of the running loop
  backend,   \* conversation backend of the running loop
  cmd,       \* the console command under way: [pc, id, val]
  secretsDir,  \* BASTION_SECRETS_DIR is set
  base,      \* history: length of the log when the process started
  late,      \* history: ids approved before their value was in the pen
  dropped,   \* history: ids whose handler was dropped before the pen
  unseen,    \* history: ids whose look for a SOUL.md failed
  switches,
  harm       \* failed writes and crashes so far

disk == <<row, asked, log, soul, backups, file>>
process == <<status, putting, pen, env, live, ladder, backend, cmd>>
history == <<base, late, dropped, unseen>>
vars == <<disk, process, secretsDir, history, switches, harm>>

Statuses == {"none", "pending", "approved", "rejected"}
LogKeys == {"selected", "fallbacks", "rules", "backend", "secret"}
Steps == {"idle", "model", "swap", "ladder", "swapLadder", "rules", "take",
          "open", "fill", "mark", "persona", "openSoul", "fillSoul"}
Idle == [pc |-> "idle", id |-> None, val |-> None]

\* The rows of config_overrides, each value of the kind its key has.
ValuesOf(key) ==
  CASE key \in {"selected", "rules"} -> Models \cup {None}
    [] key = "fallbacks" -> Ladders
    [] key = "backend" -> Backends
    [] OTHER -> Keys
Values == Models \cup Ladders \cup Backends \cup Keys \cup {None}
Rows == {r \in [key : LogKeys, val : Values, by : Ids \cup {None}] :
           r.val \in ValuesOf(r.key)}

TypeOK ==
  /\ row \in [Ids -> Statuses]
  /\ asked \in [Ids -> Payloads \cup {None}]
  /\ log \in Seq(Rows)
  /\ soul \in Ids \cup {None, Torn}
  /\ backups \subseteq Ids \cup {None, Torn}
  /\ file \in [Keys -> Ids \cup {None, Mounted, Torn}]
  /\ status \in {"up", "down", "refused"}
  /\ putting \subseteq Ids /\ pen \subseteq Ids
  /\ ProcessEnv \subseteq env /\ env \subseteq Keys
  /\ live \in Models \cup {None}
  /\ ladder \in Ladders \cup {None}
  /\ backend \in Backends \cup {None}
  /\ cmd \in [pc : Steps, id : Ids \cup {None}, val : Models \cup {None}]
  /\ secretsDir \in BOOLEAN
  /\ base \in 0 .. Len(log)
  /\ late \subseteq Ids /\ dropped \subseteq Ids /\ unseen \subseteq Ids
  /\ switches \in 0 .. MaxSwitches /\ harm \in 0 .. MaxHarm

(***************************************************************************)
(* The store, and what a start reads from it                               *)
(***************************************************************************)
\* ConfigStore::latest: the value of the newest row of a key.
Latest(l, key) ==
  LET at == {i \in DOMAIN l : l[i].key = key} IN
  IF at = {} THEN None ELSE l[CHOOSE i \in at : \A j \in at : j <= i].val

OrElse(v, default) == IF v = None THEN default ELSE v

BootDefault(l) == OrElse(Latest(l, "selected"), TomlModel)
BootRule(l) == OrElse(Latest(l, "rules"), TomlRule)
BootLadder(l) ==
  IF Latest(l, "fallbacks") \in {None, NoModels} THEN TomlLadder
  ELSE Latest(l, "fallbacks")
BootBackend(l) == OrElse(Latest(l, "backend"), TomlBackend)

\* A chat_turn rule outranks the default model if its provider can be built.
RuleHolds(l) == BootRule(l) # None /\ Built(BootRule(l), ProcessEnv)
BootModel(l) == IF RuleHolds(l) THEN BootRule(l) ELSE BootDefault(l)

Row(key, val, by) == [key |-> key, val |-> val, by |-> by]

\* One append: it commits, or the call fails and nothing is written.
Apply(r) == log' = Append(log, r) /\ UNCHANGED harm
Fault == harm < MaxHarm /\ harm' = harm + 1

(***************************************************************************)
(* Initial states: a daemon that has just started on an empty store, with  *)
(* or without key files mounted into the secrets directory.                *)
(***************************************************************************)
Init ==
  /\ row = [i \in Ids |-> "none"]
  /\ asked = [i \in Ids |-> None]
  /\ log = <<>>
  /\ soul = None /\ backups = {}
  /\ file \in {[k \in Keys |-> None], [k \in Keys |-> Mounted]}
  /\ status = "up"
  /\ putting = {} /\ pen = {}
  /\ env = ProcessEnv
  /\ live = BootModel(<<>>) /\ Built(live, ProcessEnv)
  /\ ladder = BootLadder(<<>>) /\ backend = BootBackend(<<>>)
  /\ cmd = Idle
  /\ secretsDir \in BOOLEAN
  /\ base = 0 /\ late = {} /\ dropped = {} /\ unseen = {}
  /\ switches = 0 /\ harm = 0

Up == status = "up"
AtPrompt == Up /\ cmd = Idle
At(pc) == Up /\ cmd.pc = pc
Ask == asked[cmd.id]
GoTo(pc) == cmd' = [cmd EXCEPT !.pc = pc]
Done == cmd' = Idle

keepDisk == UNCHANGED <<row, asked, soul, backups, file>>
keepLive == UNCHANGED <<live, ladder, backend>>
keepWeb == UNCHANGED <<putting, pen>>
keepRest == UNCHANGED <<status, secretsDir, history, switches>>

(***************************************************************************)
(* The web: POST /proposals                                                *)
(***************************************************************************)
\* The row is inserted; a secret's value is put in the pen after that.
Create(i, p) ==
  /\ Up /\ row[i] = "none"
  /\ row' = [row EXCEPT ![i] = "pending"]
  /\ asked' = [asked EXCEPT ![i] = p]
  /\ putting' = IF p.kind = "secret" THEN putting \cup {i} ELSE putting
  /\ UNCHANGED <<log, soul, backups, file, pen, env, cmd, harm>> /\ keepLive /\ keepRest

Put(i) ==
  /\ Up /\ i \in putting
  /\ putting' = putting \ {i}
  /\ pen' = pen \cup {i}
  /\ UNCHANGED <<log, env, cmd, harm>> /\ keepDisk /\ keepLive /\ keepRest

\* The client closes its connection while the insert is awaited: the row is
\* committed, the handler and the value it held are dropped.
Abandon(i) ==
  /\ Up /\ i \in putting
  /\ putting' = putting \ {i}
  /\ dropped' = dropped \cup {i}
  /\ UNCHANGED <<log, pen, env, cmd, status, secretsDir, base, late, unseen, switches, harm>>
  /\ keepDisk /\ keepLive

(***************************************************************************)
(* The console: /proposal approve and reject                               *)
(***************************************************************************)
\* resolve: one guarded UPDATE; only a pending row changes.
\* Mutant: the UPDATE lost its status guard.
MutResolvable(i) == row[i] # "none"
Resolvable(i) == row[i] = "pending"

FirstStep(p) ==
  CASE p.kind = "persona" -> "persona"
    [] p.kind = "secret" -> "take"
    [] p.kind = "routing" -> "rules"
    [] p.kind = "model" /\ p.model # None -> "model"
    [] OTHER -> "ladder"

Approve(i) ==
  /\ AtPrompt /\ Resolvable(i)
  /\ row' = [row EXCEPT ![i] = "approved"]
  /\ cmd' = [pc |-> FirstStep(asked[i]), id |-> i, val |-> None]
  /\ late' = IF i \in putting THEN late \cup {i} ELSE late
  /\ UNCHANGED <<asked, log, soul, backups, file, env, status, secretsDir, base, dropped,
                 unseen, switches, harm>>
  /\ keepWeb /\ keepLive

\* The value of a rejected secret stays in the pen.
Reject(i) ==
  /\ AtPrompt /\ Resolvable(i)
  /\ row' = [row EXCEPT ![i] = "rejected"]
  /\ UNCHANGED <<asked, log, soul, backups, file, env, cmd, harm>>
  /\ keepWeb /\ keepLive /\ keepRest

(***************************************************************************)
(* apply_model_config: the default first, then the ladder                  *)
(***************************************************************************)
\* resolve_provider_secret: the environment first; else the key's file, which
\* is then published into the environment of this process.
InReach(k) ==
  k \notin env \cup {None} => secretsDir /\ file[k] \notin {None, Torn}
Published(k) == env \cup ({k} \ {None})

\* Refused before anything is written, or persisted, or a failed write.
SetDefault ==
  /\ At("model")
  /\ LET k == KeyOf[Ask.model] IN
     \/ ~InReach(k) /\ Done /\ UNCHANGED <<env, log, harm>>
     \/ /\ InReach(k)
        /\ env' = Published(k)
        /\ \/ /\ Apply(Row("selected", Ask.model, cmd.id))
              /\ cmd' = [cmd EXCEPT !.pc = "swap", !.val = Ask.model]
           \/ Fault /\ Done /\ UNCHANGED log
  /\ keepDisk /\ keepWeb /\ keepLive /\ keepRest

\* Mutant: a proposal of both ends with its default model.
MutAfterSwap == Done

AfterSwap == IF cmd.id # None /\ Ask.kind = "model" /\ Ask.ladder # None
             THEN GoTo("ladder") ELSE Done

\* The provider is written once the lock is free, after the row.
Swap ==
  /\ At("swap")
  /\ live' = cmd.val
  /\ AfterSwap
  /\ UNCHANGED <<log, env, ladder, backend, harm>> /\ keepDisk /\ keepWeb /\ keepRest

\* Mutant: a failed write is ignored.
MutSetLadder ==
  /\ At("ladder") /\ GoTo("swapLadder")
  /\ Apply(Row("fallbacks", Ask.ladder, cmd.id)) \/ (Fault /\ UNCHANGED log)
  /\ UNCHANGED env /\ keepDisk /\ keepWeb /\ keepLive /\ keepRest

SetLadder ==
  /\ At("ladder")
  /\ \/ Apply(Row("fallbacks", Ask.ladder, cmd.id)) /\ GoTo("swapLadder")
     \/ Fault /\ Done /\ UNCHANGED log
  /\ UNCHANGED env /\ keepDisk /\ keepWeb /\ keepLive /\ keepRest

SwapLadder ==
  /\ At("swapLadder")
  /\ ladder' = Ask.ladder /\ Done
  /\ UNCHANGED <<log, env, live, backend, harm>> /\ keepDisk /\ keepWeb /\ keepRest

(***************************************************************************)
(* apply_routing_config: the whole map is persisted, chat_turn goes live   *)
(***************************************************************************)
\* Its guard looks at the environment only.
SetRules ==
  /\ At("rules")
  /\ LET m == Ask.rule IN
     \/ m # None /\ ~Built(m, env) /\ Done /\ UNCHANGED <<log, harm>>
     \/ /\ m # None => Built(m, env)
        /\ \/ /\ Apply(Row("rules", m, cmd.id))
              /\ cmd' = IF m = None THEN Idle ELSE [cmd EXCEPT !.pc = "swap", !.val = m]
           \/ Fault /\ Done /\ UNCHANGED log
  /\ UNCHANGED env /\ keepDisk /\ keepWeb /\ keepLive /\ keepRest

(***************************************************************************)
(* apply_secret_set: out of the pen, into the file, then the audit row     *)
(***************************************************************************)
\* Mutant: the value is taken before the directory is looked at.
MutTake ==
  /\ At("take")
  /\ pen' = pen \ {cmd.id}
  /\ IF secretsDir /\ cmd.id \in pen THEN GoTo("open") ELSE Done
  /\ UNCHANGED <<log, env, putting, harm>> /\ keepDisk /\ keepLive /\ keepRest

Take ==
  /\ At("take")
  /\ IF secretsDir /\ cmd.id \in pen
     THEN pen' = pen \ {cmd.id} /\ GoTo("open")
     ELSE Done /\ UNCHANGED pen
  /\ UNCHANGED <<log, env, putting, harm>> /\ keepDisk /\ keepLive /\ keepRest

\* write_secret_file: opened with truncate, then written.
OpenFile ==
  /\ At("open")
  /\ \/ file' = [file EXCEPT ![Ask.key] = Torn] /\ GoTo("fill") /\ UNCHANGED harm
     \/ Fault /\ Done /\ UNCHANGED file
  /\ UNCHANGED <<row, asked, log, soul, backups, env>> /\ keepWeb /\ keepLive /\ keepRest

FillFile ==
  /\ At("fill")
  /\ \/ file' = [file EXCEPT ![Ask.key] = cmd.id] /\ GoTo("mark") /\ UNCHANGED harm
     \/ Fault /\ Done /\ UNCHANGED file
  /\ UNCHANGED <<row, asked, log, soul, backups, env>> /\ keepWeb /\ keepLive /\ keepRest

Mark ==
  /\ At("mark") /\ Done
  /\ \/ Apply(Row("secret", Ask.key, cmd.id))
     \/ Fault /\ UNCHANGED log
  /\ UNCHANGED env /\ keepDisk /\ keepWeb /\ keepLive /\ keepRest

(***************************************************************************)
(* apply, persona_edit: a backup beside the file, then the file            *)
(***************************************************************************)
\* Mutant: a failed copy is ignored.
MutBackUp ==
  /\ At("persona") /\ GoTo("openSoul")
  /\ \/ /\ backups' = IF soul = None THEN backups ELSE backups \cup {soul}
        /\ UNCHANGED harm
     \/ Fault /\ UNCHANGED backups
  /\ UNCHANGED <<row, asked, log, soul, file, env>> /\ keepWeb /\ keepLive /\ keepRest

BackUp ==
  /\ At("persona")
  /\ \/ /\ backups' = IF soul = None THEN backups ELSE backups \cup {soul}
        /\ GoTo("openSoul") /\ UNCHANGED harm
     \/ Fault /\ Done /\ UNCHANGED backups
  /\ UNCHANGED <<row, asked, log, soul, file, env>> /\ keepWeb /\ keepLive /\ keepRest

\* try_exists fails, which counts as no file: there is nothing to copy.
LookFails ==
  /\ At("persona") /\ Fault /\ GoTo("openSoul")
  /\ unseen' = unseen \cup {cmd.id}
  /\ UNCHANGED <<row, asked, log, soul, backups, file, env>>
  /\ UNCHANGED <<status, secretsDir, base, late, dropped, switches>> /\ keepWeb /\ keepLive

OpenSoul ==
  /\ At("openSoul")
  /\ \/ soul' = Torn /\ GoTo("fillSoul") /\ UNCHANGED harm
     \/ Fault /\ Done /\ UNCHANGED soul
  /\ UNCHANGED <<row, asked, log, backups, file, env>> /\ keepWeb /\ keepLive /\ keepRest

FillSoul ==
  /\ At("fillSoul") /\ Done
  /\ \/ soul' = cmd.id /\ UNCHANGED harm
     \/ Fault /\ UNCHANGED soul
  /\ UNCHANGED <<row, asked, log, backups, file, env>> /\ keepWeb /\ keepLive /\ keepRest

(***************************************************************************)
(* The console: /model X, /model reset, /backend use X                     *)
(***************************************************************************)
ASwitch == AtPrompt /\ switches < MaxSwitches /\ switches' = switches + 1
keepSwitch == UNCHANGED <<row, asked, soul, backups, file, putting, pen, env,
                          status, secretsDir, history>>

SwitchModel(m) ==
  /\ ASwitch /\ Built(m, env)
  /\ \/ /\ Apply(Row("selected", m, None))
        /\ cmd' = [pc |-> "swap", id |-> None, val |-> m]
     \/ Fault /\ UNCHANGED <<log, cmd>>
  /\ keepSwitch /\ keepLive

\* Mutant: a failed write is ignored.
MutResetModel ==
  /\ ASwitch /\ Built(TomlModel, env)
  /\ Apply(Row("selected", None, None)) \/ (Fault /\ UNCHANGED log)
  /\ cmd' = [pc |-> "swap", id |-> None, val |-> TomlModel]
  /\ keepSwitch /\ keepLive

ResetModel ==
  /\ ASwitch /\ Built(TomlModel, env)
  /\ \/ /\ Apply(Row("selected", None, None))
        /\ cmd' = [pc |-> "swap", id |-> None, val |-> TomlModel]
     \/ Fault /\ UNCHANGED <<log, cmd>>
  /\ keepSwitch /\ keepLive

\* use_backend changes the running profile and then persists the choice.
UseBackend(b) ==
  /\ ASwitch
  /\ backend' = b
  /\ Apply(Row("backend", b, None)) \/ (Fault /\ UNCHANGED log)
  /\ UNCHANGED <<live, ladder, cmd>> /\ keepSwitch

(***************************************************************************)
(* The process                                                             *)
(***************************************************************************)
Crash ==
  /\ Up /\ Fault
  /\ status' = "down"
  /\ putting' = {} /\ pen' = {} /\ env' = ProcessEnv
  /\ live' = None /\ ladder' = None /\ backend' = None /\ cmd' = Idle
  /\ UNCHANGED <<disk, secretsDir, history, switches>>

\* A rule whose provider cannot be built gives way to the default model; a
\* default whose provider cannot be built ends the start.
Boot ==
  /\ status = "down"
  /\ IF Built(BootModel(log), ProcessEnv)
     THEN /\ status' = "up" /\ live' = BootModel(log)
          /\ ladder' = BootLadder(log) /\ backend' = BootBackend(log)
     ELSE status' = "refused" /\ keepLive
  /\ base' = Len(log)
  /\ UNCHANGED <<disk, putting, pen, env, cmd, secretsDir, late, dropped, unseen, switches,
                 harm>>

Next ==
  \/ \E i \in Ids : \E p \in Payloads : Create(i, p)
  \/ \E i \in Ids : Put(i) \/ Abandon(i) \/ Approve(i) \/ Reject(i)
  \/ SetDefault \/ Swap \/ SetLadder \/ SwapLadder \/ SetRules
  \/ Take \/ OpenFile \/ FillFile \/ Mark
  \/ BackUp \/ LookFails \/ OpenSoul \/ FillSoul
  \/ \E m \in Models : SwitchModel(m)
  \/ ResetModel
  \/ \E b \in Backends : UseBackend(b)
  \/ Crash \/ Boot

Spec == Init /\ [][Next]_vars

(***************************************************************************)
(* Properties                                                              *)
(***************************************************************************)
Unharmed == harm = 0
By(i, key) == {n \in DOMAIN log : log[n].by = i /\ log[n].key = key}
Secrets == {i \in Ids : row[i] # "none" /\ asked[i].kind = "secret"}

\* "Approvals are once-only" (resolve): whatever a proposal changed, a row of
\* the store, a key file, SOUL.md or a backup of it, was changed by one that
\* the console approved, and each of its rows was written once; a command
\* under way belongs to an approved row.
EffectsAreApproved ==
  /\ \A i \in Ids : \A key \in LogKeys :
       By(i, key) # {} => row[i] = "approved" /\ \E n \in By(i, key) : By(i, key) = {n}
  /\ \A i \in Ids : (soul = i \/ i \in backups \/ \E k \in Keys : file[k] = i)
                      => row[i] = "approved"
  /\ cmd.id # None => row[cmd.id] = "approved"

\* Between commands the running provider is the one the last row of this
\* process's life named, or the one the start resolved if none did: a change
\* is persisted before it is swapped in, and never one without the other. The
\* backend likewise, but /backend changes the profile first, so a failed write
\* leaves it ahead of the store. (Of the ladder: LadderSurvives.)
OfThisLife(keys) == {n \in base + 1 .. Len(log) : log[n].key \in keys
                                 /\ (log[n].key = "rules" => log[n].val # None)}
LastWord(keys, default, atBoot) ==
  LET at == OfThisLife(keys) IN
  IF at = {} THEN atBoot
  ELSE OrElse(log[CHOOSE n \in at : \A m \in at : m <= n].val, default)
AtBoot == SubSeq(log, 1, base)
LiveFollowsTheLog ==
  AtPrompt =>
    /\ live = LastWord({"selected", "rules"}, TomlModel, BootModel(AtBoot))
    /\ Unharmed => backend = LastWord({"backend"}, None, BootBackend(AtBoot))

\* config_store.rs:47 says of the ladder "this override is read at STARTUP only":
\* a running daemon has the one it started with. The code contradicts it:
\* apply_model_config swaps it in at once, through the handle that main.rs:1759
\* passes (proposals.rs:719).
LadderIsReadAtStart == Up => ladder = BootLadder(AtBoot)

\* A proposal of a default model and a ladder is applied in this order, and one
\* that ends with only half of it applied met a failed write or a crash.
AppliedWhole ==
  \A i \in Ids :
    /\ row[i] = "approved" /\ asked[i].kind = "model"
    /\ None \notin {asked[i].model, asked[i].ladder}
    => /\ By(i, "fallbacks") # {} => By(i, "selected") # {}
       /\ Unharmed /\ cmd.id # i /\ By(i, "selected") # {} => By(i, "fallbacks") # {}

\* "a restart reloads the same ladder" (apply_model_config), as far as it is
\* so: of a ladder that is not empty.
LadderSurvives == AtPrompt /\ ladder # NoModels => ladder = BootLadder(log)

\* A secret's value is in one place: on its way into the pen, in the pen, in
\* the hands of the command that applies it, or applied. What loses it is a
\* failed write, a crash, or a client that goes away before its handler has put
\* it in the pen; an approval that comes before that finds none.
InHand(i) == cmd.id = i /\ cmd.pc \in {"open", "fill", "mark"}
Landed(i) == By(i, "secret") # {}
SecretIsAccountedFor ==
  \A i \in Secrets :
    LET places == {p \in {"putting", "pen", "hand", "landed"} :
                     \/ p = "putting" /\ i \in putting
                     \/ p = "pen" /\ i \in pen
                     \/ p = "hand" /\ InHand(i)
                     \/ p = "landed" /\ Landed(i)}
    IN /\ \A p, q \in places : p = q
       /\ Unharmed /\ i \notin dropped => places # {}
       /\ /\ Unharmed /\ row[i] = "approved" /\ i \notin late \cup dropped
          /\ secretsDir /\ cmd.id # i
          => Landed(i)

\* apply_secret_set: a value that is not in the pen "expired (the daemon
\* restarted since the web submitted it, or it was already consumed)"; a
\* proposal is approved once, so with no restart the value is there, but for a
\* handler that is about to put it there. The code contradicts it: a client that
\* hangs up takes the value with it (loadout.rs:735).
ExpiredMeansRestarted ==
  Unharmed /\ At("take") => cmd.id \in pen \cup putting

\* A persona is edited "with a timestamped backup next to the file it
\* replaces" (proposals.rs:9): whatever SOUL.md held is in a backup once the file
\* is opened for writing. The code contradicts it: a look for the file that fails
\* counts as no file (proposals.rs:434).
SoulHasBackup ==
  [][soul' # soul /\ soul \notin {None, Torn} => soul \in backups']_vars

\* It is so unless that look has failed: neither a copy
\* that fails nor a process that dies between the two costs the old text.
SoulIsBackedUp ==
  [][soul' # soul /\ soul \notin {None, Torn}
       => soul \in backups' \/ cmd.id \in unseen]_vars

=============================================================================
