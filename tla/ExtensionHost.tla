--------------------------- MODULE ExtensionHost ---------------------------
(***************************************************************************)
(* The extension host (extension/host.rs): which version of each extension *)
(* is installed, the capabilities it registered through its facade, the    *)
(* lockfile and the rollback history, and the table of installed           *)
(* extensions that a restart reloads (agent/extension_command.rs).         *)
(*                                                                         *)
(* A host method runs alone (&mut self) and activation awaits nothing, so  *)
(* each is one step; the store calls around install and revoke are steps   *)
(* of their own, and the process may die at each.                          *)
(*                                                                         *)
(* An activation registers the entries of the version in order and stops   *)
(* at the first one that is undeclared or already taken; a deactivation    *)
(* deregisters every entry of the version by name.                         *)
(***************************************************************************)
EXTENDS Naturals, Sequences

CONSTANTS
  Ids,         \* extension ids
  Versions,    \* versions a manifest of an id may have
  Caps,        \* capability names
  NoOne,       \* no extension, no version
  Entries,     \* [Ids -> [Versions -> Seq(Caps)]]: what it registers
  Declared,    \* [Ids -> [Versions -> SUBSET Caps]]: its permissions
  Needs,       \* [Ids -> [Versions -> SUBSET (Ids \X Versions)]]: versions
               \* of other extensions that its requires entries accept
  Ceiling,     \* capabilities the instance may grant
  MaxHistory,  \* bound: upgrades kept for rollback
  MaxFaults    \* bound: restarts and failed store calls

ASSUME ExtensionAssumption ==
  /\ NoOne \notin Ids /\ NoOne \notin Versions
  /\ Entries \in [Ids -> [Versions -> Seq(Caps)]]
  /\ Declared \in [Ids -> [Versions -> SUBSET Caps]]
  /\ Needs \in [Ids -> [Versions -> SUBSET (Ids \X Versions)]]
  /\ Ceiling \subseteq Caps
  /\ MaxHistory \in Nat /\ MaxFaults \in Nat

VARIABLES
  registry,   \* [Caps -> Ids \cup {NoOne}]: who registered the capability
  installed,  \* [Ids -> Versions \cup {NoOne}]
  held,       \* [Ids -> SUBSET Caps]: InstalledExtension.registered
  history,    \* [Ids -> Seq(Versions)]: rollback targets, newest last
  lock,       \* [Ids -> Versions \cup {NoOne}]: LoadoutLock
  store,      \* [Ids -> Versions \cup {NoOne}]: the persisted rows
  saving,     \* id whose row is still to be saved, or NoOne
  revoking,   \* id whose row is removed and whose revoke is to come
  ok,         \* the last host method succeeded
  broken,     \* history: a rollback failed since the process started
  gone,       \* history: ids whose last confirmed call was a revoke
  faults

host == <<registry, installed, held, history, lock>>
vars == <<host, store, saving, revoking, ok, broken, gone, faults>>

Installed == {i \in Ids : installed[i] # NoOne}

TypeOK ==
  /\ registry \in [Caps -> Ids \cup {NoOne}]
  /\ installed \in [Ids -> Versions \cup {NoOne}]
  /\ held \in [Ids -> SUBSET Caps]
  /\ history \in [Ids -> Seq(Versions)]
  /\ lock \in [Ids -> Versions \cup {NoOne}]
  /\ store \in [Ids -> Versions \cup {NoOne}]
  /\ {saving, revoking} \subseteq Installed \cup {NoOne}
  /\ ok \in BOOLEAN
  /\ broken \in BOOLEAN
  /\ gone \subseteq Ids
  /\ faults \in Nat

Init ==
  /\ registry = [c \in Caps |-> NoOne]
  /\ installed = [i \in Ids |-> NoOne]
  /\ held = [i \in Ids |-> {}]
  /\ history = [i \in Ids |-> <<>>]
  /\ lock = [i \in Ids |-> NoOne]
  /\ store = [i \in Ids |-> NoOne]
  /\ saving = NoOne
  /\ revoking = NoOne
  /\ ok = TRUE
  /\ broken = FALSE
  /\ gone = {}
  /\ faults = 0

----------------------------------------------------------------------------
(* The facade: what activation and deactivation do to a registry.          *)

Names(i, v) == {Entries[i][v][k] : k \in DOMAIN Entries[i][v]}

\* register_capability accepts the k-th entry.
Registers(reg, i, v, k) ==
  LET name == Entries[i][v][k]
  IN /\ name \in Declared[i][v]
     /\ reg[name] = NoOne
     /\ \A j \in 1 .. k - 1 : Entries[i][v][j] # name

\* The names registered before activation succeeds or stops.
Registered(reg, i, v) ==
  {Entries[i][v][k] : k \in {n \in DOMAIN Entries[i][v] :
                               \A j \in 1 .. n : Registers(reg, i, v, j)}}

Activates(reg, i, v) ==
  \A k \in DOMAIN Entries[i][v] : Registers(reg, i, v, k)

With(reg, names, i) == [c \in Caps |-> IF c \in names THEN i ELSE reg[c]]
Without(reg, names) == [c \in Caps |-> IF c \in names THEN NoOne ELSE reg[c]]

Activated(reg, i, v) == With(reg, Registered(reg, i, v), i)

\* The installed version is deactivated, then what it had registered goes.
Removed(reg, i) == Without(reg, Names(i, installed[i]) \cup held[i])

\* Mutant: what a failed activation did register stays.
MutFailed(reg, i, v) == Activated(reg, i, v)

\* The cleanup after an activation that failed.
Failed(reg, i, v) ==
  Without(Activated(reg, i, v), Registered(reg, i, v))

\* validate_self_consistent and is_subset_of(instance_ceiling).
Permitted(i, v) == Declared[i][v] \subseteq Ceiling

----------------------------------------------------------------------------
(* The host's methods.                                                     *)

InstallHost(i, v) ==
  IF installed[i] = NoOne /\ Permitted(i, v) /\ Activates(registry, i, v)
  THEN /\ registry' = Activated(registry, i, v)
       /\ installed' = [installed EXCEPT ![i] = v]
       /\ held' = [held EXCEPT ![i] = Registered(registry, i, v)]
       /\ lock' = [lock EXCEPT ![i] = v]
       /\ ok' = TRUE
       /\ UNCHANGED history
  ELSE /\ registry' = IF installed[i] = NoOne /\ Permitted(i, v)
                      THEN Failed(registry, i, v) ELSE registry
       /\ ok' = FALSE
       /\ UNCHANGED <<installed, held, history, lock>>

\* Some other installed extension accepts other versions of i but not v.
Breaks(i, v) ==
  \E j \in Installed \ {i} :
    LET accepted == {need[2] : need \in {n \in Needs[j][installed[j]] :
                                           n[1] = i}}
    IN accepted # {} /\ v \notin accepted

\* Mutant: a failed upgrade leaves the old version deactivated.
MutRestored(reg, i) == reg

\* The old version is activated again after a failed upgrade.
Restored(reg, i) == Activated(reg, i, installed[i])

Upgrade(i, v) ==
  /\ Len(history[i]) < MaxHistory
  /\ IF i \notin Installed \/ Breaks(i, v) \/ ~Permitted(i, v)
     THEN /\ ok' = FALSE
          /\ UNCHANGED host
     ELSE LET reg == Removed(registry, i)
              back == Failed(reg, i, v)
          IN IF Activates(reg, i, v)
             THEN /\ registry' = Activated(reg, i, v)
                  /\ installed' = [installed EXCEPT ![i] = v]
                  /\ held' = [held EXCEPT ![i] = Registered(reg, i, v)]
                  /\ history' = [history EXCEPT ![i] =
                                   Append(@, installed[i])]
                  /\ lock' = [lock EXCEPT ![i] = v]
                  /\ ok' = TRUE
             ELSE /\ registry' = Restored(back, i)
                  /\ held' = [held EXCEPT
                                ![i] = Registered(back, i, installed[i])]
                  /\ ok' = FALSE
                  /\ UNCHANGED <<installed, history, lock>>
  /\ UNCHANGED <<store, saving, revoking, broken, gone, faults>>

\* rollback returns the error of the target's activation as it is: the old
\* version is gone by then, and so is the target from the history.
Rollback(i) ==
  /\ history[i] # <<>>
  /\ LET target == history[i][Len(history[i])]
         reg == IF i \in Installed THEN Removed(registry, i) ELSE registry
     IN /\ registry' = Activated(reg, i, target)
        /\ history' = [history EXCEPT ![i] = SubSeq(@, 1, Len(@) - 1)]
        /\ IF Activates(reg, i, target)
           THEN /\ installed' = [installed EXCEPT ![i] = target]
                /\ held' = [held EXCEPT ![i] = Registered(reg, i, target)]
                /\ lock' = [lock EXCEPT ![i] = target]
                /\ ok' = TRUE
                /\ UNCHANGED broken
           ELSE /\ installed' = [installed EXCEPT ![i] = NoOne]
                /\ held' = [held EXCEPT ![i] = {}]
                /\ ok' = FALSE
                /\ broken' = TRUE
                /\ UNCHANGED lock
  /\ UNCHANGED <<store, saving, revoking, gone, faults>>

RevokeHost(i) ==
  IF i \in Installed
  THEN /\ registry' = Removed(registry, i)
       /\ installed' = [installed EXCEPT ![i] = NoOne]
       /\ held' = [held EXCEPT ![i] = {}]
       /\ history' = [history EXCEPT ![i] = <<>>]
       /\ lock' = [lock EXCEPT ![i] = NoOne]
       /\ ok' = TRUE
  ELSE ok' = FALSE /\ UNCHANGED host

----------------------------------------------------------------------------
(* /extension install and revoke, and the reload at boot.                  *)

\* The cockpit runs one command to its end before it reads the next.
Idle == saving = NoOne /\ revoking = NoOne

Install(i, v) ==
  /\ Idle
  /\ InstallHost(i, v)
  /\ saving' = IF ok' THEN i ELSE NoOne
  /\ gone' = IF ok' THEN gone \ {i} ELSE gone
  /\ UNCHANGED <<store, revoking, broken, faults>>

\* persist_or_warn: a failed save is only reported.
Save ==
  /\ saving # NoOne
  /\ saving' = NoOne
  /\ \/ /\ store' = [store EXCEPT ![saving] = installed[saving]]
        /\ UNCHANGED faults
     \/ /\ faults < MaxFaults
        /\ faults' = faults + 1
        /\ UNCHANGED store
  /\ UNCHANGED <<host, revoking, ok, broken, gone>>

\* Mutant: the row goes only after the extension is revoked in memory.
MutRemoveRow(i) ==
  /\ Idle
  /\ i \in Installed
  /\ RevokeHost(i)
  /\ \/ store' = [store EXCEPT ![i] = NoOne] /\ UNCHANGED faults
     \/ faults < MaxFaults /\ faults' = faults + 1 /\ UNCHANGED store
  /\ gone' = gone \cup {i}
  /\ UNCHANGED <<saving, revoking, broken>>

\* The confirmed revoke removes the row first; if that fails it stops.
RemoveRow(i) ==
  /\ Idle
  /\ i \in Installed
  /\ \/ /\ store' = [store EXCEPT ![i] = NoOne]
        /\ revoking' = i
        /\ UNCHANGED faults
     \/ /\ faults < MaxFaults
        /\ faults' = faults + 1
        /\ UNCHANGED <<store, revoking>>
  /\ UNCHANGED <<host, saving, ok, broken, gone>>

Revoke ==
  /\ revoking # NoOne
  /\ RevokeHost(revoking)
  /\ gone' = IF ok' THEN gone \cup {revoking} ELSE gone
  /\ revoking' = NoOne
  /\ UNCHANGED <<store, saving, broken, faults>>

\* The rows whose extension a reload in some order activates, each under the
\* host the ones before it left.
Reloaded(keep) ==
  /\ registry' = [c \in Caps |->
       IF \E i \in keep : c \in Names(i, store[i])
       THEN CHOOSE i \in keep : c \in Names(i, store[i]) ELSE NoOne]
  /\ installed' = [i \in Ids |-> IF i \in keep THEN store[i] ELSE NoOne]
  /\ held' = [i \in Ids |-> IF i \in keep THEN Names(i, store[i]) ELSE {}]
  /\ lock' = [i \in Ids |-> IF i \in keep THEN store[i] ELSE NoOne]
  /\ history' = [i \in Ids |-> <<>>]

Disjoint(keep) ==
  \A i, j \in keep : i # j => Names(i, store[i]) \cap Names(j, store[j]) = {}

Rows == {i \in Ids : store[i] # NoOne}

\* The process dies and starts again: reload_persisted installs every row,
\* and skips one that collides with those before it; if the table cannot be
\* read it installs none.
Restart ==
  /\ faults < MaxFaults
  /\ faults' = faults + 1
  /\ \E keep \in SUBSET Rows :
       /\ Disjoint(keep)
       /\ \/ \A i \in Rows \ keep : ~Disjoint(keep \cup {i})
          \/ keep = {}
       /\ Reloaded(keep)
  /\ saving' = NoOne
  /\ revoking' = NoOne
  /\ ok' = TRUE
  /\ broken' = FALSE
  /\ UNCHANGED <<store, gone>>

Next ==
  \/ \E i \in Ids, v \in Versions : Install(i, v) \/ (Idle /\ Upgrade(i, v))
  \/ \E i \in Ids : RemoveRow(i) \/ (Idle /\ Rollback(i))
  \/ Save
  \/ Revoke
  \/ Restart

Spec == Init /\ [][Next]_vars

----------------------------------------------------------------------------
\* "Zero orphan" (host.rs, acceptance criterion 2): the registry, the
\* installed map and the lockfile tell the same story after any sequence of
\* calls, successful or not: a capability is registered by an extension
\* exactly if the installed version of it has it.  A failed rollback is the
\* exception (broken).
ZeroOrphan ==
  ~broken =>
    /\ \A c \in Caps, i \in Ids :
         registry[c] = i <=> i \in Installed /\ c \in Names(i, installed[i])
    /\ \A i \in Ids : lock[i] = installed[i]
    /\ \A i \in Ids : history[i] # <<>> => i \in Installed

\* "A failed install/upgrade leaves the registry and installed map EXACTLY
\* as they were before the call": also an upgrade that has already taken the
\* old version out when the new one collides half-way.  Only a rollback,
\* which has taken its target off the history, may fail otherwise.
AllOrNothing ==
  [][~ok' => \/ UNCHANGED host
             \/ \E i \in Ids : Len(history'[i]) < Len(history[i])]_vars

\* An extension whose revoke was confirmed does not come back, whatever
\* store call fails and whenever the process restarts: revoke_commit clears
\* the row before it deactivates anything ("Fail-closed ordering").
NoComeback ==
  \A i \in gone : i \notin Installed /\ store[i] = NoOne

\* host.rs:5: "Every state-changing method here is all-or-nothing".  The code
\* contradicts it: a rollback whose target does not activate (host.rs:408).
EveryMethodIsAllOrNothing == [][~ok' => UNCHANGED host]_vars

=============================================================================
