--------------------------- MODULE DeviceRegistry ---------------------------
(***************************************************************************)
(* The primary's side of pairing and of the device registry                *)
(* (devices/routes.rs, primary.rs, pending.rs, state.rs).                  *)
(*                                                                         *)
(* A device spends a one-time code and leaves a request; the owner's calls *)
(* answer it, change what a device may do, or revoke it. The codes and     *)
(* requests (pending.json) change and are written under one mutex. The     *)
(* registry changes under a lock, but it is cloned and written to          *)
(* registry.json after that lock is gone, through a temporary file whose   *)
(* name every writer shares. Handlers run at the same time; any write may  *)
(* fail and the process may die between any two steps.                     *)
(*                                                                         *)
(* The rules of the registry itself (admit, update, revoke) are            *)
(* bastion_mesh's, modelled from how this code uses them: a device is      *)
(* admitted once, a revoked one is admitted and changed no more, and       *)
(* update takes only a revision newer than the one it holds.               *)
(***************************************************************************)
EXTENDS Naturals, FiniteSets

CONSTANTS
  Calls,        \* HTTP calls in flight at a time
  Devices,
  Codes,        \* pairing codes the primary may make
  Ids,          \* request ids
  None,
  Torn,         \* a file that does not parse
  MaxRevision,  \* bound: grant revisions of a device
  MaxBoots,     \* bound: starts after the first
  MaxFailures   \* bound: failed writes

Statuses == {"pending", "approved", "refused"}
Standings == {"unknown", "active", "revoked"}
Registries == [Devices -> [standing : Standings, revision : 0 .. MaxRevision]]

ASSUME DeviceRegistryAssumption ==
  /\ MaxRevision \in Nat /\ MaxBoots \in Nat /\ MaxFailures \in Nat
  /\ None \notin Codes \cup Ids \cup Devices \cup Statuses
  /\ Torn # None /\ {None, Torn} \cap Registries = {}

VARIABLES
  up,        \* the daemon runs with its registry loaded
  pending,   \* Pending: [codes, requests], in memory
  pendingFile,
  registry,  \* [Devices -> [standing, revision]], in memory
  file,      \* registry.json
  tmp,       \* .registry.json.tmp, None when there is none
  call,      \* [Calls -> the handler under way]
  expired,   \* codes older than PAIRING_TTL_SECS
  codeOf,    \* history: [Ids -> the code that was spent on the request]
  promised,  \* history: [Devices -> what the owner was answered]
  overlapped,  \* history: two handlers had a clone to write at once
  boots, failures

memory == <<up, pending, registry, call>>
disk == <<pendingFile, file, tmp>>
history == <<codeOf, promised, overlapped>>
vars == <<memory, disk, history, expired, boots, failures>>

NoRequest == [device |-> None, status |-> None]
Idle == [pc |-> "idle", device |-> None, id |-> None, code |-> None,
         revision |-> 0, snapshot |-> None, handle |-> None]

PendingOK(p) ==
  /\ p.codes \subseteq Codes
  /\ \A i \in Ids : \/ p.requests[i] = NoRequest
                    \/ /\ p.requests[i].device \in Devices
                       /\ p.requests[i].status \in Statuses

TypeOK ==
  /\ up \in BOOLEAN
  /\ PendingOK(pending) /\ PendingOK(pendingFile)
  /\ registry \in Registries
  /\ file \in Registries \cup {Torn}
  /\ tmp \in Registries \cup {Torn, None}
  /\ \A c \in Calls :
       /\ call[c].pc \in {"idle", "add", "admit", "status", "update", "clone",
                          "open", "fill", "rename", "notify"}
       /\ call[c].handle \in {None, "tmp", "file", "gone"}
  /\ expired \subseteq Codes
  /\ codeOf \in [Ids -> Codes \cup {None}]
  /\ boots \in 0 .. MaxBoots /\ failures \in 0 .. MaxFailures

\* One device and no code yet: what `bastion node init` and a start leave,
\* the primary's own record left out.
Init ==
  /\ up = TRUE
  /\ pending = [codes |-> {}, requests |-> [i \in Ids |-> NoRequest]]
  /\ pendingFile = pending
  /\ registry = [d \in Devices |-> [standing |-> "unknown", revision |-> 0]]
  /\ file = registry
  /\ tmp = None
  /\ call = [c \in Calls |-> Idle]
  /\ expired = {}
  /\ codeOf = [i \in Ids |-> None]
  /\ promised = [d \in Devices |-> [standing |-> "unknown", revision |-> 0]]
  /\ overlapped = FALSE
  /\ boots = 0 /\ failures = 0

(***************************************************************************)
(* Pending: memory changes first, then the whole file is written, all      *)
(* under the mutex                                                         *)
(***************************************************************************)
\* Pending::with. A failed write leaves memory ahead of the file.
With(p, written) ==
  /\ pending' = p
  /\ IF written THEN pendingFile' = p /\ UNCHANGED failures
     ELSE /\ failures < MaxFailures /\ failures' = failures + 1
          /\ UNCHANGED pendingFile

\* POST /devices/pairing-codes. Codes are random: never one made before.
NewCode(c) ==
  /\ up
  /\ c \notin pending.codes \cup pendingFile.codes \cup expired
  /\ \A i \in Ids : codeOf[i] # c
  /\ \A k \in Calls : call[k].code # c
  /\ \E written \in BOOLEAN :
       With([pending EXCEPT !.codes = (@ \ expired) \cup {c}], written)
  /\ UNCHANGED <<up, registry, call, file, tmp, history, expired, boots>>

\* The code's PAIRING_TTL_SECS pass.
Expire(c) ==
  /\ c \in pending.codes \cup pendingFile.codes
  /\ c \notin expired
  /\ expired' = expired \cup {c}
  /\ UNCHANGED <<memory, disk, history, boots, failures>>

\* Mutant: the code is looked up and left.
MutTakenFrom(p, c) == p

TakenFrom(p, c) == [p EXCEPT !.codes = @ \ {c}]

\* POST /devices/enroll, its first half: take_code, and the check of the key.
TakeCode(k, c, d) ==
  /\ up /\ call[k].pc = "idle"
  /\ c \in pending.codes
  /\ \E written, wellFormed \in BOOLEAN :
       /\ With(TakenFrom(pending, c), written)
       /\ call' = IF written /\ c \notin expired /\ wellFormed
                  THEN [call EXCEPT ![k] = [Idle EXCEPT !.pc = "add", !.code = c,
                                                        !.device = d]]
                  ELSE call
  /\ UNCHANGED <<up, registry, file, tmp, history, expired, boots>>

\* Its second half: add_request, and the id the device polls with.
AddRequest(k, i) ==
  /\ up /\ call[k].pc = "add"
  /\ codeOf[i] = None
  /\ \E written \in BOOLEAN :
       With([pending EXCEPT !.requests[i] =
               [device |-> call[k].device, status |-> "pending"]], written)
  /\ codeOf' = [codeOf EXCEPT ![i] = call[k].code]
  /\ call' = [call EXCEPT ![k] = Idle]
  /\ UNCHANGED <<up, registry, file, tmp, promised, overlapped, expired, boots>>

\* Mutant: any request takes an answer.
MutAnswered(p, i, answer) == [p EXCEPT !.requests[i].status = answer]

\* Pending::set_status: only a request that still waits takes an answer.
Answered(p, i, answer) ==
  IF p.requests[i].status = "pending"
  THEN [p EXCEPT !.requests[i].status = answer]
  ELSE p

\* POST /devices/requests/{id}/refuse: 204, whatever set_status did.
Refuse(i) ==
  /\ up
  /\ pending.requests[i] # NoRequest
  /\ \E written \in BOOLEAN : With(Answered(pending, i, "refused"), written)
  /\ UNCHANGED <<up, registry, call, file, tmp, history, expired, boots>>

(***************************************************************************)
(* The owner's calls on the registry                                       *)
(***************************************************************************)
Goto(k, pc) == call' = [call EXCEPT ![k].pc = pc]
Finish(k) == call' = [call EXCEPT ![k] = Idle]
KeepDisk == UNCHANGED <<disk, history, expired, boots, failures>>

\* POST .../approve: reads the request, whatever its status, and signs.
Approve(k, i) ==
  /\ up /\ call[k].pc = "idle"
  /\ pending.requests[i] # NoRequest
  /\ call' = [call EXCEPT ![k] = [Idle EXCEPT !.pc = "admit", !.id = i,
                                     !.device = pending.requests[i].device]]
  /\ UNCHANGED <<up, pending, registry>> /\ KeepDisk

\* DeviceRegistry::admit under the write lock.
Admit(k) ==
  LET d == call[k].device IN
  /\ call[k].pc = "admit"
  /\ \/ /\ registry[d].standing = "unknown"
        /\ registry' = [registry EXCEPT ![d].standing = "active"]
        /\ Goto(k, "status")
     \/ /\ registry[d].standing = "active"
        /\ UNCHANGED registry
        /\ Goto(k, "status") \/ Finish(k)
     \/ /\ registry[d].standing = "revoked"
        /\ UNCHANGED registry /\ Finish(k)
  /\ UNCHANGED <<up, pending>> /\ KeepDisk

\* The answer goes to pending.json before the device is in registry.json.
SetStatus(k) ==
  /\ call[k].pc = "status"
  /\ \E written \in BOOLEAN :
       /\ With(Answered(pending, call[k].id, "approved"), written)
       /\ IF written THEN Goto(k, "clone") ELSE Finish(k)
  /\ UNCHANGED <<up, registry, file, tmp, history, expired, boots>>

\* POST /devices/{id}/revoke: revoke under the write lock.
Revoke(k, d) ==
  /\ up /\ call[k].pc = "idle"
  /\ registry[d].standing # "unknown"
  /\ registry' = [registry EXCEPT ![d].standing = "revoked"]
  /\ call' = [call EXCEPT ![k] = [Idle EXCEPT !.pc = "clone", !.device = d]]
  /\ UNCHANGED <<up, pending>> /\ KeepDisk

\* PUT .../address and .../secrets: another field of the record changes under
\* the write lock, and the same registry_changed follows.
Amend(k, d) ==
  /\ up /\ call[k].pc = "idle"
  /\ registry[d].standing = "active"
  /\ call' = [call EXCEPT ![k] = [Idle EXCEPT !.pc = "clone"]]
  /\ UNCHANGED <<up, pending, registry>> /\ KeepDisk

\* PUT .../grants: reads the enrollment and signs its next revision ...
SetGrants(k, d) ==
  /\ up /\ call[k].pc = "idle"
  /\ registry[d].standing = "active" /\ registry[d].revision < MaxRevision
  /\ call' = [call EXCEPT ![k] = [Idle EXCEPT !.pc = "update", !.device = d,
                                     !.revision = registry[d].revision + 1]]
  /\ UNCHANGED <<up, pending, registry>> /\ KeepDisk

\* ... which DeviceRegistry::update takes if nothing newer came first.
Update(k) ==
  LET d == call[k].device IN
  /\ call[k].pc = "update"
  /\ IF registry[d].standing = "active" /\ call[k].revision > registry[d].revision
     THEN /\ registry' = [registry EXCEPT ![d].revision = call[k].revision]
          /\ Goto(k, "clone")
     ELSE UNCHANGED registry /\ Finish(k)
  /\ UNCHANGED <<up, pending>> /\ KeepDisk

(***************************************************************************)
(* registry_changed: clone, then DeviceState::write_json                   *)
(***************************************************************************)
Saving(k) == call[k].pc \in {"open", "fill", "rename"}

Clone(k) ==
  /\ call[k].pc = "clone"
  /\ call' = [call EXCEPT ![k].pc = "open", ![k].snapshot = registry]
  /\ overlapped' = (overlapped \/ \E j \in Calls : Saving(j))
  /\ UNCHANGED <<up, pending, registry, disk, codeOf, promised, expired, boots, failures>>

\* Mutant: the registry is written in place.
MutOpen(k) ==
  /\ call[k].pc = "open"
  /\ file' = Torn
  /\ call' = [call EXCEPT ![k].pc = "fill", ![k].handle = "file"]
  /\ UNCHANGED <<up, pending, registry, pendingFile, tmp, history, expired, boots, failures>>

\* fs::write creates or truncates the temporary file ...
Open(k) ==
  /\ call[k].pc = "open"
  /\ tmp' = Torn
  /\ call' = [call EXCEPT ![k].pc = "fill", ![k].handle = "tmp"]
  /\ UNCHANGED <<up, pending, registry, pendingFile, file, history, expired, boots, failures>>

\* ... and writes from its start into the file it opened, wherever that file
\* is by now. On top of another writer's text, the longer one shows through.
Over(old, new) == IF old = Torn THEN {new} ELSE {new, Torn}

Fill(k) ==
  /\ call[k].pc = "fill"
  /\ Goto(k, "rename")
  /\ IF call[k].handle = "tmp" THEN tmp' \in Over(tmp, call[k].snapshot)
                               ELSE UNCHANGED tmp
  /\ IF call[k].handle = "file" THEN file' \in Over(file, call[k].snapshot)
                                ELSE UNCHANGED file
  /\ UNCHANGED <<up, pending, registry, pendingFile, history, expired, boots, failures>>

\* After another rename, the files that writers hold open have moved.
Moved(handle) ==
  IF handle = "tmp" THEN "file" ELSE IF handle = "file" THEN "gone" ELSE handle

Rename(k) ==
  /\ call[k].pc = "rename" /\ tmp # None
  /\ file' = tmp
  /\ tmp' = None
  /\ call' = [j \in Calls |-> IF j = k THEN [call[k] EXCEPT !.pc = "notify"]
                              ELSE [call[j] EXCEPT !.handle = Moved(@)]]
  /\ UNCHANGED <<up, pending, registry, pendingFile, history, expired, boots, failures>>

\* Somebody else renamed it first: an error, and the handler answers 400.
RenameFails(k) ==
  /\ call[k].pc = "rename" /\ tmp = None
  /\ Finish(k)
  /\ UNCHANGED <<up, pending, registry>> /\ KeepDisk

\* The hub is told (push_registry, push_grants, notify_revoked) and the owner
\* answered. What the answer says of the device was in the clone.
Reply(k) ==
  LET d == call[k].device IN
  /\ call[k].pc = "notify"
  /\ Finish(k)
  /\ promised' = IF d = None THEN promised
                 ELSE [promised EXCEPT ![d] = call[k].snapshot[d]]
  /\ UNCHANGED <<up, pending, registry, disk, codeOf, overlapped, expired, boots, failures>>

\* A write to the disk fails: the handler returns, the change stays in memory.
SaveFails(k) ==
  /\ Saving(k) /\ failures < MaxFailures
  /\ failures' = failures + 1
  /\ Finish(k)
  /\ UNCHANGED <<up, pending, registry, disk, history, expired, boots>>

\* The client goes away while its handler waits for the registry's lock or
\* for the hub.
HangUp(k) ==
  /\ call[k].pc \in {"admit", "update", "clone", "notify"}
  /\ Finish(k)
  /\ UNCHANGED <<up, pending, registry>> /\ KeepDisk

\* The process dies, and PrimaryDevices::load reads the files again. A torn
\* registry.json ends the start.
Restart ==
  /\ boots < MaxBoots
  /\ boots' = boots + 1
  /\ call' = [k \in Calls |-> Idle]
  /\ pending' = pendingFile
  /\ up' = (file # Torn)
  /\ registry' = IF file = Torn THEN registry ELSE file
  /\ UNCHANGED <<disk, history, expired, failures>>

Next ==
  \/ \E c \in Codes : NewCode(c) \/ Expire(c)
  \/ \E i \in Ids : Refuse(i)
  \/ Restart
  \/ \E k \in Calls :
       \/ \E c \in Codes, d \in Devices : TakeCode(k, c, d)
       \/ \E i \in Ids : AddRequest(k, i) \/ Approve(k, i)
       \/ \E d \in Devices : Revoke(k, d) \/ Amend(k, d) \/ SetGrants(k, d)
       \/ Admit(k) \/ SetStatus(k) \/ Update(k)
       \/ Clone(k) \/ Open(k) \/ Fill(k) \/ Rename(k) \/ RenameFails(k)
       \/ Reply(k) \/ SaveFails(k) \/ HangUp(k)

Spec == Init /\ [][Next]_vars

(***************************************************************************)
(* Properties                                                              *)
(***************************************************************************)
\* pending.rs: "Each works once". Across failed writes, crashes and calls in
\* any order, no two requests were let in by one pairing code.
OneRequestPerCode ==
  \A i, j \in Ids : codeOf[i] # None /\ codeOf[i] = codeOf[j] => i = j

Rank(standing) ==
  IF standing = "unknown" THEN 0 ELSE IF standing = "active" THEN 1 ELSE 2

\* Let d be worth at least p: nothing p grants or takes is missing.
Holds(d, p) == Rank(d.standing) >= Rank(p.standing) /\ d.revision >= p.revision

\* What the owner was answered is in registry.json from then on, whatever
\* fails or dies later: a device admitted stays admitted, a revoked one
\* revoked, a grant set. As long as no two handlers had a clone to write at
\* once: registry_changed does not order them.
AckedIsDurable ==
  ~overlapped => /\ file # Torn
                 /\ \A d \in Devices : Holds(file[d], promised[d])

\* A device hears one answer: what pending.json says of a request, once it is
\* an answer, never changes, through restarts, late approvals and refusals.
AnswerStands ==
  [][\A i \in Ids : pendingFile.requests[i].status \in {"approved", "refused"}
       => pendingFile'.requests[i] = pendingFile.requests[i]]_vars

\* state.rs:118 says of write_json: "a crash never leaves half a registry". The
\* code contradicts it: all handlers fill and rename one temporary file.
NeverHalfARegistry == file # Torn

\* primary.rs:224 says of registry_changed: "Persist the registry after a change".
\* The code contradicts it: nothing orders the writes of two handlers' clones.
ChangesArePersisted ==
  file # Torn => \A d \in Devices : Holds(file[d], promised[d])

\* primary.rs:384 says of approve_request: "Admit a pending request the owner
\* approved". The code contradicts it: a request that was refused is admitted.
RefusedStaysOut ==
  \A d \in Devices : registry[d].standing = "active" =>
    \E i \in Ids :
      pending.requests[i].device = d /\ pending.requests[i].status # "refused"
=============================================================================
