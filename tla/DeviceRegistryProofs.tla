------------------------ MODULE DeviceRegistryProofs ------------------------
(***************************************************************************)
(* Proofs about DeviceRegistry, for every number of handlers, devices,     *)
(* codes, requests, failed writes and restarts.                            *)
(***************************************************************************)
EXTENDS DeviceRegistry, TLAPS

Requests == [device : Devices \cup {None}, status : Statuses \cup {None}]
Pendings == [codes : SUBSET Codes, requests : [Ids -> Requests]]
Pcs == {"idle", "add", "admit", "status", "update", "clone", "open", "fill",
        "rename", "notify"}
Handlers == [pc : Pcs, device : Devices \cup {None}, id : Ids \cup {None},
             code : Codes \cup {None}, revision : 0 .. MaxRevision,
             snapshot : Registries \cup {None},
             handle : {None, "tmp", "file", "gone"}]

PendingType ==
  /\ pending \in Pendings /\ pendingFile \in Pendings
  /\ PendingOK(pending) /\ PendingOK(pendingFile)

\* What a handler holds at each of its steps.
HandlerOK(h) ==
  /\ h \in Handlers
  /\ h.pc \in {"admit", "status"} => h.id \in Ids
  /\ h.pc \in {"add", "admit", "status", "update"} => h.device \in Devices
  /\ h.pc \in {"open", "fill", "rename", "notify"} => h.snapshot \in Registries

CallType == call \in [Calls -> Handlers] /\ \A k \in Calls : HandlerOK(call[k])

DiskType ==
  /\ registry \in Registries
  /\ file \in Registries \cup {Torn}
  /\ tmp \in Registries \cup {Torn, None}
  /\ up \in BOOLEAN
RestType ==
  /\ expired \subseteq Codes
  /\ codeOf \in [Ids -> Codes \cup {None}]
  /\ promised \in Registries
  /\ overlapped \in BOOLEAN
  /\ boots \in 0 .. MaxBoots /\ failures \in 0 .. MaxFailures
Types == PendingType /\ CallType /\ DiskType /\ RestType

Held(c) == c \in pending.codes \/ c \in pendingFile.codes

\* A code that is being spent, or was, is in neither copy of pending.json and
\* with no other handler; an id that was never used has no request.
CodeInv ==
  /\ \A i \in Ids : codeOf[i] # None => ~Held(codeOf[i])
  /\ \A k \in Calls : call[k].code # None =>
       /\ ~Held(call[k].code)
       /\ \A i \in Ids : codeOf[i] # call[k].code
       /\ \A j \in Calls : call[j].code = call[k].code => j = k
  /\ \A k \in Calls : call[k].pc = "add" => call[k].code # None
  /\ OneRequestPerCode

\* Memory never falls behind the file.
AnswerInv ==
  \A i \in Ids :
    /\ codeOf[i] = None => /\ pending.requests[i] = NoRequest
                           /\ pendingFile.requests[i] = NoRequest
    /\ pendingFile.requests[i].status \in {"approved", "refused"} =>
         pending.requests[i] = pendingFile.requests[i]

AllHold(r, s) == \A d \in Devices : Holds(r[d], s[d])

\* While handlers have saved one at a time, promises, file, the snapshot being
\* saved and memory are in the order in which they came about.
SavingInv ==
  ~overlapped =>
    /\ \A j, k \in Calls : Saving(j) /\ Saving(k) => j = k
    /\ file # Torn
    /\ AllHold(file, promised)
    /\ AllHold(registry, file)
    /\ \A k \in Calls :
         /\ Saving(k) => /\ AllHold(call[k].snapshot, file)
                         /\ AllHold(registry, call[k].snapshot)
         /\ call[k].pc = "fill" => call[k].handle = "tmp" /\ tmp = Torn
         /\ call[k].pc = "rename" => tmp = call[k].snapshot
         /\ call[k].pc = "notify" => AllHold(file, call[k].snapshot)

DeviceInv == Types /\ CodeInv /\ AnswerInv /\ SavingInv

----------------------------------------------------------------------------
(* What the steps are made of.                                             *)

LEMMA IdleType == HandlerOK(Idle)
PROOF
  BY DeviceRegistryAssumption DEF Idle, HandlerOK, Handlers, Pcs

\* A call becomes h, the others stay.
LEMMA CallBecomes ==
  ASSUME CallType, NEW k \in Calls, NEW h, HandlerOK(h),
         call' = [call EXCEPT ![k] = h]
  PROVE  CallType' /\ call'[k] = h /\ \A j \in Calls : j # k => call'[j] = call[j]
PROOF
  BY DEF CallType, HandlerOK

LEMMA FinishStep ==
  ASSUME CallType, NEW k \in Calls, Finish(k)
  PROVE  CallType' /\ call'[k] = Idle /\ \A j \in Calls : j # k => call'[j] = call[j]
PROOF
  BY IdleType, CallBecomes DEF Finish

LEMMA GotoStep ==
  ASSUME CallType, NEW k \in Calls, NEW p \in Pcs, Goto(k, p),
         p \in {"admit", "status"} => call[k].id \in Ids,
         p \in {"add", "admit", "status", "update"} => call[k].device \in Devices,
         p \in {"open", "fill", "rename", "notify"} => call[k].snapshot \in Registries
  PROVE  /\ CallType' /\ call'[k] = [call[k] EXCEPT !.pc = p]
         /\ \A j \in Calls : j # k => call'[j] = call[j]
PROOF
<1> DEFINE h == [call[k] EXCEPT !.pc = p]
<1>1. call' = [call EXCEPT ![k] = h]
  BY DEF Goto, CallType
<1>2. HandlerOK(h)
  BY DEF CallType, HandlerOK, Handlers
<1> HIDE DEF h
<1>3. CallType' /\ call'[k] = h /\ \A j \in Calls : j # k => call'[j] = call[j]
  BY <1>1, <1>2, CallBecomes
<1> QED BY <1>3 DEF h

\* Every step leaves the handlers their types.
LEMMA CallTypeStep ==
  ASSUME Types, AnswerInv, Next
  PROVE  CallType'
PROOF
<1> USE DEF Types
<1>1. CASE UNCHANGED call
  BY <1>1 DEF CallType, HandlerOK
<1>2. ASSUME NEW k \in Calls, NEW c \in Codes, NEW d \in Devices, TakeCode(k, c, d)
      PROVE  CallType'
  <2> DEFINE h == [Idle EXCEPT !.pc = "add", !.code = c, !.device = d]
  <2>1. HandlerOK(h)
    BY IdleType DEF HandlerOK, Handlers, Pcs
  <2>2. call' = call \/ call' = [call EXCEPT ![k] = h]
    BY <1>2, Zenon DEF TakeCode
  <2> QED BY <1>1, <2>1, <2>2, CallBecomes
<1>3. ASSUME NEW k \in Calls, NEW i \in Ids, Approve(k, i) PROVE CallType'
  <2> DEFINE h == [Idle EXCEPT !.pc = "admit", !.id = i,
                               !.device = pending.requests[i].device]
  <2>1. pending.requests[i].device \in Devices
    BY <1>3 DEF Approve, PendingType, PendingOK
  <2>2. HandlerOK(h)
    BY <2>1, IdleType DEF HandlerOK, Handlers, Pcs
  <2>3. call' = [call EXCEPT ![k] = h]
    BY <1>3 DEF Approve
  <2> QED BY <2>2, <2>3, CallBecomes
<1>4. ASSUME NEW k \in Calls, NEW d \in Devices, Revoke(k, d) PROVE CallType'
  <2> DEFINE h == [Idle EXCEPT !.pc = "clone", !.device = d]
  <2>1. HandlerOK(h)
    BY IdleType DEF HandlerOK, Handlers, Pcs
  <2>2. call' = [call EXCEPT ![k] = h]
    BY <1>4 DEF Revoke
  <2> QED BY <2>1, <2>2, CallBecomes
<1>5. ASSUME NEW k \in Calls, NEW d \in Devices, Amend(k, d) PROVE CallType'
  <2> DEFINE h == [Idle EXCEPT !.pc = "clone"]
  <2>1. HandlerOK(h)
    BY IdleType DEF HandlerOK, Handlers, Pcs
  <2>2. call' = [call EXCEPT ![k] = h]
    BY <1>5 DEF Amend
  <2> QED BY <2>1, <2>2, CallBecomes
<1>6. ASSUME NEW k \in Calls, NEW d \in Devices, SetGrants(k, d) PROVE CallType'
  <2> DEFINE h == [Idle EXCEPT !.pc = "update", !.device = d,
                               !.revision = registry[d].revision + 1]
  <2>1. registry[d].revision + 1 \in 0 .. MaxRevision
    BY <1>6, DeviceRegistryAssumption DEF SetGrants, DiskType, Registries
  <2>2. HandlerOK(h)
    BY <2>1, IdleType DEF HandlerOK, Handlers, Pcs
  <2>3. call' = [call EXCEPT ![k] = h]
    BY <1>6 DEF SetGrants
  <2> QED BY <2>2, <2>3, CallBecomes
<1>7. ASSUME NEW k \in Calls, Finish(k) PROVE CallType'
  BY <1>7, FinishStep
<1>8. ASSUME NEW k \in Calls, Admit(k) PROVE CallType'
  <2>1. Goto(k, "status") \/ Finish(k)
    BY <1>8 DEF Admit
  <2> QED BY <1>8, <2>1, GotoStep, FinishStep DEF Admit, CallType, HandlerOK, Pcs
<1>9. ASSUME NEW k \in Calls, SetStatus(k) PROVE CallType'
  <2>1. Goto(k, "clone") \/ Finish(k)
    BY <1>9 DEF SetStatus
  <2> QED BY <2>1, GotoStep, FinishStep DEF Pcs
<1>10. ASSUME NEW k \in Calls, Update(k) PROVE CallType'
  <2>1. Goto(k, "clone") \/ Finish(k)
    BY <1>10 DEF Update
  <2> QED BY <2>1, GotoStep, FinishStep DEF Pcs
<1>11. ASSUME NEW k \in Calls, Clone(k) PROVE CallType'
  <2> DEFINE h == [call[k] EXCEPT !.pc = "open", !.snapshot = registry]
  <2>1. call' = [call EXCEPT ![k] = h]
    BY <1>11 DEF Clone, CallType
  <2>2. HandlerOK(h)
    BY <1>11 DEF CallType, HandlerOK, Handlers, Pcs, DiskType
  <2> QED BY <2>1, <2>2, CallBecomes
<1>12. ASSUME NEW k \in Calls, Open(k) PROVE CallType'
  <2> DEFINE h == [call[k] EXCEPT !.pc = "fill", !.handle = "tmp"]
  <2>1. call' = [call EXCEPT ![k] = h]
    BY <1>12 DEF Open, CallType
  <2>2. HandlerOK(h)
    BY <1>12 DEF Open, CallType, HandlerOK, Handlers, Pcs
  <2> QED BY <2>1, <2>2, CallBecomes
<1>13. ASSUME NEW k \in Calls, Fill(k) PROVE CallType'
  BY <1>13, GotoStep DEF Fill, CallType, HandlerOK, Pcs
<1>14. ASSUME NEW k \in Calls, Rename(k) PROVE CallType'
  <2>1. /\ call' = [j \in Calls |-> IF j = k THEN [call[k] EXCEPT !.pc = "notify"]
                                 ELSE [call[j] EXCEPT !.handle = Moved(@)]]
        /\ call[k].pc = "rename"
    BY <1>14 DEF Rename
  <2>2. HandlerOK([call[k] EXCEPT !.pc = "notify"])
    BY <2>1 DEF CallType, HandlerOK, Handlers, Pcs
  <2>3. ASSUME NEW j \in Calls
        PROVE  HandlerOK([call[j] EXCEPT !.handle = Moved(call[j].handle)])
    BY DEF CallType, HandlerOK, Handlers, Pcs, Moved
  <2>4. \A j \in Calls : HandlerOK(call'[j])
    BY <2>1, <2>2, <2>3
  <2> QED BY <2>1, <2>4 DEF CallType, HandlerOK
<1>15. CASE Restart
  BY <1>15, IdleType DEF Restart, CallType, HandlerOK
<1>16. ASSUME NEW k \in Calls, NEW i \in Ids, AddRequest(k, i) PROVE CallType'
  BY <1>16, <1>7 DEF AddRequest, Finish
<1>17. ASSUME NEW k \in Calls,
              RenameFails(k) \/ Reply(k) \/ SaveFails(k) \/ HangUp(k)
       PROVE  CallType'
  BY <1>17, <1>7 DEF RenameFails, Reply, SaveFails, HangUp
<1>18. ASSUME (\E c \in Codes : NewCode(c) \/ Expire(c)) \/ \E i \in Ids : Refuse(i)
       PROVE  CallType'
  BY <1>18, <1>1 DEF NewCode, Expire, Refuse, memory
<1> QED BY <1>2, <1>3, <1>4, <1>5, <1>6, <1>8, <1>9, <1>10, <1>11, <1>12,
       <1>13, <1>14, <1>15, <1>16, <1>17, <1>18 DEF Next

\* Pending::with, whether or not the file could be written.
LEMMA WithStep ==
  ASSUME NEW p, NEW written \in BOOLEAN, With(p, written)
  PROVE  pending' = p /\ pendingFile' \in {p, pendingFile}
PROOF
  BY DEF With

LEMMA AnsweredType ==
  ASSUME NEW p \in Pendings, PendingOK(p), NEW i \in Ids,
         NEW answer \in {"approved", "refused"}
  PROVE  /\ Answered(p, i, answer) \in Pendings
         /\ PendingOK(Answered(p, i, answer))
         /\ Answered(p, i, answer).codes = p.codes
         /\ \A j \in Ids : p.requests[j].status # "pending" =>
                Answered(p, i, answer).requests[j] = p.requests[j]
PROOF
<1>1. CASE p.requests[i].status # "pending"
  BY <1>1 DEF Answered
<1>2. CASE p.requests[i].status = "pending"
  <2> DEFINE r == [p.requests[i] EXCEPT !.status = answer]
             q == [p EXCEPT !.requests = [p.requests EXCEPT ![i] = r]]
  <2>1. Answered(p, i, answer) = q
    BY <1>2 DEF Answered, Pendings, Requests
  <2>2. r \in Requests /\ r.device = p.requests[i].device /\ r.status = answer
    BY DEF Requests, Pendings, Statuses
  <2>3. p.requests[i] # NoRequest
    BY <1>2, DeviceRegistryAssumption DEF NoRequest, Statuses
  <2> HIDE DEF r
  <2>4. q \in Pendings /\ q.codes = p.codes /\ q.requests[i] = r
    BY <2>2 DEF Pendings
  <2>5. \A j \in Ids : j # i => q.requests[j] = p.requests[j]
    BY DEF Pendings
  <2> HIDE DEF q
  <2>6. PendingOK(q)
    BY <2>2, <2>3, <2>4, <2>5 DEF PendingOK, Statuses
  <2> QED BY <1>2, <2>1, <2>4, <2>5, <2>6
<1> QED BY <1>1, <1>2

\* A request is added.
LEMMA AddedType ==
  ASSUME NEW p \in Pendings, PendingOK(p), NEW i \in Ids, NEW d \in Devices
  PROVE  LET q == [p EXCEPT !.requests[i] = [device |-> d, status |-> "pending"]]
         IN  /\ q \in Pendings /\ PendingOK(q) /\ q.codes = p.codes
             /\ q.requests[i] = [device |-> d, status |-> "pending"]
             /\ \A j \in Ids : j # i => q.requests[j] = p.requests[j]
PROOF
<1> DEFINE r == [device |-> d, status |-> "pending"]
           q == [p EXCEPT !.requests = [p.requests EXCEPT ![i] = r]]
<1>1. [p EXCEPT !.requests[i] = r] = q
  BY DEF Pendings
<1>2. r \in Requests /\ r.device = d /\ r.status = "pending"
  BY DEF Requests, Statuses
<1> HIDE DEF r
<1>3. q \in Pendings /\ q.codes = p.codes /\ q.requests[i] = r
  BY <1>2 DEF Pendings
<1>4. \A j \in Ids : j # i => q.requests[j] = p.requests[j]
  BY DEF Pendings
<1> HIDE DEF q
<1>5. PendingOK(q)
  BY <1>2, <1>3, <1>4 DEF PendingOK, Statuses
<1>6. QED
  BY <1>1, <1>3, <1>4, <1>5 DEF r

\* The codes and requests, in memory and in the file, keep their types; a code
\* that is in neither comes into one only if it is new.
LEMMA PendingStep ==
  ASSUME Types, Next
  PROVE  PendingType'
PROOF
<1> USE DEF Types, PendingType
<1>1. CASE UNCHANGED <<pending, pendingFile>>
  BY <1>1 DEF PendingOK
<1>2. ASSUME NEW p \in Pendings, PendingOK(p), NEW written \in BOOLEAN, With(p, written)
      PROVE  PendingType'
  <2>1. pending' = p /\ pendingFile' \in {p, pendingFile}
    BY <1>2, WithStep
  <2> QED BY <1>2, <2>1 DEF PendingOK
<1>3. ASSUME NEW c \in Codes, NewCode(c) PROVE PendingType'
  <2> DEFINE p == [pending EXCEPT !.codes = (@ \ expired) \cup {c}]
  <2>1. p \in Pendings /\ p.requests = pending.requests
    BY DEF Pendings
  <2>2. PendingOK(p)
    BY <2>1 DEF PendingOK, Pendings
  <2>3. \E written \in BOOLEAN : With(p, written)
    BY <1>3 DEF NewCode
  <2> QED BY <1>2, <2>1, <2>2, <2>3
<1>4. ASSUME NEW i \in Ids, Refuse(i) PROVE PendingType'
  BY <1>2, <1>4, AnsweredType DEF Refuse
<1>5. ASSUME NEW k \in Calls, NEW c \in Codes, NEW d \in Devices, TakeCode(k, c, d)
      PROVE  PendingType'
  <2>1. /\ TakenFrom(pending, c) \in Pendings
        /\ TakenFrom(pending, c).requests = pending.requests
    BY DEF TakenFrom, Pendings
  <2>2. PendingOK(TakenFrom(pending, c))
    BY <2>1 DEF PendingOK, Pendings
  <2> QED BY <1>2, <1>5, <2>1, <2>2 DEF TakeCode
<1>6. ASSUME NEW k \in Calls, NEW i \in Ids, AddRequest(k, i) PROVE PendingType'
  <2>1. call[k].device \in Devices
    BY <1>6 DEF AddRequest, CallType, HandlerOK
  <2> QED BY <1>2, <1>6, <2>1, AddedType DEF AddRequest
<1>7. ASSUME NEW k \in Calls, SetStatus(k) PROVE PendingType'
  <2>1. call[k].id \in Ids
    BY <1>7 DEF SetStatus, CallType, HandlerOK
  <2> QED BY <1>2, <1>7, <2>1, AnsweredType DEF SetStatus
<1>8. CASE Restart
  BY <1>8 DEF Restart, disk, PendingOK
<1> QED BY <1>1, <1>3, <1>4, <1>5, <1>6, <1>7, <1>8
    DEF Next, memory, disk, KeepDisk, Expire, Approve, Revoke, Amend, SetGrants,
        Admit, Update, Clone, Open, Fill, Rename, RenameFails, Reply, SaveFails,
        HangUp

\* Memory only ever comes to hold more than it did, but at a restart.
LEMMA RegistryGrows ==
  ASSUME Types, Next, ~Restart
  PROVE  registry' \in Registries /\ AllHold(registry', registry)
PROOF
<1> USE DeviceRegistryAssumption
    DEF Types, DiskType, Registries, Standings, AllHold, Holds, Rank
<1>1. CASE UNCHANGED registry
  BY <1>1
<1>2. ASSUME NEW k \in Calls, Admit(k)
      PROVE  registry' \in Registries /\ AllHold(registry', registry)
  <2> DEFINE d == call[k].device
             r == [registry[d] EXCEPT !.standing = "active"]
  <2>1. d \in Devices
    BY <1>2 DEF Admit, CallType, HandlerOK
  <2>2. CASE registry' = [registry EXCEPT ![d] = r] /\ registry[d].standing = "unknown"
    BY <2>1, <2>2
  <2>3. UNCHANGED registry \/ (registry' = [registry EXCEPT ![d] = r] /\ registry[d].standing = "unknown")
    BY <1>2, <2>1 DEF Admit
  <2> QED BY <1>1, <2>2, <2>3
<1>3. ASSUME NEW k \in Calls, NEW d \in Devices, Revoke(k, d)
      PROVE  registry' \in Registries /\ AllHold(registry', registry)
  BY <1>3 DEF Revoke
<1>4. ASSUME NEW k \in Calls, Update(k)
      PROVE  registry' \in Registries /\ AllHold(registry', registry)
  <2> DEFINE d == call[k].device
             n == call[k].revision
             r == [registry[d] EXCEPT !.revision = n]
  <2>1. d \in Devices /\ n \in 0 .. MaxRevision
    BY <1>4 DEF Update, CallType, HandlerOK, Handlers
  <2>2. CASE registry' = [registry EXCEPT ![d] = r] /\ n > registry[d].revision
    BY <2>1, <2>2
  <2>3. UNCHANGED registry \/ (registry' = [registry EXCEPT ![d] = r] /\ n > registry[d].revision)
    BY <1>4, <2>1 DEF Update
  <2> QED BY <1>1, <2>2, <2>3
<1> QED BY <1>1, <1>2, <1>3, <1>4
    DEF Next, memory, NewCode, Expire, Refuse, TakeCode, AddRequest, Approve,
        Amend, SetGrants, SetStatus, Clone, Open, Fill, Rename, RenameFails,
        Reply, SaveFails, HangUp

\* The registry and its files keep their types.
LEMMA DiskStep ==
  ASSUME Types, Next
  PROVE  DiskType'
PROOF
<1> USE DEF Types, DiskType
<1>1. CASE UNCHANGED <<file, tmp, up>> /\ ~Restart
  BY <1>1, RegistryGrows
<1>2. ASSUME NEW k \in Calls, Open(k) PROVE DiskType'
  BY <1>2 DEF Open
<1>3. ASSUME NEW k \in Calls, Fill(k) PROVE DiskType'
  <2>1. call[k].snapshot \in Registries
    BY <1>3 DEF Fill, CallType, HandlerOK
  <2> QED BY <1>3, <2>1 DEF Fill, Over
<1>4. ASSUME NEW k \in Calls, Rename(k) PROVE DiskType'
  BY <1>4 DEF Rename
<1>5. CASE Restart
  BY <1>5 DEF Restart, disk
<1> QED BY <1>1, <1>2, <1>3, <1>4, <1>5
    DEF Next, memory, disk, KeepDisk, NewCode, Expire, Refuse, TakeCode,
        AddRequest, Approve, Revoke, Amend, SetGrants, Admit, SetStatus, Update,
        Clone, RenameFails, Reply, SaveFails, HangUp

\* So do the bounds and the history.
LEMMA RestStep ==
  ASSUME Types, Next
  PROVE  RestType'
PROOF
<1> USE DeviceRegistryAssumption DEF Types, RestType
<1>1. ASSUME NEW p, NEW written \in BOOLEAN, With(p, written)
      PROVE  failures' \in 0 .. MaxFailures
  BY <1>1 DEF With
<1>2. CASE UNCHANGED <<history, expired, boots, failures>>
  BY <1>2 DEF history
<1>3. ASSUME UNCHANGED <<history, expired, boots>>, failures' \in 0 .. MaxFailures
      PROVE  RestType'
  BY <1>3 DEF history
<1>4. ASSUME NEW c \in Codes, Expire(c) PROVE RestType'
  BY <1>4 DEF Expire, history
<1>5. ASSUME NEW k \in Calls, NEW i \in Ids, AddRequest(k, i) PROVE RestType'
  <2>1. failures' \in 0 .. MaxFailures
    BY <1>1, <1>5 DEF AddRequest
  <2>2. codeOf' \in [Ids -> Codes \cup {None}]
    BY <1>5 DEF AddRequest, CallType, HandlerOK, Handlers
  <2> QED BY <1>5, <2>1, <2>2 DEF AddRequest
<1>6. ASSUME NEW k \in Calls, Clone(k) PROVE RestType'
  BY <1>6 DEF Clone
<1>7. ASSUME NEW k \in Calls, Reply(k) PROVE RestType'
  <2>1. call[k].snapshot \in Registries /\ call[k].device \in Devices \cup {None}
    BY <1>7 DEF Reply, CallType, HandlerOK, Handlers
  <2>2. promised' \in Registries
    BY <1>7, <2>1 DEF Reply, Registries
  <2> QED BY <1>7, <2>2 DEF Reply
<1>8. ASSUME NEW k \in Calls, SaveFails(k) PROVE RestType'
  BY <1>8 DEF SaveFails, history
<1>9. CASE Restart
  BY <1>9 DEF Restart, history
<1>10. ASSUME NEW k \in Calls, SetStatus(k) PROVE RestType'
  BY <1>1, <1>3, <1>10 DEF SetStatus
<1>11. ASSUME NEW k \in Calls, NEW c \in Codes, NEW d \in Devices, TakeCode(k, c, d)
       PROVE  RestType'
  BY <1>1, <1>3, <1>11 DEF TakeCode
<1>12. ASSUME (\E c \in Codes : NewCode(c)) \/ \E i \in Ids : Refuse(i)
       PROVE  RestType'
  BY <1>1, <1>3, <1>12 DEF NewCode, Refuse
<1> QED BY <1>2, <1>4, <1>5, <1>6, <1>7, <1>8, <1>9, <1>10, <1>11, <1>12
    DEF Next, KeepDisk, history, Approve, Revoke, Amend, SetGrants, Admit, Update,
        Open, Fill, Rename, RenameFails, HangUp

----------------------------------------------------------------------------
(* Codes and answers.                                                      *)

\* Every step but NewCode, AddRequest and TakeCode leaves the codes that are
\* being spent, or were, alone.
LEMMA CodesKept ==
  ASSUME Types, CodeInv, UNCHANGED codeOf,
         \A c : Held(c)' => Held(c),
         \A j \in Calls : call'[j].code \in {call[j].code, None},
         \A j \in Calls : call'[j].pc = "add" => call'[j].code = call[j].code /\ call[j].pc = "add"
  PROVE  CodeInv'
PROOF
  BY DEF CodeInv, OneRequestPerCode

\* Each code is spent by one handler, on one request.
LEMMA CodeStep ==
  ASSUME Types, CodeInv, Next
  PROVE  CodeInv'
PROOF
<1> USE DEF Types
<1>1. ASSUME NEW k \in Calls, Finish(k), UNCHANGED codeOf,
             \A c : Held(c)' => Held(c)
      PROVE  CodeInv'
  BY <1>1, FinishStep, CodesKept DEF Idle
<1>2. ASSUME NEW k \in Calls, NEW p \in Pcs \ {"add"}, Goto(k, p), UNCHANGED codeOf,
             \A c : Held(c)' => Held(c)
      PROVE  CodeInv'
  <2>1. \A j \in Calls : /\ call'[j].code = call[j].code
                         /\ call'[j].pc = IF j = k THEN p ELSE call[j].pc
    BY <1>2 DEF Goto, CallType, Handlers
  <2> QED BY <1>2, <2>1, CodesKept
<1>3. ASSUME UNCHANGED <<pending, pendingFile>> PROVE \A c : Held(c)' => Held(c)
  BY <1>3 DEF Held
<1>4. ASSUME NEW p, p.codes \subseteq pending.codes,
             NEW written \in BOOLEAN, With(p, written)
      PROVE  \A c : Held(c)' => Held(c)
  BY <1>4, WithStep DEF Held
<1>5. ASSUME NEW c \in Codes, NewCode(c) PROVE CodeInv'
  <2> DEFINE p == [pending EXCEPT !.codes = (@ \ expired) \cup {c}]
  <2>1. p.codes \subseteq pending.codes \cup {c}
    BY DEF PendingType, Pendings
  <2>2. \A x : Held(x)' => Held(x) \/ x = c
    BY <1>5, <2>1, WithStep DEF NewCode, Held
  <2>3. /\ UNCHANGED <<call, codeOf>>
        /\ \A i \in Ids : codeOf[i] # c
        /\ \A k \in Calls : call[k].code # c
    BY <1>5 DEF NewCode, history
  <2> HIDE DEF p
  <2>4. \A x : x # c /\ ~Held(x) => ~Held(x)'
    BY <2>2
  <2>5. ASSUME NEW i \in Ids, codeOf[i] # None PROVE ~Held(codeOf[i])'
    <3>1. ~Held(codeOf[i]) /\ codeOf[i] # c
      BY <2>3, <2>5 DEF CodeInv
    <3> QED BY <2>3, <2>4, <3>1 DEF Held
  <2>6. ASSUME NEW k \in Calls, call[k].code # None PROVE ~Held(call[k].code)'
    <3>1. ~Held(call[k].code) /\ call[k].code # c
      BY <2>3, <2>6 DEF CodeInv
    <3> QED BY <2>3, <2>4, <3>1 DEF Held
  <2> QED BY <2>3, <2>5, <2>6 DEF CodeInv, OneRequestPerCode
<1>6. ASSUME NEW k \in Calls, NEW c \in Codes, NEW d \in Devices, TakeCode(k, c, d)
      PROVE  CodeInv'
  <2> DEFINE p == TakenFrom(pending, c)
             h == [Idle EXCEPT !.pc = "add", !.code = c, !.device = d]
  <2>1. p.codes = pending.codes \ {c}
    BY DEF TakenFrom, PendingType, Pendings
  <2>2. \A x : Held(x)' => Held(x)
    BY <1>6, <1>4, <2>1 DEF TakeCode
  <2>3. CASE UNCHANGED call
    BY <1>6, <2>2, <2>3, CodesKept DEF TakeCode, history
  <2>4. CASE call' = [call EXCEPT ![k] = h] /\ With(p, TRUE)
    <3>1. ~Held(c)'
      BY <2>1, <2>4, WithStep DEF With, Held
    <3>2. h.pc = "add" /\ h.code = c /\ c # None
      BY DeviceRegistryAssumption DEF Idle
    <3>3. \A j \in Calls : call'[j] = IF j = k THEN h ELSE call[j]
      BY <2>4 DEF CallType
    <3>4. UNCHANGED codeOf /\ Held(c)
      BY <1>6 DEF TakeCode, history, Held
    <3> HIDE DEF h
    <3> QED BY <2>2, <3>1, <3>2, <3>3, <3>4 DEF CodeInv, OneRequestPerCode
  <2>5. UNCHANGED call \/ (call' = [call EXCEPT ![k] = h] /\ With(p, TRUE))
    BY <1>6, Zenon DEF TakeCode
  <2> QED BY <2>3, <2>4, <2>5
<1>7. ASSUME NEW k \in Calls, NEW i \in Ids, AddRequest(k, i) PROVE CodeInv'
  <2>1. call[k].device \in Devices /\ call[k].code # None
    BY <1>7 DEF AddRequest, CallType, HandlerOK, CodeInv
  <2>2. \A x : Held(x)' => Held(x)
    BY <1>7, <1>4, <2>1, AddedType DEF AddRequest, PendingType
  <2>3. /\ \A j \in Ids : codeOf'[j] = IF j = i THEN call[k].code ELSE codeOf[j]
        /\ codeOf[i] = None
    BY <1>7 DEF AddRequest, RestType
  <2>4. call'[k] = Idle /\ \A j \in Calls : j # k => call'[j] = call[j]
    BY <1>7, FinishStep DEF AddRequest, Finish
  <2>5. Idle.code = None /\ Idle.pc = "idle"
    BY DEF Idle
  <2> QED BY <2>1, <2>2, <2>3, <2>4, <2>5 DEF CodeInv, OneRequestPerCode
<1>8. ASSUME NEW i \in Ids, Refuse(i) PROVE CodeInv'
  <2>1. \A x : Held(x)' => Held(x)
    BY <1>8, <1>4, AnsweredType DEF Refuse, PendingType
  <2> QED BY <1>8, <2>1, CodesKept DEF Refuse, history
<1>9. ASSUME NEW k \in Calls, SetStatus(k) PROVE CodeInv'
  <2>1. call[k].id \in Ids
    BY <1>9 DEF SetStatus, CallType, HandlerOK
  <2>2. \A x : Held(x)' => Held(x)
    BY <1>9, <1>4, <2>1, AnsweredType DEF SetStatus, PendingType
  <2> QED BY <1>9, <1>1, <1>2, <2>2 DEF SetStatus, history, Pcs
<1>10. CASE Restart
  <2>1. \A x : Held(x)' => Held(x)
    BY <1>10 DEF Restart, disk, Held
  <2>2. \A j \in Calls : call'[j].code = None /\ call'[j].pc = "idle"
    BY <1>10 DEF Restart, Idle
  <2> QED BY <1>10, <2>1, <2>2, CodesKept DEF Restart, history
<1>11. ASSUME NEW k \in Calls, UNCHANGED <<pending, pendingFile, codeOf>>,
              \A j \in Calls : /\ call'[j].code \in {call[j].code, None}
                               /\ call'[j].pc = "add" => /\ call[j].pc = "add"
                                                         /\ call'[j].code = call[j].code
       PROVE  CodeInv'
  BY <1>11, <1>3, CodesKept
<1>12. ASSUME NEW k \in Calls,
              \/ \E i \in Ids : Approve(k, i)
              \/ \E d \in Devices : Revoke(k, d) \/ Amend(k, d) \/ SetGrants(k, d)
       PROVE  CodeInv'
  <2>1. \A j \in Calls : /\ call'[j].code \in {call[j].code, None}
                         /\ call'[j].pc = "add" => call'[j] = call[j]
    <3>1. ASSUME NEW i \in Ids, Approve(k, i)
          PROVE  call' = [call EXCEPT ![k] = call'[k]] /\ call'[k].code = None /\ call'[k].pc # "add"
      BY <3>1 DEF Approve, Idle, CallType
    <3>2. ASSUME NEW d \in Devices, Revoke(k, d) \/ Amend(k, d)
          PROVE  call' = [call EXCEPT ![k] = call'[k]] /\ call'[k].code = None /\ call'[k].pc # "add"
      BY <3>2 DEF Revoke, Amend, Idle, CallType
    <3>3. ASSUME NEW d \in Devices, SetGrants(k, d)
          PROVE  call' = [call EXCEPT ![k] = call'[k]] /\ call'[k].code = None /\ call'[k].pc # "add"
      BY <3>3 DEF SetGrants, Idle, CallType
    <3>4. call' = [call EXCEPT ![k] = call'[k]] /\ call'[k].code = None /\ call'[k].pc # "add"
      BY <1>12, <3>1, <3>2, <3>3
    <3> QED BY <3>4 DEF CallType
  <2> QED BY <1>11, <1>12, <2>1
      DEF Approve, Revoke, Amend, SetGrants, KeepDisk, disk, history
<1>13. ASSUME NEW k \in Calls, Clone(k) \/ Open(k) \/ Rename(k) PROVE CodeInv'
  <2>1. \A j \in Calls : /\ call'[j].code = call[j].code
                         /\ call'[j].pc = "add" => call[j].pc = "add"
    <3>1. CASE Clone(k) \/ Open(k)
      BY <3>1 DEF Clone, Open, CallType, Handlers
    <3>2. CASE Rename(k)
      <4>1. call' = [j \in Calls |-> IF j = k THEN [call[k] EXCEPT !.pc = "notify"]
                                 ELSE [call[j] EXCEPT !.handle = Moved(@)]]
        BY <3>2 DEF Rename
      <4> QED BY <4>1 DEF CallType, Handlers
    <3> QED BY <1>13, <3>1, <3>2
  <2> QED BY <1>11, <1>13, <2>1 DEF Clone, Open, Rename, disk, history
<1>14. ASSUME NEW k \in Calls, Admit(k) \/ Update(k) \/ Fill(k) PROVE CodeInv'
  <2>1. Finish(k) \/ \E p \in Pcs \ {"add"} : Goto(k, p)
    BY <1>14 DEF Admit, Update, Fill, Pcs
  <2> QED BY <1>1, <1>2, <1>3, <1>14, <2>1
      DEF Admit, Update, Fill, KeepDisk, disk, history
<1>15. ASSUME NEW k \in Calls,
              RenameFails(k) \/ Reply(k) \/ SaveFails(k) \/ HangUp(k)
       PROVE  CodeInv'
  BY <1>1, <1>3, <1>15
     DEF RenameFails, Reply, SaveFails, HangUp, KeepDisk, disk, history
<1>16. ASSUME NEW c \in Codes, Expire(c) PROVE CodeInv'
  BY <1>3, <1>16, CodesKept DEF Expire, memory, disk, history
<1> QED BY <1>5, <1>6, <1>7, <1>8, <1>9, <1>10, <1>12, <1>13, <1>14, <1>15,
       <1>16 DEF Next

Answers == {"approved", "refused"}

\* The answers in the file stay in this step.
FileStands ==
  \A i \in Ids : pendingFile.requests[i].status \in Answers =>
    pendingFile'.requests[i] = pendingFile.requests[i]

\* A write that changes no request but one that waits.
LEMMA AnswersKept ==
  ASSUME Types, AnswerInv, UNCHANGED codeOf, NEW p, NEW written \in BOOLEAN,
         With(p, written),
         \A j \in Ids : pending.requests[j].status # "pending" =>
            p.requests[j] = pending.requests[j]
  PROVE  AnswerInv' /\ FileStands
PROOF
<1>1. NoRequest.status = None /\ None \notin {"pending", "approved", "refused"}
  BY DeviceRegistryAssumption DEF NoRequest, Statuses
<1>2. pending' = p /\ pendingFile' \in {p, pendingFile}
  BY WithStep
<1> QED BY <1>1, <1>2 DEF AnswerInv, FileStands, Answers

\* A request is answered once, and memory keeps the answer it has in the file.
LEMMA AnswerStep ==
  ASSUME Types, CodeInv, AnswerInv, Next
  PROVE  AnswerInv' /\ FileStands
PROOF
<1> USE DEF Types
<1>1. CASE UNCHANGED <<pending, pendingFile, codeOf>>
  BY <1>1 DEF AnswerInv, FileStands
<1>2. ASSUME NEW c \in Codes, NewCode(c) PROVE AnswerInv' /\ FileStands
  <2> DEFINE p == [pending EXCEPT !.codes = (@ \ expired) \cup {c}]
  <2>1. p.requests = pending.requests
    BY DEF PendingType, Pendings
  <2>2. UNCHANGED codeOf /\ \E written \in BOOLEAN : With(p, written)
    BY <1>2 DEF NewCode, history
  <2> HIDE DEF p
  <2> QED BY <2>1, <2>2, AnswersKept
<1>3. ASSUME NEW i \in Ids, Refuse(i) PROVE AnswerInv' /\ FileStands
  BY <1>3, AnsweredType, AnswersKept DEF Refuse, PendingType, history
<1>4. ASSUME NEW k \in Calls, NEW c \in Codes, NEW d \in Devices, TakeCode(k, c, d)
      PROVE  AnswerInv' /\ FileStands
  <2>1. TakenFrom(pending, c).requests = pending.requests
    BY DEF TakenFrom, PendingType, Pendings
  <2> QED BY <1>4, <2>1, AnswersKept DEF TakeCode, history
<1>5. ASSUME NEW k \in Calls, NEW i \in Ids, AddRequest(k, i)
      PROVE  AnswerInv' /\ FileStands
  <2> DEFINE r == [device |-> call[k].device, status |-> "pending"]
             p == [pending EXCEPT !.requests[i] = r]
  <2>1. call[k].device \in Devices /\ call[k].code # None
    BY <1>5 DEF AddRequest, CallType, HandlerOK, CodeInv
  <2>2. \A j \in Ids : j # i => p.requests[j] = pending.requests[j]
    BY <2>1, AddedType DEF PendingType
  <2>3. pending' = p /\ pendingFile' \in {p, pendingFile}
    BY <1>5, WithStep DEF AddRequest
  <2>4. /\ codeOf[i] = None /\ codeOf'[i] # None
        /\ \A j \in Ids : j # i => codeOf'[j] = codeOf[j]
    BY <1>5, <2>1 DEF AddRequest, RestType
  <2>5. pendingFile.requests[i].status \notin Answers
    BY <2>4, DeviceRegistryAssumption DEF AnswerInv, NoRequest, Answers, Statuses
  <2> HIDE DEF p
  <2>6. FileStands
    BY <2>2, <2>3, <2>5 DEF FileStands, AnswerInv, Answers
  <2>7. AnswerInv'
    BY <2>2, <2>3, <2>4, <2>5 DEF AnswerInv, Answers
  <2> QED BY <2>6, <2>7
<1>6. ASSUME NEW k \in Calls, SetStatus(k) PROVE AnswerInv' /\ FileStands
  <2>1. call[k].id \in Ids
    BY <1>6 DEF SetStatus, CallType, HandlerOK
  <2> QED BY <1>6, <2>1, AnsweredType, AnswersKept DEF SetStatus, PendingType, history
<1>7. CASE Restart
  BY <1>7 DEF Restart, disk, history, AnswerInv, FileStands
<1> QED BY <1>1, <1>2, <1>3, <1>4, <1>5, <1>6, <1>7
    DEF Next, memory, disk, history, KeepDisk, Expire, Approve, Revoke, Amend,
        SetGrants, Admit, Update, Clone, Open, Fill, Rename, RenameFails, Reply,
        SaveFails, HangUp

----------------------------------------------------------------------------
(* Promises.                                                               *)

LEMMA HoldsOrder ==
  /\ \A r \in Registries : AllHold(r, r)
  /\ \A r, s, t \in Registries : AllHold(r, s) /\ AllHold(s, t) => AllHold(r, t)
PROOF
<1> USE DeviceRegistryAssumption DEF AllHold, Holds, Rank, Registries, Standings
<1>1. ASSUME NEW r \in Registries PROVE AllHold(r, r)
  OBVIOUS
<1>2. ASSUME NEW r \in Registries, NEW s \in Registries, NEW t \in Registries,
             AllHold(r, s), AllHold(s, t)
      PROVE  AllHold(r, t)
  BY <1>2
<1> QED BY <1>1, <1>2

\* The steps after the clone.
Late == {"open", "fill", "rename", "notify"}

\* A step that leaves the files alone and moves no handler on to save or to
\* answer.
LEMMA OrderKept ==
  ASSUME Types, Types', SavingInv, UNCHANGED <<file, tmp, promised, overlapped>>,
         AllHold(registry', registry),
         \A j \in Calls : call'[j] = call[j] \/ call'[j].pc \notin Late
  PROVE  SavingInv'
PROOF
<1>1. CASE overlapped
  BY <1>1 DEF SavingInv
<1>2. CASE ~overlapped
  <2>1. file \in Registries /\ registry \in Registries /\ registry' \in Registries
    BY <1>2 DEF Types, DiskType, SavingInv
  <2>2. AllHold(registry', file)
    BY <1>2, <2>1, HoldsOrder DEF SavingInv
  <2>3. ASSUME NEW j \in Calls, call'[j] = call[j], Saving(j)
        PROVE  AllHold(registry', call[j].snapshot)
    <3>1. call[j].snapshot \in Registries
      BY <2>3 DEF Types, CallType, HandlerOK, Saving
    <3> QED BY <1>2, <2>1, <2>3, <3>1, HoldsOrder DEF SavingInv
  <2> QED BY <1>2, <2>2, <2>3 DEF SavingInv, Saving, Late
<1> QED BY <1>1, <1>2 DEF Types, RestType

\* As long as the handlers save one at a time, the order holds.
LEMMA SavingStep ==
  ASSUME Types, Types', SavingInv, Next
  PROVE  SavingInv'
PROOF
<1> USE DEF Types
<1>1. ASSUME UNCHANGED <<file, tmp, promised, overlapped>>, ~Restart,
             \A j \in Calls : call'[j] = call[j] \/ call'[j].pc \notin Late
      PROVE  SavingInv'
  BY <1>1, RegistryGrows, OrderKept
<1>2. ASSUME NEW k \in Calls, UNCHANGED <<file, tmp, promised, overlapped>>, ~Restart,
             Finish(k) \/ \E p \in Pcs \ Late : Goto(k, p)
      PROVE  SavingInv'
  <2>1. \A j \in Calls : call'[j] = call[j] \/ call'[j].pc \notin Late
    BY <1>2 DEF Finish, Goto, Idle, CallType, Handlers, Pcs, Late
  <2> QED BY <1>1, <1>2, <2>1
<1>3. ASSUME NEW k \in Calls, Clone(k) PROVE SavingInv'
  <2>1. /\ call[k].pc = "clone" /\ call'[k].pc = "open" /\ call'[k].snapshot = registry
        /\ \A j \in Calls : j # k => call'[j] = call[j]
    BY <1>3 DEF Clone, CallType, Handlers
  <2>2. /\ UNCHANGED <<registry, file, tmp, promised>>
        /\ overlapped' = (overlapped \/ \E j \in Calls : Saving(j))
    BY <1>3 DEF Clone, disk
  <2>3. CASE ~overlapped /\ \A j \in Calls : ~Saving(j)
    <3>1. \A j \in Calls : Saving(j)' => j = k
      BY <2>1, <2>3 DEF Saving
    <3>2. AllHold(registry, registry)
      BY HoldsOrder DEF DiskType
    <3> QED BY <2>1, <2>2, <2>3, <3>1, <3>2 DEF SavingInv, Saving
  <2>4. CASE overlapped \/ \E j \in Calls : Saving(j)
    BY <2>2, <2>4 DEF SavingInv
  <2> QED BY <2>3, <2>4
<1>4. ASSUME NEW k \in Calls, Open(k) PROVE SavingInv'
  <2>1. /\ call[k].pc = "open" /\ call'[k].pc = "fill" /\ call'[k].handle = "tmp"
        /\ call'[k].snapshot = call[k].snapshot
        /\ \A j \in Calls : j # k => call'[j] = call[j]
    BY <1>4 DEF Open, CallType, Handlers
  <2>2. UNCHANGED <<registry, file, promised, overlapped>> /\ tmp' = Torn
    BY <1>4 DEF Open, history
  <2> QED BY <2>1, <2>2 DEF SavingInv, Saving
<1>5. ASSUME NEW k \in Calls, Fill(k) PROVE SavingInv'
  <2>1. /\ call[k].pc = "fill" /\ call'[k].pc = "rename"
        /\ call'[k].snapshot = call[k].snapshot
        /\ \A j \in Calls : j # k => call'[j] = call[j]
    BY <1>5 DEF Fill, Goto, CallType, Handlers
  <2>2. UNCHANGED <<registry, promised, overlapped>>
    BY <1>5 DEF Fill, history
  <2>3. ~overlapped => tmp' = call[k].snapshot /\ file' = file
    BY <1>5, <2>1 DEF Fill, Over, SavingInv
  <2> QED BY <2>1, <2>2, <2>3 DEF SavingInv, Saving
<1>6. ASSUME NEW k \in Calls, Rename(k) PROVE SavingInv'
  <2>1. /\ call[k].pc = "rename" /\ call'[k].pc = "notify"
        /\ call'[k].snapshot = call[k].snapshot
        /\ \A j \in Calls : j # k => /\ call'[j].pc = call[j].pc
                                    /\ call'[j].snapshot = call[j].snapshot
    BY <1>6 DEF Rename, CallType, Handlers
  <2>2. UNCHANGED <<registry, promised, overlapped>> /\ file' = tmp
    BY <1>6 DEF Rename, history
  <2>3. CASE overlapped
    BY <2>2, <2>3 DEF SavingInv
  <2>4. CASE ~overlapped
    <3>1. /\ file' = call[k].snapshot /\ file' \in Registries /\ file' # Torn
          /\ AllHold(file', file) /\ AllHold(registry, file')
      BY <2>1, <2>2, <2>4, DeviceRegistryAssumption
         DEF SavingInv, Saving, CallType, HandlerOK
    <3>2. \A j \in Calls : ~Saving(j)'
      BY <2>1, <2>4 DEF SavingInv, Saving
    <3>3. file \in Registries /\ AllHold(file, promised) /\ promised \in Registries
      BY <2>4 DEF SavingInv, DiskType, RestType
    <3>4. AllHold(file', promised)
      BY <3>1, <3>3, HoldsOrder
    <3>5. ASSUME NEW j \in Calls, call'[j].pc = "notify"
          PROVE  AllHold(file', call'[j].snapshot)
      <4>1. CASE j = k
        BY <2>1, <3>1, <4>1, HoldsOrder
      <4>2. CASE j # k
        <5>1. call[j].snapshot \in Registries /\ AllHold(file, call[j].snapshot)
          BY <2>1, <2>4, <3>5, <4>2 DEF SavingInv, CallType, HandlerOK
        <5> QED BY <2>1, <3>1, <3>3, <4>2, <5>1, HoldsOrder
      <4> QED BY <4>1, <4>2
    <3> QED BY <2>2, <3>1, <3>2, <3>4, <3>5 DEF SavingInv, Saving
  <2> QED BY <2>3, <2>4
<1>7. ASSUME NEW k \in Calls, Reply(k) PROVE SavingInv'
  <2>1. /\ call[k].pc = "notify" /\ call'[k].pc = "idle"
        /\ \A j \in Calls : j # k => call'[j] = call[j]
    BY <1>7, FinishStep DEF Reply, Idle
  <2>2. UNCHANGED <<registry, file, tmp, overlapped>>
    BY <1>7 DEF Reply, disk
  <2>3. ~overlapped => AllHold(file, promised')
    BY <1>7, <2>1 DEF Reply, SavingInv, AllHold, RestType, Registries
  <2> QED BY <2>1, <2>2, <2>3 DEF SavingInv, Saving
<1>8. CASE Restart
  <2>1. /\ \A j \in Calls : call'[j].pc = "idle"
        /\ UNCHANGED <<file, promised, overlapped>>
        /\ file # Torn => registry' = file
    BY <1>8 DEF Restart, Idle, disk, history
  <2>2. ~overlapped => AllHold(registry', file)
    BY <2>1, HoldsOrder DEF SavingInv, DiskType
  <2> QED BY <2>1, <2>2 DEF SavingInv, Saving
<1>9. CASE ~Restart
  <2>1. ASSUME NEW k \in Calls, \/ Admit(k) \/ SetStatus(k) \/ Update(k)
                               \/ RenameFails(k) \/ SaveFails(k) \/ HangUp(k)
                               \/ \E i \in Ids : AddRequest(k, i)
        PROVE  SavingInv'
    <3>1. Finish(k) \/ \E p \in Pcs \ Late : Goto(k, p)
      BY <2>1 DEF Admit, SetStatus, Update, RenameFails, SaveFails, HangUp,
         AddRequest, Finish, Pcs, Late
    <3>2. UNCHANGED <<file, tmp, promised, overlapped>>
      BY <2>1 DEF Admit, SetStatus, Update, RenameFails, SaveFails, HangUp,
         AddRequest, KeepDisk, disk, history
    <3> QED BY <1>2, <1>9, <3>1, <3>2
  <2>2. ASSUME NEW k \in Calls,
               \/ \E c \in Codes, d \in Devices : TakeCode(k, c, d)
               \/ \E i \in Ids : Approve(k, i)
               \/ \E d \in Devices : Revoke(k, d) \/ Amend(k, d) \/ SetGrants(k, d)
        PROVE  SavingInv'
    <3>1. \A j \in Calls : call'[j] = call[j] \/ call'[j].pc \notin Late
      <4>1. call \in [Calls -> Handlers]
        BY DEF CallType
      <4>2. ASSUME NEW c \in Codes, NEW d \in Devices, TakeCode(k, c, d)
            PROVE  \A j \in Calls : call'[j] = call[j] \/ call'[j].pc = "add"
        <5>1. \/ call' = call
              \/ call' = [call EXCEPT ![k] = [Idle EXCEPT !.pc = "add", !.code = c,
                                                        !.device = d]]
          BY <4>2 DEF TakeCode
        <5> QED BY <4>1, <5>1 DEF Idle
      <4>3. ASSUME NEW i \in Ids, Approve(k, i)
            PROVE  \A j \in Calls : call'[j] = call[j] \/ call'[j].pc = "admit"
        BY <4>1, <4>3 DEF Approve, Idle
      <4>4. ASSUME NEW d \in Devices, Revoke(k, d) \/ Amend(k, d)
            PROVE  \A j \in Calls : call'[j] = call[j] \/ call'[j].pc = "clone"
        BY <4>1, <4>4 DEF Revoke, Amend, Idle
      <4>5. ASSUME NEW d \in Devices, SetGrants(k, d)
            PROVE  \A j \in Calls : call'[j] = call[j] \/ call'[j].pc = "update"
        BY <4>1, <4>5 DEF SetGrants, Idle
      <4> QED BY <2>2, <4>2, <4>3, <4>4, <4>5 DEF Late
    <3>2. UNCHANGED <<file, tmp, promised, overlapped>>
      BY <2>2 DEF TakeCode, Approve, Revoke, Amend, SetGrants, KeepDisk, disk, history
    <3> QED BY <1>1, <1>9, <3>1, <3>2
  <2>3. ASSUME (\E c \in Codes : NewCode(c) \/ Expire(c)) \/ \E i \in Ids : Refuse(i)
        PROVE  SavingInv'
    BY <1>1, <1>9, <2>3 DEF NewCode, Expire, Refuse, memory, disk, history
  <2> QED BY <1>3, <1>4, <1>5, <1>6, <1>7, <1>9, <2>1, <2>2, <2>3 DEF Next
<1> QED BY <1>8, <1>9

----------------------------------------------------------------------------
LEMMA InitInv ==
  ASSUME Init
  PROVE  DeviceInv
PROOF
<1> USE DeviceRegistryAssumption DEF Init
<1>1. PendingType
  <2>1. NoRequest \in Requests
    BY DEF NoRequest, Requests
  <2> QED BY <2>1 DEF PendingType, Pendings, PendingOK
<1>2. CallType
  BY IdleType DEF CallType, HandlerOK
<1>3. DiskType /\ RestType
  <2>1. registry \in Registries /\ promised = registry
    BY DEF Registries, Standings
  <2>2. DiskType
    BY <2>1 DEF DiskType
  <2>3. codeOf \in [Ids -> Codes \cup {None}] /\ 0 \in 0 .. MaxBoots /\ 0 \in 0 .. MaxFailures
    OBVIOUS
  <2> QED BY <2>1, <2>2, <2>3 DEF RestType
<1>4. CodeInv /\ AnswerInv
  BY DEF CodeInv, OneRequestPerCode, AnswerInv, Idle, NoRequest, Statuses
<1>5. SavingInv
  BY <1>3, HoldsOrder DEF SavingInv, Saving, Idle, DiskType
<1> QED BY <1>1, <1>2, <1>3, <1>4, <1>5 DEF DeviceInv, Types

LEMMA StepInv ==
  ASSUME DeviceInv, [Next]_vars
  PROVE  DeviceInv'
PROOF
<1>1. CASE Next
  <2>1. Types'
    BY <1>1, PendingStep, CallTypeStep, DiskStep, RestStep DEF DeviceInv, Types
  <2> QED BY <1>1, <2>1, CodeStep, AnswerStep, SavingStep DEF DeviceInv
<1>2. CASE UNCHANGED vars
  BY <1>2 DEF vars, memory, disk, history, DeviceInv, Types, PendingType,
     PendingOK, CallType, HandlerOK, DiskType, RestType, CodeInv, Held,
     OneRequestPerCode, AnswerInv, SavingInv, Saving
<1> QED BY <1>1, <1>2

\* The invariant of the primary's handlers: their types, who may spend a code,
\* memory and file agreeing on answers, and the order of promises, file,
\* snapshot and memory while handlers save one at a time.
THEOREM DeviceInvariant == Spec => []DeviceInv
PROOF
<1>1. Init => DeviceInv
  BY InitInv
<1>2. DeviceInv /\ [Next]_vars => DeviceInv'
  BY StepInv
<1> QED BY <1>1, <1>2, PTL DEF Spec

\* Every variable keeps its type.
THEOREM TypeCorrect == Spec => []TypeOK
PROOF
<1>1. DeviceInv => TypeOK
  BY DEF DeviceInv, Types, PendingType, CallType, HandlerOK, Handlers, Pcs,
     DiskType, RestType, TypeOK
<1> QED BY <1>1, DeviceInvariant, PTL

\* A pairing code lets in one request, whatever write fails and whenever the
\* primary restarts (Pending::take_code).
THEOREM CodesWorkOnce == Spec => []OneRequestPerCode
PROOF
<1>1. DeviceInv => OneRequestPerCode
  BY DEF DeviceInv, CodeInv
<1> QED BY <1>1, DeviceInvariant, PTL

\* An answer in pending.json never changes (Pending::set_status).
THEOREM AnswersAreFinal == Spec => AnswerStands
PROOF
<1>1. ASSUME DeviceInv, Next PROVE FileStands
  BY <1>1, AnswerStep DEF DeviceInv
<1>2. DeviceInv /\ [Next]_vars =>
        [\A i \in Ids : pendingFile.requests[i].status \in {"approved", "refused"}
           => pendingFile'.requests[i] = pendingFile.requests[i]]_vars
  BY <1>1 DEF FileStands, Answers
<1> QED BY <1>2, DeviceInvariant, PTL DEF Spec, AnswerStands

\* What the owner was answered is in registry.json from then on, as long as no
\* two handlers had a clone of the registry to write at once.
THEOREM PromisesAreKept == Spec => []AckedIsDurable
PROOF
<1>1. DeviceInv => AckedIsDurable
  BY DEF DeviceInv, SavingInv, AckedIsDurable, AllHold
<1> QED BY <1>1, DeviceInvariant, PTL
=============================================================================
