----------------------- MODULE PresenceScreensProofs -----------------------
(***************************************************************************)
(* What PresenceScreens promises of a screen and of the daemon that pushes *)
(* to it, for any number of owners, pairings, misses and faults.           *)
(*                                                                         *)
(* A pairing request goes one way only: once its record is in the registry *)
(* the request is saved or over, and stays so.  That is what makes the     *)
(* token of a record its request's, a removed record gone for good, and a  *)
(* pairing that was cut off in the device one the daemon never hears of.   *)
(* What the device stores in part and answers all the same is the one case *)
(* the two ends' tokens may differ in.                                     *)
(***************************************************************************)
EXTENDS PresenceScreens, TLAPS

At(r) == request[r].at
Closed(r) == At(r) \in {"saved", "over"}

\* Records come from requests that were answered, each with its own tokens.
RecordsInv ==
  \A d \in registry \cup file \cup removed \cup paired :
    d.token = d.push /\ Closed(d.push)

\* Keys of two pairings: the push token's request ended unanswered, or the
\* device answered one of the two without storing every key of it.
Explained(keys) ==
  \/ /\ At(keys.push) = "over"
     /\ \A d \in registry \cup file : d.push # keys.push
  \/ {keys.push, keys.token} \cap unstored # {}

\* Only the flash holds keys of two pairings, and a boot reads them from it.
CutOffInv ==
  /\ flash.push # 0 /\ flash.token # flash.push => Explained(flash)
  /\ cfg # None /\ cfg.token # cfg.push => cfg = Loaded(flash)

\* The pusher has posted the content to a record, or will in this round, or
\* hears of the record when its handler ends.
Offered(d) ==
  \/ pusher = "round" /\ d \in todo
  \/ d.push \in posted
  \/ d \in unsaved
  \/ At(d.push) = "saved"

PushInv ==
  /\ seen <= version
  /\ seen = version /\ (pusher = "round" \/ (pusher = "idle" /\ rounded)) =>
       \A d \in registry : Offered(d)

\* What a start would read back never contradicts an answer.
AnswerInv ==
  /\ (registry \cup file) \cap removed = {}
  /\ wiped \/ (paired \subseteq registry /\ (torn \/ paired \subseteq file))

ScreensInv == TypeOK /\ RecordsInv /\ CutOffInv /\ PushInv /\ AnswerInv

----------------------------------------------------------------------------
(* Types.                                                                  *)

\* TypeOK by the parts a step changes together.
Ats == {"unsent", "sent", "late", "answered", "saved", "over"}
RequestType == request \in [Requests -> [at : Ats, owner : Owners, typed : Nat]]
DaemonType ==
  /\ registry \subseteq Records
  /\ file \subseteq Records /\ torn \in BOOLEAN
  /\ version \in Nat /\ seen \in Nat
PushType ==
  /\ pusher \in {"idle", "debounce", "round"}
  /\ todo \subseteq Records
  /\ post = None \/ post \in [push : Requests, body : Nat]
StoredKeys == [push : Requests \cup {0}, url : BOOLEAN, token : Requests \cup {0}]
CfgType ==
  /\ cfg = None \/ cfg \in [push : Requests, token : Requests \cup {0}]
  /\ flash \in StoredKeys
CodeType ==
  /\ code \in Nat /\ showing \in BOOLEAN
  /\ wrong \in 0 .. MaxWrong - 1 /\ locked \in BOOLEAN
ShownType == (shown = None \/ shown \in Nat) /\ fresh \in BOOLEAN
HistoryType ==
  /\ posted \subseteq Requests
  /\ rounded \in BOOLEAN /\ wiped \in BOOLEAN /\ unstored \subseteq Requests
  /\ removed \subseteq Records /\ paired \subseteq Records /\ unsaved \subseteq Records
FaultType == faults \in 0 .. MaxFaults

LEMMA TypeParts ==
  TypeOK <=> /\ DaemonType /\ PushType /\ RequestType /\ CfgType /\ CodeType /\ ShownType
             /\ HistoryType /\ FaultType
PROOF
BY DEF TypeOK, DaemonType, PushType, RequestType, Ats, CfgType, StoredKeys, CodeType,
       ShownType, HistoryType, FaultType

LEMMA TypePartsNext ==
  TypeOK' <=> /\ DaemonType' /\ PushType' /\ RequestType' /\ CfgType' /\ CodeType'
              /\ ShownType' /\ HistoryType' /\ FaultType'
PROOF
BY DEF TypeOK, DaemonType, PushType, RequestType, Ats, CfgType, StoredKeys, CodeType,
       ShownType, HistoryType, FaultType

LEMMA NoMisses == 0 \in 0 .. MaxWrong - 1 /\ 0 \in 0 .. MaxFaults
PROOF
<1>1. MaxWrong \in Nat \ {0} /\ MaxFaults \in Nat
  BY ScreensAssumption
<1> QED BY <1>1

LEMMA InitType == Init => TypeOK
PROOF
<1> SUFFICES ASSUME Init PROVE TypeOK
  OBVIOUS
<1>1. Unsent.owner \in Owners
  BY ScreensAssumption DEF Unsent
<1>2. RequestType
  BY <1>1 DEF Init, Unsent, RequestType, Ats
<1>3. DaemonType /\ PushType /\ CfgType /\ ShownType /\ HistoryType
  BY DEF Init, Empty, DaemonType, PushType, CfgType, StoredKeys, ShownType, HistoryType
<1>4. CodeType
  BY NoMisses DEF Init, CodeType
<1>5. FaultType
  BY NoMisses DEF Init, FaultType
<1> QED BY <1>2, <1>3, <1>4, <1>5, TypeParts

\* What a step on one request makes of all.
LEMMA RequestMoves ==
  ASSUME RequestType, NEW r \in Requests, NEW to \in Ats,
         request' = [request EXCEPT ![r].at = to]
  PROVE  /\ RequestType'
         /\ request'[r].at = to
         /\ request'[r].owner = request[r].owner
         /\ \A q \in Requests : q # r => request'[q] = request[q]
PROOF
BY DEF RequestType, Ats

LEMMA ReplyMoves ==
  ASSUME RequestType, NEW r \in Requests, NEW answer \in {"over", "answered"},
         Reply(r, answer)
  PROVE  /\ RequestType'
         /\ request'[r].at \in {"over", answer}
         /\ \A q \in Requests : q # r => request'[q] = request[q]
PROOF
<1> DEFINE to == IF request[r].at = "late" THEN "over" ELSE answer
<1>1. request' = [request EXCEPT ![r].at = to]
  BY DEF Reply, RequestType
<1>2. to \in Ats /\ to \in {"over", answer}
  BY DEF Ats
<1> HIDE DEF to
<1> QED BY <1>1, <1>2, RequestMoves

\* What savePaired may leave in the flash.
LEMMA KeysPut ==
  ASSUME flash \in StoredKeys, NEW r \in Requests, NEW keys \in PutKeys(Pairing(r))
  PROVE  /\ keys \in StoredKeys
         /\ keys.push = 0 \/ (keys.push \in {r, flash.push} /\ keys.token \in {r, flash.token})
PROOF
<1>1. /\ flash.push \in Requests \cup {0} /\ flash.token \in Requests \cup {0}
      /\ flash.url \in BOOLEAN
  BY DEF StoredKeys
<1>2. CASE keys \in [push : {r, flash.push}, url : {TRUE, flash.url}, token : {r, flash.token}]
  BY <1>1, <1>2 DEF StoredKeys
<1>3. CASE keys = flash
  BY <1>3
<1>4. CASE keys = Empty
  BY <1>4 DEF Empty, StoredKeys
<1>5. CASE keys = Keys(Pairing(r))
  BY <1>5 DEF Keys, Pairing, StoredKeys
<1> QED BY <1>2, <1>3, <1>4, <1>5 DEF PutKeys, Pairing

LEMMA TypeStep ==
  ASSUME TypeOK, [Next]_vars
  PROVE  TypeOK'
PROOF
<1>0. /\ DaemonType /\ PushType /\ RequestType /\ CfgType /\ CodeType /\ ShownType
      /\ HistoryType /\ FaultType
  BY TypeParts
<1>a. Fault => FaultType'
  BY <1>0, ScreensAssumption DEF Fault, FaultType
<1>b. /\ (UNCHANGED daemonVars => DaemonType') /\ (UNCHANGED pushVars => PushType')
      /\ (UNCHANGED history => HistoryType') /\ (UNCHANGED faults => FaultType')
      /\ (UNCHANGED request => RequestType') /\ (UNCHANGED <<cfg, flash>> => CfgType')
      /\ (UNCHANGED <<code, showing, wrong, locked>> => CodeType')
      /\ (UNCHANGED <<shown, fresh>> => ShownType')
      /\ (UNCHANGED deviceVars => CfgType' /\ CodeType' /\ ShownType')
  BY <1>0 DEF daemonVars, pushVars, history, deviceVars, DaemonType, PushType, RequestType,
     CfgType, CodeType, ShownType, HistoryType, FaultType
<1>1. CASE UNCHANGED vars
  BY <1>b, <1>1, TypePartsNext DEF vars
<1>2. CASE Change
  <2>1. DaemonType' /\ HistoryType'
    BY <1>0, <1>2 DEF Change, NewContent, DaemonType, HistoryType
  <2> QED BY <1>b, <1>2, <2>1, TypePartsNext DEF Change
<1>3. CASE SeeChange
  <2>1. DaemonType' /\ PushType'
    BY <1>0, <1>3 DEF SeeChange, DaemonType, PushType
  <2> QED BY <1>b, <1>3, <2>1, TypePartsNext DEF SeeChange
<1>4. CASE BeginRound
  <2>1. DaemonType' /\ PushType' /\ HistoryType'
    BY <1>0, <1>4 DEF BeginRound, DaemonType, PushType, HistoryType
  <2> QED BY <1>b, <1>4, <2>1, TypePartsNext DEF BeginRound
<1>5. CASE Heartbeat
  <2>1. PushType' /\ HistoryType'
    BY <1>0, <1>5 DEF Heartbeat, DaemonType, PushType, HistoryType
  <2> QED BY <1>b, <1>5, <2>1, TypePartsNext DEF Heartbeat
<1>6. CASE LosePost
  <2>1. PushType'
    BY <1>0, <1>6 DEF LosePost, PushType
  <2> QED BY <1>a, <1>b, <1>6, <2>1, TypePartsNext DEF LosePost
<1>7. CASE EndRound
  <2>1. PushType'
    BY <1>0, <1>7 DEF EndRound, PushType
  <2> QED BY <1>b, <1>7, <2>1, TypePartsNext DEF EndRound
<1>8. ASSUME NEW read \in SUBSET Records, NEW f \in SUBSET Records, NEW t \in BOOLEAN,
             Fault, AfterRestart(read, f, t)
      PROVE  TypeOK'
  <2>1. RequestType'
    <3> SUFFICES ASSUME NEW q \in Requests
                 PROVE  request'[q] \in [at : Ats, owner : Owners, typed : Nat]
      BY <1>8 DEF AfterRestart, RequestType
    <3>1. \/ request'[q] = request[q]
          \/ request'[q] = [request[q] EXCEPT !.at = "late"]
          \/ request'[q] = [request[q] EXCEPT !.at = "over"]
      BY <1>8 DEF AfterRestart
    <3>2. request[q] \in [at : Ats, owner : Owners, typed : Nat]
      BY <1>0 DEF RequestType
    <3> QED BY <3>1, <3>2 DEF Ats
  <2>2. /\ registry' = read /\ file' = f /\ torn' = t /\ wiped' \in BOOLEAN
        /\ version' = version + 1 /\ posted' = {} /\ seen' = version'
        /\ pusher' = "idle" /\ todo' = {} /\ post' = None
        /\ rounded' = FALSE /\ unsaved' = {}
        /\ UNCHANGED <<deviceVars, removed, paired, unstored>>
    BY <1>0, <1>8 DEF AfterRestart, NewContent, HistoryType
  <2>3. DaemonType'
    BY <1>0, <1>8, <2>2 DEF DaemonType
  <2>4. PushType'
    BY <2>2 DEF PushType
  <2>5. HistoryType'
    BY <1>0, <1>8, <2>2 DEF HistoryType
  <2> QED BY <1>a, <1>b, <1>8, <2>1, <2>2, <2>3, <2>4, <2>5, TypePartsNext
<1>9. CASE Restart
  BY <1>0, <1>8, <1>9 DEF Restart, DaemonType
<1>10. CASE CrashInSave
  BY <1>8, <1>10 DEF CrashInSave
<1>11. CASE TakePush
  <2>1. PushType' /\ ShownType'
    BY <1>0, <1>11 DEF TakePush, PushType, ShownType
  <2> QED BY <1>b, <1>11, <2>1, TypePartsNext DEF TakePush
<1>12. CASE ShowCode \/ HideCode \/ Unlock \/ GoStale
  <2>1. CodeType' /\ ShownType'
    BY <1>0, <1>12 DEF ShowCode, HideCode, Unlock, GoStale, CodeType, ShownType
  <2>2. UNCHANGED <<daemonVars, pushVars, request, cfg, flash, history, faults>>
    BY <1>12 DEF ShowCode, HideCode, Unlock, GoStale
  <2> QED BY <1>b, <2>1, <2>2, TypePartsNext
<1>13. ASSUME NEW keys \in StoredKeys, Reboot(keys)
       PROVE  CfgType' /\ CodeType' /\ ShownType' /\ FaultType'
  <2>0. /\ code' = code + 1 /\ showing' = FALSE /\ wrong' = 0 /\ locked' = FALSE
        /\ code \in Nat
    BY <1>0, <1>13 DEF Reboot, CodeType
  <2>1. CodeType'
    <3>1. wrong' \in 0 .. MaxWrong - 1
      BY <2>0, NoMisses
    <3>2. code' \in Nat
      BY <2>0
    <3> QED BY <2>0, <3>1, <3>2 DEF CodeType
  <2>2. Loaded(keys) = None \/ Loaded(keys) \in [push : Requests, token : Requests \cup {0}]
    BY DEF Loaded, StoredKeys
  <2> QED BY <1>0, <1>a, <1>13, <2>1, <2>2 DEF Reboot, CfgType, ShownType
<1>14. CASE PowerCycle \/ FactoryReset
  <2>1. CfgType' /\ CodeType' /\ ShownType' /\ FaultType'
    <3>1. Empty \in StoredKeys /\ flash \in StoredKeys
      BY <1>0 DEF Empty, StoredKeys, CfgType
    <3> QED BY <1>13, <1>14, <3>1 DEF PowerCycle, FactoryReset
  <2>2. UNCHANGED <<daemonVars, pushVars, request, history>>
    BY <1>14 DEF PowerCycle, FactoryReset
  <2> QED BY <1>b, <2>1, <2>2, TypePartsNext
<1>15. ASSUME NEW d \in registry, Remove(d) PROVE TypeOK'
  <2>1. DaemonType' /\ HistoryType'
    BY <1>0, <1>15 DEF Remove, Saved, FailedSave, DaemonType, HistoryType
  <2>2. FaultType'
    BY <1>a, <1>b, <1>15 DEF Remove
  <2> QED BY <1>b, <1>15, <2>1, <2>2, TypePartsNext DEF Remove
<1>16. ASSUME NEW d \in todo, Post(d) PROVE TypeOK'
  <2>1. d.push \in Requests
    BY <1>0 DEF Records, PushType
  <2>2. PushType' /\ HistoryType'
    BY <1>0, <1>16, <2>1 DEF Post, PushType, DaemonType, HistoryType
  <2> QED BY <1>b, <1>16, <2>2, TypePartsNext DEF Post
<1>17. ASSUME NEW r \in Requests, NEW o \in Owners, StartPair(r, o) PROVE TypeOK'
  <2>1. RequestType'
    BY <1>0, <1>17 DEF StartPair, RequestType, Ats, CodeType
  <2> QED BY <1>b, <1>17, <2>1, TypePartsNext DEF StartPair
<1>18. ASSUME NEW r \in Requests, PairFails(r) PROVE TypeOK'
  <2>1. PICK to \in {"late", "over"} : request' = [request EXCEPT ![r].at = to]
    BY <1>18 DEF PairFails
  <2>2. RequestType'
    BY <1>0, <2>1, RequestMoves DEF Ats
  <2> QED BY <1>a, <1>b, <1>18, <2>2, TypePartsNext DEF PairFails
<1>19. ASSUME NEW r \in Requests, Upsert(r) PROVE TypeOK'
  <2>1. PICK to \in {"saved", "over"} : request' = [request EXCEPT ![r].at = to]
    BY <1>19 DEF Upsert
  <2>2. RequestType'
    BY <1>0, <2>1, RequestMoves DEF Ats
  <2>3. RecordOf(r) \in Records
    BY <1>0 DEF RecordOf, Record, Records, RequestType
  <2>4. Added(r) \subseteq Records /\ OthersPaired(r) \subseteq Records
    BY <1>0, <2>3 DEF Added, OthersPaired, DaemonType, HistoryType
  <2>5. DaemonType'
    BY <1>0, <1>19, <2>4 DEF Upsert, Saved, FailedSave, DaemonType
  <2>6. HistoryType'
    BY <1>0, <1>19, <2>3, <2>4 DEF Upsert, HistoryType
  <2>7. FaultType'
    BY <1>a, <1>b, <1>19 DEF Upsert
  <2> QED BY <1>b, <1>19, <2>2, <2>5, <2>6, <2>7, TypePartsNext DEF Upsert
<1>20. ASSUME NEW r \in Requests, AnswerPaired(r) PROVE TypeOK'
  <2>1. RequestType'
    BY <1>0, <1>20, RequestMoves DEF AnswerPaired, Ats
  <2>2. DaemonType' /\ HistoryType'
    BY <1>0, <1>20 DEF AnswerPaired, NewContent, DaemonType, HistoryType
  <2> QED BY <1>b, <1>20, <2>1, <2>2, TypePartsNext DEF AnswerPaired
<1>21. ASSUME NEW r \in Requests, RefusePair(r) PROVE TypeOK'
  <2>1. RequestType'
    BY <1>0, <1>21, ReplyMoves DEF RefusePair
  <2> QED BY <1>b, <1>21, <2>1, TypePartsNext DEF RefusePair
<1>22. ASSUME NEW r \in Requests, MissPair(r) PROVE TypeOK'
  <2>1. RequestType'
    BY <1>0, <1>22, ReplyMoves DEF MissPair
  <2>2. CodeType'
    BY <1>0, <1>22, ScreensAssumption DEF MissPair, CodeType
  <2> QED BY <1>b, <1>22, <2>1, <2>2, TypePartsNext DEF MissPair
<1>23. ASSUME NEW r \in Requests, AcceptPair(r) PROVE TypeOK'
  <2>1. RequestType'
    BY <1>0, <1>23, ReplyMoves DEF AcceptPair
  <2>0. /\ code' = code + 1 /\ showing' = FALSE /\ wrong' = 0 /\ UNCHANGED locked
        /\ code \in Nat /\ locked \in BOOLEAN
    BY <1>0, <1>23 DEF AcceptPair, CodeType
  <2>2. CodeType'
    <3>1. wrong' \in 0 .. MaxWrong - 1
      BY <2>0, NoMisses
    <3>2. code' \in Nat
      BY <2>0
    <3> QED BY <2>0, <3>1, <3>2 DEF CodeType
  <2>3. CfgType'
    <3>1. cfg' \in [push : Requests, token : Requests \cup {0}]
      BY <1>23 DEF AcceptPair, Pairing
    <3>2. flash' \in StoredKeys
      <4>1. CASE flash' = Keys(Pairing(r))
        BY <4>1 DEF Keys, Pairing, StoredKeys
      <4>2. CASE flash' \in PutKeys(Pairing(r))
        BY <1>0, <4>2, KeysPut DEF CfgType
      <4> QED BY <1>23, <4>1, <4>2 DEF AcceptPair
    <3> QED BY <3>1, <3>2 DEF CfgType
  <2>4. HistoryType'
    BY <1>0, <1>23 DEF AcceptPair, HistoryType
  <2> QED BY <1>b, <1>23, <2>1, <2>2, <2>3, <2>4, TypePartsNext DEF AcceptPair
<1>24. ASSUME NEW r \in Requests, PowerCutInSave(r) PROVE TypeOK'
  <2>1. RequestType'
    BY <1>0, <1>24, RequestMoves DEF PowerCutInSave, Ats
  <2>2. PICK keys \in StoredKeys : Reboot(keys)
    <3>1. \A put \in {TRUE, flash.url} :
            [push |-> r, url |-> put, token |-> flash.token] \in StoredKeys
      BY <1>0 DEF CfgType, StoredKeys
    <3>2. Empty \in StoredKeys
      BY DEF Empty, StoredKeys
    <3> QED BY <1>24, <3>1, <3>2 DEF PowerCutInSave
  <2> QED BY <1>b, <1>13, <1>24, <2>1, <2>2, TypePartsNext DEF PowerCutInSave
<1> QED
  BY <1>1, <1>2, <1>3, <1>4, <1>5, <1>6, <1>7, <1>9, <1>10, <1>11, <1>12, <1>14, <1>15,
     <1>16, <1>17, <1>18, <1>19, <1>20, <1>21, <1>22, <1>23, <1>24 DEF Next

----------------------------------------------------------------------------
(* The parts that most steps leave as they are.                            *)

\* Nothing reopens a request that is saved or over.
ClosedKept == \A q \in Requests : Closed(q) => At(q)' = At(q)

LEMMA OneMoves ==
  ASSUME NEW r \in Requests, ~Closed(r),
         \A q \in Requests : q # r => request'[q] = request[q]
  PROVE  ClosedKept
PROOF
BY DEF ClosedKept, Closed, At

LEMMA RecordsStay ==
  ASSUME TypeOK, RecordsInv,
         (registry \cup file \cup removed \cup paired)'
           \subseteq registry \cup file \cup removed \cup paired,
         \A q \in Requests : Closed(q) => Closed(q)'
  PROVE  RecordsInv'
PROOF
<1> SUFFICES ASSUME NEW d \in (registry \cup file \cup removed \cup paired)'
             PROVE  d.token = d.push /\ Closed(d.push)'
  BY DEF RecordsInv
<1>1. d \in registry \cup file \cup removed \cup paired
  OBVIOUS
<1>2. d.push \in Requests
  BY <1>1 DEF TypeOK, Records
<1>3. d.token = d.push /\ Closed(d.push)
  BY <1>1 DEF RecordsInv
<1> QED BY <1>2, <1>3

\* An explanation lasts: requests stay over, and no record is added.
LEMMA ExplainedStays ==
  ASSUME NEW keys \in StoredKeys, keys.push # 0, Explained(keys),
         (registry \cup file)' \subseteq registry \cup file,
         unstored \subseteq unstored',
         \A q \in Requests : At(q) = "over" => At(q)' = "over"
  PROVE  \/ /\ request'[keys.push].at = "over"
            /\ \A d \in (registry \cup file)' : d.push # keys.push
         \/ {keys.push, keys.token} \cap unstored' # {}
PROOF
<1>1. keys.push \in Requests
  BY DEF StoredKeys
<1>2. CASE At(keys.push) = "over" /\ \A d \in registry \cup file : d.push # keys.push
  BY <1>1, <1>2 DEF At
<1>3. CASE {keys.push, keys.token} \cap unstored # {}
  BY <1>3
<1> QED BY <1>2, <1>3 DEF Explained

LEMMA CutOffStays ==
  ASSUME TypeOK, CutOffInv, UNCHANGED <<cfg, flash, unstored>>,
         (registry \cup file)' \subseteq registry \cup file,
         \A q \in Requests : At(q) = "over" => At(q)' = "over"
  PROVE  CutOffInv'
PROOF
<1>1. cfg' # None /\ cfg'.token # cfg'.push => cfg' = Loaded(flash)'
  BY DEF CutOffInv, Loaded
<1>2. ASSUME flash.push # 0, flash.token # flash.push PROVE Explained(flash)'
  <2>1. flash \in StoredKeys /\ Explained(flash)
    BY <1>2, TypeParts DEF CfgType, CutOffInv
  <2> QED BY <1>2, <2>1, ExplainedStays DEF Explained, At
<1> QED BY <1>1, <1>2 DEF CutOffInv

\* A boot reads its keys back, of one pairing or explained.
LEMMA BootReads ==
  ASSUME NEW keys, Reboot(keys),
         \/ keys.push = 0 \/ keys.token = keys.push
         \/ /\ request'[keys.push].at = "over"
            /\ \A d \in (registry \cup file)' : d.push # keys.push
         \/ {keys.push, keys.token} \cap unstored' # {}
  PROVE  CutOffInv'
PROOF
<1>1. flash' = keys /\ cfg' = Loaded(flash)'
  BY DEF Reboot, Loaded
<1> QED BY <1>1 DEF CutOffInv, Explained, At

\* A step of the device, or of a request that is not closed.
LEMMA DeviceSide ==
  ASSUME ScreensInv, ClosedKept,
         UNCHANGED <<daemonVars, posted, rounded, removed, paired, unsaved, wiped, pusher, todo>>
  PROVE  RecordsInv' /\ PushInv' /\ AnswerInv'
PROOF
<1>0. TypeOK /\ RecordsInv /\ PushInv /\ AnswerInv
  BY DEF ScreensInv
<1>1. /\ UNCHANGED <<registry, file, torn, version, seen, pusher, todo>>
      /\ UNCHANGED <<posted, rounded, removed, paired, unsaved, wiped>>
  BY DEF daemonVars
<1>2. RecordsInv'
  BY <1>0, <1>1, RecordsStay DEF ClosedKept, Closed
<1>3. PushInv'
  <2>1. ASSUME NEW d \in registry, Offered(d) PROVE Offered(d)'
    <3>1. d.push \in Requests
      BY <1>0 DEF TypeOK, Records
    <3>2. At(d.push) = "saved" => At(d.push)' = "saved"
      BY <3>1 DEF ClosedKept, Closed
    <3> QED BY <1>1, <2>1, <3>2 DEF Offered
  <2> QED BY <1>0, <1>1, <2>1 DEF PushInv
<1>4. AnswerInv'
  BY <1>0, <1>1 DEF AnswerInv
<1> QED BY <1>2, <1>3, <1>4

\* A surface's content has changed: the pusher has not seen it.
LEMMA UnseenContent ==
  ASSUME TypeOK, PushInv, NewContent, UNCHANGED seen
  PROVE  PushInv'
PROOF
<1>1. seen' <= version /\ version' = version + 1 /\ version \in Nat /\ seen' \in Nat
  BY DEF TypeOK, PushInv, NewContent
<1>2. seen' <= version' /\ seen' # version'
  BY <1>1
<1> QED BY <1>2 DEF PushInv

----------------------------------------------------------------------------
(* The steps that change what the daemon keeps.                            *)

LEMMA PusherStep ==
  ASSUME ScreensInv, TypeOK',
         SeeChange \/ BeginRound \/ Heartbeat \/ EndRound \/ \E d \in todo : Post(d)
  PROVE  ScreensInv'
PROOF
<1>0. TypeOK /\ RecordsInv /\ CutOffInv /\ PushInv /\ AnswerInv
  BY DEF ScreensInv
<1>1. /\ UNCHANGED <<registry, file, torn, version, request, cfg, flash>>
      /\ UNCHANGED <<removed, paired, unsaved, wiped, unstored>>
  BY DEF SeeChange, BeginRound, Heartbeat, EndRound, Post, daemonVars, deviceVars, history
<1>2. RecordsInv' /\ CutOffInv' /\ AnswerInv'
  BY <1>0, <1>1 DEF RecordsInv, CutOffInv, Explained, Loaded, AnswerInv, At, Closed
<1>3. PushInv'
  <2>1. CASE SeeChange
    BY <1>0, <2>1 DEF SeeChange, PushInv, TypeOK
  <2>2. CASE BeginRound
    <3>1. \A d \in registry : Offered(d)'
      BY <2>2 DEF BeginRound, Offered
    <3> QED BY <1>0, <1>1, <2>2, <3>1 DEF BeginRound, PushInv, TypeOK
  <2>3. CASE Heartbeat
    <3>1. \A d \in registry : Offered(d)'
      BY <2>3 DEF Heartbeat, Offered
    <3>2. UNCHANGED <<seen, version>>
      BY <2>3 DEF Heartbeat, daemonVars
    <3> QED BY <1>0, <1>1, <3>1, <3>2 DEF PushInv
  <2>4. CASE EndRound
    <3>1. pusher = "round" /\ todo = {} /\ UNCHANGED <<seen, version, posted>>
      BY <2>4 DEF EndRound, daemonVars, history
    <3>2. ASSUME NEW d \in registry, Offered(d) PROVE Offered(d)'
      BY <1>1, <3>1, <3>2 DEF Offered, At
    <3> QED BY <1>0, <1>1, <3>1, <3>2 DEF PushInv
  <2>5. ASSUME NEW e \in todo, Post(e) PROVE PushInv'
    <3>1. /\ pusher = "round" /\ UNCHANGED <<pusher, seen, version>>
          /\ todo' = todo \ {e} /\ posted' = posted \cup {e.push}
      BY <2>5 DEF Post, daemonVars
    <3>2. ASSUME NEW d \in registry, Offered(d) PROVE Offered(d)'
      BY <1>1, <3>1, <3>2 DEF Offered, At
    <3> QED BY <1>0, <1>1, <3>1, <3>2 DEF PushInv
  <2> QED BY <2>1, <2>2, <2>3, <2>4, <2>5
<1> QED BY <1>2, <1>3 DEF ScreensInv

\* The record of a request that is answered belongs to no record so far.
LEMMA UpsertStep ==
  ASSUME ScreensInv, TypeOK', NEW r \in Requests, Upsert(r)
  PROVE  ScreensInv'
PROOF
<1>0. TypeOK /\ RecordsInv /\ CutOffInv /\ PushInv /\ AnswerInv
  BY DEF ScreensInv
<1> DEFINE new == RecordOf(r)
           saved == /\ file' = Added(r) /\ torn' = FALSE
                    /\ paired' = OthersPaired(r) \cup {new} /\ UNCHANGED unsaved
           failed == /\ (UNCHANGED <<file, torn>>) \/ (file' = {} /\ torn' = TRUE)
                     /\ paired' = OthersPaired(r) /\ unsaved' = unsaved \cup {new}
<1>1. /\ At(r) = "answered" /\ registry' = Added(r)
      /\ UNCHANGED <<version, seen, pusher, todo, cfg, flash, posted, rounded>>
      /\ UNCHANGED <<removed, wiped, unstored>>
  BY DEF Upsert, At, pushVars, deviceVars
<1>2. PICK to \in {"saved", "over"} :
        /\ request' = [request EXCEPT ![r].at = to]
        /\ (to = "saved" /\ saved) \/ (to = "over" /\ failed)
  BY DEF Upsert, Saved, FailedSave
<1>3. /\ request'[r].at = to
      /\ \A q \in Requests : q # r => request'[q] = request[q]
  BY <1>0, <1>2, RequestMoves, TypeParts DEF Ats
<1>4. ClosedKept
  BY <1>1, <1>3, OneMoves DEF Closed
<1>5. /\ new.push = r /\ new.token = r
      /\ Added(r) \subseteq registry \cup {new} /\ OthersPaired(r) \subseteq paired
      /\ paired \subseteq registry => OthersPaired(r) \subseteq Added(r)
      /\ OthersPaired(r) \subseteq paired /\ new \in Added(r)
  BY DEF RecordOf, Record, Added, OthersPaired
<1>6. \A d \in registry \cup file \cup removed \cup paired : d.push # r /\ d.push \in Requests
  <2>1. \A d \in registry \cup file \cup removed \cup paired : d.push \in Requests
    BY <1>0 DEF TypeOK, Records
  <2> QED BY <1>0, <1>1, <2>1 DEF RecordsInv, Closed
<1> HIDE DEF new
<1>7. RecordsInv'
  <2> SUFFICES ASSUME NEW d \in (registry \cup file \cup removed \cup paired)'
               PROVE  d.token = d.push /\ Closed(d.push)'
    BY DEF RecordsInv
  <2>1. d = new \/ d \in registry \cup file \cup removed \cup paired
    BY <1>1, <1>2, <1>5
  <2>2. CASE d = new
    BY <1>3, <1>5, <2>2 DEF Closed, At
  <2>3. CASE d \in registry \cup file \cup removed \cup paired
    BY <1>0, <1>4, <1>6, <2>3 DEF RecordsInv, ClosedKept, Closed
  <2> QED BY <2>1, <2>2, <2>3
<1>8. CutOffInv'
  <2>1. cfg' # None /\ cfg'.token # cfg'.push => cfg' = Loaded(flash)'
    BY <1>0, <1>1 DEF CutOffInv, Loaded
  <2>2. ASSUME flash.push # 0, flash.token # flash.push PROVE Explained(flash)'
    <3>1. Explained(flash) /\ flash.push \in Requests
      BY <1>0, <2>2, TypeParts DEF CutOffInv, CfgType, StoredKeys
    <3>2. CASE /\ At(flash.push) = "over"
               /\ \A d \in registry \cup file : d.push # flash.push
      <4>1. flash.push # r
        BY <1>1, <3>2
      <4>2. At(flash.push)' = "over"
        BY <1>1, <1>3, <3>1, <3>2, <4>1 DEF At
      <4>3. (registry \cup file)' \subseteq registry \cup file \cup {new}
        BY <1>1, <1>2, <1>5
      <4> QED BY <1>1, <1>5, <3>2, <4>1, <4>2, <4>3 DEF Explained
    <3>3. CASE {flash.push, flash.token} \cap unstored # {}
      BY <1>1, <3>3 DEF Explained
    <3> QED BY <3>1, <3>2, <3>3 DEF Explained
  <2> QED BY <1>1, <2>1, <2>2 DEF CutOffInv
<1>9. PushInv'
  <2>1. ASSUME NEW d \in registry, Offered(d) PROVE Offered(d)'
    <3>1. request'[d.push] = request[d.push]
      BY <1>3, <1>6
    <3>2. unsaved \subseteq unsaved'
      BY <1>2
    <3> QED BY <1>1, <2>1, <3>1, <3>2 DEF Offered, At
  <2>2. ASSUME NEW d, d = new PROVE Offered(d)'
    <3>1. d.push = r
      BY <1>5, <2>2
    <3>2. At(r)' = to
      BY <1>3 DEF At
    <3>3. CASE to = "saved"
      BY <3>1, <3>2, <3>3 DEF Offered
    <3>4. CASE to = "over"
      BY <1>2, <2>2, <3>4 DEF Offered
    <3> QED BY <3>3, <3>4
  <2>3. \A d \in registry' : d \in registry \/ d = new
    BY <1>1, <1>5
  <2> QED BY <1>0, <1>1, <2>1, <2>2, <2>3 DEF PushInv
<1>10. AnswerInv'
  <2>1. new \notin removed
    BY <1>5, <1>6
  <2>2. (registry \cup file)' \subseteq registry \cup file \cup {new}
    BY <1>1, <1>2, <1>5
  <2>3. ASSUME ~wiped PROVE paired' \subseteq registry' /\ (torn' \/ paired' \subseteq file')
    <3>1. paired \subseteq registry /\ (torn \/ paired \subseteq file)
      BY <1>0, <2>3 DEF AnswerInv
    <3> QED BY <1>1, <1>2, <1>5, <3>1
  <2> QED BY <1>0, <1>1, <2>1, <2>2, <2>3 DEF AnswerInv
<1> QED BY <1>7, <1>8, <1>9, <1>10 DEF ScreensInv

LEMMA AnswerPairedStep ==
  ASSUME ScreensInv, TypeOK', NEW r \in Requests, AnswerPaired(r)
  PROVE  ScreensInv'
PROOF
<1>0. TypeOK /\ RecordsInv /\ CutOffInv /\ PushInv /\ AnswerInv
  BY DEF ScreensInv
<1>1. /\ NewContent /\ request[r].at = "saved"
      /\ UNCHANGED <<registry, file, torn, seen, cfg, flash, removed, paired, wiped, unstored>>
  BY DEF AnswerPaired, deviceVars
<1>2. /\ request'[r].at = "over"
      /\ \A q \in Requests : q # r => request'[q] = request[q]
  BY <1>0, RequestMoves, TypeParts DEF AnswerPaired, Ats
<1>3. \A q \in Requests : /\ Closed(q) => Closed(q)'
                          /\ At(q) = "over" => At(q)' = "over"
  BY <1>1, <1>2 DEF Closed, At
<1>4. RecordsInv'
  BY <1>0, <1>1, <1>3, RecordsStay
<1>5. CutOffInv'
  BY <1>0, <1>1, <1>3, CutOffStays
<1>6. PushInv' /\ AnswerInv'
  BY <1>0, <1>1, UnseenContent DEF AnswerInv
<1> QED BY <1>4, <1>5, <1>6 DEF ScreensInv

LEMMA RemoveStep ==
  ASSUME ScreensInv, TypeOK', NEW d \in registry, Remove(d)
  PROVE  ScreensInv'
PROOF
<1>0. TypeOK /\ RecordsInv /\ CutOffInv /\ PushInv /\ AnswerInv
  BY DEF ScreensInv
<1>1. /\ registry' = registry \ {d} /\ paired' = paired \ {d}
      /\ UNCHANGED <<version, seen, pusher, todo, request, cfg, flash, posted, rounded>>
      /\ UNCHANGED <<unsaved, wiped, unstored>>
  BY DEF Remove, pushVars, deviceVars
<1>2. \/ file' = registry \ {d} /\ torn' = FALSE /\ removed' = removed \cup {d}
      \/ UNCHANGED <<file, torn, removed>>
      \/ file' = {} /\ torn' = TRUE /\ UNCHANGED removed
  BY DEF Remove, Saved, FailedSave
<1>3. \A q \in Requests : At(q)' = At(q)
  BY <1>1 DEF At
<1>4. RecordsInv'
  <2>1. (registry \cup file \cup removed \cup paired)'
          \subseteq registry \cup file \cup removed \cup paired
    BY <1>1, <1>2
  <2> QED BY <1>0, <1>3, <2>1, RecordsStay DEF Closed
<1>5. CutOffInv'
  <2>1. (registry \cup file)' \subseteq registry \cup file
    BY <1>1, <1>2
  <2> QED BY <1>0, <1>1, <1>3, <2>1, CutOffStays
<1>6. PushInv'
  <2>1. ASSUME NEW e \in registry, Offered(e) PROVE Offered(e)'
    BY <1>1, <2>1 DEF Offered, At
  <2> QED BY <1>0, <1>1, <2>1 DEF PushInv
<1>7. AnswerInv'
  BY <1>0, <1>1, <1>2 DEF AnswerInv
<1> QED BY <1>4, <1>5, <1>6, <1>7 DEF ScreensInv

\* A start reads back the file, or nothing of one torn or not readable.
LEMMA RestartStep ==
  ASSUME ScreensInv, TypeOK', Restart \/ CrashInSave
  PROVE  ScreensInv'
PROOF
<1>0. TypeOK /\ RecordsInv /\ CutOffInv /\ PushInv /\ AnswerInv
  BY DEF ScreensInv
<1>1. PICK read, f, t : /\ (f = file /\ t = torn) \/ (f = {} /\ t = TRUE)
                        /\ read = f \/ read = {}
                        /\ AfterRestart(read, f, t)
  BY DEF Restart, CrashInSave
<1>2. /\ registry' = read /\ file' = f /\ torn' = t /\ wiped' = (wiped \/ t \/ read # f)
      /\ seen' = version' /\ version' = version + 1
      /\ pusher' = "idle" /\ rounded' = FALSE
      /\ UNCHANGED <<cfg, flash, removed, paired, unstored>>
  BY <1>1 DEF AfterRestart, NewContent, deviceVars
<1>3. \A q \in Requests : /\ Closed(q) => Closed(q)'
                          /\ At(q) = "over" => At(q)' = "over"
  <2> SUFFICES ASSUME NEW q \in Requests, Closed(q)
               PROVE  Closed(q)' /\ (At(q) = "over" => At(q)' = "over")
    BY DEF Closed
  <2>1. CASE request[q].at = "saved"
    <3>1. request'[q] = [request[q] EXCEPT !.at = "over"]
      BY <1>1, <2>1 DEF AfterRestart
    <3>2. request[q] \in [at : Ats, owner : Owners, typed : Nat]
      BY <1>0, TypeParts DEF RequestType
    <3>3. request'[q].at = "over"
      BY <3>1, <3>2
    <3> QED BY <3>3 DEF Closed, At
  <2>2. CASE request[q].at = "over"
    <3>1. request'[q] = request[q]
      BY <1>1, <2>2 DEF AfterRestart
    <3> QED BY <2>2, <3>1 DEF Closed, At
  <2> QED BY <2>1, <2>2 DEF Closed, At
<1>4. RecordsInv'
  <2>1. (registry \cup file \cup removed \cup paired)'
          \subseteq registry \cup file \cup removed \cup paired
    BY <1>1, <1>2
  <2> QED BY <1>0, <1>3, <2>1, RecordsStay
<1>5. CutOffInv'
  <2>1. (registry \cup file)' \subseteq registry \cup file
    BY <1>1, <1>2
  <2> QED BY <1>0, <1>2, <1>3, <2>1, CutOffStays
<1>6. PushInv'
  <2>1. seen' <= version'
    BY <1>0, <1>2 DEF TypeOK
  <2> QED BY <1>2, <2>1 DEF PushInv
<1>7. AnswerInv'
  <2>1. (registry \cup file)' \cap removed' = {}
    BY <1>0, <1>1, <1>2 DEF AnswerInv
  <2>2. ASSUME ~wiped' PROVE paired' \subseteq registry' /\ paired' \subseteq file'
    <3>1. ~wiped /\ ~t /\ read = f
      BY <1>2, <2>2
    <3>2. f = file /\ ~torn
      BY <1>1, <3>1
    <3> QED BY <1>0, <1>2, <3>1, <3>2 DEF AnswerInv
  <2> QED BY <2>1, <2>2 DEF AnswerInv
<1> QED BY <1>4, <1>5, <1>6, <1>7 DEF ScreensInv

----------------------------------------------------------------------------
(* The steps of the wire, of the device, and of requests not yet closed.   *)

LEMMA WireStep ==
  ASSUME ScreensInv, TypeOK',
         \/ UNCHANGED vars
         \/ LosePost \/ TakePush \/ ShowCode \/ HideCode \/ Unlock \/ GoStale
         \/ PowerCycle \/ FactoryReset
  PROVE  ScreensInv'
PROOF
<1>1. UNCHANGED <<daemonVars, history, pusher, todo, request>>
  BY DEF vars, pushVars, LosePost, TakePush, ShowCode, HideCode, Unlock, GoStale, PowerCycle,
     FactoryReset
<1>2. UNCHANGED <<registry, file, posted, rounded, removed, paired, unsaved, wiped, unstored>>
  BY <1>1 DEF daemonVars, history
<1>3. ClosedKept /\ \A q \in Requests : At(q)' = At(q)
  BY <1>1 DEF ClosedKept, At
<1>4. CutOffInv'
  <2>1. CASE UNCHANGED <<cfg, flash>>
    BY <1>2, <1>3, <2>1, CutOffStays DEF ScreensInv
  <2>2. CASE PowerCycle
    <3>1. Reboot(flash) /\ flash \in StoredKeys
      BY <2>2, TypeParts DEF PowerCycle, ScreensInv, CfgType
    <3>2. \/ flash.push = 0 \/ flash.token = flash.push \/ Explained(flash)
      BY DEF ScreensInv, CutOffInv
    <3> QED BY <1>2, <1>3, <3>1, <3>2, ExplainedStays, BootReads
  <2>3. CASE FactoryReset
    BY <2>3, BootReads DEF FactoryReset, Empty
  <2>4. UNCHANGED <<cfg, flash>> \/ PowerCycle \/ FactoryReset
    BY DEF vars, deviceVars, LosePost, TakePush, ShowCode, HideCode, Unlock, GoStale
  <2> QED BY <2>1, <2>2, <2>3, <2>4
<1> QED BY <1>1, <1>2, <1>3, <1>4, DeviceSide DEF ScreensInv

LEMMA RequestStep ==
  ASSUME ScreensInv, TypeOK', NEW r \in Requests,
         \/ \E o \in Owners : StartPair(r, o)
         \/ PairFails(r) \/ RefusePair(r) \/ MissPair(r) \/ AcceptPair(r) \/ PowerCutInSave(r)
  PROVE  ScreensInv'
PROOF
<1>0. TypeOK /\ RequestType
  BY TypeParts DEF ScreensInv
<1>1. ~Closed(r)
  BY DEF Closed, At, StartPair, PairFails, RefusePair, MissPair, AcceptPair, PowerCutInSave
<1>2. /\ UNCHANGED <<daemonVars, posted, rounded, removed, paired, unsaved, wiped, pusher, todo>>
      /\ UNCHANGED <<registry, file>>
  BY DEF daemonVars, history, pushVars, StartPair, PairFails, RefusePair, MissPair, AcceptPair,
     PowerCutInSave
<1>3. \A q \in Requests : q # r => request'[q] = request[q]
  <2>1. CASE \E o \in Owners : StartPair(r, o)
    BY <1>0, <2>1 DEF StartPair, RequestType
  <2>2. CASE PairFails(r)
    <3>1. PICK to \in {"late", "over"} : request' = [request EXCEPT ![r].at = to]
      BY <2>2 DEF PairFails
    <3> QED BY <1>0, <3>1, RequestMoves DEF Ats
  <2>3. CASE RefusePair(r) \/ MissPair(r)
    <3>1. Reply(r, "over")
      BY <2>3 DEF RefusePair, MissPair
    <3> QED BY <1>0, <3>1, ReplyMoves
  <2>4. CASE AcceptPair(r)
    <3>1. Reply(r, "answered")
      BY <2>4 DEF AcceptPair
    <3> QED BY <1>0, <3>1, ReplyMoves
  <2>5. CASE PowerCutInSave(r)
    <3>1. request' = [request EXCEPT ![r].at = "over"]
      BY <2>5 DEF PowerCutInSave
    <3> QED BY <1>0, <3>1, RequestMoves DEF Ats
  <2> QED BY <2>1, <2>2, <2>3, <2>4, <2>5
<1>4. ClosedKept
  BY <1>1, <1>3, OneMoves
<1>5. CutOffInv'
  <2>0. \A q \in Requests : At(q) = "over" => At(q)' = "over"
    BY <1>4 DEF ClosedKept, Closed
  <2>1. CASE \/ \E o \in Owners : StartPair(r, o)
             \/ PairFails(r) \/ RefusePair(r) \/ MissPair(r)
    <3>1. UNCHANGED <<cfg, flash, unstored>>
      BY <2>1 DEF deviceVars, history, StartPair, PairFails, RefusePair, MissPair
    <3> QED BY <1>2, <2>0, <3>1, CutOffStays DEF ScreensInv
  <2>2. CASE AcceptPair(r)
    <3>1. cfg'.token = cfg'.push
      BY <2>2 DEF AcceptPair, Pairing
    <3>2. flash \in StoredKeys
      BY <1>0, TypeParts DEF CfgType
    <3>3. CASE flash' = Keys(Pairing(r))
      BY <3>1, <3>3 DEF CutOffInv, Keys, Pairing
    <3>4. CASE /\ flash' \in PutKeys(Pairing(r)) /\ flash' # Keys(Pairing(r))
               /\ unstored' = unstored \cup {r}
      <4> SUFFICES ASSUME flash'.push # 0, flash'.token # flash'.push
                   PROVE  Explained(flash)'
        BY <3>1 DEF CutOffInv
      <4>1. flash'.push \in {r, flash.push} /\ flash'.token \in {r, flash.token}
        BY <3>2, <3>4, KeysPut
      <4>2. CASE r \in {flash'.push, flash'.token}
        BY <3>4, <4>2 DEF Explained
      <4>3. CASE flash'.push = flash.push /\ flash'.token = flash.token
        <5>1. Explained(flash)
          BY <4>3 DEF ScreensInv, CutOffInv
        <5>2. unstored \subseteq unstored'
          BY <3>4
        <5>3. \/ /\ request'[flash.push].at = "over"
                 /\ \A d \in (registry \cup file)' : d.push # flash.push
              \/ {flash.push, flash.token} \cap unstored' # {}
          BY <1>2, <2>0, <3>2, <4>3, <5>1, <5>2, ExplainedStays
        <5> QED BY <4>3, <5>3 DEF Explained, At
      <4> QED BY <4>1, <4>2, <4>3
    <3> QED BY <2>2, <3>3, <3>4 DEF AcceptPair
  <2>3. CASE PowerCutInSave(r)
    <3>1. request' = [request EXCEPT ![r].at = "over"]
      BY <2>3 DEF PowerCutInSave
    <3>2. request'[r].at = "over"
      BY <1>0, <3>1, RequestMoves DEF Ats
    <3>3. \A d \in (registry \cup file)' : d.push # r
      BY <1>1, <1>2 DEF ScreensInv, RecordsInv
    <3>4. CASE Reboot(Empty)
      BY <3>4, BootReads DEF Empty
    <3>5. ASSUME NEW put, Reboot([push |-> r, url |-> put, token |-> flash.token])
          PROVE  CutOffInv'
      BY <3>2, <3>3, <3>5, BootReads
    <3> QED BY <2>3, <3>4, <3>5 DEF PowerCutInSave
  <2> QED BY <2>1, <2>2, <2>3
<1> QED BY <1>2, <1>4, <1>5, DeviceSide DEF ScreensInv

LEMMA ScreensStep ==
  ASSUME ScreensInv, [Next]_vars
  PROVE  ScreensInv'
PROOF
<1>1. TypeOK'
  BY TypeStep DEF ScreensInv
<1>2. CASE Change
  <2>1. /\ NewContent
        /\ UNCHANGED <<registry, file, torn, seen, request, cfg, flash>>
        /\ UNCHANGED <<removed, paired, wiped, unstored>>
    BY <1>2 DEF Change, deviceVars
  <2>2. RecordsInv' /\ CutOffInv' /\ AnswerInv'
    BY <2>1 DEF ScreensInv, RecordsInv, CutOffInv, Explained, Loaded, AnswerInv, At, Closed
  <2> QED BY <1>1, <2>1, <2>2, UnseenContent DEF ScreensInv
<1>3. CASE SeeChange \/ BeginRound \/ Heartbeat \/ EndRound \/ \E d \in todo : Post(d)
  BY <1>1, <1>3, PusherStep
<1>4. CASE Restart \/ CrashInSave
  BY <1>1, <1>4, RestartStep
<1>5. CASE \/ UNCHANGED vars
           \/ LosePost \/ TakePush \/ ShowCode \/ HideCode \/ Unlock \/ GoStale
           \/ PowerCycle \/ FactoryReset
  BY <1>1, <1>5, WireStep
<1>6. CASE \E d \in registry : Remove(d)
  BY <1>1, <1>6, RemoveStep
<1>7. ASSUME NEW r \in Requests, Upsert(r) \/ AnswerPaired(r) PROVE ScreensInv'
  BY <1>1, <1>7, UpsertStep, AnswerPairedStep
<1>8. ASSUME NEW r \in Requests,
             \/ \E o \in Owners : StartPair(r, o)
             \/ PairFails(r) \/ RefusePair(r) \/ MissPair(r) \/ AcceptPair(r) \/ PowerCutInSave(r)
      PROVE  ScreensInv'
  BY <1>1, <1>8, RequestStep
<1> QED
  BY <1>2, <1>3, <1>4, <1>5, <1>6, <1>7, <1>8 DEF Next

LEMMA InitScreens == Init => ScreensInv
PROOF
<1> SUFFICES ASSUME Init PROVE ScreensInv
  OBVIOUS
<1>1. TypeOK
  BY InitType
<1>2. RecordsInv /\ CutOffInv /\ AnswerInv
  BY DEF Init, Empty, RecordsInv, CutOffInv, AnswerInv
<1>3. PushInv
  BY DEF Init, PushInv
<1> QED BY <1>1, <1>2, <1>3 DEF ScreensInv

----------------------------------------------------------------------------
(* What holds of every behaviour.                                          *)

\* The inductive invariant: upsert and remove of devices.rs, the rounds of
\* spawn_pusher and the device's savePaired keep the records, the push tokens
\* and the rounds in step, through lost answers, failed or cut saves, restarts
\* of the daemon and power cuts of the device.
THEOREM ScreensInvariant == Spec => []ScreensInv
PROOF
<1>1. Init => ScreensInv
  BY InitScreens
<1>2. ScreensInv /\ [Next]_vars => ScreensInv'
  BY ScreensStep
<1> QED BY <1>1, <1>2, PTL DEF Spec

\* The registry, the file, the requests and the device's state keep their types.
THEOREM TypeCorrect == Spec => []TypeOK
PROOF
<1>1. ScreensInv => TypeOK
  BY DEF ScreensInv
<1> QED BY <1>1, ScreensInvariant, PTL

\* A device that lets in a record's pushes acts with that record's token but
\* for a key savePaired failed to put and handlePair answered 200 for: a
\* pairing cut off between two keys by the power belongs to a request the
\* daemon never hears of, so no record carries its push token.
THEOREM ScreenTokensAgree == Spec => []StoredTokensAgree
PROOF
<1>1. ScreensInv => StoredTokensAgree
  <2> SUFFICES ASSUME ScreensInv, NEW d \in registry, cfg # None, cfg.push = d.push,
                      cfg.token # d.token
               PROVE  cfg = Loaded(flash) /\ {cfg.push, cfg.token} \cap unstored # {}
    BY DEF StoredTokensAgree
  <2>1. d.token = d.push
    BY DEF ScreensInv, RecordsInv
  <2>2. cfg = Loaded(flash)
    BY <2>1 DEF ScreensInv, CutOffInv
  <2>3. flash.push # 0 /\ cfg.push = flash.push /\ cfg.token = flash.token
    BY <2>2 DEF Loaded
  <2>4. Explained(flash)
    BY <2>1, <2>3 DEF ScreensInv, CutOffInv
  <2> QED BY <2>2, <2>3, <2>4 DEF Explained
<1> QED BY <1>1, ScreensInvariant, PTL

\* A pusher that waits with no change pending has posted the content to every
\* device: hub.touch comes after upsert's save, and the receiver is brought up
\* to date (borrow_and_update) before the round reads the registry.
THEOREM SettledScreensArePosted == Spec => []SettledIsPosted
PROOF
<1>1. ScreensInv => SettledIsPosted
  BY DEF ScreensInv, PushInv, Offered, At, SettledIsPosted
<1> QED BY <1>1, ScreensInvariant, PTL

\* A removal and a pairing that were answered outlive restarts: remove and
\* upsert answer only what save has put in devices.json, or a start could not
\* read the file.
THEOREM ScreenAnswersLast == Spec => []AnswersLast
PROOF
<1>1. ScreensInv => AnswersLast
  BY DEF ScreensInv, AnswerInv, AnswersLast
<1> QED BY <1>1, ScreensInvariant, PTL

=============================================================================
