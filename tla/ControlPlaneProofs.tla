------------------------- MODULE ControlPlaneProofs -------------------------
(***************************************************************************)
(* What the webhook queue promises on its own, and what ControlPlane       *)
(* promises of the task store, of the events and of the queue it feeds,    *)
(* for any number of calls, tasks, subscriptions, attempts and faults.     *)
(***************************************************************************)
EXTENDS ControlPlane, SequenceTheorems, TLAPS

----------------------------------------------------------------------------
(* The queue.  A row that waits to be posted or was just posted is pending *)
(* and has one place in the order, so recording it changes nothing another *)
(* row of the sweep relies on.                                             *)

OneIf(cond) == IF cond THEN 1 ELSE 0
Posted(d) == OneIf(InFlight(d))
Done(d) == OneIf(status[d] = "delivered")
Heard(d) == OneIf(InFlight(d) /\ outcome = "ok")

\* The rows in a sequence of them are pending, each in one place.
Lined(rows) ==
  /\ \A i \in DOMAIN rows : status[rows[i]] = "pending"
  /\ \A i, j \in DOMAIN rows : rows[i] = rows[j] => i = j

LineInv ==
  /\ Lined(ready)
  /\ Lined(sweep)
  /\ outcome # "none" => sweep # <<>>

\* attempt_count and the POSTs made.
AttemptOK(d) ==
  /\ status[d] = "dead" => attempts[d] = MaxAttempts
  /\ status[d] # "dead" => attempts[d] < MaxAttempts
  /\ attempts[d] + Done(d) + Posted(d) <= tries[d]
  /\ tries[d] <= attempts[d] + faults + Done(d) + Posted(d)

\* The POSTs the receiver took and those whose answer was lost.
TakenOK(d) ==
  /\ unheard[d] <= taken[d]
  /\ Done(d) = 1 => unheard[d] < taken[d]
  /\ Heard(d) = 1 => unheard[d] < taken[d]
  /\ taken[d] <= unheard[d] + faults + Done(d) + Heard(d)

CountInv == \A d \in Deliveries : AttemptOK(d) /\ TakenOK(d)

QueueInv == QueueTypeOK /\ LineInv /\ CountInv

\* Only the row at the head of the sweep was posted and not recorded yet.
LEMMA Ones ==
  ASSUME NEW d
  PROVE  /\ Done(d) = IF status[d] = "delivered" THEN 1 ELSE 0
         /\ Posted(d) = IF outcome # "none" /\ Head(sweep) = d THEN 1 ELSE 0
         /\ Heard(d) = IF outcome = "ok" /\ Head(sweep) = d THEN 1 ELSE 0
PROOF
BY DEF Done, Posted, Heard, OneIf, InFlight

LEMMA InitQueue == QueueInit => QueueInv
PROOF
<1> SUFFICES ASSUME QueueInit PROVE QueueInv
  OBVIOUS
<1> USE DEF QueueInit
<1>1. QueueTypeOK
  BY DEF QueueTypeOK, DeliveryStatus, Outcome
<1>2. LineInv
  BY DEF LineInv, Lined
<1>3. ASSUME NEW d \in Deliveries PROVE AttemptOK(d) /\ TakenOK(d)
  <2>1. Done(d) = 0 /\ Posted(d) = 0 /\ Heard(d) = 0
    BY Ones
  <2> QED BY <2>1, QueueAssumption DEF AttemptOK, TakenOK
<1> QED BY <1>1, <1>2, <1>3 DEF QueueInv, CountInv

\* Taking a row out of the due rows leaves the others, in their order.
LEMMA StillReadyRows ==
  ASSUME ready \in Seq(Deliveries), NEW d
  PROVE  /\ StillReady(d) \in Seq(Deliveries)
         /\ Lined(ready) =>
              /\ \A k \in DOMAIN StillReady(d) : StillReady(d)[k] # d
              /\ \A k \in DOMAIN StillReady(d) :
                   status[StillReady(d)[k]] = "pending"
              /\ \A j, k \in DOMAIN StillReady(d) :
                   StillReady(d)[j] = StillReady(d)[k] => j = k
PROOF
<1>1. CASE \A i \in DOMAIN ready : ready[i] # d
  BY <1>1 DEF StillReady, Lined
<1>2. CASE \E i \in DOMAIN ready : ready[i] = d
  <2> DEFINE i == CHOOSE i \in DOMAIN ready : ready[i] = d
             before == SubSeq(ready, 1, i - 1)
             after == SubSeq(ready, i + 1, Len(ready))
  <2>1. i \in 1 .. Len(ready) /\ ready[i] = d
    BY <1>2
  <2>2. StillReady(d) = before \o after
    BY <1>2 DEF StillReady
  <2> HIDE DEF i
  <2>3. /\ before \in Seq(Deliveries)
        /\ Len(before) = i - 1
        /\ \A k \in 1 .. i - 1 : before[k] = ready[k]
    BY <2>1
  <2>4. /\ after \in Seq(Deliveries)
        /\ Len(after) = Len(ready) - i
        /\ \A k \in 1 .. Len(ready) - i : after[k] = ready[i + k]
    BY <2>1
  <2> HIDE DEF before, after
  <2>5. /\ StillReady(d) \in Seq(Deliveries)
        /\ Len(StillReady(d)) = Len(ready) - 1
        /\ \A k \in 1 .. Len(ready) - 1 :
             StillReady(d)[k] = ready[IF k < i THEN k ELSE k + 1]
    <3>1. /\ before \o after \in Seq(Deliveries)
          /\ Len(before \o after) = (i - 1) + (Len(ready) - i)
          /\ \A k \in 1 .. (i - 1) + (Len(ready) - i) :
               (before \o after)[k] =
                 IF k <= i - 1 THEN before[k] ELSE after[k - (i - 1)]
      <4>1. Len(before) \in Int /\ Len(after) \in Int /\ i \in Int
        BY <2>1, <2>3, <2>4
      <4>2. /\ before \o after \in Seq(Deliveries)
            /\ Len(before \o after) = Len(before) + Len(after)
            /\ \A k \in 1 .. Len(before) + Len(after) :
                 (before \o after)[k] =
                   IF k <= Len(before) THEN before[k]
                   ELSE after[k - Len(before)]
        BY <2>3, <2>4, ConcatProperties
      <4> QED BY <4>2, <2>3, <2>4
    <3>2. Len(ready) \in Nat /\ (i - 1) + (Len(ready) - i) = Len(ready) - 1
      BY <2>1
    <3>3. ASSUME NEW k \in 1 .. Len(ready) - 1
          PROVE  StillReady(d)[k] = ready[IF k < i THEN k ELSE k + 1]
      <4>1. CASE k < i
        BY <4>1, <2>1, <2>2, <2>3, <3>1, <3>2
      <4>2. CASE k >= i
        <5>1. k - (i - 1) \in 1 .. Len(ready) - i /\ i + (k - (i - 1)) = k + 1
          BY <4>2, <2>1, <3>2
        <5>2. StillReady(d)[k] = after[k - (i - 1)]
          BY <4>2, <2>1, <2>2, <3>1, <3>2
        <5> QED BY <4>2, <5>1, <5>2, <2>1, <2>4
      <4> QED BY <4>1, <4>2, <2>1
    <3> QED BY <2>2, <3>1, <3>2, <3>3
  <2>6. DOMAIN StillReady(d) = 1 .. Len(ready) - 1
    BY <2>5
  <2>7. ASSUME NEW k \in 1 .. Len(ready) - 1
        PROVE  /\ (IF k < i THEN k ELSE k + 1) \in DOMAIN ready
               /\ (IF k < i THEN k ELSE k + 1) # i
    BY <2>1
  <2>8. ASSUME Lined(ready), NEW k \in 1 .. Len(ready) - 1
        PROVE  /\ StillReady(d)[k] # d
               /\ status[StillReady(d)[k]] = "pending"
    BY <2>1, <2>5, <2>7, <2>8 DEF Lined
  <2>9. ASSUME Lined(ready), NEW j \in 1 .. Len(ready) - 1,
               NEW k \in 1 .. Len(ready) - 1,
               StillReady(d)[j] = StillReady(d)[k]
        PROVE  j = k
    <3>1. (IF j < i THEN j ELSE j + 1) = (IF k < i THEN k ELSE k + 1)
      BY <2>5, <2>7, <2>9 DEF Lined
    <3> QED BY <3>1, <2>1
  <2> QED BY <2>5, <2>6, <2>8, <2>9
<1> QED BY <1>1, <1>2

\* A row put behind the others.
LEMMA RowBehind ==
  ASSUME NEW rows \in Seq(Deliveries), NEW d \in Deliveries
  PROVE  /\ Append(rows, d) \in Seq(Deliveries)
         /\ DOMAIN Append(rows, d) = 1 .. Len(rows) + 1
         /\ Append(rows, d)[Len(rows) + 1] = d
         /\ \A i \in DOMAIN rows : Append(rows, d)[i] = rows[i]
         /\ DOMAIN rows = 1 .. Len(rows) /\ Len(rows) \in Nat
PROOF
<1>1. Len(rows) \in Nat /\ DOMAIN rows = 1 .. Len(rows)
  BY LenProperties
<1>2. DOMAIN Append(rows, d) = 1 .. Len(Append(rows, d))
  BY AppendProperties, LenProperties
<1> QED BY <1>1, <1>2, AppendProperties

----------------------------------------------------------------------------
(* The steps.                                                              *)

\* A step that leaves a row's counts and its place in the loop alone, but
\* may add a fault, keeps its numbers right.
LEMMA RowUntouched ==
  ASSUME QueueTypeOK, QueueTypeOK', NEW d \in Deliveries,
         AttemptOK(d), TakenOK(d), faults' >= faults,
         status'[d] = "delivered" <=> status[d] = "delivered",
         status'[d] = "dead" <=> status[d] = "dead",
         attempts'[d] = attempts[d], tries'[d] = tries[d],
         taken'[d] = taken[d], unheard'[d] = unheard[d],
         Posted(d)' = Posted(d), Heard(d)' = Heard(d)
  PROVE  AttemptOK(d)' /\ TakenOK(d)'
PROOF
<1>1. Done(d)' = Done(d) /\ Done(d) \in {0, 1}
  BY DEF Done, OneIf
<1>2. Posted(d) \in {0, 1} /\ Heard(d) \in {0, 1}
  BY DEF Posted, Heard, OneIf
<1>3. /\ attempts[d] \in Nat /\ tries[d] \in Nat /\ taken[d] \in Nat
      /\ unheard[d] \in Nat /\ faults \in Nat /\ faults' \in Nat
  BY DEF QueueTypeOK
<1>4. AttemptOK(d)'
  BY <1>1, <1>2, <1>3, QueueAssumption DEF AttemptOK
<1>5. TakenOK(d)'
  BY <1>1, <1>2, <1>3 DEF TakenOK
<1> QED BY <1>4, <1>5

LEMMA EnqueueStep ==
  ASSUME QueueInv, NEW d \in Deliveries, Enqueue(d)
  PROVE  QueueInv'
PROOF
<1> USE DEF Enqueue
<1>1. QueueTypeOK /\ LineInv /\ CountInv
  BY DEF QueueInv
<1>2. QueueTypeOK'
  <2>1. status' \in [Deliveries -> DeliveryStatus]
    BY <1>1 DEF QueueTypeOK, DeliveryStatus
  <2>2. ready' \in Seq(Deliveries)
    BY <1>1, RowBehind DEF QueueTypeOK
  <2> QED BY <1>1, <2>1, <2>2 DEF QueueTypeOK
<1>3. LineInv'
  <2>1. /\ \A i \in DOMAIN ready : ready[i] # d /\ ready[i] \in Deliveries
        /\ \A i \in DOMAIN sweep : sweep[i] # d /\ sweep[i] \in Deliveries
    BY <1>1 DEF QueueTypeOK, LineInv, Lined
  <2>2. /\ DOMAIN ready' = 1 .. Len(ready) + 1
        /\ ready'[Len(ready) + 1] = d
        /\ \A i \in DOMAIN ready : ready'[i] = ready[i]
        /\ DOMAIN ready = 1 .. Len(ready) /\ Len(ready) \in Nat
    BY <1>1, RowBehind DEF QueueTypeOK
  <2>3. Lined(ready)'
    <3>1. \A i \in DOMAIN ready : status'[ready[i]] = "pending"
      BY <1>1, <2>1 DEF LineInv, Lined, QueueTypeOK
    <3>2. status'[d] = "pending"
      BY <1>1 DEF QueueTypeOK
    <3> QED BY <1>1, <2>1, <2>2, <3>1, <3>2 DEF LineInv, Lined
  <2>4. Lined(sweep)'
    BY <1>1, <2>1 DEF LineInv, Lined, QueueTypeOK
  <2> QED BY <1>1, <2>3, <2>4 DEF LineInv
<1>4. ASSUME NEW e \in Deliveries PROVE (AttemptOK(e) /\ TakenOK(e))'
  <2>1. Posted(e)' = Posted(e) /\ Heard(e)' = Heard(e)
    BY DEF Posted, Heard, InFlight
  <2>2. /\ status'[e] = "delivered" <=> status[e] = "delivered"
        /\ status'[e] = "dead" <=> status[e] = "dead"
    BY <1>1 DEF QueueTypeOK
  <2>3. faults' >= faults
    BY <1>1 DEF QueueTypeOK
  <2> QED BY <1>1, <1>2, <2>1, <2>2, <2>3, RowUntouched DEF CountInv
<1> QED BY <1>2, <1>3, <1>4 DEF QueueInv, CountInv

LEMMA ElapseStep ==
  ASSUME QueueInv, NEW d \in Deliveries, Elapse(d)
  PROVE  QueueInv'
PROOF
<1> USE DEF Elapse
<1>1. QueueTypeOK /\ LineInv /\ CountInv
  BY DEF QueueInv
<1>2. QueueTypeOK'
  <2>1. ready' \in Seq(Deliveries)
    BY <1>1, RowBehind DEF QueueTypeOK
  <2> QED BY <1>1, <2>1 DEF QueueTypeOK
<1>3. LineInv'
  <2>1. /\ DOMAIN ready' = 1 .. Len(ready) + 1
        /\ ready'[Len(ready) + 1] = d
        /\ \A i \in DOMAIN ready : ready'[i] = ready[i] /\ ready[i] # d
        /\ DOMAIN ready = 1 .. Len(ready) /\ Len(ready) \in Nat
    BY <1>1, RowBehind DEF QueueTypeOK
  <2>2. Lined(ready)'
    BY <1>1, <2>1 DEF LineInv, Lined
  <2> QED BY <1>1, <2>2 DEF LineInv, Lined
<1>4. ASSUME NEW e \in Deliveries PROVE (AttemptOK(e) /\ TakenOK(e))'
  <2>1. Posted(e)' = Posted(e) /\ Heard(e)' = Heard(e)
    BY DEF Posted, Heard, InFlight
  <2>2. faults' >= faults
    BY <1>1 DEF QueueTypeOK
  <2> QED BY <1>1, <1>2, <2>1, <2>2, RowUntouched DEF CountInv
<1> QED BY <1>2, <1>3, <1>4 DEF QueueInv, CountInv

LEMMA SweepStep ==
  ASSUME QueueInv, Sweep
  PROVE  QueueInv'
PROOF
<1> USE DEF Sweep
<1>1. QueueTypeOK /\ LineInv /\ CountInv
  BY DEF QueueInv
<1>2. QueueTypeOK'
  BY <1>1 DEF QueueTypeOK
<1>3. LineInv' /\ outcome = "none"
  BY <1>1 DEF LineInv, Lined
<1>4. ASSUME NEW e \in Deliveries PROVE (AttemptOK(e) /\ TakenOK(e))'
  <2>1. Posted(e)' = Posted(e) /\ Heard(e)' = Heard(e)
    BY <1>3, Ones DEF Posted, Heard, InFlight, OneIf
  <2>2. faults' >= faults
    BY <1>1 DEF QueueTypeOK
  <2> QED BY <1>1, <1>2, <2>1, <2>2, RowUntouched DEF CountInv
<1> QED BY <1>2, <1>3, <1>4 DEF QueueInv, CountInv

LEMMA PostStep ==
  ASSUME QueueInv, NEW took \in BOOLEAN, NEW heard \in BOOLEAN,
         Post(took, heard)
  PROVE  QueueInv'
PROOF
<1>1. QueueTypeOK /\ LineInv /\ CountInv
  BY DEF QueueInv
<1> PICK d \in Deliveries : d = Head(sweep)
  BY <1>1 DEF Post, QueueTypeOK
<1>2. status[d] = "pending" /\ outcome = "none" /\ sweep # <<>>
  BY <1>1 DEF Post, QueueTypeOK, LineInv, Lined
<1>3. QueueTypeOK'
  <2>1. /\ tries' \in [Deliveries -> Nat] /\ taken' \in [Deliveries -> Nat]
        /\ unheard' \in [Deliveries -> Nat]
    <3>1. /\ [tries EXCEPT ![d] = @ + 1] \in [Deliveries -> Nat]
          /\ [taken EXCEPT ![d] = @ + 1] \in [Deliveries -> Nat]
          /\ [unheard EXCEPT ![d] = @ + 1] \in [Deliveries -> Nat]
      BY <1>1 DEF QueueTypeOK
    <3>2. /\ tries' = [tries EXCEPT ![d] = @ + 1]
          /\ taken' = taken \/ taken' = [taken EXCEPT ![d] = @ + 1]
          /\ unheard' = unheard \/ unheard' = [unheard EXCEPT ![d] = @ + 1]
      BY DEF Post
    <3> QED BY <1>1, <3>1, <3>2 DEF QueueTypeOK
  <2>2. outcome' \in Outcome
    BY DEF Post, Outcome
  <2> QED BY <1>1, <2>1, <2>2 DEF Post, QueueTypeOK
<1>4. LineInv'
  BY <1>1 DEF Post, LineInv, Lined
<1>5. ASSUME NEW e \in Deliveries, e # d PROVE (AttemptOK(e) /\ TakenOK(e))'
  <2>1. Posted(e)' = Posted(e) /\ Heard(e)' = Heard(e)
    BY <1>5 DEF Posted, Heard, InFlight, Post, OneIf
  <2>2. /\ UNCHANGED <<faults, status, attempts>>
        /\ tries'[e] = tries[e] /\ taken'[e] = taken[e]
        /\ unheard'[e] = unheard[e]
    BY <1>1, <1>5 DEF Post, QueueTypeOK
  <2> QED BY <1>1, <1>3, <2>1, <2>2, RowUntouched DEF CountInv, QueueTypeOK
<1>6. AttemptOK(d)' /\ TakenOK(d)'
  <2>1. /\ Done(d) = 0 /\ Posted(d) = 0 /\ Heard(d) = 0
        /\ Done(d)' = 0 /\ Posted(d)' = 1
        /\ Heard(d)' = IF heard THEN 1 ELSE 0
    BY <1>2 DEF Done, Posted, Heard, InFlight, Post, OneIf
  <2>2. /\ UNCHANGED <<faults, status, attempts>>
        /\ tries'[d] = tries[d] + 1
        /\ taken'[d] = IF took THEN taken[d] + 1 ELSE taken[d]
        /\ unheard'[d] = IF took /\ ~heard THEN unheard[d] + 1 ELSE unheard[d]
        /\ heard => took
    BY <1>1, <1>2 DEF Post, QueueTypeOK
  <2>3. /\ attempts[d] \in Nat /\ tries[d] \in Nat /\ taken[d] \in Nat
        /\ unheard[d] \in Nat /\ faults \in Nat
    BY <1>1, <1>2 DEF QueueTypeOK
  <2>4. AttemptOK(d) /\ TakenOK(d)
    BY <1>1, <1>2 DEF CountInv
  <2>5. AttemptOK(d)'
    <3>1. /\ status'[d] = "dead" => attempts'[d] = MaxAttempts
          /\ status'[d] # "dead" => attempts'[d] < MaxAttempts
      BY <2>2, <2>4 DEF AttemptOK
    <3>2. /\ attempts[d] + 0 + 1 <= tries[d] + 1
          /\ tries[d] + 1 <= attempts[d] + faults + 0 + 1
      BY <2>1, <2>3, <2>4 DEF AttemptOK
    <3> QED BY <2>1, <2>2, <3>1, <3>2 DEF AttemptOK
  <2>6. TakenOK(d)'
    <3>1. unheard[d] <= taken[d] /\ taken[d] <= unheard[d] + faults
      BY <2>1, <2>3, <2>4 DEF TakenOK
    <3>2. CASE heard
      <4>1. /\ taken'[d] = taken[d] + 1 /\ unheard'[d] = unheard[d]
            /\ Heard(d)' = 1
        BY <2>1, <2>2, <3>2
      <4> QED BY <2>1, <2>2, <2>3, <3>1, <4>1 DEF TakenOK
    <3>3. CASE ~heard
      <4>1. /\ Heard(d)' = 0
            /\ \/ taken'[d] = taken[d] /\ unheard'[d] = unheard[d]
               \/ taken'[d] = taken[d] + 1 /\ unheard'[d] = unheard[d] + 1
        BY <2>1, <2>2, <3>3
      <4> QED BY <2>1, <2>2, <2>3, <3>1, <4>1 DEF TakenOK
    <3> QED BY <3>2, <3>3
  <2> QED BY <2>5, <2>6
<1> QED BY <1>3, <1>4, <1>5, <1>6 DEF QueueInv, CountInv

\* The row at the head of the sweep leaves it, recorded or not; what was
\* posted since is no longer in flight.
LEMMA SweepShrinks ==
  ASSUME QueueTypeOK, LineInv, outcome # "none",
         sweep' = Tail(sweep), outcome' = "none"
  PROVE  /\ sweep' \in Seq(Deliveries)
         /\ \A k \in DOMAIN sweep' :
              /\ sweep'[k] # Head(sweep)
              /\ status[sweep'[k]] = "pending"
         /\ \A j, k \in DOMAIN sweep' : sweep'[j] = sweep'[k] => j = k
PROOF
<1>1. sweep \in Seq(Deliveries) /\ sweep # <<>> /\ Lined(sweep)
  BY DEF QueueTypeOK, LineInv
<1>2. /\ Tail(sweep) \in Seq(Deliveries)
      /\ DOMAIN Tail(sweep) = 1 .. Len(sweep) - 1
      /\ \A k \in 1 .. Len(sweep) - 1 : Tail(sweep)[k] = sweep[k + 1]
      /\ DOMAIN sweep = 1 .. Len(sweep) /\ Len(sweep) \in Nat \ {0}
      /\ Head(sweep) = sweep[1]
  BY <1>1
<1>3. ASSUME NEW k \in 1 .. Len(sweep) - 1
      PROVE  k + 1 \in DOMAIN sweep /\ 1 \in DOMAIN sweep /\ k + 1 # 1
  BY <1>2
<1>4. \A k \in 1 .. Len(sweep) - 1 :
        /\ Tail(sweep)[k] # Head(sweep)
        /\ status[Tail(sweep)[k]] = "pending"
  BY <1>1, <1>2, <1>3 DEF Lined
<1>5. ASSUME NEW j \in 1 .. Len(sweep) - 1, NEW k \in 1 .. Len(sweep) - 1,
             Tail(sweep)[j] = Tail(sweep)[k]
      PROVE  j = k
  <2>1. j + 1 = k + 1
    BY <1>1, <1>2, <1>3, <1>5 DEF Lined
  <2> QED BY <2>1
<1> QED BY <1>2, <1>4, <1>5

LEMMA RecordStep ==
  ASSUME QueueInv, Record
  PROVE  QueueInv'
PROOF
<1>1. QueueTypeOK /\ LineInv /\ CountInv
  BY DEF QueueInv
<1> PICK d \in Deliveries : d = Head(sweep)
  BY <1>1 DEF Record, QueueTypeOK, LineInv
<1>2. /\ status[d] = "pending" /\ outcome \in {"ok", "failed"}
      /\ sweep # <<>>
  BY <1>1 DEF Record, QueueTypeOK, LineInv, Lined, Outcome
<1>3. /\ status' = [status EXCEPT ![d] = Recorded(d)]
      /\ attempts' = [attempts EXCEPT
                        ![d] = IF outcome = "ok" THEN @ ELSE @ + 1]
      /\ ready' = StillReady(d)
      /\ sweep' = Tail(sweep) /\ outcome' = "none"
      /\ UNCHANGED <<tries, taken, unheard, faults>>
  BY DEF Record
<1>4. /\ Recorded(d) \in {"delivered", "dead", "pending"}
      /\ Recorded(d) = "delivered" <=> outcome = "ok"
      /\ Recorded(d) = "dead" <=>
           outcome # "ok" /\ attempts[d] + 1 >= MaxAttempts
  BY DEF Recorded, NoMoreRetries
<1>5. /\ status'[d] = Recorded(d)
      /\ \A e \in Deliveries : e # d => status'[e] = status[e]
      /\ attempts'[d] = IF outcome = "ok" THEN attempts[d] ELSE attempts[d] + 1
      /\ \A e \in Deliveries : e # d => attempts'[e] = attempts[e]
  BY <1>1, <1>3 DEF QueueTypeOK
<1>6. /\ ready' \in Seq(Deliveries)
      /\ \A k \in DOMAIN ready' : ready'[k] # d /\ status[ready'[k]] = "pending"
      /\ \A j, k \in DOMAIN ready' : ready'[j] = ready'[k] => j = k
  BY <1>1, <1>3, StillReadyRows DEF LineInv, QueueTypeOK
<1>7. /\ sweep' \in Seq(Deliveries)
      /\ \A k \in DOMAIN sweep' : sweep'[k] # d /\ status[sweep'[k]] = "pending"
      /\ \A j, k \in DOMAIN sweep' : sweep'[j] = sweep'[k] => j = k
  BY <1>1, <1>2, <1>3, SweepShrinks
<1>8. QueueTypeOK'
  <2>1. status' \in [Deliveries -> DeliveryStatus]
    BY <1>1, <1>3, <1>4 DEF QueueTypeOK, DeliveryStatus
  <2>2. attempts' \in [Deliveries -> Nat]
    BY <1>1, <1>3 DEF QueueTypeOK
  <2> QED BY <1>1, <1>3, <1>6, <1>7, <2>1, <2>2 DEF QueueTypeOK, Outcome
<1>9. LineInv'
  <2>1. /\ \A k \in DOMAIN ready' : ready'[k] \in Deliveries
        /\ \A k \in DOMAIN sweep' : sweep'[k] \in Deliveries
    BY <1>6, <1>7
  <2>2. Lined(ready)'
    BY <1>5, <1>6, <2>1 DEF Lined
  <2>3. Lined(sweep)'
    BY <1>5, <1>7, <2>1 DEF Lined
  <2> QED BY <1>3, <2>2, <2>3 DEF LineInv
<1>10. ASSUME NEW e \in Deliveries, e # d PROVE (AttemptOK(e) /\ TakenOK(e))'
  <2>1. Posted(e)' = Posted(e) /\ Heard(e)' = Heard(e)
    BY <1>3, <1>10 DEF Posted, Heard, InFlight, OneIf
  <2>2. faults' >= faults
    BY <1>1, <1>3 DEF QueueTypeOK
  <2> QED BY <1>1, <1>3, <1>5, <1>8, <1>10, <2>1, <2>2, RowUntouched
          DEF CountInv
<1>11. (AttemptOK(d) /\ TakenOK(d))'
  <2>1. /\ Done(d) = 0 /\ Posted(d) = 1 /\ Posted(d)' = 0 /\ Heard(d)' = 0
        /\ Heard(d) = IF outcome = "ok" THEN 1 ELSE 0
        /\ Done(d)' = IF outcome = "ok" THEN 1 ELSE 0
    BY <1>2, <1>3, <1>4, <1>5 DEF Done, Posted, Heard, InFlight, OneIf
  <2>2. /\ attempts[d] \in Nat /\ tries[d] \in Nat /\ taken[d] \in Nat
        /\ unheard[d] \in Nat /\ faults \in Nat
    BY <1>1 DEF QueueTypeOK
  <2>3. AttemptOK(d) /\ TakenOK(d)
    BY <1>1 DEF CountInv
  <2>4. /\ attempts[d] < MaxAttempts /\ attempts[d] + 1 <= tries[d]
        /\ tries[d] <= attempts[d] + faults + 1
    BY <1>2, <2>1, <2>2, <2>3 DEF AttemptOK
  <2>5. /\ unheard[d] <= taken[d]
        /\ outcome = "ok" => unheard[d] < taken[d]
        /\ taken[d] <= unheard[d] + faults + Heard(d)
    BY <2>1, <2>2, <2>3 DEF TakenOK
  <2>6. CASE outcome = "ok"
    <3>1. AttemptOK(d)'
      BY <1>3, <1>4, <1>5, <2>1, <2>2, <2>4, <2>6 DEF AttemptOK
    <3>2. TakenOK(d)'
      BY <1>3, <2>1, <2>2, <2>5, <2>6 DEF TakenOK
    <3> QED BY <3>1, <3>2
  <2>7. CASE outcome # "ok"
    <3>1. AttemptOK(d)'
      BY <1>3, <1>4, <1>5, <2>1, <2>2, <2>4, <2>7, QueueAssumption
         DEF AttemptOK
    <3>2. TakenOK(d)'
      BY <1>3, <2>1, <2>2, <2>5, <2>7 DEF TakenOK
    <3> QED BY <3>1, <3>2
  <2> QED BY <2>6, <2>7
<1> QED BY <1>8, <1>9, <1>10, <1>11 DEF QueueInv, CountInv

\* A fault ends the sweep or takes one row out of it, and is counted; or it
\* is somebody else's and leaves the loop alone.
LEMMA FaultStep ==
  ASSUME QueueInv, faults' = faults + 1,
         UNCHANGED <<status, attempts, ready, tries, taken, unheard>>,
         \/ UNCHANGED <<sweep, outcome>>
         \/ sweep' = <<>> /\ outcome' = "none"
         \/ outcome # "none" /\ sweep' = Tail(sweep) /\ outcome' = "none"
  PROVE  QueueInv'
PROOF
<1>1. QueueTypeOK /\ LineInv /\ CountInv
  BY DEF QueueInv
<1>2. sweep' \in Seq(Deliveries) /\ Lined(sweep)'
  <2>1. CASE UNCHANGED <<sweep, outcome>>
    BY <1>1, <2>1 DEF QueueTypeOK, LineInv, Lined
  <2>2. CASE sweep' = <<>>
    BY <2>2 DEF Lined
  <2>3. CASE outcome # "none" /\ sweep' = Tail(sweep) /\ outcome' = "none"
    BY <1>1, <2>3, SweepShrinks DEF Lined
  <2> QED BY <2>1, <2>2, <2>3
<1>3. outcome' \in Outcome /\ (outcome' # "none" => sweep' # <<>>)
  BY <1>1 DEF QueueTypeOK, LineInv, Outcome
<1>4. QueueTypeOK'
  <2>1. /\ status \in [Deliveries -> DeliveryStatus]
        /\ attempts \in [Deliveries -> Nat] /\ ready \in Seq(Deliveries)
        /\ tries \in [Deliveries -> Nat] /\ taken \in [Deliveries -> Nat]
        /\ unheard \in [Deliveries -> Nat] /\ faults \in Nat
    BY <1>1 DEF QueueTypeOK
  <2>2. faults' \in Nat
    BY <2>1
  <2> QED BY <1>2, <1>3, <2>1, <2>2 DEF QueueTypeOK
<1>5. LineInv'
  BY <1>1, <1>2, <1>3 DEF LineInv, Lined
<1>6. ASSUME NEW e \in Deliveries PROVE (AttemptOK(e) /\ TakenOK(e))'
  <2>1. Done(e) \in {0, 1} /\ Posted(e) \in {0, 1} /\ Heard(e) \in {0, 1}
    BY DEF Done, Posted, Heard, OneIf
  <2>2. /\ Done(e)' = Done(e)
        /\ \/ Posted(e)' = Posted(e) /\ Heard(e)' = Heard(e)
           \/ Posted(e)' = 0 /\ Heard(e)' = 0
    BY DEF Done, Posted, Heard, InFlight, OneIf
  <2>3. /\ attempts[e] \in Nat /\ tries[e] \in Nat /\ taken[e] \in Nat
        /\ unheard[e] \in Nat /\ faults \in Nat
    BY <1>1 DEF QueueTypeOK
  <2>4. AttemptOK(e) /\ TakenOK(e)
    BY <1>1 DEF CountInv
  <2>5. AttemptOK(e)'
    <3>1. UNCHANGED <<status, attempts, tries>>
      OBVIOUS
    <3>2. /\ attempts[e] + Done(e)' + Posted(e)' <= tries[e]
          /\ tries[e] <= attempts[e] + faults' + Done(e)' + Posted(e)'
      BY <2>1, <2>2, <2>3, <2>4 DEF AttemptOK
    <3> QED BY <2>4, <3>1, <3>2 DEF AttemptOK
  <2>6. TakenOK(e)'
    BY <2>1, <2>2, <2>3, <2>4 DEF TakenOK
  <2> QED BY <2>5, <2>6
<1> QED BY <1>4, <1>5, <1>6 DEF QueueInv, CountInv

LEMMA QueueStep ==
  ASSUME QueueInv, QueueNext
  PROVE  QueueInv'
PROOF
<1>1. ASSUME NEW d \in Deliveries, Enqueue(d) PROVE QueueInv'
  BY <1>1, EnqueueStep
<1>2. ASSUME NEW d \in Deliveries, Elapse(d) PROVE QueueInv'
  BY <1>2, ElapseStep
<1>3. CASE LoopStep
  BY <1>3, SweepStep, PostStep, RecordStep DEF LoopStep
<1>4. CASE RecordFails
  BY <1>4, FaultStep DEF RecordFails
<1>5. CASE LoopCrash
  BY <1>5, FaultStep DEF LoopCrash
<1> QED BY <1>1, <1>2, <1>3, <1>4, <1>5 DEF QueueNext

LEMMA QueueStutter ==
  ASSUME QueueInv, UNCHANGED queueVars
  PROVE  QueueInv'
PROOF
<1>1. QueueTypeOK'
  BY DEF QueueInv, QueueTypeOK, queueVars
<1>2. LineInv'
  BY DEF QueueInv, LineInv, Lined, queueVars
<1>3. CountInv'
  BY DEF QueueInv, CountInv, AttemptOK, TakenOK, Done, Posted, Heard,
     InFlight, OneIf, queueVars
<1> QED BY <1>1, <1>2, <1>3 DEF QueueInv

LEMMA QueueInvImplies == QueueInv => AttemptsAreSpent /\ TakenOnce
PROOF
<1> SUFFICES ASSUME QueueInv PROVE AttemptsAreSpent /\ TakenOnce
  OBVIOUS
<1>1. ASSUME NEW d \in Deliveries
      PROVE  /\ attempts[d] \in Nat /\ tries[d] \in Nat /\ taken[d] \in Nat
             /\ unheard[d] \in Nat /\ faults \in Nat
             /\ AttemptOK(d) /\ TakenOK(d)
  BY DEF QueueInv, QueueTypeOK, CountInv
<1>2. ASSUME NEW d \in Deliveries
      PROVE  /\ Done(d) = IF status[d] = "delivered" THEN 1 ELSE 0
             /\ Posted(d) = IF InFlight(d) THEN 1 ELSE 0
             /\ Heard(d) = IF InFlight(d) /\ outcome = "ok" THEN 1 ELSE 0
             /\ Done(d) \in {0, 1} /\ Posted(d) \in {0, 1}
             /\ Heard(d) \in {0, 1}
  BY DEF Done, Posted, Heard, OneIf
<1>3. ASSUME NEW d \in Deliveries
      PROVE  /\ status[d] = "dead" => attempts[d] = MaxAttempts
             /\ status[d] # "dead" => attempts[d] < MaxAttempts
             /\ attempts[d] + Done(d) <= tries[d]
             /\ tries[d] <= attempts[d] + faults + Done(d) + Posted(d)
  BY <1>1, <1>2 DEF AttemptOK
<1>4. AttemptsAreSpent
  BY <1>2, <1>3 DEF AttemptsAreSpent
<1>5. ASSUME NEW d \in Deliveries
      PROVE  /\ status[d] = "delivered" => taken[d] > unheard[d]
             /\ taken[d] <= unheard[d] + faults + Done(d) + Heard(d)
  BY <1>1, <1>2 DEF TakenOK
<1>6. TakenOnce
  BY <1>2, <1>5 DEF TakenOnce
<1> QED BY <1>4, <1>6

----------------------------------------------------------------------------
(* The queue on its own.                                                   *)

\* Whatever the receivers, the faults and the order of the ticks, the counts
\* of every row are right (run_delivery_loop, mark_delivered,
\* mark_failed_and_reschedule).
THEOREM QueueInvariant == QueueSpec => []QueueInv
PROOF
<1>1. QueueInv /\ [QueueNext]_queueVars => QueueInv'
  BY QueueStep, QueueStutter
<1> QED BY <1>1, InitQueue, PTL DEF QueueSpec

\* A row is given up after exactly MAX_ATTEMPTS recorded failures, and
\* attempt_count counts its POSTs.
THEOREM QueueSpendsAttempts == QueueSpec => []AttemptsAreSpent
PROOF
BY QueueInvariant, QueueInvImplies, PTL

\* A receiver that was heard gets the event again only because of a fault.
THEOREM QueueDeliversOnce == QueueSpec => []TakenOnce
PROOF
BY QueueInvariant, QueueInvImplies, PTL

----------------------------------------------------------------------------
(* The control plane.  The store only appends revisions, so what a call    *)
(* knows of a revision stays true of it: that is what each call's          *)
(* invariant speaks about, and what the revision guard turns into          *)
(* knowledge of the last one.                                              *)

Late == {"lookup", "enqueue", "done", "gone"}

\* No revision is by a call that has not begun, and only the engine escalates;
\* the mark repeats the status it finds.
Written ==
  \A t \in Tasks : \A i \in DOMAIN log[t] :
    /\ log[t][i].by \in Calls => pc[log[t][i].by] # "idle"
    /\ log[t][i].status = "escalated" => log[t][i].by \in {Engine, Learner}

HistoryInv == NothingClobbered /\ TerminalIsLast /\ Written

\* The copy a call loaded is the revision it expects; nobody steers an end.
Loaded(c) ==
  pc[c] = "loaded" =>
    /\ expect[c] \in DOMAIN log[task[c]]
    /\ copy[c].status = log[task[c]][expect[c]].status
    /\ copy[c].notes = log[task[c]][expect[c]].notes
    /\ verb[c] = "steer" => copy[c].status \notin Terminal

Created(c) == pc[c] = "created" => log[task[c]] # <<>>

\* An escalation is told of at the revision that escalated.
Raised(c) ==
  pc[c] = "raised" =>
    /\ expect[c] \in DOMAIN log[task[c]]
    /\ \/ events[c] = <<"attempt.completed">>
       \/ /\ events[c] = <<"task.escalated">>
          /\ log[task[c]][expect[c]].status = "escalated"

\* What an event of type may say of the store, from AnnouncedIsCommitted.
About(c, type) ==
  LET rev == seen[c].rev
      revs == log[task[c]]
  IN /\ rev \in DOMAIN revs
     /\ revs[rev].status = seen[c].status
     /\ type \notin {"task.created"} \cup EngineEvents => revs[rev].by = c
     /\ type \in EngineEvents => rev >= expect[c]
     /\ type = "task.escalated" => rev = expect[c] /\ revs[rev].by = Engine
     /\ type = "task.terminal" => seen[c].status \in Terminal

\* The events a call still has to emit are true.
Emits(c) ==
  pc[c] \in {"lookup", "enqueue"} =>
    /\ events[c] # <<>>
    /\ \A k \in DOMAIN events[c] : About(c, events[c][k])

Knows(c) == Loaded(c) /\ Created(c) /\ Raised(c) /\ Emits(c)

QueuedInv ==
  \A d \in Deliveries :
    status[d] # "none" => pc[d.call] \in Late /\ About(d.call, d.type)

CallsInv == (\A c \in Calls : Knows(c)) /\ QueuedInv

ControlInv == TypeOK /\ QueueInv /\ HistoryInv /\ CallsInv

\* What is being attributed had ended and was not marked, and nobody attributes
\* a task whose driver has an event of it to record.
JudgeInv ==
  /\ \A t \in Tasks : judged[t] # 0 =>
       /\ judged[t] \in DOMAIN log[t]
       /\ log[t][judged[t]].status \in Terminal
       /\ log[t][judged[t]].by # Learner
  /\ \A c \in Calls : pc[c] = "raised" =>
       /\ verb[c] = "record" /\ judged[task[c]] = 0
       /\ log[task[c]] # <<>> /\ ~Marked(task[c])

LEMMA InitControl == Init => ControlInv
PROOF
<1> SUFFICES ASSUME Init PROVE ControlInv
  OBVIOUS
<1>1. QueueInv
  BY InitQueue DEF Init
<1>2. TypeOK
  <2>1. (CHOOSE t \in Tasks : TRUE) \in Tasks
    BY ControlPlaneAssumption
  <2>2. /\ log \in [Tasks -> Seq(Revision)] /\ events \in [Calls -> Seq(Types)]
        /\ verb \in [Calls -> Verbs] /\ task \in [Calls -> Tasks]
    BY <2>1 DEF Init, Verbs
  <2>5. judged \in [Tasks -> Nat]
    BY DEF Init
  <2>3. /\ copy \in [Calls -> Case]
        /\ seen \in [Calls -> [rev : Nat, status : TaskStatus]]
    BY DEF Init, Case, TaskStatus, NewCase
  <2>4. /\ pc \in [Calls -> Pcs] /\ expect \in [Calls -> Nat]
        /\ targets \in [Calls -> SUBSET Subs] /\ reply \in [Calls -> Replies]
        /\ subs \in [Subs -> SubState] /\ steady \in [Calls -> SUBSET Subs]
    BY DEF Init, Pcs, Replies, SubState
  <2> QED BY <1>1, <2>2, <2>3, <2>4, <2>5 DEF TypeOK, QueueInv
<1>3. HistoryInv
  BY DEF Init, HistoryInv, NothingClobbered, TerminalIsLast, Written
<1>4. CallsInv
  BY DEF Init, QueueInit, CallsInv, Knows, Loaded, Created, Raised, Emits,
     QueuedInv
<1> QED BY <1>1, <1>2, <1>3, <1>4 DEF ControlInv

----------------------------------------------------------------------------
(* The store only grows.                                                   *)

LogExtends ==
  \A u \in Tasks : /\ DOMAIN log[u] \subseteq DOMAIN log'[u]
                   /\ \A i \in DOMAIN log[u] : log'[u][i] = log[u][i]

LEMMA SameLog == log' = log => LogExtends
PROOF
BY DEF LogExtends

LEMMA AppendedLog ==
  ASSUME log \in [Tasks -> Seq(Revision)], NEW t \in Tasks, NEW r \in Revision,
         log' = [log EXCEPT ![t] = Append(@, r)]
  PROVE  /\ log' \in [Tasks -> Seq(Revision)]
         /\ DOMAIN log[t] = 1 .. Len(log[t]) /\ Len(log[t]) \in Nat
         /\ DOMAIN log'[t] = 1 .. Len(log[t]) + 1
         /\ log'[t][Len(log[t]) + 1] = r
         /\ \A i \in DOMAIN log[t] : log'[t][i] = log[t][i]
         /\ \A u \in Tasks : u # t => log'[u] = log[u]
         /\ LogExtends
PROOF
<1>1. log[t] \in Seq(Revision)
  OBVIOUS
<1>2. log'[t] = Append(log[t], r) /\ \A u \in Tasks : u # t => log'[u] = log[u]
  OBVIOUS
<1>3. /\ DOMAIN log[t] = 1 .. Len(log[t]) /\ Len(log[t]) \in Nat
      /\ Append(log[t], r) \in Seq(Revision)
      /\ DOMAIN Append(log[t], r) = 1 .. Len(log[t]) + 1
      /\ Append(log[t], r)[Len(log[t]) + 1] = r
      /\ \A i \in 1 .. Len(log[t]) : Append(log[t], r)[i] = log[t][i]
  BY <1>1
<1>4. log' \in [Tasks -> Seq(Revision)]
  BY <1>3
<1>5. LogExtends
  BY <1>2, <1>3 DEF LogExtends
<1> QED BY <1>2, <1>3, <1>4, <1>5

\* What is true of a revision stays true of it.
LEMMA AboutStays ==
  ASSUME TypeOK, NEW c \in Calls, NEW type, About(c, type), LogExtends,
         UNCHANGED <<seen[c], task[c], expect[c]>>
  PROVE  About(c, type)'
PROOF
<1>1. task[c] \in Tasks
  BY DEF TypeOK
<1> QED BY <1>1 DEF About, LogExtends

Frame(b) ==
  UNCHANGED <<pc[b], verb[b], task[b], expect[b], copy[b], seen[b], events[b]>>

LEMMA KnowsStays ==
  ASSUME TypeOK, NEW b \in Calls, Knows(b), LogExtends, Frame(b)
  PROVE  Knows(b)'
PROOF
<1>1. task[b] \in Tasks /\ log[task[b]] \in Seq(Revision)
  BY DEF TypeOK
<1>2. Loaded(b)' /\ Created(b)' /\ Raised(b)'
  <2>1. Loaded(b)'
    BY <1>1 DEF Knows, Loaded, LogExtends, Frame
  <2>2. Created(b)'
    BY <1>1 DEF Knows, Created, LogExtends, Frame
  <2>3. Raised(b)'
    BY <1>1 DEF Knows, Raised, LogExtends, Frame
  <2> QED BY <2>1, <2>2, <2>3
<1>3. Emits(b)'
  <2> SUFFICES ASSUME pc[b] \in {"lookup", "enqueue"}
               PROVE  /\ events[b] # <<>>
                      /\ \A k \in DOMAIN events[b] : About(b, events[b][k])'
    BY DEF Emits, Frame
  <2> QED BY AboutStays DEF Knows, Emits, Frame
<1> QED BY <1>2, <1>3 DEF Knows

\* One call's step: the others stay, and what is new in the queue is true.
LEMMA CallsKept ==
  ASSUME TypeOK, CallsInv, LogExtends, NEW c \in Calls,
         \A b \in Calls : b # c => Frame(b),
         Knows(c)',
         pc[c] \in Late =>
           pc'[c] \in Late /\ UNCHANGED <<seen[c], task[c], expect[c]>>,
         \A d \in Deliveries :
           status'[d] # "none" =>
             \/ status[d] # "none"
             \/ d.call = c /\ pc'[c] \in Late /\ About(c, d.type)'
  PROVE  CallsInv'
PROOF
<1>1. ASSUME NEW b \in Calls PROVE Knows(b)'
  BY KnowsStays DEF CallsInv
<1>2. ASSUME NEW d \in Deliveries, status[d] # "none"
      PROVE  pc'[d.call] \in Late /\ About(d.call, d.type)'
  <2>1. d.call \in Calls
    BY ControlPlaneAssumption
  <2>2. pc[d.call] \in Late /\ About(d.call, d.type)
    BY <1>2 DEF CallsInv, QueuedInv
  <2>3. UNCHANGED <<seen[d.call], task[d.call], expect[d.call]>>
    BY <2>1, <2>2 DEF Frame
  <2>4. pc'[d.call] \in Late
    BY <2>1, <2>2 DEF Frame
  <2> QED BY <2>1, <2>2, <2>3, <2>4, AboutStays
<1> QED BY <1>1, <1>2 DEF CallsInv, QueuedInv

----------------------------------------------------------------------------
(* The history of the store.                                               *)

\* The calls that have begun keep what they asked for.
Begun ==
  \A b \in Calls :
    /\ pc[b] # "idle" => UNCHANGED <<verb[b], expect[b]>>
    /\ pc'[b] = "idle" => pc[b] = "idle"

LEMMA HistoryFrame ==
  ASSUME TypeOK, HistoryInv, log' = log, Begun
  PROVE  HistoryInv'
PROOF
<1>1. Written' /\ TerminalIsLast'
  BY DEF HistoryInv, Written, TerminalIsLast, Begun
<1>2. ASSUME NEW t \in Tasks, NEW i \in 2 .. Len(log[t])
      PROVE  i \in DOMAIN log[t]
  BY DEF TypeOK
<1>3. NothingClobbered'
  BY <1>2 DEF HistoryInv, Written, NothingClobbered, Begun
<1> QED BY <1>1, <1>3 DEF HistoryInv

\* A write by the revision guard, or by the engine in one step.
LEMMA HistoryAppend ==
  ASSUME TypeOK, HistoryInv, Begun, NEW t \in Tasks, NEW r \in Revision,
         log' = [log EXCEPT ![t] = Append(@, r)],
         r.by \in Calls => pc[r.by] # "idle",
         r.status = "escalated" => r.by \in {Engine, Learner},
         log[t] # <<>> =>
           LET last == log[t][Len(log[t])]
           IN /\ \/ last.status \notin Terminal /\ last.notes \subseteq r.notes
                 \/ /\ last.status \in Terminal /\ last.by # Learner
                    /\ r.by = Learner /\ r.status = last.status
              /\ r.by \in Calls =>
                   /\ expect[r.by] = Len(log[t])
                   /\ verb[r.by] = "steer" => r.status = last.status
  PROVE  HistoryInv'
PROOF
<1> DEFINE n == Len(log[t])
<1>1. /\ DOMAIN log[t] = 1 .. n /\ n \in Nat
      /\ DOMAIN log'[t] = 1 .. n + 1 /\ Len(log'[t]) = n + 1
      /\ log'[t][n + 1] = r
      /\ \A i \in 1 .. n : log'[t][i] = log[t][i]
      /\ \A u \in Tasks : u # t => log'[u] = log[u]
      /\ \A u \in Tasks : DOMAIN log[u] = 1 .. Len(log[u])
      /\ log[t] # <<>> <=> n # 0
  BY AppendedLog DEF TypeOK
<1> HIDE DEF n
<1>2. Written'
  <2>1. ASSUME NEW u \in Tasks, NEW i \in DOMAIN log[u]
        PROVE  /\ log[u][i].by \in Calls => pc'[log[u][i].by] # "idle"
               /\ log[u][i].status = "escalated" => log[u][i].by \in {Engine, Learner}
    BY DEF HistoryInv, Written, Begun
  <2>2. r.by \in Calls => pc'[r.by] # "idle"
    BY DEF Begun
  <2> QED BY <1>1, <2>1, <2>2 DEF Written
<1>3. TerminalIsLast'
  <2>1. ASSUME NEW i \in 1 .. n, log[t][i].status \in Terminal
        PROVE  i = n /\ r.by = Learner /\ r.status = log[t][i].status
    <3>1. CASE i = n
      BY <1>1, <2>1, <3>1 DEF n
    <3>2. CASE i # n
      <4>1. i \in 1 .. Len(log[t]) - 1
        BY <1>1, <3>2 DEF n
      <4>2. i = n - 1 /\ log[t][n].by = Learner /\ log[t][n].status \in Terminal
        BY <1>1, <2>1, <4>1 DEF HistoryInv, TerminalIsLast, n
      <4> QED BY <1>1, <4>1, <4>2 DEF n
    <3> QED BY <3>1, <3>2
  <2>2. ASSUME NEW i \in 1 .. Len(log'[t]) - 1, log'[t][i].status \in Terminal
        PROVE  /\ i = Len(log'[t]) - 1 /\ log'[t][i + 1].by = Learner
               /\ log'[t][i + 1].status = log'[t][i].status
    BY <1>1, <2>1, <2>2
  <2> QED BY <1>1, <2>2 DEF HistoryInv, TerminalIsLast
<1>4. NothingClobbered'
  <2>1. ASSUME NEW u \in Tasks, NEW i \in 2 .. Len(log[u])
        PROVE  /\ \/ log[u][i - 1].notes \subseteq log[u][i].notes
                  \/ log[u][i - 1].status \in Terminal
               /\ log[u][i].by \in Calls => expect'[log[u][i].by] + 1 = i
               /\ log[u][i].by \in Calls /\ verb'[log[u][i].by] = "steer" =>
                    log[u][i].status = log[u][i - 1].status
    <3>1. i \in DOMAIN log[u]
      BY <1>1
    <3> QED BY <3>1 DEF HistoryInv, NothingClobbered, Written, Begun
  <2>2. ASSUME n # 0
        PROVE  /\ log[t][n].notes \subseteq r.notes \/ log[t][n].status \in Terminal
               /\ r.by \in Calls => expect'[r.by] = n
               /\ r.by \in Calls /\ verb'[r.by] = "steer" =>
                    r.status = log[t][n].status
    BY <1>1, <2>2 DEF n, Begun
  <2>3. ASSUME NEW i \in 2 .. n + 1
        PROVE  /\ \/ log'[t][i - 1].notes \subseteq log'[t][i].notes
                  \/ log'[t][i - 1].status \in Terminal
               /\ log'[t][i].by \in Calls => expect'[log'[t][i].by] + 1 = i
               /\ log'[t][i].by \in Calls /\ verb'[log'[t][i].by] = "steer" =>
                    log'[t][i].status = log'[t][i - 1].status
    <3>1. CASE i \in 2 .. n
      BY <1>1, <2>1, <3>1 DEF n
    <3>2. CASE i = n + 1
      BY <1>1, <2>2, <3>2
    <3> QED BY <1>1, <3>1, <3>2
  <2> QED BY <1>1, <2>1, <2>3 DEF NothingClobbered
<1> QED BY <1>2, <1>3, <1>4 DEF HistoryInv

----------------------------------------------------------------------------
(* The steps of a call.                                                    *)

LEMMA StoredCase ==
  ASSUME TypeOK, NEW t \in Tasks, log[t] # <<>>
  PROVE  /\ Rev(t) \in Nat \ {0} /\ Rev(t) \in DOMAIN log[t]
         /\ DOMAIN log[t] = 1 .. Rev(t)
         /\ Status(t) = log[t][Rev(t)].status
         /\ Stored(t).status = Status(t)
         /\ Stored(t).notes = log[t][Rev(t)].notes
         /\ Status(t) \in TaskStatus /\ Stored(t) \in Case
PROOF
<1>1. log[t] \in Seq(Revision)
  BY DEF TypeOK
<1>2. Rev(t) \in Nat \ {0} /\ DOMAIN log[t] = 1 .. Rev(t)
  BY <1>1 DEF Rev
<1>3. log[t][Rev(t)] \in Revision
  BY <1>1, <1>2
<1> QED BY <1>2, <1>3 DEF Status, Stored, Case, Revision

LEMMA CommitAppends ==
  ASSUME TypeOK, NEW t \in Tasks, NEW case \in Case,
         NEW by \in Writers, Commit(t, case, by)
  PROVE  LET r == [status |-> case.status, notes |-> case.notes, by |-> by]
         IN /\ r \in Revision
            /\ log' = [log EXCEPT ![t] = Append(@, r)]
            /\ r.status = case.status /\ r.notes = case.notes /\ r.by = by
            /\ LogExtends
PROOF
<1> DEFINE r == [status |-> case.status, notes |-> case.notes, by |-> by]
<1>1. r \in Revision /\ log' = [log EXCEPT ![t] = Append(@, r)]
  BY DEF Commit, Case, Revision, Writers
<1>2. r.status = case.status /\ r.notes = case.notes /\ r.by = by
  OBVIOUS
<1> HIDE DEF r
<1>3. LogExtends
  BY <1>1, AppendedLog DEF TypeOK
<1>4. QED BY <1>1, <1>2, <1>3 DEF r

LEMMA LookUpTaskStep ==
  ASSUME ControlInv, NEW c \in Calls, NEW t \in Tasks, LookUpTask(c, t)
  PROVE  ControlInv'
PROOF
<1> USE DEF LookUpTask, Goto, Answer
<1>1. TypeOK /\ QueueInv /\ HistoryInv /\ CallsInv
  BY DEF ControlInv
<1>2. QueueInv'
  BY <1>1, QueueStutter
<1>3. pc'[c] \in {"missed", "done"} /\ \A b \in Calls : b # c => pc'[b] = pc[b]
  BY <1>1 DEF TypeOK
<1>4. /\ pc' \in [Calls -> Pcs] /\ reply' \in [Calls -> Replies]
      /\ verb' \in [Calls -> Verbs] /\ task' \in [Calls -> Tasks]
      /\ steady' \in [Calls -> SUBSET Subs]
  BY <1>1 DEF TypeOK, Pcs, Replies, Verbs, Active
<1>5. TypeOK'
  BY <1>1, <1>2, <1>4 DEF TypeOK, QueueInv
<1>6. HistoryInv'
  <2>1. Begun
    BY <1>1, <1>3 DEF Begun, TypeOK
  <2> QED BY <1>1, <2>1, HistoryFrame
<1>7. CallsInv'
  <2>1. \A b \in Calls : b # c => Frame(b)
    BY <1>1, <1>3 DEF Frame, TypeOK
  <2>2. Knows(c)'
    BY <1>3 DEF Knows, Loaded, Created, Raised, Emits
  <2> QED BY <1>1, <2>1, <2>2, SameLog, CallsKept DEF queueVars, Late
<1> QED BY <1>2, <1>5, <1>6, <1>7 DEF ControlInv

LEMMA CreateCaseStep ==
  ASSUME ControlInv, NEW c \in Calls, CreateCase(c)
  PROVE  ControlInv'
PROOF
<1> USE DEF CreateCase, Goto
<1>1. TypeOK /\ QueueInv /\ HistoryInv /\ CallsInv
  BY DEF ControlInv
<1>2. QueueInv'
  BY <1>1, QueueStutter
<1>3. /\ pc' \in [Calls -> Pcs] /\ pc'[c] = "created"
      /\ \A b \in Calls : b # c => pc'[b] = pc[b]
  BY <1>1 DEF TypeOK, Pcs
<1>4. Begun
  BY <1>1, <1>3 DEF Begun, TypeOK
<1> PICK t \in Tasks : t = task[c]
  BY <1>1 DEF TypeOK
<1> DEFINE r == [status |-> NewCase.status, notes |-> NewCase.notes, by |-> c]
<1>5. ASSUME log[t] = <<>>
      PROVE  /\ r \in Revision /\ log' = [log EXCEPT ![t] = Append(@, r)]
             /\ r.by = c /\ r.status = "pending"
             /\ LogExtends
  <2>1. NewCase \in Case /\ NewCase.status = "pending"
    BY DEF NewCase, Case, TaskStatus
  <2>2. Commit(t, NewCase, c)
    BY <1>5
  <2>3. c \in Writers
    BY DEF Writers
  <2> QED BY <1>1, <2>1, <2>2, <2>3, CommitAppends
<1> HIDE DEF r
<1>6. log' \in [Tasks -> Seq(Revision)] /\ log'[t] # <<>> /\ LogExtends
  <2>1. CASE log[t] = <<>>
    <3>1. /\ log' \in [Tasks -> Seq(Revision)] /\ Len(log[t]) \in Nat
          /\ DOMAIN log'[t] = 1 .. Len(log[t]) + 1
      BY <1>1, <1>5, <2>1, AppendedLog DEF TypeOK
    <3>2. 1 \in DOMAIN log'[t]
      BY <3>1
    <3>3. log'[t] # <<>>
      BY <3>2
    <3> QED BY <1>5, <2>1, <3>1, <3>3
  <2>2. CASE log[t] # <<>>
    BY <1>1, <2>2, SameLog DEF TypeOK
  <2> QED BY <2>1, <2>2
<1>7. TypeOK'
  BY <1>1, <1>2, <1>3, <1>6 DEF TypeOK, QueueInv
<1>8. HistoryInv'
  <2>1. CASE log[t] = <<>>
    BY <1>1, <1>4, <1>5, <2>1, HistoryAppend
  <2>2. CASE log[t] # <<>>
    BY <1>1, <1>4, <2>2, HistoryFrame
  <2> QED BY <2>1, <2>2
<1>9. CallsInv'
  <2>1. \A b \in Calls : b # c => Frame(b)
    BY <1>1, <1>3 DEF Frame, TypeOK
  <2>2. Knows(c)'
    BY <1>3, <1>6 DEF Knows, Loaded, Created, Raised, Emits
  <2> QED BY <1>1, <1>6, <2>1, <2>2, CallsKept DEF queueVars, Late
<1> QED BY <1>2, <1>7, <1>8, <1>9 DEF ControlInv

LEMMA RefetchStep ==
  ASSUME ControlInv, NEW c \in Calls, Refetch(c)
  PROVE  ControlInv'
PROOF
<1> USE DEF Refetch, Goto
<1>1. TypeOK /\ QueueInv /\ HistoryInv /\ CallsInv
  BY DEF ControlInv
<1>2. QueueInv'
  BY <1>1, QueueStutter
<1> PICK t \in Tasks : t = task[c]
  BY <1>1 DEF TypeOK
<1>3. /\ log[t] # <<>> /\ Rev(t) \in Nat \ {0} /\ Rev(t) \in DOMAIN log[t]
      /\ Status(t) = log[t][Rev(t)].status /\ Status(t) \in TaskStatus
  BY <1>1, StoredCase DEF CallsInv, Knows, Created
<1>4. /\ pc' \in [Calls -> Pcs] /\ pc'[c] = "lookup"
      /\ \A b \in Calls : b # c => pc'[b] = pc[b]
      /\ events'[c] = <<"task.created">>
      /\ \A b \in Calls : b # c => events'[b] = events[b]
      /\ seen'[c].rev = Rev(t) /\ seen'[c].status = Status(t)
      /\ \A b \in Calls : b # c => seen'[b] = seen[b]
  BY <1>1 DEF TypeOK, Pcs
<1>5. TypeOK'
  <2>1. [rev |-> Rev(t), status |-> Status(t)] \in [rev : Nat, status : TaskStatus]
    BY <1>3
  <2>2. seen' \in [Calls -> [rev : Nat, status : TaskStatus]]
    BY <1>1, <2>1 DEF TypeOK
  <2>3. events' \in [Calls -> Seq(Types)]
    <3>1. <<"task.created">> \in Seq(Types)
      BY DEF Types
    <3> QED BY <1>1, <3>1 DEF TypeOK
  <2> QED BY <1>1, <1>2, <1>4, <2>2, <2>3 DEF TypeOK, QueueInv
<1>6. HistoryInv'
  <2>1. Begun
    BY <1>1, <1>4 DEF Begun, TypeOK
  <2> QED BY <1>1, <2>1, HistoryFrame
<1>7. CallsInv'
  <2>1. \A b \in Calls : b # c => Frame(b)
    BY <1>1, <1>4 DEF Frame, TypeOK
  <2>2. About(c, "task.created")'
    BY <1>3, <1>4 DEF About, EngineEvents
  <2>3. Knows(c)'
    BY <1>4, <2>2 DEF Knows, Loaded, Created, Raised, Emits
  <2> QED BY <1>1, <2>1, <2>3, SameLog, CallsKept DEF queueVars, Late
<1> QED BY <1>2, <1>5, <1>6, <1>7 DEF ControlInv

LEMMA LoadStep ==
  ASSUME ControlInv, NEW c \in Calls, NEW v \in Verbs, NEW t \in Tasks,
         NEW exp \in 1 .. Rev(t), Load(c, v, t, exp)
  PROVE  ControlInv'
PROOF
<1> USE DEF Load, Goto, Answer
<1>1. TypeOK /\ QueueInv /\ HistoryInv /\ CallsInv
  BY DEF ControlInv
<1>2. QueueInv'
  BY <1>1, QueueStutter
<1>3. /\ Rev(t) \in Nat \ {0} /\ DOMAIN log[t] = 1 .. Rev(t)
      /\ Status(t) = log[t][Rev(t)].status
      /\ Stored(t) \in Case /\ Stored(t).status = Status(t)
      /\ Stored(t).notes = log[t][Rev(t)].notes
  BY <1>1, StoredCase
<1>4. /\ pc'[c] \in {"loaded", "done"}
      /\ \A b \in Calls : b # c => pc'[b] = pc[b]
      /\ verb'[c] = v /\ task'[c] = t /\ expect'[c] = exp
      /\ copy'[c] = Stored(t)
  BY <1>1 DEF TypeOK
<1>5. TypeOK'
  <2>1. pc' \in [Calls -> Pcs] /\ reply' \in [Calls -> Replies]
    BY <1>1 DEF TypeOK, Pcs, Replies
  <2>2. /\ verb' \in [Calls -> Verbs] /\ task' \in [Calls -> Tasks]
        /\ expect' \in [Calls -> Nat] /\ copy' \in [Calls -> Case]
        /\ steady' \in [Calls -> SUBSET Subs]
    BY <1>1, <1>3 DEF TypeOK, Active
  <2> QED BY <1>1, <1>2, <2>1, <2>2 DEF TypeOK, QueueInv
<1>6. HistoryInv'
  <2>1. Begun
    BY <1>1, <1>4 DEF Begun, TypeOK
  <2> QED BY <1>1, <2>1, HistoryFrame
<1>7. CallsInv'
  <2>1. \A b \in Calls : b # c => Frame(b)
    BY <1>1, <1>4 DEF Frame, TypeOK
  <2>2. pc'[c] = "loaded" => ~Refused(c, v, t, exp)
    BY <1>1 DEF TypeOK
  <2>3. ~Refused(c, v, t, exp) =>
          exp = Rev(t) /\ (v = "steer" => Status(t) \notin Terminal)
    BY DEF Refused
  <2>4. Loaded(c)'
    BY <1>3, <1>4, <2>2, <2>3 DEF Loaded
  <2>5. Knows(c)'
    BY <1>4, <2>4 DEF Knows, Created, Raised, Emits
  <2> QED BY <1>1, <2>1, <2>5, SameLog, CallsKept DEF queueVars, Late
<1> QED BY <1>2, <1>5, <1>6, <1>7 DEF ControlInv

LEMMA TransitionStep ==
  ASSUME ControlInv, NEW c \in Calls, Transition(c)
  PROVE  ControlInv'
PROOF
<1>1. TypeOK /\ QueueInv /\ HistoryInv /\ CallsInv
  BY DEF ControlInv
<1>2. /\ UNCHANGED <<queueVars, judged, verb, task, expect, copy, targets, subs,
                     steady>>
      /\ pc[c] = "loaded" /\ verb[c] # "steer"
  BY DEF Transition
<1>3. QueueInv'
  BY <1>1, <1>2, QueueStutter
<1> PICK t \in Tasks : t = task[c]
  BY <1>1 DEF TypeOK
<1>4. expect[c] \in DOMAIN log[t]
  BY <1>1, <1>2 DEF CallsInv, Knows, Loaded
<1>5. log[t] # <<>>
  BY <1>4
<1>6. /\ Rev(t) \in Nat \ {0} /\ DOMAIN log[t] = 1 .. Rev(t)
      /\ Status(t) = log[t][Rev(t)].status
      /\ Stored(t) \in Case /\ Stored(t).notes = log[t][Rev(t)].notes
  BY <1>1, <1>5, StoredCase
<1>7. CASE RevisionGuard(c) /\ CanTransition(Status(t), Target(verb[c]))
  <2> PICK to : to = Target(verb[c])
    OBVIOUS
  <2> DEFINE case == [Stored(t) EXCEPT !.status = to]
             r == [status |-> case.status, notes |-> case.notes, by |-> c]
  <2>1. /\ Commit(t, case, c)
        /\ seen' = [seen EXCEPT ![c] = [rev |-> NewRevision(c), status |-> to]]
        /\ events' = [events EXCEPT ![c] = EventsOf(c, to)]
        /\ EventsOf(c, to) = <<>> =>
             /\ pc' = [pc EXCEPT ![c] = "done"]
             /\ reply' = [reply EXCEPT ![c] = "ok"]
        /\ EventsOf(c, to) # <<>> =>
             pc' = [pc EXCEPT ![c] = "lookup"] /\ reply' = reply
    BY <1>7 DEF Transition, Goto, Answer
  <2>2. to \in {"paused", "running", "cancelled"}
    BY DEF Target
  <2>3. Status(t) \notin Terminal
    BY <1>7 DEF CanTransition, Terminal
  <2>4. expect[c] = Rev(t) /\ NewRevision(c) = Rev(t) + 1
    BY <1>7 DEF RevisionGuard, NewRevision
  <2>5. case \in Case /\ case.status = to /\ case.notes = Stored(t).notes
    BY <1>6, <2>2 DEF Case, TaskStatus
  <2> HIDE DEF case
  <2>6. /\ r \in Revision /\ log' = [log EXCEPT ![t] = Append(@, r)]
        /\ r.status = to /\ r.notes = Stored(t).notes /\ r.by = c
        /\ LogExtends
    <3>1. c \in Writers
      BY DEF Writers
    <3> QED BY <1>1, <2>1, <2>5, <3>1, CommitAppends
  <2> HIDE DEF r
  <2>7. /\ log' \in [Tasks -> Seq(Revision)]
        /\ Rev(t) + 1 \in DOMAIN log'[t] /\ log'[t][Rev(t) + 1] = r
    BY <1>1, <1>6, <2>6, AppendedLog DEF TypeOK, Rev
  <2>8. /\ pc'[c] \in {"done", "lookup"}
        /\ pc'[c] = "lookup" => EventsOf(c, to) # <<>>
        /\ \A b \in Calls : b # c =>
             pc'[b] = pc[b] /\ seen'[b] = seen[b] /\ events'[b] = events[b]
        /\ events'[c] = EventsOf(c, to)
        /\ seen'[c].rev = Rev(t) + 1 /\ seen'[c].status = to
    BY <1>1, <2>1, <2>4 DEF TypeOK
  <2>9. /\ EventsOf(c, to) \in Seq(Types)
        /\ \A k \in DOMAIN EventsOf(c, to) :
             \/ EventsOf(c, to)[k] = "task.status_changed"
             \/ EventsOf(c, to)[k] = "task.terminal" /\ to \in Terminal
    <3>1. \/ EventsOf(c, to) = <<>>
          \/ EventsOf(c, to) = <<"task.status_changed">>
          \/ /\ to \in Terminal
             /\ EventsOf(c, to) = <<"task.status_changed", "task.terminal">>
      BY DEF EventsOf
    <3>2. /\ <<>> \in Seq(Types) /\ <<"task.status_changed">> \in Seq(Types)
          /\ <<"task.status_changed", "task.terminal">> \in Seq(Types)
      BY DEF Types
    <3>3. EventsOf(c, to) \in Seq(Types)
      BY <3>1, <3>2
    <3>4. ASSUME NEW k \in DOMAIN EventsOf(c, to)
          PROVE  \/ EventsOf(c, to)[k] = "task.status_changed"
                 \/ EventsOf(c, to)[k] = "task.terminal" /\ to \in Terminal
      BY <3>1
    <3> QED BY <3>3, <3>4
  <2>10. TypeOK'
    <3>1. pc' \in [Calls -> Pcs] /\ reply' \in [Calls -> Replies]
      BY <1>1, <2>1 DEF TypeOK, Pcs, Replies
    <3>2. events' \in [Calls -> Seq(Types)]
      BY <1>1, <2>1, <2>9 DEF TypeOK
    <3>3. [rev |-> NewRevision(c), status |-> to] \in [rev : Nat, status : TaskStatus]
      BY <1>6, <2>2, <2>4 DEF TaskStatus
    <3>4. seen' \in [Calls -> [rev : Nat, status : TaskStatus]]
      BY <1>1, <2>1, <3>3 DEF TypeOK
    <3> QED BY <1>1, <1>2, <1>3, <2>7, <3>1, <3>2, <3>4 DEF TypeOK, QueueInv
  <2>11. HistoryInv'
    <3>1. Begun
      BY <1>1, <1>2, <2>8 DEF Begun, TypeOK
    <3> QED BY <1>1, <1>2, <1>6, <2>2, <2>3, <2>4, <2>6, <3>1, HistoryAppend
            DEF Rev
  <2>12. CallsInv'
    <3>1. \A b \in Calls : b # c => Frame(b)
      BY <1>2, <2>8 DEF Frame
    <3>2. ASSUME NEW k \in DOMAIN EventsOf(c, to)
          PROVE  About(c, EventsOf(c, to)[k])'
      BY <1>2, <2>6, <2>7, <2>8, <2>9 DEF About, EngineEvents
    <3>3. Knows(c)'
      BY <2>8, <3>2 DEF Knows, Loaded, Created, Raised, Emits
    <3> QED BY <1>1, <1>2, <2>6, <3>1, <3>3, CallsKept DEF queueVars, Late
  <2> QED BY <1>3, <2>10, <2>11, <2>12 DEF ControlInv
<1>8. CASE ~(RevisionGuard(c) /\ CanTransition(Status(t), Target(verb[c])))
  <2>1. /\ pc' = [pc EXCEPT ![c] = "done"]
        /\ reply' = [reply EXCEPT ![c] = "conflict"]
        /\ UNCHANGED <<log, seen, events>>
    BY <1>8 DEF Transition, Goto, Answer
  <2>2. pc'[c] = "done" /\ \A b \in Calls : b # c => pc'[b] = pc[b]
    BY <1>1, <2>1 DEF TypeOK
  <2>3. pc' \in [Calls -> Pcs] /\ reply' \in [Calls -> Replies]
    BY <1>1, <2>1 DEF TypeOK, Pcs, Replies
  <2>4. TypeOK'
    BY <1>1, <1>2, <1>3, <2>1, <2>3 DEF TypeOK, QueueInv
  <2>5. HistoryInv'
    <3>1. Begun
      BY <1>1, <1>2, <2>2 DEF Begun, TypeOK
    <3> QED BY <1>1, <2>1, <3>1, HistoryFrame
  <2>6. CallsInv'
    <3>1. \A b \in Calls : b # c => Frame(b)
      BY <1>2, <2>1, <2>2 DEF Frame
    <3>2. Knows(c)'
      BY <2>2 DEF Knows, Loaded, Created, Raised, Emits
    <3> QED BY <1>1, <1>2, <2>1, <3>1, <3>2, SameLog, CallsKept
            DEF queueVars, Late
  <2> QED BY <1>3, <2>4, <2>5, <2>6 DEF ControlInv
<1> QED BY <1>7, <1>8

LEMMA SteerStep ==
  ASSUME ControlInv, NEW c \in Calls, Steer(c)
  PROVE  ControlInv'
PROOF
<1>1. TypeOK /\ QueueInv /\ HistoryInv /\ CallsInv
  BY DEF ControlInv
<1>2. /\ UNCHANGED <<queueVars, judged, verb, task, expect, copy, seen, events,
                     targets, subs, steady>>
      /\ pc[c] = "loaded" /\ verb[c] = "steer"
  BY DEF Steer
<1>3. QueueInv'
  BY <1>1, <1>2, QueueStutter
<1> PICK t \in Tasks : t = task[c]
  BY <1>1 DEF TypeOK
<1>4. /\ expect[c] \in DOMAIN log[t]
      /\ copy[c].status = log[t][expect[c]].status
      /\ copy[c].notes = log[t][expect[c]].notes
      /\ copy[c].status \notin Terminal
  BY <1>1, <1>2 DEF CallsInv, Knows, Loaded
<1>5. log[t] # <<>>
  BY <1>4
<1>6. /\ pc' = [pc EXCEPT ![c] = "done"]
      /\ reply' \in [Calls -> Replies]
  BY <1>1 DEF Steer, Answer, Goto, TypeOK, Replies
<1>7. /\ pc' \in [Calls -> Pcs] /\ pc'[c] = "done"
      /\ \A b \in Calls : b # c => pc'[b] = pc[b]
  BY <1>1, <1>6 DEF TypeOK, Pcs
<1>8. Begun
  BY <1>1, <1>2, <1>7 DEF Begun, TypeOK
<1>9. log' \in [Tasks -> Seq(Revision)] /\ LogExtends /\ HistoryInv'
  <2>1. CASE RevisionGuard(c)
    <3>0. PICK case : case = [copy[c] EXCEPT !.notes = @ \cup {c}]
      OBVIOUS
    <3> DEFINE r == [status |-> case.status, notes |-> case.notes, by |-> c]
    <3>1. Commit(t, case, c)
      BY <2>1, <3>0 DEF Steer
    <3>2. copy[c] \in Case
      BY <1>1 DEF TypeOK
    <3>3. /\ case \in Case /\ case.status = copy[c].status
          /\ case.notes = copy[c].notes \cup {c}
      BY <3>0, <3>2 DEF Case
    <3>4. /\ r \in Revision /\ log' = [log EXCEPT ![t] = Append(@, r)]
          /\ r.status = case.status /\ r.notes = case.notes /\ r.by = c
          /\ LogExtends
      <4>1. c \in Writers /\ case \in Case
        BY <3>3 DEF Writers
      <4> QED BY <1>1, <3>1, <4>1, CommitAppends
    <3> HIDE DEF r
    <3>5. expect[c] = Len(log[t])
      BY <2>1 DEF RevisionGuard, Rev
    <3>6. /\ log[t][Len(log[t])].status \notin Terminal
          /\ r.status = log[t][Len(log[t])].status
          /\ log[t][Len(log[t])].notes \subseteq r.notes
          /\ r.status # "escalated"
      BY <1>4, <3>3, <3>4, <3>5 DEF Terminal
    <3>7. HistoryInv'
      BY <1>1, <1>2, <1>4, <1>8, <3>4, <3>5, <3>6, HistoryAppend
    <3> QED BY <1>1, <3>4, <3>7, AppendedLog DEF TypeOK
  <2>2. CASE ~RevisionGuard(c)
    <3>1. log' = log
      BY <2>2 DEF Steer
    <3> QED BY <1>1, <1>8, <3>1, SameLog, HistoryFrame DEF TypeOK
  <2> QED BY <2>1, <2>2
<1>10. TypeOK'
  BY <1>1, <1>2, <1>3, <1>6, <1>7, <1>9 DEF TypeOK, QueueInv
<1>11. CallsInv'
  <2>1. \A b \in Calls : b # c => Frame(b)
    BY <1>2, <1>7 DEF Frame
  <2>2. Knows(c)'
    BY <1>7 DEF Knows, Loaded, Created, Raised, Emits
  <2> QED BY <1>1, <1>2, <1>9, <2>1, <2>2, CallsKept DEF queueVars, Late
<1> QED BY <1>3, <1>9, <1>10, <1>11 DEF ControlInv

LEMMA RaiseStep ==
  ASSUME ControlInv, NEW c \in Calls, NEW t \in Tasks,
         NEW type \in EngineEvents, Raise(c, t, type)
  PROVE  ControlInv'
PROOF
<1> USE DEF Raise, Goto
<1>1. TypeOK /\ QueueInv /\ HistoryInv /\ CallsInv
  BY DEF ControlInv
<1>2. QueueInv'
  BY <1>1, QueueStutter
<1>3. /\ pc' \in [Calls -> Pcs] /\ pc'[c] = "raised"
      /\ \A b \in Calls : b # c => pc'[b] = pc[b]
      /\ task'[c] = t /\ expect'[c] = Rev(t) /\ events'[c] = <<type>>
      /\ \A b \in Calls : b # c => events'[b] = events[b]
  BY <1>1 DEF TypeOK, Pcs
<1>4. log[t] \in Seq(Revision) /\ Rev(t) \in Nat /\ DOMAIN log[t] = 1 .. Rev(t)
  BY <1>1 DEF TypeOK, Rev
<1>5. Rev(t) \in DOMAIN log[t]
  BY <1>4 DEF EngineEvents
<1>6. TypeOK'
  <2>1. <<type>> \in Seq(Types)
    BY DEF Types
  <2>2. events' \in [Calls -> Seq(Types)]
    BY <1>1, <2>1 DEF TypeOK
  <2>3. verb' \in [Calls -> Verbs] /\ task' \in [Calls -> Tasks]
    BY <1>1 DEF TypeOK, Verbs
  <2>4. expect' \in [Calls -> Nat]
    BY <1>1, <1>4 DEF TypeOK
  <2> QED BY <1>1, <1>2, <1>3, <2>2, <2>3, <2>4 DEF TypeOK, QueueInv
<1>7. HistoryInv'
  <2>1. Begun
    BY <1>1, <1>3 DEF Begun, TypeOK
  <2> QED BY <1>1, <2>1, HistoryFrame
<1>8. CallsInv'
  <2>1. \A b \in Calls : b # c => Frame(b)
    BY <1>1, <1>3 DEF Frame, TypeOK
  <2>2. type = "task.escalated" => log[t][Rev(t)].status = "escalated"
    BY DEF Status
  <2>3. Raised(c)'
    BY <1>3, <1>5, <2>2 DEF Raised, EngineEvents
  <2>4. Knows(c)'
    BY <1>3, <2>3 DEF Knows, Loaded, Created, Emits
  <2> QED BY <1>1, <2>1, <2>4, SameLog, CallsKept DEF queueVars, Late
<1> QED BY <1>2, <1>6, <1>7, <1>8 DEF ControlInv

LEMMA ReviseStep ==
  ASSUME ControlInv, JudgeInv, NEW c \in Calls, Revise(c)
  PROVE  ControlInv'
PROOF
<1> USE DEF Revise, Goto
<1>1. TypeOK /\ QueueInv /\ HistoryInv /\ CallsInv
  BY DEF ControlInv
<1>2. QueueInv'
  BY <1>1, QueueStutter
<1> PICK t \in Tasks : t = task[c]
  BY <1>1 DEF TypeOK
<1>3. /\ expect[c] \in DOMAIN log[t]
      /\ \/ events[c] = <<"attempt.completed">>
         \/ /\ events[c] = <<"task.escalated">>
            /\ log[t][expect[c]].status = "escalated"
  BY <1>1 DEF CallsInv, Knows, Raised
<1>4. log[t] # <<>>
  BY <1>3
<1>5. /\ Rev(t) \in Nat \ {0} /\ Rev(t) \in DOMAIN log[t]
      /\ DOMAIN log[t] = 1 .. Rev(t)
      /\ Status(t) = log[t][Rev(t)].status /\ Status(t) \in TaskStatus
  BY <1>1, <1>4, StoredCase
<1>6. /\ pc' \in [Calls -> Pcs] /\ pc'[c] = "lookup"
      /\ \A b \in Calls : b # c => pc'[b] = pc[b]
      /\ seen'[c].rev = Rev(t) /\ seen'[c].status = Status(t)
      /\ \A b \in Calls : b # c => seen'[b] = seen[b]
  BY <1>1 DEF TypeOK, Pcs
<1>7. TypeOK'
  <2>1. [rev |-> Rev(t), status |-> Status(t)] \in [rev : Nat, status : TaskStatus]
    BY <1>5
  <2>2. seen' \in [Calls -> [rev : Nat, status : TaskStatus]]
    BY <1>1, <2>1 DEF TypeOK
  <2> QED BY <1>1, <1>2, <1>6, <2>2 DEF TypeOK, QueueInv
<1>8. HistoryInv'
  <2>1. Begun
    BY <1>1, <1>6 DEF Begun, TypeOK
  <2> QED BY <1>1, <2>1, HistoryFrame
<1>9. CallsInv'
  <2>1. \A b \in Calls : b # c => Frame(b)
    BY <1>1, <1>6 DEF Frame, TypeOK
  <2>2. Rev(t) >= expect[c]
    BY <1>3, <1>5
  <2>3. ASSUME log[t][expect[c]].status = "escalated"
        PROVE  expect[c] = Rev(t) /\ log[t][Rev(t)].by = Engine
    <3>1. log[t][expect[c]].status \in Terminal
      BY <2>3 DEF Terminal
    <3>2. log[t][Rev(t)].by # Learner
      BY DEF JudgeInv, Marked
    <3>3. expect[c] \notin 1 .. Len(log[t]) - 1
      <4>1. SUFFICES ASSUME expect[c] \in 1 .. Len(log[t]) - 1
                     PROVE  FALSE
        OBVIOUS
      <4>2. /\ expect[c] = Len(log[t]) - 1
            /\ log[t][expect[c] + 1].by = Learner
        <5> DEFINE i == expect[c]
        <5>1. i \in 1 .. Len(log[t]) - 1 /\ log[t][i].status \in Terminal
          BY <3>1, <4>1
        <5>2. TerminalIsLast
          BY <1>1 DEF HistoryInv
        <5> HIDE DEF i
        <5>3. i = Len(log[t]) - 1 /\ log[t][i + 1].by = Learner
          BY <5>1, <5>2 DEF TerminalIsLast
        <5> QED BY <5>3 DEF i
      <4>3. expect[c] + 1 = Rev(t)
        BY <1>5, <4>2 DEF Rev
      <4> QED BY <3>2, <4>2, <4>3
    <3>4. expect[c] = Rev(t)
      BY <1>3, <1>5, <3>3 DEF Rev
    <3> QED BY <1>1, <1>5, <2>3, <3>2, <3>4 DEF HistoryInv, Written
  <2>4. CASE events[c] = <<"attempt.completed">>
    <3>1. About(c, "attempt.completed")'
      BY <1>5, <1>6, <2>2 DEF About, EngineEvents
    <3>2. Emits(c)'
      BY <1>6, <2>4, <3>1 DEF Emits
    <3> QED BY <1>1, <1>6, <2>1, <3>2, SameLog, CallsKept
            DEF Knows, Loaded, Created, Raised, queueVars, Late
  <2>5. CASE /\ events[c] = <<"task.escalated">>
             /\ log[t][expect[c]].status = "escalated"
    <3>1. About(c, "task.escalated")'
      BY <1>5, <1>6, <2>2, <2>3, <2>5 DEF About, EngineEvents
    <3>2. Emits(c)'
      BY <1>6, <2>5, <3>1 DEF Emits
    <3> QED BY <1>1, <1>6, <2>1, <3>2, SameLog, CallsKept
            DEF Knows, Loaded, Created, Raised, queueVars, Late
  <2> QED BY <1>3, <2>4, <2>5
<1> QED BY <1>2, <1>7, <1>8, <1>9 DEF ControlInv

\* While a call emits, it only moves on, and what it still has to emit is
\* what it had.
LEMMA EmitMoves ==
  ASSUME ControlInv, NEW c \in Calls, pc[c] # "idle",
         UNCHANGED <<log, verb, task, expect, copy, seen>>,
         pc'[c] \in Late, \A b \in Calls : b # c => pc'[b] = pc[b],
         \A b \in Calls : b # c => events'[b] = events[b],
         Emits(c)',
         \A d \in Deliveries :
           status'[d] # "none" =>
             \/ status[d] # "none"
             \/ d.call = c /\ About(c, d.type)'
  PROVE  HistoryInv' /\ CallsInv'
PROOF
<1>1. TypeOK /\ HistoryInv /\ CallsInv
  BY DEF ControlInv
<1>2. HistoryInv'
  <2>1. Begun
    BY DEF Begun, Late
  <2> QED BY <1>1, <2>1, HistoryFrame
<1>3. CallsInv'
  <2>1. \A b \in Calls : b # c => Frame(b)
    BY DEF Frame
  <2>2. Knows(c)'
    BY DEF Knows, Loaded, Created, Raised, Late
  <2>3. UNCHANGED <<seen[c], task[c], expect[c]>>
    OBVIOUS
  <2> QED BY <1>1, <2>1, <2>2, <2>3, SameLog, CallsKept
<1> QED BY <1>2, <1>3

LEMMA ReviseFailsStep ==
  ASSUME ControlInv, NEW c \in Calls, ReviseFails(c)
  PROVE  ControlInv'
PROOF
<1> USE DEF ReviseFails, Goto
<1>1. TypeOK /\ QueueInv
  BY DEF ControlInv
<1>2. QueueInv'
  BY <1>1, FaultStep
<1>3. /\ pc' \in [Calls -> Pcs] /\ pc'[c] = "gone"
      /\ \A b \in Calls : b # c => pc'[b] = pc[b]
  BY <1>1 DEF TypeOK, Pcs
<1>4. TypeOK'
  BY <1>1, <1>2, <1>3 DEF TypeOK, QueueInv
<1>5. HistoryInv' /\ CallsInv'
  BY <1>3, EmitMoves DEF Emits, Late
<1> QED BY <1>2, <1>4, <1>5 DEF ControlInv

LEMMA LookUpSubsStep ==
  ASSUME ControlInv, NEW c \in Calls, LookUpSubs(c)
  PROVE  ControlInv'
PROOF
<1> USE DEF LookUpSubs, Goto
<1>1. TypeOK /\ QueueInv /\ CallsInv
  BY DEF ControlInv
<1>2. QueueInv'
  BY <1>1, QueueStutter
<1>3. /\ pc' \in [Calls -> Pcs] /\ pc'[c] = "enqueue"
      /\ \A b \in Calls : b # c => pc'[b] = pc[b]
      /\ targets' \in [Calls -> SUBSET Subs]
  BY <1>1 DEF TypeOK, Pcs, Matches, Active
<1>4. TypeOK'
  BY <1>1, <1>2, <1>3 DEF TypeOK, QueueInv
<1>5. Emits(c)'
  BY <1>1 DEF CallsInv, Knows, Emits, About
<1>6. HistoryInv' /\ CallsInv'
  BY <1>3, <1>5, EmitMoves DEF Late, queueVars
<1> QED BY <1>2, <1>4, <1>6 DEF ControlInv

LEMMA LookUpFailsStep ==
  ASSUME ControlInv, NEW c \in Calls, LookUpFails(c)
  PROVE  ControlInv'
PROOF
<1> USE DEF LookUpFails, Goto
<1>1. TypeOK /\ QueueInv /\ CallsInv
  BY DEF ControlInv
<1>2. QueueInv'
  BY <1>1, FaultStep
<1>3. /\ pc' \in [Calls -> Pcs] /\ pc'[c] = "enqueue"
      /\ \A b \in Calls : b # c => pc'[b] = pc[b]
      /\ targets' \in [Calls -> SUBSET Subs]
  BY <1>1 DEF TypeOK, Pcs
<1>4. TypeOK'
  BY <1>1, <1>2, <1>3 DEF TypeOK, QueueInv
<1>5. Emits(c)'
  BY <1>1 DEF CallsInv, Knows, Emits, About
<1>6. HistoryInv' /\ CallsInv'
  BY <1>3, <1>5, EmitMoves DEF Late
<1> QED BY <1>2, <1>4, <1>6 DEF ControlInv

LEMMA EnqueueOneStep ==
  ASSUME ControlInv, NEW c \in Calls, NEW s \in Subs, EnqueueOne(c, s)
  PROVE  ControlInv'
PROOF
<1>1. TypeOK /\ QueueInv /\ CallsInv
  BY DEF ControlInv
<1>2. /\ UNCHANGED <<log, judged, pc, verb, task, expect, copy, seen, events,
                     reply, subs, steady>>
      /\ pc[c] = "enqueue"
      /\ targets' = [targets EXCEPT ![c] = @ \ {s}]
  BY DEF EnqueueOne
<1>3. targets' \in [Calls -> SUBSET Subs]
  BY <1>1, <1>2 DEF TypeOK
<1>4. /\ events[c] \in Seq(Types) /\ events[c] # <<>>
      /\ \A k \in DOMAIN events[c] : About(c, events[c][k])
  BY <1>1, <1>2 DEF TypeOK, CallsInv, Knows, Emits
<1>5. Head(events[c]) \in Types /\ About(c, Head(events[c]))
  BY <1>4
<1> PICK d : d = [call |-> c, type |-> Head(events[c]), sub |-> s]
  OBVIOUS
<1>6. d \in Deliveries /\ d.call = c /\ d.type = Head(events[c])
  BY <1>5, ControlPlaneAssumption
<1>7. /\ QueueInv'
      /\ \A e \in Deliveries : status'[e] # "none" => status[e] # "none" \/ e = d
  <2>1. CASE Enqueue(d)
    BY <1>1, <1>6, <2>1, EnqueueStep DEF Enqueue, TypeOK, QueueTypeOK
  <2>2. CASE faults' = faults + 1 /\ UNCHANGED <<status, attempts, ready, sweep,
                                    outcome, tries, taken, unheard>>
    BY <1>1, <2>2, FaultStep
  <2> QED BY <2>1, <2>2 DEF EnqueueOne
<1>8. TypeOK'
  BY <1>1, <1>2, <1>3, <1>7 DEF TypeOK, QueueInv
<1>9. Emits(c)' /\ About(c, d.type)'
  BY <1>2, <1>4, <1>5, <1>6 DEF Emits, About
<1>10. HistoryInv' /\ CallsInv'
  BY <1>2, <1>6, <1>7, <1>9, EmitMoves DEF Late
<1> QED BY <1>7, <1>8, <1>10 DEF ControlInv

LEMMA EmittedStep ==
  ASSUME ControlInv, NEW c \in Calls, Emitted(c)
  PROVE  ControlInv'
PROOF
<1> USE DEF Emitted, Goto, Answer
<1>1. TypeOK /\ QueueInv /\ CallsInv
  BY DEF ControlInv
<1>2. QueueInv'
  BY <1>1, QueueStutter
<1>3. /\ events[c] \in Seq(Types) /\ events[c] # <<>>
      /\ \A k \in DOMAIN events[c] : About(c, events[c][k])
  BY <1>1 DEF TypeOK, CallsInv, Knows, Emits
<1>4. /\ Tail(events[c]) \in Seq(Types) /\ Len(events[c]) \in Nat
      /\ DOMAIN Tail(events[c]) = 1 .. Len(events[c]) - 1
      /\ \A k \in 1 .. Len(events[c]) - 1 : Tail(events[c])[k] = events[c][k + 1]
      /\ DOMAIN events[c] = 1 .. Len(events[c])
      /\ Len(Tail(events[c])) = Len(events[c]) - 1
  BY <1>3
<1> PICK rest : rest = Tail(events[c])
  OBVIOUS
<1>5. /\ pc'[c] \in {"lookup", "done"}
      /\ pc'[c] = "lookup" => Len(events[c]) > 1
      /\ \A b \in Calls : b # c => pc'[b] = pc[b]
      /\ events' \in [Calls -> Seq(Types)] /\ events'[c] = Tail(events[c])
      /\ \A b \in Calls : b # c => events'[b] = events[b]
  BY <1>1, <1>4 DEF TypeOK
<1>6. pc' \in [Calls -> Pcs] /\ reply' \in [Calls -> Replies]
  BY <1>1 DEF TypeOK, Pcs, Replies, ReplyOf
<1>7. TypeOK'
  BY <1>1, <1>2, <1>5, <1>6 DEF TypeOK, QueueInv
<1>8. Emits(c)'
  <2> SUFFICES ASSUME Len(events[c]) > 1
               PROVE  /\ rest # <<>>
                      /\ \A k \in DOMAIN rest : About(c, rest[k])'
    BY <1>5 DEF Emits
  <2>1. ASSUME NEW k \in DOMAIN rest PROVE About(c, rest[k])
    <3>1. k + 1 \in DOMAIN events[c] /\ rest[k] = events[c][k + 1]
      BY <1>4
    <3> QED BY <1>3, <3>1
  <2>2. Len(rest) # 0
    BY <1>4
  <2> QED BY <2>1, <2>2 DEF About
<1>9. HistoryInv' /\ CallsInv'
  BY <1>5, <1>8, EmitMoves DEF Late, queueVars
<1> QED BY <1>2, <1>7, <1>9 DEF ControlInv

LEMMA HangUpStep ==
  ASSUME ControlInv, NEW c \in Calls, HangUp(c)
  PROVE  ControlInv'
PROOF
<1> USE DEF HangUp, Goto
<1>1. TypeOK /\ QueueInv
  BY DEF ControlInv
<1>2. QueueInv'
  BY <1>1, QueueStutter
<1>3. /\ pc' \in [Calls -> Pcs] /\ pc'[c] = "gone"
      /\ \A b \in Calls : b # c => pc'[b] = pc[b]
  BY <1>1 DEF TypeOK, Pcs
<1>4. TypeOK'
  BY <1>1, <1>2, <1>3 DEF TypeOK, QueueInv
<1>5. HistoryInv' /\ CallsInv'
  BY <1>3, EmitMoves DEF Emits, Late, queueVars
<1> QED BY <1>2, <1>4, <1>5 DEF ControlInv

----------------------------------------------------------------------------
(* The other steps.                                                        *)

\* Every call stays where it is or is gone, and nothing is new in the queue.
LEMMA NobodyMoves ==
  ASSUME TypeOK, CallsInv, LogExtends,
         \A b \in Calls :
           \/ Frame(b)
           \/ pc'[b] = "gone" /\ UNCHANGED <<seen[b], task[b], expect[b]>>,
         \A d \in Deliveries : status'[d] # "none" => status[d] # "none"
  PROVE  CallsInv'
PROOF
<1>1. ASSUME NEW b \in Calls PROVE Knows(b)'
  <2>1. CASE Frame(b)
    BY <2>1, KnowsStays DEF CallsInv
  <2>2. CASE pc'[b] = "gone"
    BY <2>2 DEF Knows, Loaded, Created, Raised, Emits
  <2> QED BY <2>1, <2>2
<1>2. ASSUME NEW d \in Deliveries, status[d] # "none"
      PROVE  pc'[d.call] \in Late /\ About(d.call, d.type)'
  <2>1. d.call \in Calls
    BY ControlPlaneAssumption
  <2>2. pc[d.call] \in Late /\ About(d.call, d.type)
    BY <1>2 DEF CallsInv, QueuedInv
  <2>3. UNCHANGED <<seen[d.call], task[d.call], expect[d.call]>>
    BY <2>1 DEF Frame
  <2>4. pc'[d.call] \in Late
    BY <2>1, <2>2 DEF Frame, Late
  <2> QED BY <2>1, <2>2, <2>3, <2>4, AboutStays
<1> QED BY <1>1, <1>2 DEF CallsInv, QueuedInv

\* Whatever leaves the store and the calls alone, and keeps the queue right.
LEMMA ElsewhereStep ==
  ASSUME ControlInv, QueueInv', log' = log,
         UNCHANGED <<pc, verb, task, expect, copy, seen, events, targets, reply>>,
         judged' \in [Tasks -> Nat],
         subs' \in [Subs -> SubState], steady' \in [Calls -> SUBSET Subs],
         \A d \in Deliveries : status'[d] # "none" => status[d] # "none"
  PROVE  ControlInv'
PROOF
<1>1. TypeOK /\ HistoryInv /\ CallsInv
  BY DEF ControlInv
<1>2. TypeOK'
  BY <1>1 DEF TypeOK, QueueInv
<1>3. HistoryInv'
  <2>1. Begun
    BY DEF Begun
  <2> QED BY <1>1, <2>1, HistoryFrame
<1>4. CallsInv'
  <2>1. \A b \in Calls : Frame(b)
    BY DEF Frame
  <2> QED BY <1>1, <2>1, SameLog, NobodyMoves
<1> QED BY <1>2, <1>3, <1>4 DEF ControlInv

\* A write of the daemon's own: the calls have no part in it.
LEMMA DaemonWrites ==
  ASSUME ControlInv, NEW t \in Tasks, NEW case \in Case,
         NEW by \in {Engine, Learner}, Commit(t, case, by),
         UNCHANGED <<queueVars, callVars, subs>>, judged' \in [Tasks -> Nat],
         log[t] # <<>> =>
           \/ Status(t) \notin Terminal /\ log[t][Rev(t)].notes \subseteq case.notes
           \/ /\ Status(t) \in Terminal /\ log[t][Rev(t)].by # Learner
              /\ by = Learner /\ case.status = Status(t)
  PROVE  ControlInv'
PROOF
<1>1. TypeOK /\ QueueInv /\ HistoryInv /\ CallsInv
  BY DEF ControlInv
<1>2. QueueInv'
  BY <1>1, QueueStutter
<1> DEFINE r == [status |-> case.status, notes |-> case.notes, by |-> by]
<1>3. /\ r \in Revision /\ log' = [log EXCEPT ![t] = Append(@, r)]
      /\ r.status = case.status /\ r.notes = case.notes /\ r.by = by
      /\ LogExtends
  <2>1. by \in Writers
    BY DEF Writers
  <2> QED BY <1>1, <2>1, CommitAppends
<1> HIDE DEF r
<1>4. by \notin Calls
  BY ControlPlaneAssumption
<1>5. HistoryInv'
  <2>1. Begun
    BY DEF Begun, callVars
  <2> QED BY <1>1, <1>3, <1>4, <2>1, HistoryAppend DEF Rev, Status
<1>6. log' \in [Tasks -> Seq(Revision)]
  BY <1>1, <1>3, AppendedLog DEF TypeOK
<1>7. TypeOK'
  BY <1>1, <1>2, <1>6 DEF TypeOK, QueueInv, callVars
<1>8. CallsInv'
  <2>1. \A b \in Calls : Frame(b)
    BY DEF Frame, callVars
  <2> QED BY <1>1, <1>3, <2>1, NobodyMoves DEF queueVars
<1> QED BY <1>2, <1>5, <1>7, <1>8 DEF ControlInv

LEMMA EngineStepStep ==
  ASSUME ControlInv, NEW t \in Tasks, NEW to \in TaskStatus, EngineStep(t, to)
  PROVE  ControlInv'
PROOF
<1>1. TypeOK
  BY DEF ControlInv
<1>2. /\ UNCHANGED <<queueVars, judged, callVars, subs>> /\ log[t] # <<>>
      /\ Status(t) \notin Terminal
  BY DEF EngineStep
<1>3. Stored(t) \in Case /\ Stored(t).notes = log[t][Rev(t)].notes
  BY <1>1, <1>2, StoredCase
<1>4. PICK case : case = [Stored(t) EXCEPT !.status = to]
  OBVIOUS
<1>5. case \in Case /\ case.notes = Stored(t).notes /\ Commit(t, case, Engine)
  BY <1>3, <1>4 DEF EngineStep, Case
<1>6. judged' \in [Tasks -> Nat]
  BY <1>1, <1>2 DEF TypeOK
<1> QED BY <1>2, <1>3, <1>5, <1>6, DaemonWrites

LEMMA EnqueueTaskStep ==
  ASSUME ControlInv, NEW t \in Tasks, EnqueueTask(t)
  PROVE  ControlInv'
PROOF
<1>1. NewCase \in Case
  BY DEF NewCase, Case, TaskStatus
<1>2. /\ log[t] = <<>> /\ Commit(t, NewCase, Engine)
      /\ UNCHANGED <<queueVars, judged, callVars, subs>> /\ judged' \in [Tasks -> Nat]
  BY DEF EnqueueTask, ControlInv, TypeOK
<1> QED BY <1>1, <1>2, DaemonWrites

\* The marker follows the end that was loaded.
LEMMA MarkStep ==
  ASSUME ControlInv, JudgeInv, NEW t \in Tasks, Mark(t)
  PROVE  ControlInv'
PROOF
<1>1. TypeOK /\ QueueInv
  BY DEF ControlInv
<1>2. /\ UNCHANGED <<queueVars, callVars, subs>> /\ judged[t] # 0
      /\ judged' \in [Tasks -> Nat]
  BY <1>1 DEF Mark, TypeOK
<1>3. CASE Rev(t) = judged[t]
  <2>1. /\ Rev(t) \in DOMAIN log[t] /\ log[t][Rev(t)].status \in Terminal
        /\ log[t][Rev(t)].by # Learner
    BY <1>2, <1>3 DEF JudgeInv
  <2>2. log[t] # <<>>
    BY <2>1
  <2>3. Stored(t) \in Case /\ Stored(t).status = Status(t)
        /\ Status(t) = log[t][Rev(t)].status
    BY <1>1, <2>2, StoredCase
  <2>4. PICK case : case = [Stored(t) EXCEPT !.notes = {}]
    OBVIOUS
  <2>5. case \in Case /\ case.status = Status(t) /\ Commit(t, case, Learner)
    BY <1>3, <2>3, <2>4 DEF Mark, Case
  <2> QED BY <1>2, <2>1, <2>3, <2>5, DaemonWrites
<1>4. CASE Rev(t) # judged[t]
  <2>1. log' = log
    BY <1>4 DEF Mark
  <2>2. QueueInv' /\ subs' \in [Subs -> SubState] /\ steady' \in [Calls -> SUBSET Subs]
    BY <1>1, <1>2, QueueStutter DEF TypeOK, callVars
  <2> QED BY <1>2, <2>1, <2>2, ElsewhereStep DEF callVars, queueVars
<1> QED BY <1>3, <1>4

LEMMA AttributeStep ==
  ASSUME ControlInv, NEW t \in Tasks, Attribute(t)
  PROVE  ControlInv'
PROOF
<1>1. TypeOK /\ QueueInv
  BY DEF ControlInv
<1>2. UNCHANGED <<queueVars, log, callVars, subs>> /\ Rev(t) \in Nat
  BY <1>1 DEF Attribute, TypeOK, Rev
<1>3. judged' \in [Tasks -> Nat]
  BY <1>1, <1>2 DEF Attribute, TypeOK
<1>4. QueueInv' /\ subs' \in [Subs -> SubState] /\ steady' \in [Calls -> SUBSET Subs]
  BY <1>1, <1>2, QueueStutter DEF TypeOK, callVars
<1> QED BY <1>2, <1>3, <1>4, ElsewhereStep DEF callVars, queueVars

LEMMA SubsStep ==
  ASSUME ControlInv, NEW s \in Subs, Issue(s) \/ Revoke(s)
  PROVE  ControlInv'
PROOF
<1>1. TypeOK /\ QueueInv /\ judged' \in [Tasks -> Nat]
  BY DEF ControlInv, TypeOK, Issue, Revoke
<1>2. CASE Issue(s)
  <2>1. QueueInv' /\ subs' \in [Subs -> SubState] /\ steady' \in [Calls -> SUBSET Subs]
    BY <1>1, <1>2, QueueStutter DEF Issue, TypeOK, SubState, callVars
  <2> QED BY <1>1, <1>2, <2>1, ElsewhereStep DEF Issue, callVars, queueVars
<1>3. CASE Revoke(s)
  <2>1. QueueInv'
    BY <1>1, <1>3, QueueStutter DEF Revoke
  <2>2. subs' \in [Subs -> SubState] /\ steady' \in [Calls -> SUBSET Subs]
    BY <1>1, <1>3 DEF Revoke, TypeOK, SubState
  <2> QED BY <1>1, <1>3, <2>1, <2>2, ElsewhereStep DEF Revoke, queueVars
<1> QED BY <1>2, <1>3

LEMMA CrashStep ==
  ASSUME ControlInv, Crash
  PROVE  ControlInv'
PROOF
<1> USE DEF Crash
<1>1. TypeOK /\ QueueInv /\ HistoryInv /\ CallsInv
  BY DEF ControlInv
<1>2. QueueInv' /\ status' = status
  BY <1>1, FaultStep DEF LoopCrash
<1>3. \A b \in Calls : pc'[b] = "gone" \/ pc'[b] = pc[b]
  OBVIOUS
<1>4. pc' \in [Calls -> Pcs]
  BY <1>1 DEF TypeOK, Pcs
<1>5. TypeOK'
  BY <1>1, <1>2, <1>4 DEF TypeOK, QueueInv
<1>6. HistoryInv'
  <2>1. Begun
    BY <1>3 DEF Begun
  <2> QED BY <1>1, <2>1, HistoryFrame
<1>7. CallsInv'
  <2>1. \A b \in Calls :
          \/ Frame(b)
          \/ pc'[b] = "gone" /\ UNCHANGED <<seen[b], task[b], expect[b]>>
    BY <1>3 DEF Frame
  <2> QED BY <1>1, <1>2, <2>1, SameLog, NobodyMoves
<1> QED BY <1>2, <1>5, <1>6, <1>7 DEF ControlInv

\* The loop only writes rows that were enqueued.
LEMMA LoopRows ==
  ASSUME QueueInv, Queue
  PROVE  /\ QueueInv'
         /\ \A d \in Deliveries : status'[d] # "none" => status[d] # "none"
PROOF
<1>1. QueueInv'
  BY QueueStep DEF Queue, QueueNext
<1>2. QueueTypeOK /\ LineInv
  BY DEF QueueInv
<1>3. CASE Record
  <2>1. /\ Head(sweep) \in Deliveries /\ status[Head(sweep)] = "pending"
    BY <1>2, <1>3 DEF Record, QueueTypeOK, LineInv, Lined
  <2> QED BY <1>1, <1>2, <1>3, <2>1 DEF Record, QueueTypeOK
<1>4. CASE status' = status
  BY <1>1, <1>4
<1> QED BY <1>3, <1>4 DEF Queue, LoopStep, Sweep, Post, RecordFails, Elapse

LEMMA ControlStep ==
  ASSUME ControlInv, JudgeInv, [Next]_vars
  PROVE  ControlInv'
PROOF
<1>1. ASSUME NEW c \in Calls, CallStep(c) PROVE ControlInv'
  BY <1>1, LookUpTaskStep, RaiseStep, LoadStep, CreateCaseStep, RefetchStep,
     ReviseStep, ReviseFailsStep, TransitionStep, SteerStep, LookUpSubsStep,
     EnqueueOneStep, EmittedStep, LookUpFailsStep, HangUpStep DEF CallStep
<1>2. CASE ApiNext
  BY <1>1, <1>2, EnqueueTaskStep, AttributeStep, MarkStep, EngineStepStep,
     SubsStep, CrashStep DEF ApiNext
<1>3. CASE Queue /\ UNCHANGED <<log, judged, callVars, subs>>
  <2>1. QueueInv /\ subs' \in [Subs -> SubState]
        /\ steady' \in [Calls -> SUBSET Subs] /\ judged' \in [Tasks -> Nat]
    BY <1>3 DEF ControlInv, TypeOK, callVars
  <2> QED BY <1>3, <2>1, LoopRows, ElsewhereStep DEF callVars
<1>4. CASE UNCHANGED vars
  <2>1. QueueInv' /\ subs' \in [Subs -> SubState]
        /\ steady' \in [Calls -> SUBSET Subs] /\ judged' \in [Tasks -> Nat]
    BY <1>4, QueueStutter DEF vars, ControlInv, TypeOK, callVars
  <2> QED BY <1>4, <2>1, ElsewhereStep DEF vars, callVars, queueVars
<1> QED BY <1>2, <1>3, <1>4 DEF Next

----------------------------------------------------------------------------
(* Who attributes what.                                                    *)

LEMMA InitJudge == Init => JudgeInv
PROOF
BY DEF Init, JudgeInv

\* A write that is not the marker, or none.
Unmarked == \A t \in Tasks : log'[t] = log[t] \/ ~Marked(t)'

LEMMA CommitUnmarked ==
  ASSUME TypeOK, NEW t \in Tasks, NEW case \in Case, NEW by \in Writers,
         by # Learner, Commit(t, case, by)
  PROVE  LogExtends /\ Unmarked
PROOF
<1> DEFINE r == [status |-> case.status, notes |-> case.notes, by |-> by]
<1>1. /\ r \in Revision /\ log' = [log EXCEPT ![t] = Append(@, r)]
      /\ r.by = by /\ LogExtends
  BY CommitAppends
<1> HIDE DEF r
<1>2. /\ Len(log[t]) \in Nat /\ DOMAIN log'[t] = 1 .. Len(log[t]) + 1
      /\ log'[t] \in Seq(Revision) /\ log'[t][Len(log[t]) + 1] = r
      /\ \A u \in Tasks : u # t => log'[u] = log[u]
  BY <1>1, AppendedLog DEF TypeOK
<1>3. Len(log'[t]) = Len(log[t]) + 1
  BY <1>2
<1>4. ~Marked(t)'
  BY <1>1, <1>2, <1>3 DEF Marked, Rev
<1> QED BY <1>1, <1>2, <1>4 DEF Unmarked

LEMMA JudgeFrame ==
  ASSUME TypeOK, JudgeInv, LogExtends, Unmarked, judged' = judged,
         \A b \in Calls : pc'[b] = "raised" =>
           pc[b] = "raised" /\ UNCHANGED <<verb[b], task[b]>>
  PROVE  JudgeInv'
PROOF
<1>1. ASSUME NEW t \in Tasks, judged[t] # 0
      PROVE  /\ judged[t] \in DOMAIN log'[t]
             /\ log'[t][judged[t]].status \in Terminal
             /\ log'[t][judged[t]].by # Learner
  BY <1>1 DEF JudgeInv, LogExtends
<1>2. ASSUME NEW b \in Calls, pc'[b] = "raised"
      PROVE  /\ verb'[b] = "record" /\ judged[task'[b]] = 0
             /\ log'[task'[b]] # <<>> /\ ~Marked(task[b])'
  <2>1. /\ task[b] \in Tasks /\ task'[b] = task[b] /\ verb'[b] = verb[b]
        /\ pc[b] = "raised"
    BY <1>2 DEF TypeOK
  <2> PICK t \in Tasks : t = task[b]
    BY <2>1
  <2>2. log[t] # <<>> /\ ~Marked(t) /\ log[t] \in Seq(Revision)
    BY <2>1 DEF JudgeInv, TypeOK
  <2>3. log'[t] # <<>>
    <3>1. 1 \in DOMAIN log[t]
      BY <2>2
    <3> QED BY <3>1 DEF LogExtends
  <2>4. ~Marked(t)'
    BY <2>2 DEF Unmarked, Marked, Rev
  <2> QED BY <2>1, <2>3, <2>4 DEF JudgeInv
<1> QED BY <1>1, <1>2 DEF JudgeInv, Marked, Rev

LEMMA SameUnmarked == log' = log => LogExtends /\ Unmarked
PROOF
BY SameLog DEF Unmarked

LEMMA CallWrites ==
  ASSUME ControlInv, NEW c \in Calls, CallStep(c)
  PROVE  LogExtends /\ Unmarked /\ judged' = judged
PROOF
<1>1. TypeOK /\ task[c] \in Tasks
  BY DEF ControlInv, TypeOK
<1>2. c \in Writers /\ c # Learner
  BY ControlPlaneAssumption DEF Writers
<1>3. judged' = judged
  BY DEF CallStep, LookUpTask, Raise, Load, CreateCase, Refetch, Revise, ReviseFails,
         Transition, Steer, LookUpSubs, EnqueueOne, Emitted, LookUpFails, HangUp
<1>4. CASE log' = log
  BY <1>3, <1>4, SameUnmarked
<1>5. CASE log' # log
  <2>1. CreateCase(c) \/ Transition(c) \/ Steer(c)
    BY <1>5 DEF CallStep, LookUpTask, Raise, Load, Refetch, Revise, ReviseFails,
                LookUpSubs, EnqueueOne, Emitted, LookUpFails, HangUp
  <2>2. CASE CreateCase(c)
    <3>1. Commit(task[c], NewCase, c) /\ NewCase \in Case
      BY <1>5, <2>2 DEF CreateCase, NewCase, Case, TaskStatus
    <3> QED BY <1>1, <1>2, <1>3, <3>1, CommitUnmarked
  <2>3. CASE Transition(c)
    <3>1. expect[c] \in DOMAIN log[task[c]]
      BY <2>3 DEF ControlInv, CallsInv, Knows, Loaded, Transition
    <3>2. log[task[c]] # <<>>
      BY <3>1
    <3>3. Stored(task[c]) \in Case
      BY <1>1, <3>2, StoredCase
    <3>4. PICK case : case = [Stored(task[c]) EXCEPT !.status = Target(verb[c])]
      OBVIOUS
    <3>5. case \in Case
      BY <3>3, <3>4 DEF Case, Target, TaskStatus
    <3>6. Commit(task[c], case, c)
      BY <1>5, <2>3, <3>4 DEF Transition
    <3> QED BY <1>1, <1>2, <1>3, <3>5, <3>6, CommitUnmarked
  <2>4. CASE Steer(c)
    <3>1. PICK case : case = [copy[c] EXCEPT !.notes = @ \cup {c}]
      OBVIOUS
    <3>2. copy[c] \in Case
      BY <1>1 DEF TypeOK
    <3>3. case \in Case
      BY <3>1, <3>2 DEF Case
    <3>4. Commit(task[c], case, c)
      BY <1>5, <2>4, <3>1 DEF Steer
    <3> QED BY <1>1, <1>2, <1>3, <3>3, <3>4, CommitUnmarked
  <2> QED BY <2>1, <2>2, <2>3, <2>4
<1> QED BY <1>4, <1>5

LEMMA CallJudge ==
  ASSUME ControlInv, JudgeInv, NEW c \in Calls, CallStep(c)
  PROVE  JudgeInv'
PROOF
<1> USE DEF Goto, Answer
<1>1. TypeOK /\ LogExtends /\ Unmarked /\ judged' = judged
  BY CallWrites DEF ControlInv
<1>2. ASSUME NEW t \in Tasks, NEW type \in EngineEvents, Raise(c, t, type)
      PROVE  JudgeInv'
  <2>1. /\ log' = log /\ judged[t] = 0 /\ ~Marked(t) /\ log[t] # <<>>
        /\ verb'[c] = "record" /\ task'[c] = t
    BY <1>1, <1>2 DEF Raise, TypeOK, EngineEvents, Rev
  <2>2. \A b \in Calls : b # c => UNCHANGED <<pc[b], verb[b], task[b]>>
    BY <1>1, <1>2 DEF Raise, TypeOK
  <2> QED BY <1>1, <2>1, <2>2 DEF JudgeInv, Marked, Rev
<1>3. ASSUME \A b \in Calls : pc'[b] = "raised" =>
               pc[b] = "raised" /\ UNCHANGED <<verb[b], task[b]>>
      PROVE  JudgeInv'
  BY <1>1, <1>3, JudgeFrame
<1> HIDE DEF Goto, Answer
<1>4. CASE \E t \in Tasks :
             \/ LookUpTask(c, t)
             \/ \E v \in Verbs, exp \in 1 .. Rev(t) : Load(c, v, t, exp)
  BY <1>1, <1>3, <1>4 DEF LookUpTask, Load, Goto, Answer, TypeOK
<1>5. CASE CreateCase(c) \/ Refetch(c) \/ Revise(c) \/ ReviseFails(c)
  BY <1>1, <1>3, <1>5 DEF CreateCase, Refetch, Revise, ReviseFails, Goto, TypeOK
<1>6. CASE Transition(c) \/ Steer(c)
  BY <1>1, <1>3, <1>6 DEF Transition, Steer, Goto, Answer, TypeOK
<1>7. CASE LookUpSubs(c) \/ LookUpFails(c) \/ HangUp(c)
  BY <1>1, <1>3, <1>7 DEF LookUpSubs, LookUpFails, HangUp, Goto, TypeOK
<1>8. CASE (\E s \in Subs : EnqueueOne(c, s)) \/ Emitted(c)
  BY <1>1, <1>3, <1>8 DEF EnqueueOne, Emitted, Goto, Answer, TypeOK
<1> QED BY <1>2, <1>4, <1>5, <1>6, <1>7, <1>8 DEF CallStep

LEMMA DaemonJudge ==
  ASSUME ControlInv, JudgeInv, NEW t \in Tasks,
         \/ EnqueueTask(t)
         \/ \E to \in TaskStatus : EngineStep(t, to)
  PROVE  LogExtends /\ JudgeInv'
PROOF
<1>1. TypeOK /\ Engine \in Writers /\ Engine # Learner
  BY ControlPlaneAssumption DEF ControlInv, Writers
<1>2. UNCHANGED <<judged, callVars>>
  BY DEF EnqueueTask, EngineStep
<1>3. LogExtends /\ Unmarked
  <2>1. CASE EnqueueTask(t)
    <3>1. Commit(t, NewCase, Engine) /\ NewCase \in Case
      BY <2>1 DEF EnqueueTask, NewCase, Case, TaskStatus
    <3> QED BY <1>1, <3>1, CommitUnmarked
  <2>2. ASSUME NEW to \in TaskStatus, EngineStep(t, to)
        PROVE  LogExtends /\ Unmarked
    <3>1. Stored(t) \in Case
      BY <1>1, <2>2, StoredCase DEF EngineStep
    <3>2. PICK case : case = [Stored(t) EXCEPT !.status = to]
      OBVIOUS
    <3>3. case \in Case
      BY <3>1, <3>2 DEF Case
    <3>4. Commit(t, case, Engine)
      BY <2>2, <3>2 DEF EngineStep
    <3> QED BY <1>1, <3>3, <3>4, CommitUnmarked
  <2> QED BY <2>1, <2>2
<1> QED BY <1>1, <1>2, <1>3, JudgeFrame DEF callVars

LEMMA AttributeJudge ==
  ASSUME ControlInv, JudgeInv, NEW t \in Tasks, Attribute(t)
  PROVE  JudgeInv'
PROOF
<1>1. TypeOK /\ UNCHANGED <<log, pc, verb, task>> /\ log[t] # <<>>
  BY DEF ControlInv, Attribute, callVars
<1>2. /\ judged' = [judged EXCEPT ![t] = Rev(t)] /\ judged \in [Tasks -> Nat]
      /\ Status(t) \in Terminal /\ ~Marked(t) /\ ~BeingRecorded(t)
  BY <1>1 DEF Attribute, TypeOK
<1>3. Rev(t) \in DOMAIN log[t] /\ Status(t) = log[t][Rev(t)].status
  BY <1>1, StoredCase
<1>4. ASSUME NEW c \in Calls, pc[c] = "raised" PROVE task[c] # t
  BY <1>2, <1>4 DEF BeingRecorded, JudgeInv
<1>5. Rev(t)' = Rev(t) /\ \A u \in Tasks : Marked(u)' = Marked(u)
  BY <1>1 DEF Marked, Rev
<1>6. \A c \in Calls : task[c] \in Tasks
  BY <1>1 DEF TypeOK
<1> QED BY <1>1, <1>2, <1>3, <1>4, <1>5, <1>6 DEF JudgeInv, Marked

LEMMA MarkJudge ==
  ASSUME ControlInv, JudgeInv, NEW t \in Tasks, Mark(t)
  PROVE  LogExtends /\ JudgeInv'
PROOF
<1>1. TypeOK /\ UNCHANGED <<pc, verb, task>> /\ judged[t] # 0
  BY DEF ControlInv, Mark, callVars
<1>2. judged' = [judged EXCEPT ![t] = 0] /\ judged \in [Tasks -> Nat]
  BY <1>1 DEF Mark, TypeOK
<1>3. LogExtends /\ \A u \in Tasks : u # t => log'[u] = log[u]
  <2>1. CASE log' = log
    BY <2>1, SameLog
  <2>2. CASE log' # log
    <3>1. PICK case : case = [Stored(t) EXCEPT !.notes = {}]
      OBVIOUS
    <3>2. Commit(t, case, Learner) /\ Rev(t) = judged[t]
      BY <2>2, <3>1 DEF Mark
    <3>3. Rev(t) \in DOMAIN log[t]
      BY <1>1, <3>2 DEF JudgeInv
    <3>4. log[t] # <<>>
      BY <3>3
    <3>5. Stored(t) \in Case
      BY <1>1, <3>4, StoredCase
    <3>6. case \in Case /\ Learner \in Writers
      BY <3>1, <3>5 DEF Case, Writers
    <3>7. LogExtends
      BY <1>1, <3>2, <3>6, CommitAppends
    <3> QED BY <1>1, <3>2, <3>7 DEF Commit, TypeOK
  <2> QED BY <2>1, <2>2
<1>4. ASSUME NEW c \in Calls, pc[c] = "raised"
      PROVE  /\ task[c] \in Tasks /\ log'[task[c]] = log[task[c]]
             /\ judged'[task[c]] = 0
  <2>1. task[c] \in Tasks /\ task[c] # t
    BY <1>1, <1>4 DEF TypeOK, JudgeInv
  <2> QED BY <1>2, <1>3, <1>4, <2>1 DEF JudgeInv
<1>5. ASSUME NEW u \in Tasks, judged'[u] # 0
      PROVE  judged'[u] = judged[u] /\ log'[u] = log[u]
  BY <1>2, <1>3, <1>5
<1> QED BY <1>1, <1>3, <1>4, <1>5 DEF JudgeInv, Marked, Rev

LEMMA JudgeStep ==
  ASSUME ControlInv, JudgeInv, [Next]_vars
  PROVE  JudgeInv'
PROOF
<1>1. TypeOK
  BY DEF ControlInv
<1>2. ASSUME log' = log, UNCHANGED <<judged, pc, verb, task>> PROVE JudgeInv'
  BY <1>1, <1>2, SameUnmarked, JudgeFrame
<1>3. ASSUME NEW s \in Subs, Issue(s) \/ Revoke(s) PROVE JudgeInv'
  BY <1>2, <1>3 DEF Issue, Revoke, callVars
<1>4. CASE Crash
  <2>1. \A b \in Calls : pc'[b] # "raised"
    BY <1>4 DEF Crash, InProgress
  <2>2. \A t \in Tasks : judged'[t] = 0
    BY <1>4 DEF Crash
  <2> QED BY <2>1, <2>2 DEF JudgeInv
<1>5. CASE ApiNext
  BY <1>3, <1>4, <1>5, CallJudge, DaemonJudge, AttributeJudge, MarkJudge DEF ApiNext
<1>6. CASE UNCHANGED <<log, judged, callVars, subs>>
  BY <1>2, <1>6 DEF callVars
<1> QED BY <1>5, <1>6 DEF Next, vars

----------------------------------------------------------------------------
(* What a reply promises.                                                  *)

Changes == {"pause", "resume", "cancel"}

Queued(c, type, s) == status[[call |-> c, type |-> type, sub |-> s]] # "none"

\* Every subscription that was active all along has its delivery.
Told(c, type) == \A s \in steady[c] : type \in Wants[s] => Queued(c, type, s)

\* The types a call's change is to be announced with.
Owed(c) ==
  IF verb[c] = "create" THEN {"task.created"}
  ELSE IF verb[c] \notin Changes THEN {}
  ELSE IF seen[c].status \in Terminal
       THEN {"task.status_changed", "task.terminal"} ELSE {"task.status_changed"}

\* What its place says of a call's verb and reply, and of the revision made.
Way(c) ==
  /\ pc[c] \in {"missed", "created"} => verb[c] = "create"
  /\ pc[c] = "raised" => verb[c] = "record"
  /\ pc[c] = "loaded" => verb[c] \in Changes \cup {"steer"}
  /\ pc[c] \in {"lookup", "enqueue"} => verb[c] # "steer"
  /\ reply[c] # "none" => pc[c] = "done"
  /\ reply[c] = "created" => verb[c] = "create"
  /\ reply[c] = "ok" => verb[c] \in Changes \cup {"steer"}
  /\ (pc[c] \in {"lookup", "enqueue"} /\ verb[c] \in Changes) \/ reply[c] = "ok" =>
       /\ expect[c] + 1 \in DOMAIN log[task[c]]
       /\ verb[c] \in Changes => log[task[c]][expect[c] + 1].status = seen[c].status
       /\ verb[c] = "steer" => log[task[c]][expect[c] + 1].status \notin Terminal

\* A type that is owed is told, or is still among the events to emit; of the
\* event being emitted the subscriptions left are the targets.
Promise(c) ==
  /\ steady[c] \subseteq Active
  /\ c \notin Console /\ faults = 0 =>
       /\ pc[c] \in {"lookup", "enqueue"} =>
            \A type \in Owed(c) :
              Told(c, type) \/ \E k \in DOMAIN events[c] : events[c][k] = type
       /\ pc[c] = "enqueue" =>
            \A s \in steady[c] : Head(events[c]) \in Wants[s] =>
              s \in targets[c] \/ Queued(c, Head(events[c]), s)
       /\ reply[c] \in {"created", "ok"} => \A type \in Owed(c) : Told(c, type)

PromiseInv == \A c \in Calls : Way(c) /\ Promise(c)

LEMMA InitPromise == Init => PromiseInv
PROOF
BY DEF Init, PromiseInv, Way, Promise

LEMMA PromiseKept == PromiseInv => RepliedMeansQueued
PROOF
<1> SUFFICES ASSUME PromiseInv, NEW c \in Calls \ Console, NEW s \in Subs, NEW type \in Types,
                    faults = 0, s \in steady[c], type \in Wants[s],
                    \/ reply[c] = "created" /\ type = "task.created"
                    \/ /\ reply[c] = "ok" /\ verb[c] # "steer"
                       /\ type = "task.status_changed"
                    \/ /\ reply[c] = "ok"
                       /\ log[task[c]][expect[c] + 1].status \in Terminal
                       /\ type = "task.terminal"
             PROVE  Queued(c, type, s)
  BY DEF RepliedMeansQueued, Queued
<1>1. Way(c) /\ Promise(c)
  BY DEF PromiseInv
<1>2. type \in Owed(c)
  BY <1>1 DEF Way, Owed, Changes
<1> QED BY <1>1, <1>2 DEF Promise, Told

\* Rows stay in the queue, and a fault is not undone.
QueueGrows ==
  /\ \A d \in Deliveries : status[d] # "none" => status'[d] # "none"
  /\ faults' = 0 => faults = 0

LEMMA QueueSteps ==
  ASSUME QueueInv, QueueNext \/ UNCHANGED queueVars
  PROVE  QueueGrows
PROOF
<1>1. QueueTypeOK /\ faults \in Nat
  BY DEF QueueInv, QueueTypeOK
<1>2. faults' = 0 => faults = 0
  BY <1>1 DEF QueueNext, Enqueue, Elapse, LoopStep, Sweep, Post, Record, RecordFails,
     LoopCrash, queueVars
<1>3. ASSUME NEW d \in Deliveries, Enqueue(d) PROVE QueueGrows
  BY <1>1, <1>2, <1>3 DEF QueueGrows, Enqueue, QueueTypeOK
<1>4. CASE Record
  <2>1. Recorded(Head(sweep)) # "none"
    BY DEF Recorded
  <2>2. status' = [status EXCEPT ![Head(sweep)] = Recorded(Head(sweep))]
    BY <1>4 DEF Record
  <2> QED BY <1>1, <1>2, <2>1, <2>2 DEF QueueGrows, QueueTypeOK
<1>5. CASE status' = status
  BY <1>2, <1>5 DEF QueueGrows
<1> QED BY <1>3, <1>4, <1>5
        DEF QueueNext, Elapse, LoopStep, Sweep, Post, RecordFails, LoopCrash, queueVars

LEMMA QueuedStays ==
  ASSUME QueueGrows, NEW c \in Calls, NEW type \in Types, NEW s \in Subs,
         Queued(c, type, s)
  PROVE  Queued(c, type, s)'
PROOF
<1>1. [call |-> c, type |-> type, sub |-> s] \in Deliveries
  BY ControlPlaneAssumption
<1> QED BY <1>1 DEF QueueGrows, Queued

LEMMA OwedTypes == ASSUME NEW c PROVE Owed(c) \subseteq Types
PROOF
BY DEF Owed, Types

LEMMA ToldStays ==
  ASSUME TypeOK, QueueGrows, NEW c \in Calls, NEW type \in Types, Told(c, type),
         steady'[c] \subseteq steady[c]
  PROVE  Told(c, type)'
PROOF
<1>1. steady[c] \subseteq Subs
  BY DEF TypeOK
<1> QED BY <1>1, QueuedStays DEF Told

\* A call that does nothing keeps its promise.
Rests(b) ==
  UNCHANGED <<pc[b], verb[b], task[b], expect[b], seen[b], events[b], targets[b], reply[b]>>

LEMMA WayStays ==
  ASSUME TypeOK, NEW b \in Calls, Way(b), LogExtends,
         UNCHANGED <<verb[b], task[b], expect[b], seen[b], reply[b]>>,
         pc'[b] = pc[b] \/ (pc'[b] = "gone" /\ reply[b] = "none")
  PROVE  Way(b)'
PROOF
<1>1. task[b] \in Tasks
  BY DEF TypeOK
<1>2. /\ expect[b] + 1 \in DOMAIN log[task[b]] => expect[b] + 1 \in DOMAIN log'[task[b]]
      /\ expect[b] + 1 \in DOMAIN log[task[b]] =>
           log'[task[b]][expect[b] + 1] = log[task[b]][expect[b] + 1]
  BY <1>1 DEF LogExtends
<1> QED BY <1>2 DEF Way

LEMMA PromiseStays ==
  ASSUME ControlInv, NEW b \in Calls, Way(b), Promise(b), LogExtends, QueueGrows, Rests(b),
         steady'[b] \subseteq steady[b], steady'[b] \subseteq Active'
  PROVE  Way(b)' /\ Promise(b)'
PROOF
<1>1. TypeOK /\ steady[b] \subseteq Subs
  BY DEF ControlInv, TypeOK
<1>2. Way(b)'
  BY <1>1, WayStays DEF Rests
<1>3. Owed(b)' = Owed(b) /\ Owed(b) \subseteq Types
  BY OwedTypes DEF Owed, Rests
<1>4. \A type \in Owed(b) : Told(b, type) => Told(b, type)'
  BY <1>1, <1>3, ToldStays
<1>5. ASSUME pc[b] = "enqueue" PROVE Head(events[b]) \in Types
  <2>1. events[b] # <<>> /\ events[b] \in Seq(Types)
    BY <1>1, <1>5 DEF ControlInv, CallsInv, Knows, Emits, TypeOK
  <2> QED BY <2>1
<1>6. ASSUME NEW type \in Types, NEW s \in steady[b], Queued(b, type, s)
      PROVE  Queued(b, type, s)'
  BY <1>1, <1>6, QueuedStays
<1>7. Promise(b)'
  <2> SUFFICES ASSUME b \notin Console, faults' = 0
               PROVE  /\ pc[b] \in {"lookup", "enqueue"} =>
                           \A type \in Owed(b) :
                             \/ Told(b, type)'
                             \/ \E k \in DOMAIN events[b] : events[b][k] = type
                      /\ pc[b] = "enqueue" =>
                           \A type \in Types, s \in steady'[b] :
                             type = Head(events[b]) /\ type \in Wants[s] =>
                               s \in targets[b] \/ Queued(b, type, s)'
                      /\ reply[b] \in {"created", "ok"} =>
                           \A type \in Owed(b) : Told(b, type)'
    <3>1. ASSUME pc[b] = "enqueue",
                 \A type \in Types, s \in steady'[b] :
                   type = Head(events[b]) /\ type \in Wants[s] =>
                     s \in targets[b] \/ Queued(b, type, s)'
          PROVE  \A s \in steady'[b] : Head(events'[b]) \in Wants[s] =>
                   s \in targets'[b] \/ Queued(b, Head(events[b]), s)'
      <4>1. PICK type \in Types : type = Head(events[b])
        BY <1>5, <3>1
      <4>2. Head(events'[b]) = type /\ targets'[b] = targets[b]
        BY <4>1 DEF Rests
      <4> QED BY <3>1, <4>1, <4>2
    <3> QED BY <1>3, <3>1 DEF Promise, Rests
  <2>1. faults = 0
    BY DEF QueueGrows
  <2> QED BY <1>4, <1>6, <2>1 DEF Promise
<1> QED BY <1>2, <1>7

\* A step of one call: the others rest.
LEMMA OneCall ==
  ASSUME ControlInv, PromiseInv, NEW c \in Calls, LogExtends, QueueGrows, subs' = subs,
         \A b \in Calls : b # c => Rests(b) /\ steady'[b] = steady[b],
         Way(c)', Promise(c)'
  PROVE  PromiseInv'
PROOF
<1>1. Active' = Active
  BY DEF Active
<1>2. ASSUME NEW b \in Calls, b # c PROVE Way(b)' /\ Promise(b)'
  <2>1. Way(b) /\ Promise(b)
    BY DEF PromiseInv
  <2>2. Rests(b) /\ steady'[b] = steady[b]
    BY <1>2
  <2>3. steady'[b] \subseteq steady[b] /\ steady'[b] \subseteq Active'
    BY <1>1, <2>1, <2>2 DEF Promise
  <2> QED BY <2>1, <2>2, <2>3, PromiseStays
<1> QED BY <1>2 DEF PromiseInv

LEMMA CallFrame ==
  ASSUME ControlInv, NEW c \in Calls, CallStep(c)
  PROVE  /\ \A b \in Calls : b # c => Rests(b) /\ steady'[b] = steady[b]
         /\ subs' = subs /\ QueueGrows
PROOF
<1> USE DEF Goto, Answer, Rests
<1>1. TypeOK /\ QueueInv
  BY DEF ControlInv
<1>2. /\ \A b \in Calls : b # c => Rests(b) /\ steady'[b] = steady[b]
      /\ subs' = subs
  <2> USE <1>1 DEF TypeOK
  <2>1. CASE \E t \in Tasks :
               \/ LookUpTask(c, t)
               \/ \E type \in EngineEvents : Raise(c, t, type)
               \/ \E v \in Verbs, exp \in 1 .. Rev(t) : Load(c, v, t, exp)
    BY <2>1 DEF LookUpTask, Raise, Load
  <2>2. CASE CreateCase(c) \/ Refetch(c) \/ Revise(c) \/ ReviseFails(c)
    BY <2>2 DEF CreateCase, Refetch, Revise, ReviseFails
  <2>3. CASE Transition(c) \/ Steer(c)
    BY <2>3 DEF Transition, Steer
  <2>4. CASE LookUpSubs(c) \/ LookUpFails(c) \/ HangUp(c)
    BY <2>4 DEF LookUpSubs, LookUpFails, HangUp
  <2>5. CASE (\E s \in Subs : EnqueueOne(c, s)) \/ Emitted(c)
    BY <2>5 DEF EnqueueOne, Emitted
  <2> QED BY <2>1, <2>2, <2>3, <2>4, <2>5 DEF CallStep
<1>3. QueueGrows
  <2>1. ASSUME faults' = faults + 1, status' = status PROVE QueueGrows
    BY <1>1, <2>1 DEF QueueInv, QueueTypeOK, QueueGrows
  <2>2. CASE ReviseFails(c) \/ LookUpFails(c)
    BY <2>1, <2>2 DEF ReviseFails, LookUpFails
  <2>3. ASSUME NEW s \in Subs, EnqueueOne(c, s) PROVE QueueGrows
    <3>1. Head(events[c]) \in Types
      BY <1>1, <2>3 DEF EnqueueOne, ControlInv, CallsInv, Knows, Emits, TypeOK
    <3>2. [call |-> c, type |-> Head(events[c]), sub |-> s] \in Deliveries
      BY <3>1, ControlPlaneAssumption
    <3> QED BY <1>1, <2>1, <2>3, <3>2, QueueSteps DEF EnqueueOne, QueueNext
  <2>4. CASE UNCHANGED queueVars
    BY <1>1, <2>4, QueueSteps
  <2> QED BY <2>2, <2>3, <2>4
          DEF CallStep, LookUpTask, Raise, Load, CreateCase, Refetch, Revise, Transition,
              Steer, LookUpSubs, Emitted, HangUp
<1> QED BY <1>2, <1>3

\* The calls that have nothing to tell yet, or never will.
LEMMA NothingOwed ==
  ASSUME NEW c, pc'[c] \notin {"lookup", "enqueue"}, reply'[c] \notin {"created", "ok"},
         steady'[c] \subseteq Active'
  PROVE  Promise(c)'
PROOF
BY DEF Promise

LEMMA BeginPromise ==
  ASSUME ControlInv, PromiseInv, NEW c \in Calls, NEW t \in Tasks,
         \/ LookUpTask(c, t)
         \/ \E type \in EngineEvents : Raise(c, t, type)
         \/ \E v \in Verbs, exp \in 1 .. Rev(t) : Load(c, v, t, exp)
  PROVE  PromiseInv'
PROOF
<1> USE DEF Goto, Answer
<1>1. TypeOK /\ Way(c) /\ Promise(c) /\ Active' = Active /\ LogExtends
  BY SameLog DEF ControlInv, PromiseInv, Active, LookUpTask, Raise, Load
<1>2. pc[c] = "idle" /\ reply[c] = "none"
  BY <1>1 DEF Way, LookUpTask, Raise, Load
<1>3. \/ pc'[c] = "missed" /\ reply'[c] = "none" /\ verb'[c] = "create"
      \/ pc'[c] = "raised" /\ reply'[c] = "none" /\ verb'[c] = "record"
      \/ pc'[c] = "loaded" /\ reply'[c] = "none" /\ verb'[c] \in Changes \cup {"steer"}
      \/ pc'[c] = "done" /\ reply'[c] \in {"replayed", "refused"}
  <2>1. CASE LookUpTask(c, t)
    BY <1>1, <1>2, <2>1 DEF LookUpTask, TypeOK
  <2>2. ASSUME NEW type \in EngineEvents, Raise(c, t, type)
        PROVE  pc'[c] = "raised" /\ reply'[c] = "none" /\ verb'[c] = "record"
    BY <1>1, <1>2, <2>2 DEF Raise, TypeOK
  <2>3. ASSUME NEW v \in Verbs, NEW exp \in 1 .. Rev(t), Load(c, v, t, exp)
        PROVE  \/ /\ pc'[c] = "loaded" /\ reply'[c] = "none"
                  /\ verb'[c] \in Changes \cup {"steer"}
               \/ pc'[c] = "done" /\ reply'[c] = "refused"
    BY <1>1, <1>2, <2>3 DEF Load, TypeOK, Verbs, Changes
  <2> QED BY <2>1, <2>2, <2>3
<1>4. steady'[c] \subseteq Active'
  BY <1>1 DEF LookUpTask, Raise, Load, TypeOK, Promise
<1>5. Way(c)'
  BY <1>3 DEF Way, Changes
<1>6. Promise(c)'
  BY <1>3, <1>4, NothingOwed
<1>7. CallStep(c)
  BY DEF CallStep
<1> QED BY <1>1, <1>5, <1>6, <1>7, CallFrame, OneCall

LEMMA PassPromise ==
  ASSUME ControlInv, PromiseInv, NEW c \in Calls, LogExtends,
         CreateCase(c) \/ ReviseFails(c) \/ HangUp(c)
  PROVE  PromiseInv'
PROOF
<1> USE DEF Goto
<1>1. TypeOK /\ Way(c) /\ Promise(c) /\ Active' = Active
  BY DEF ControlInv, PromiseInv, Active, CreateCase, ReviseFails, HangUp
<1>2. /\ UNCHANGED <<verb[c], reply[c], steady[c]>> /\ reply[c] = "none"
      /\ pc'[c] = "gone" \/ (pc'[c] = "created" /\ pc[c] = "missed")
  BY <1>1 DEF Way, CreateCase, ReviseFails, HangUp, TypeOK
<1>3. Way(c)'
  BY <1>1, <1>2 DEF Way
<1>4. Promise(c)'
  BY <1>1, <1>2, NothingOwed DEF Promise
<1>5. CallStep(c)
  BY DEF CallStep
<1> QED BY <1>3, <1>4, <1>5, CallFrame, OneCall

LEMMA ReadPromise ==
  ASSUME ControlInv, PromiseInv, NEW c \in Calls, Refetch(c) \/ Revise(c)
  PROVE  PromiseInv'
PROOF
<1> USE DEF Goto
<1>1. TypeOK /\ Way(c) /\ Promise(c) /\ Active' = Active /\ LogExtends
  BY SameLog DEF ControlInv, PromiseInv, Active, Refetch, Revise
<1>2. /\ UNCHANGED <<verb[c], reply[c], steady[c]>> /\ reply[c] = "none"
      /\ pc'[c] = "lookup"
      /\ \/ verb[c] = "create" /\ events'[c] = <<"task.created">>
         \/ verb[c] = "record"
  BY <1>1 DEF Way, Refetch, Revise, TypeOK
<1>3. Way(c)'
  BY <1>2 DEF Way, Changes
<1>4. \A type \in Owed(c)' : \E k \in DOMAIN events'[c] : events'[c][k] = type
  BY <1>2 DEF Owed, Changes
<1>5. Promise(c)'
  BY <1>1, <1>2, <1>4 DEF Promise
<1>6. CallStep(c)
  BY DEF CallStep
<1> QED BY <1>1, <1>3, <1>5, <1>6, CallFrame, OneCall

\* The write of a transition, and what it announces.
LEMMA TransitionPromise ==
  ASSUME ControlInv, PromiseInv, NEW c \in Calls, Transition(c)
  PROVE  PromiseInv'
PROOF
<1> USE DEF Goto, Answer
<1>1. /\ TypeOK /\ Way(c) /\ Promise(c) /\ Active' = Active
      /\ pc[c] = "loaded" /\ verb[c] \in Changes /\ reply[c] = "none"
      /\ UNCHANGED <<verb, task, expect, steady>>
      /\ steady'[c] \subseteq Active'
  BY DEF ControlInv, PromiseInv, Active, Transition, Way, Promise
<1>2. CallStep(c)
  BY DEF CallStep
<1> PICK t \in Tasks : t = task[c]
  BY <1>1 DEF TypeOK
<1> PICK to : to = Target(verb[c])
  OBVIOUS
<1>3. CASE RevisionGuard(c) /\ CanTransition(Status(t), to)
  <2>1. /\ expect[c] \in DOMAIN log[t] /\ log[t] # <<>>
    BY <1>1 DEF ControlInv, CallsInv, Knows, Loaded, TypeOK
  <2>2. Stored(t) \in Case /\ Rev(t) \in Nat /\ Rev(t) = expect[c]
    BY <1>1, <1>3, <2>1, StoredCase DEF RevisionGuard
  <2>a. PICK case : case = [Stored(t) EXCEPT !.status = to]
    OBVIOUS
  <2>3. to \in TaskStatus /\ case \in Case /\ case.status = to
    BY <2>2, <2>a DEF Case, Target, TaskStatus
  <2>4. /\ Commit(t, case, c)
        /\ seen' = [seen EXCEPT ![c] = [rev |-> NewRevision(c), status |-> to]]
        /\ events' = [events EXCEPT ![c] = EventsOf(c, to)]
        /\ IF EventsOf(c, to) = <<>>
           THEN Answer(c, "ok") ELSE Goto(c, "lookup") /\ UNCHANGED reply
    BY <1>3, <2>a DEF Transition
  <2> DEFINE r == [status |-> case.status, notes |-> case.notes, by |-> c]
  <2>5. /\ r \in Revision /\ log' = [log EXCEPT ![t] = Append(@, r)]
        /\ r.status = case.status /\ r.notes = case.notes /\ r.by = c /\ LogExtends
    <3>1. c \in Writers /\ case \in Case
      BY <2>3 DEF Writers
    <3>2. TypeOK /\ Commit(t, case, c)
      BY <1>1, <2>4
    <3> QED BY <3>1, <3>2, CommitAppends
  <2> HIDE DEF r
  <2>6. /\ expect[c] + 1 \in DOMAIN log'[t] /\ log'[t][expect[c] + 1] = r
    <3>1. /\ DOMAIN log'[t] = 1 .. Len(log[t]) + 1 /\ log'[t][Len(log[t]) + 1] = r
          /\ Len(log[t]) \in Nat
      BY <1>1, <2>5, AppendedLog DEF TypeOK
    <3> QED BY <2>2, <3>1 DEF Rev
  <2>7. /\ seen'[c].status = to /\ events'[c] = EventsOf(c, to)
        /\ \/ EventsOf(c, to) = <<>> /\ pc'[c] = "done" /\ reply'[c] = "ok"
           \/ EventsOf(c, to) # <<>> /\ pc'[c] = "lookup" /\ reply'[c] = "none"
    BY <1>1, <2>4 DEF TypeOK
  <2>8. Way(c)'
    <3>1. task'[c] = t /\ expect'[c] = expect[c] /\ verb'[c] = verb[c]
      BY <1>1
    <3>2. log'[t][expect[c] + 1].status = to
      BY <2>3, <2>5, <2>6
    <3> QED BY <1>1, <2>6, <2>7, <3>1, <3>2 DEF Way, Changes
  <2>9. Promise(c)'
    <3>1. CASE c \in Console
      BY <1>1, <3>1 DEF Promise
    <3>2. CASE c \notin Console
      <4>1. EventsOf(c, to) = IF to \in Terminal
                              THEN <<"task.status_changed", "task.terminal">>
                              ELSE <<"task.status_changed">>
        BY <3>2 DEF EventsOf
      <4>2. pc'[c] = "lookup" /\ reply'[c] = "none"
        BY <2>7, <4>1
      <4>3. Owed(c)' = IF to \in Terminal THEN {"task.status_changed", "task.terminal"}
                       ELSE {"task.status_changed"}
        BY <1>1, <2>7 DEF Owed, Changes
      <4>4. \A type \in Owed(c)' : \E k \in DOMAIN events'[c] : events'[c][k] = type
        <5>1. CASE to \in Terminal
          <6>1. events'[c] = <<"task.status_changed", "task.terminal">>
            BY <2>7, <4>1, <5>1
          <6>2. /\ 1 \in DOMAIN events'[c] /\ events'[c][1] = "task.status_changed"
                /\ 2 \in DOMAIN events'[c] /\ events'[c][2] = "task.terminal"
            BY <6>1
          <6> QED BY <4>3, <5>1, <6>2
        <5>2. CASE to \notin Terminal
          <6>1. events'[c] = <<"task.status_changed">>
            BY <2>7, <4>1, <5>2
          <6>2. 1 \in DOMAIN events'[c] /\ events'[c][1] = "task.status_changed"
            BY <6>1
          <6> QED BY <4>3, <5>2, <6>2
        <5> QED BY <5>1, <5>2
      <4> QED BY <1>1, <4>2, <4>4 DEF Promise
    <3> QED BY <3>1, <3>2
  <2> QED BY <1>1, <1>2, <2>5, <2>8, <2>9, CallFrame, OneCall DEF Transition
<1>4. CASE ~(RevisionGuard(c) /\ CanTransition(Status(t), to))
  <2>1. pc'[c] = "done" /\ reply'[c] = "conflict" /\ log' = log
    BY <1>1, <1>4 DEF Transition, TypeOK
  <2>2. Way(c)'
    BY <1>1, <2>1 DEF Way
  <2>3. Promise(c)'
    BY <1>1, <2>1, NothingOwed
  <2> QED BY <1>2, <2>1, <2>2, <2>3, SameLog, CallFrame, OneCall
<1> QED BY <1>3, <1>4

LEMMA SteerPromise ==
  ASSUME ControlInv, PromiseInv, NEW c \in Calls, Steer(c)
  PROVE  PromiseInv'
PROOF
<1> USE DEF Goto, Answer
<1>1. /\ TypeOK /\ Way(c) /\ Promise(c) /\ Active' = Active
      /\ pc[c] = "loaded" /\ verb[c] = "steer"
      /\ UNCHANGED <<verb, task, expect, seen, steady>>
      /\ steady'[c] \subseteq Active'
  BY DEF ControlInv, PromiseInv, Active, Steer, Promise
<1>2. CallStep(c)
  BY DEF CallStep
<1> PICK t \in Tasks : t = task[c]
  BY <1>1 DEF TypeOK
<1>3. CASE RevisionGuard(c)
  <2>1. expect[c] \in DOMAIN log[t] /\ copy[c].status \notin Terminal /\ copy[c] \in Case
    BY <1>1 DEF ControlInv, CallsInv, Knows, Loaded, TypeOK
  <2>a. PICK case : case = [copy[c] EXCEPT !.notes = @ \cup {c}]
    OBVIOUS
  <2>2. case \in Case /\ case.status = copy[c].status
    BY <2>1, <2>a DEF Case
  <2>3. Commit(t, case, c) /\ pc'[c] = "done" /\ reply'[c] = "ok"
    BY <1>1, <1>3, <2>a DEF Steer, TypeOK
  <2> DEFINE r == [status |-> case.status, notes |-> case.notes, by |-> c]
  <2>4. /\ r \in Revision /\ log' = [log EXCEPT ![t] = Append(@, r)]
        /\ r.status = case.status /\ r.notes = case.notes /\ r.by = c /\ LogExtends
    <3>1. c \in Writers /\ case \in Case
      BY <2>2 DEF Writers
    <3>2. TypeOK /\ Commit(t, case, c)
      BY <1>1, <2>3
    <3> QED BY <3>1, <3>2, CommitAppends
  <2> HIDE DEF r
  <2>5. expect[c] + 1 \in DOMAIN log'[t] /\ log'[t][expect[c] + 1] = r
    <3>1. /\ DOMAIN log'[t] = 1 .. Len(log[t]) + 1 /\ log'[t][Len(log[t]) + 1] = r
          /\ Len(log[t]) \in Nat
      BY <1>1, <2>4, AppendedLog DEF TypeOK
    <3>2. expect[c] = Len(log[t])
      BY <1>3 DEF RevisionGuard, Rev
    <3> QED BY <3>1, <3>2
  <2>6. Way(c)'
    BY <1>1, <2>1, <2>2, <2>3, <2>4, <2>5 DEF Way, Changes
  <2>7. Owed(c)' = {}
    BY <1>1 DEF Owed, Changes
  <2>8. Promise(c)'
    BY <1>1, <2>3, <2>7 DEF Promise
  <2> QED BY <1>1, <1>2, <2>4, <2>6, <2>8, CallFrame, OneCall DEF Steer
<1>4. CASE ~RevisionGuard(c)
  <2>1. pc'[c] = "done" /\ reply'[c] = "conflict" /\ log' = log
    BY <1>1, <1>4 DEF Steer, TypeOK
  <2>2. Way(c)'
    BY <1>1, <2>1 DEF Way
  <2>3. Promise(c)'
    BY <1>1, <2>1, NothingOwed
  <2> QED BY <1>2, <2>1, <2>2, <2>3, SameLog, CallFrame, OneCall
<1> QED BY <1>3, <1>4

\* While a call emits it keeps its verb, its revision and what it still owes.
LEMMA EmitWay ==
  ASSUME ControlInv, NEW c \in Calls, Way(c), pc[c] \in {"lookup", "enqueue"},
         log' = log, UNCHANGED <<verb, task, expect, seen>>,
         \/ pc'[c] \in {"lookup", "enqueue"} /\ reply'[c] = reply[c]
         \/ pc'[c] = "done" /\ reply'[c] = ReplyOf(verb[c])
  PROVE  Way(c)' /\ Owed(c)' = Owed(c)
PROOF
<1>1. Owed(c)' = Owed(c)
  BY DEF Owed
<1>2. reply[c] = "none" /\ verb[c] # "steer" /\ verb[c] \in Verbs
  BY DEF Way, ControlInv, TypeOK
<1>3. Way(c)'
  BY <1>2 DEF Way, ReplyOf, Changes, Verbs
<1> QED BY <1>1, <1>3

LEMMA LookUpSubsPromise ==
  ASSUME ControlInv, PromiseInv, NEW c \in Calls, LookUpSubs(c) \/ LookUpFails(c)
  PROVE  PromiseInv'
PROOF
<1> USE DEF Goto
<1>1. TypeOK /\ Way(c) /\ Promise(c) /\ Active' = Active /\ faults \in Nat
  BY DEF ControlInv, PromiseInv, Active, LookUpSubs, LookUpFails, TypeOK, QueueTypeOK
<1>2. /\ log' = log /\ UNCHANGED <<verb, task, expect, seen, steady, events, reply>>
      /\ status' = status /\ pc[c] = "lookup" /\ pc'[c] = "enqueue"
  BY <1>1 DEF LookUpSubs, LookUpFails, TypeOK, queueVars
<1>3. Way(c)' /\ Owed(c)' = Owed(c)
  BY <1>1, <1>2, EmitWay
<1>4. faults' = 0 => /\ faults = 0
                     /\ targets'[c] = Matches(Head(events[c]))
  BY <1>1 DEF LookUpSubs, LookUpFails, TypeOK, queueVars
<1>5. \A s \in steady[c] : Head(events[c]) \in Wants[s] => s \in Matches(Head(events[c]))
  BY <1>1 DEF Promise, Matches, Active
<1>6. reply[c] = "none"
  BY <1>1, <1>2 DEF Way
<1>7. ASSUME NEW type PROVE Told(c, type)' = Told(c, type)
  BY <1>2 DEF Told, Queued
<1>8. Promise(c)'
  BY <1>1, <1>2, <1>3, <1>4, <1>5, <1>6, <1>7 DEF Promise
<1>9. CallStep(c)
  BY DEF CallStep
<1> QED BY <1>2, <1>3, <1>8, <1>9, SameLog, CallFrame, OneCall

LEMMA EnqueueOnePromise ==
  ASSUME ControlInv, PromiseInv, NEW c \in Calls, NEW s \in Subs, EnqueueOne(c, s)
  PROVE  PromiseInv'
PROOF
<1>1. /\ TypeOK /\ QueueInv /\ Way(c) /\ Promise(c) /\ Active' = Active /\ faults \in Nat
      /\ steady[c] \subseteq Subs
  BY DEF ControlInv, PromiseInv, Active, EnqueueOne, TypeOK, QueueTypeOK
<1>2. /\ log' = log /\ UNCHANGED <<pc, verb, task, expect, seen, steady, events, reply>>
      /\ pc[c] = "enqueue" /\ reply[c] = "none"
      /\ targets'[c] = targets[c] \ {s}
  BY <1>1 DEF EnqueueOne, TypeOK, Way
<1>3. Way(c)' /\ Owed(c)' = Owed(c)
  BY <1>1, <1>2, EmitWay
<1>4. CallStep(c)
  BY DEF CallStep
<1>5. QueueGrows
  BY <1>4, CallFrame
<1>6. Head(events[c]) \in Types
  <2>1. events[c] \in Seq(Types) /\ events[c] # <<>>
    BY <1>1, <1>2 DEF TypeOK, ControlInv, CallsInv, Knows, Emits
  <2> QED BY <2>1
<1> PICK head \in Types : head = Head(events[c])
  BY <1>6
<1>7. faults' = 0 => faults = 0 /\ Queued(c, head, s)'
  <2> PICK d : d = [call |-> c, type |-> head, sub |-> s]
    OBVIOUS
  <2>1. d \in Deliveries
    BY ControlPlaneAssumption
  <2>2. CASE Enqueue(d)
    <3>1. status'[d] = "pending" /\ faults' = faults
      BY <1>1, <2>1, <2>2 DEF Enqueue, TypeOK, QueueTypeOK
    <3> QED BY <3>1 DEF Queued
  <2>3. CASE faults' = faults + 1
    BY <1>1, <2>3
  <2> QED BY <2>2, <2>3 DEF EnqueueOne
<1>8. ASSUME NEW type \in Types, Told(c, type) PROVE Told(c, type)'
  BY <1>1, <1>2, <1>5, <1>8, ToldStays
<1>9. ASSUME NEW x \in steady[c], Queued(c, head, x) PROVE Queued(c, head, x)'
  BY <1>1, <1>5, <1>9, QueuedStays
<1>10. Owed(c) \subseteq Types
  BY OwedTypes
<1>11. Promise(c)'
  <2>1. steady'[c] \subseteq Active'
    BY <1>1, <1>2 DEF Promise
  <2> SUFFICES ASSUME faults' = 0, c \notin Console
               PROVE  /\ \A type \in Owed(c) :
                           \/ Told(c, type)'
                           \/ \E k \in DOMAIN events[c] : events[c][k] = type
                      /\ \A x \in steady[c] : head \in Wants[x] =>
                           x \in targets[c] \ {s} \/ Queued(c, head, x)'
    BY <1>2, <1>3, <2>1 DEF Promise
  <2>2. faults = 0 /\ Queued(c, head, s)'
    BY <1>7
  <2>3. /\ \A type \in Owed(c) :
             Told(c, type) \/ \E k \in DOMAIN events[c] : events[c][k] = type
        /\ \A x \in steady[c] : head \in Wants[x] => x \in targets[c] \/ Queued(c, head, x)
    BY <1>1, <1>2, <2>2 DEF Promise
  <2> QED BY <1>8, <1>9, <1>10, <2>2, <2>3
<1> QED BY <1>2, <1>3, <1>4, <1>11, SameLog, CallFrame, OneCall

LEMMA EmittedPromise ==
  ASSUME ControlInv, PromiseInv, NEW c \in Calls, Emitted(c)
  PROVE  PromiseInv'
PROOF
<1> USE DEF Goto, Answer
<1>1. TypeOK /\ Way(c) /\ Promise(c) /\ Active' = Active /\ QueueInv
  BY DEF ControlInv, PromiseInv, Active, Emitted
<1>2. /\ log' = log /\ UNCHANGED <<verb, task, expect, seen, steady, queueVars>>
      /\ pc[c] = "enqueue" /\ reply[c] = "none" /\ targets[c] = {}
      /\ events'[c] = Tail(events[c])
      /\ \/ Len(events[c]) > 1 /\ pc'[c] = "lookup" /\ reply'[c] = "none"
         \/ /\ ~(Len(events[c]) > 1)
            /\ pc'[c] = "done" /\ reply'[c] = ReplyOf(verb[c])
  BY <1>1 DEF Emitted, TypeOK, Way
<1>3. Way(c)' /\ Owed(c)' = Owed(c)
  BY <1>1, <1>2, EmitWay
<1>4. events[c] \in Seq(Types) /\ events[c] # <<>>
  BY <1>1, <1>2 DEF TypeOK, ControlInv, CallsInv, Knows, Emits
<1>5. /\ DOMAIN events[c] = 1 .. Len(events[c]) /\ Len(events[c]) \in Nat \ {0}
      /\ DOMAIN Tail(events[c]) = 1 .. Len(events[c]) - 1
      /\ \A k \in 1 .. Len(events[c]) - 1 : Tail(events[c])[k] = events[c][k + 1]
      /\ Head(events[c]) = events[c][1]
  BY <1>4
<1>6. ASSUME NEW type PROVE Told(c, type)' = Told(c, type)
  BY <1>2 DEF Told, Queued, queueVars
<1>7. ASSUME c \notin Console, faults = 0, NEW type \in Owed(c)
      PROVE  Told(c, type) \/ \E k \in DOMAIN Tail(events[c]) : Tail(events[c])[k] = type
  <2>1. Told(c, Head(events[c]))
    BY <1>1, <1>2, <1>7 DEF Promise, Told
  <2>2. CASE \E k \in DOMAIN events[c] : events[c][k] = type
    <3>1. PICK k \in DOMAIN events[c] : events[c][k] = type
      BY <2>2
    <3>2. CASE k = 1
      BY <1>5, <2>1, <3>1, <3>2
    <3>3. CASE k # 1
      <4>1. k - 1 \in 1 .. Len(events[c]) - 1 /\ (k - 1) + 1 = k
        BY <1>5, <3>1, <3>3
      <4>2. Tail(events[c])[k - 1] = type /\ k - 1 \in DOMAIN Tail(events[c])
        BY <1>5, <3>1, <4>1
      <4> QED BY <4>2
    <3> QED BY <3>2, <3>3
  <2> QED BY <1>1, <1>2, <1>7, <2>2 DEF Promise
<1>8. Len(events[c]) > 1 \/ DOMAIN Tail(events[c]) = {}
  BY <1>5
<1>9. Promise(c)'
  <2>1. steady'[c] \subseteq Active' /\ faults' = faults
    BY <1>1, <1>2 DEF Promise, queueVars
  <2>2. CASE pc'[c] = "lookup" /\ reply'[c] = "none"
    BY <1>2, <1>3, <1>6, <1>7, <2>1, <2>2 DEF Promise
  <2>3. CASE pc'[c] = "done" /\ ~(Len(events[c]) > 1)
    BY <1>3, <1>6, <1>7, <1>8, <2>1, <2>3 DEF Promise
  <2> QED BY <1>2, <2>2, <2>3
<1>10. CallStep(c)
  BY DEF CallStep
<1> QED BY <1>2, <1>3, <1>9, <1>10, SameLog, CallFrame, OneCall

\* What is not a step of a call: at most it ends calls, and nothing joins the
\* subscriptions that were active all along.
LEMMA AllRest ==
  ASSUME ControlInv, PromiseInv, LogExtends, QueueGrows,
         \A b \in Calls : /\ Rests(b) /\ steady'[b] \subseteq steady[b]
                          /\ steady'[b] \subseteq Active'
  PROVE  PromiseInv'
PROOF
<1>1. ASSUME NEW b \in Calls PROVE Way(b)' /\ Promise(b)'
  BY PromiseStays DEF PromiseInv
<1> QED BY <1>1 DEF PromiseInv

LEMMA SubsPromise ==
  ASSUME ControlInv, PromiseInv, NEW s \in Subs, Issue(s) \/ Revoke(s)
  PROVE  PromiseInv'
PROOF
<1>1. TypeOK /\ QueueInv /\ UNCHANGED <<queueVars, log, pc, verb, task, expect, seen, events,
                                        targets, reply>>
  BY DEF ControlInv, Issue, Revoke, callVars
<1>2. LogExtends /\ QueueGrows
  BY <1>1, SameLog, QueueSteps
<1>3. ASSUME NEW b \in Calls
      PROVE  /\ Rests(b) /\ steady'[b] \subseteq steady[b] /\ steady'[b] \subseteq Active'
  <2>1. Rests(b)
    BY <1>1 DEF Rests
  <2>2. steady[b] \subseteq Active
    BY DEF PromiseInv, Promise
  <2>3. CASE Issue(s)
    BY <1>1, <2>1, <2>2, <2>3 DEF Issue, callVars, Active, TypeOK
  <2>4. CASE Revoke(s)
    BY <1>1, <2>1, <2>2, <2>4 DEF Revoke, Active, TypeOK
  <2> QED BY <2>3, <2>4
<1> QED BY <1>2, <1>3, AllRest

LEMMA DaemonPromise ==
  ASSUME ControlInv, JudgeInv, PromiseInv, NEW t \in Tasks,
         \/ EnqueueTask(t) \/ Attribute(t) \/ Mark(t)
         \/ \E to \in TaskStatus : EngineStep(t, to)
  PROVE  PromiseInv'
PROOF
<1>1. QueueInv /\ UNCHANGED <<queueVars, callVars, subs>>
  BY DEF ControlInv, EnqueueTask, Attribute, Mark, EngineStep
<1>2. QueueGrows
  BY <1>1, QueueSteps
<1>3. LogExtends
  BY DaemonJudge, MarkJudge, SameLog DEF Attribute
<1>4. ASSUME NEW b \in Calls
      PROVE  /\ Rests(b) /\ steady'[b] \subseteq steady[b] /\ steady'[b] \subseteq Active'
  BY <1>1 DEF Rests, callVars, Active, PromiseInv, Promise
<1> QED BY <1>2, <1>3, <1>4, AllRest

\* The daemon dies: the calls in progress answer nobody.
LEMMA CrashPromise ==
  ASSUME ControlInv, PromiseInv, Crash
  PROVE  PromiseInv'
PROOF
<1>1. /\ TypeOK /\ UNCHANGED <<log, verb, task, expect, seen, events, targets, reply, subs, steady>>
      /\ \A b \in Calls : pc'[b] = IF InProgress(b) THEN "gone" ELSE pc[b]
  BY DEF ControlInv, Crash
<1>2. faults' # 0
  BY <1>1 DEF Crash, LoopCrash, TypeOK, QueueTypeOK
<1>3. LogExtends /\ Active' = Active
  BY <1>1, SameLog DEF Active
<1>4. ASSUME NEW b \in Calls PROVE Way(b)' /\ Promise(b)'
  <2>1. Way(b) /\ Promise(b)
    BY DEF PromiseInv
  <2>2. reply[b] # "none" => ~InProgress(b)
    BY <2>1 DEF Way, InProgress
  <2>3. pc'[b] = pc[b] \/ (pc'[b] = "gone" /\ reply[b] = "none")
    BY <1>1, <2>2
  <2>4. Way(b)'
    BY <1>1, <1>3, <2>1, <2>3, WayStays
  <2>5. Promise(b)'
    BY <1>1, <1>2, <1>3, <2>1 DEF Promise
  <2> QED BY <2>4, <2>5
<1> QED BY <1>4 DEF PromiseInv

LEMMA LoopPromise ==
  ASSUME ControlInv, PromiseInv,
         Queue \/ UNCHANGED queueVars, UNCHANGED <<log, callVars, subs>>
  PROVE  PromiseInv'
PROOF
<1>1. LogExtends /\ QueueGrows
  BY SameLog, QueueSteps DEF ControlInv, Queue, QueueNext
<1>2. ASSUME NEW b \in Calls
      PROVE  /\ Rests(b) /\ steady'[b] \subseteq steady[b] /\ steady'[b] \subseteq Active'
  BY DEF Rests, callVars, Active, PromiseInv, Promise
<1> QED BY <1>1, <1>2, AllRest

LEMMA PromiseStep ==
  ASSUME ControlInv, JudgeInv, PromiseInv, [Next]_vars
  PROVE  PromiseInv'
PROOF
<1>1. ASSUME NEW c \in Calls, CreateCase(c) \/ ReviseFails(c) \/ HangUp(c)
      PROVE  PromiseInv'
  <2>1. LogExtends
    BY <1>1, CallWrites DEF CallStep
  <2> QED BY <1>1, <2>1, PassPromise
<1>2. ASSUME NEW c \in Calls, CallStep(c) PROVE PromiseInv'
  BY <1>1, <1>2, BeginPromise, ReadPromise, TransitionPromise, SteerPromise,
     LookUpSubsPromise, EnqueueOnePromise, EmittedPromise DEF CallStep
<1>3. CASE ApiNext
  BY <1>2, <1>3, DaemonPromise, SubsPromise, CrashPromise DEF ApiNext
<1>4. CASE Queue /\ UNCHANGED <<log, judged, callVars, subs>>
  BY <1>4, LoopPromise
<1>5. CASE UNCHANGED vars
  BY <1>5, LoopPromise DEF vars
<1> QED BY <1>3, <1>4, <1>5 DEF Next

----------------------------------------------------------------------------
(* The theorems: of the composition, and of the API alone.                 *)

Runs == Spec \/ ApiSpec

\* The inductive invariant: what each call knows of the revision it speaks
\* of, and that the store only ever appended by the guard.
THEOREM ControlInvariant == Runs => [](ControlInv /\ JudgeInv)
PROOF
<1>1. [ApiNext]_vars => [Next]_vars
  BY DEF Next
<1>2. ControlInv /\ JudgeInv /\ [Next]_vars => ControlInv' /\ JudgeInv'
  BY ControlStep, JudgeStep
<1>3. Spec => [](ControlInv /\ JudgeInv)
  BY <1>2, InitControl, InitJudge, PTL DEF Spec
<1>4. ApiSpec => [](ControlInv /\ JudgeInv)
  BY <1>1, <1>2, InitControl, InitJudge, PTL DEF ApiSpec
<1> QED BY <1>3, <1>4 DEF Runs

\* Every variable keeps its type.
THEOREM TypeCorrect == Runs => []TypeOK
PROOF
<1>1. ControlInv => TypeOK
  BY DEF ControlInv
<1> QED BY <1>1, ControlInvariant, PTL

\* No write of a call clobbers another's, and guidance stays until the task has
\* ended (transition_status and update_case under the expected revision).
THEOREM GuardsHold == Runs => []NothingClobbered
PROOF
<1>1. ControlInv => NothingClobbered
  BY DEF ControlInv, HistoryInv
<1> QED BY <1>1, ControlInvariant, PTL

\* Nothing follows a terminal status but the one marker of the driver, whatever
\* was loaded before it (attribute_terminal under update_case's revision guard).
THEOREM EndsStay == Runs => []TerminalIsLast
PROOF
<1>1. ControlInv => TerminalIsLast
  BY DEF ControlInv, HistoryInv
<1> QED BY <1>1, ControlInvariant, PTL

\* Every queued event tells of a revision the store has, its own call's when
\* it says so (emit_event, TaskEventObserver).
THEOREM EventsAreTrue == Runs => []AnnouncedIsCommitted
PROOF
<1>1. ControlInv => AnnouncedIsCommitted
  BY DEF ControlInv, CallsInv, QueuedInv, About, AnnouncedIsCommitted
<1> QED BY <1>1, ControlInvariant, PTL

\* Composed with the API, the loop still gives up a row after exactly
\* MAX_ATTEMPTS failures, and counts its POSTs.
THEOREM AttemptsAreCounted == Runs => []AttemptsAreSpent
PROOF
<1>1. ControlInv => AttemptsAreSpent
  BY QueueInvImplies DEF ControlInv
<1> QED BY <1>1, ControlInvariant, PTL

\* And a receiver that was heard gets an event again only after a fault.
THEOREM EventsComeOnce == Runs => []TakenOnce
PROOF
<1>1. ControlInv => TakenOnce
  BY QueueInvImplies DEF ControlInv
<1> QED BY <1>1, ControlInvariant, PTL

\* A client that was told its change happened finds the events of it queued
\* for every subscription active all along, unless a store call failed
\* (create_task, transition_task, emit_event).
THEOREM RepliesAreKept == Runs => []RepliedMeansQueued
PROOF
<1>1. [ApiNext]_vars => [Next]_vars
  BY DEF Next
<1>2. ControlInv /\ JudgeInv /\ PromiseInv /\ [Next]_vars => PromiseInv'
  BY PromiseStep
<1>3. Spec => []PromiseInv
  BY <1>2, InitPromise, ControlInvariant, PTL DEF Spec, Runs
<1>4. ApiSpec => []PromiseInv
  BY <1>1, <1>2, InitPromise, ControlInvariant, PTL DEF ApiSpec, Runs
<1>5. Runs => []PromiseInv
  BY <1>3, <1>4 DEF Runs
<1> QED BY <1>5, PromiseKept, PTL
=============================================================================
