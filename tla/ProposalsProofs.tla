-------------------------- MODULE ProposalsProofs --------------------------
(***************************************************************************)
(* The proposals' properties, for any ids, payloads and models and any     *)
(* number of switches, failed writes and crashes.                          *)
(*                                                                         *)
(* What the store says of a key is its last row, so the proofs need two    *)
(* things of an append: what it does to the last row of each key, and that *)
(* there is a last row at all.  The rest is bookkeeping of the command     *)
(* under way: which rows it has not written yet, whose value it holds.     *)
(***************************************************************************)
EXTENDS Proposals, SequenceTheorems, WellFoundedInduction, TLAPS

\* A row that exists has its payload.
AskedInv == \A i \in Ids : row[i] # "none" => asked[i] \in Payloads

\* The command under way applies an approved proposal of the step's kind, or
\* is a /model command that has still to swap the provider.
KindInv ==
  /\ row[cmd.id] = "approved"
  /\ cmd.pc = "swap" => Ask.kind \in {"model", "routing"}
  /\ cmd.pc = "model" => Ask.kind = "model" /\ Ask.model # None
  /\ cmd.pc \in {"ladder", "swapLadder"} => Ask.kind = "model" /\ Ask.ladder # None
  /\ cmd.pc = "rules" => Ask.kind = "routing"
  /\ cmd.pc \in {"persona", "openSoul", "fillSoul"} => Ask.kind = "persona"
  /\ cmd.pc \in {"take", "open", "fill", "mark"} => Ask.kind = "secret"

CmdInv ==
  /\ cmd.pc = "idle" => cmd = Idle
  /\ cmd.id = None => cmd.pc \in {"idle", "swap"}
  /\ cmd.id # None => KindInv
  /\ cmd.pc = "swap" => cmd.val # None
  /\ ~Up => cmd = Idle /\ putting = {} /\ pen = {}

\* The rows of its own the command has still to write.
Unwritten(pc) ==
  CASE pc = "model" -> {"selected", "fallbacks"}
    [] pc \in {"swap", "ladder"} -> {"fallbacks"}
    [] pc = "rules" -> {"rules", "fallbacks"}
    [] pc \in {"take", "open", "fill", "mark"} -> {"secret"}
    [] OTHER -> {}

RowsOnce ==
  \A i \in Ids : \A key \in LogKeys :
    By(i, key) # {} => row[i] = "approved" /\ \E n \in By(i, key) : By(i, key) = {n}

FilesApproved ==
  \A i \in Ids : (soul = i \/ i \in backups \/ \E k \in Keys : file[k] = i)
                   => row[i] = "approved"

OwnUnwritten ==
  cmd.id # None => \A key \in Unwritten(cmd.pc) : By(cmd.id, key) = {}

EffectInv == RowsOnce /\ FilesApproved /\ OwnUnwritten

\* What SOUL.md held is in a backup before it is opened, if it was seen.
SoulInv ==
  /\ cmd.pc = "openSoul" => soul = None \/ soul \in backups \/ cmd.id \in unseen
  /\ cmd.pc = "fillSoul" => soul = Torn

\* The last words of this life on each live handle.
LiveWord == LastWord({"selected", "rules"}, TomlModel, BootModel(AtBoot))
LadderWord == LastWord({"fallbacks"}, None, BootLadder(AtBoot))
BackendWord == LastWord({"backend"}, None, BootBackend(AtBoot))

\* What is live, or will be when the command under way has swapped it in.
LiveSoon == IF cmd.pc = "swap" THEN cmd.val ELSE live
LadderSoon == IF cmd.pc = "swapLadder" THEN Ask.ladder ELSE ladder

\* A row is written before what it names goes live.
WordsInv ==
  Up => /\ LiveWord = LiveSoon
        /\ LadderWord = LadderSoon
        /\ Unharmed => BackendWord = backend

LadderInv == Up /\ LadderSoon # NoModels => LadderSoon = BootLadder(log)

\* Where a secret is, and on which way it can leave.
Place(i) ==
  /\ i \in putting => row[i] # "none" /\ asked[i].kind = "secret"
                        /\ i \notin pen /\ ~InHand(i) /\ ~Landed(i)
  /\ i \in pen => row[i] # "none" /\ asked[i].kind = "secret"
                        /\ ~InHand(i) /\ ~Landed(i)
  /\ InHand(i) => ~Landed(i)

Kept(i) ==
  Unharmed /\ i \in Secrets =>
    /\ i \in putting \/ i \in pen \/ InHand(i) \/ Landed(i) \/ i \in dropped
    /\ row[i] = "approved" /\ i \notin late \cup dropped =>
         /\ i \notin putting
         /\ secretsDir /\ cmd.id # i => Landed(i)

SecretInv == \A i \in Ids : Place(i) /\ Kept(i)

\* A proposal of a default and a ladder, and what of it is written at which step.
OfBoth(i) ==
  row[i] = "approved" /\ asked[i].kind = "model"
  /\ None \notin {asked[i].model, asked[i].ladder}

Half(i) ==
  /\ By(i, "fallbacks") # {} => By(i, "selected") # {}
  /\ cmd.id = i /\ cmd.pc \in {"swap", "ladder", "swapLadder"} => By(i, "selected") # {}
  /\ cmd.id = i /\ cmd.pc = "swapLadder" => By(i, "fallbacks") # {}
  /\ Unharmed /\ cmd.id # i /\ By(i, "selected") # {} => By(i, "fallbacks") # {}

WholeInv == \A i \in Ids : OfBoth(i) => Half(i)

ProposalInv ==
  /\ TypeOK /\ AskedInv /\ CmdInv
  /\ EffectInv /\ SoulInv /\ WordsInv /\ LadderInv /\ SecretInv /\ WholeInv

----------------------------------------------------------------------------
(* The last of some rows.                                                  *)

\* A set of positions that is not empty has a last one.
LEMMA HasLast ==
  ASSUME NEW n \in Nat, NEW S \in SUBSET (1 .. n), S # {}
  PROVE  \E i \in S : \A j \in S : j <= i
PROOF
<1> DEFINE back == {n - i : i \in S}
<1>1. back \subseteq Nat /\ back # {}
  <2>1. ASSUME NEW i \in S PROVE n - i \in Nat
    OBVIOUS
  <2> QED BY <2>1
<1> HIDE DEF back
<1>2. PICK x \in back : \A y \in back : <<y, x>> \notin OpToRel(<, Nat)
  BY <1>1, NatLessThanWellFounded, WFMin
<1>3. \A y \in back : ~(y < x)
  BY <1>1, <1>2 DEF OpToRel
<1>4. PICK i \in S : x = n - i
  BY DEF back
<1>5. ASSUME NEW j \in S PROVE j <= i
  <2>1. ~(n - j < n - i)
    BY <1>3, <1>4 DEF back
  <2> QED BY <2>1
<1> QED BY <1>5

\* What the last of the rows at S says, or what was the case before them.
LastOf(l, S, default, before) ==
  IF S = {} THEN before
  ELSE OrElse(l[CHOOSE n \in S : \A m \in S : m <= n].val, default)

LEMMA NewLast ==
  ASSUME NEW R, NEW l \in Seq(R), NEW r \in R, NEW S,
         S \subseteq 1 .. Len(l) + 1, Len(l) + 1 \in S, NEW default, NEW before
  PROVE  LastOf(Append(l, r), S, default, before) = OrElse(r.val, default)
PROOF
<1> DEFINE last == CHOOSE n \in S : \A m \in S : m <= n
<1>1. Len(l) \in Nat /\ Append(l, r)[Len(l) + 1] = r
  BY AppendProperties
<1>2. \A m \in S : m <= Len(l) + 1
  BY <1>1
<1>3. last \in S /\ \A m \in S : m <= last
  BY <1>2
<1>4. LastOf(Append(l, r), S, default, before) = OrElse(Append(l, r)[last].val, default)
  BY DEF LastOf
<1> HIDE DEF last
<1>5. last = Len(l) + 1
  BY <1>1, <1>3
<1> QED BY <1>1, <1>4, <1>5

LEMMA OldLast ==
  ASSUME NEW R, NEW l \in Seq(R), NEW r \in R, NEW S, S \subseteq 1 .. Len(l),
         NEW default, NEW before
  PROVE  LastOf(Append(l, r), S, default, before) = LastOf(l, S, default, before)
PROOF
<1> DEFINE last == CHOOSE n \in S : \A m \in S : m <= n
<1>1. CASE S = {}
  BY <1>1 DEF LastOf
<1>2. CASE S # {}
  <2>1. \E n \in S : \A m \in S : m <= n
    <3>1. Len(l) \in Nat /\ S \in SUBSET (1 .. Len(l))
      OBVIOUS
    <3> QED BY <1>2, <3>1, HasLast
  <2>2. last \in S
    BY <2>1
  <2>3. /\ LastOf(Append(l, r), S, default, before) = OrElse(Append(l, r)[last].val, default)
        /\ LastOf(l, S, default, before) = OrElse(l[last].val, default)
    BY <1>2 DEF LastOf
  <2> HIDE DEF last
  <2>4. Append(l, r)[last] = l[last]
    BY <2>2, AppendProperties
  <2> QED BY <2>3, <2>4
<1> QED BY <1>1, <1>2

PlacesOf(l, key) == {i \in DOMAIN l : l[i].key = key}

LEMMA LatestIsLast ==
  ASSUME NEW l, NEW key
  PROVE  Latest(l, key) = LastOf(l, PlacesOf(l, key), None, None)
PROOF
BY DEF Latest, LastOf, PlacesOf, OrElse

LEMMA PlacesOfAppend ==
  ASSUME NEW R, NEW l \in Seq(R), NEW r \in R, NEW key
  PROVE  PlacesOf(Append(l, r), key) =
           PlacesOf(l, key) \cup (IF r.key = key THEN {Len(l) + 1} ELSE {})
PROOF
<1>1. /\ DOMAIN Append(l, r) = 1 .. Len(l) + 1 /\ DOMAIN l = 1 .. Len(l)
      /\ Append(l, r)[Len(l) + 1] = r /\ Len(l) \in Nat
      /\ \A n \in 1 .. Len(l) : Append(l, r)[n] = l[n]
  BY AppendProperties, LenProperties
<1> QED BY <1>1 DEF PlacesOf

\* ConfigStore::latest after an append.
LEMMA LatestOfAppend ==
  ASSUME NEW R, NEW l \in Seq(R), NEW r \in R, NEW key
  PROVE  Latest(Append(l, r), key) = IF r.key = key THEN r.val ELSE Latest(l, key)
PROOF
<1>1. PlacesOf(l, key) \in SUBSET (1 .. Len(l))
  BY DEF PlacesOf
<1>2. OrElse(r.val, None) = r.val
  BY DEF OrElse
<1>3. CASE r.key = key
  <2>1. PlacesOf(Append(l, r), key) = PlacesOf(l, key) \cup {Len(l) + 1}
    BY <1>3, PlacesOfAppend
  <2>2. LastOf(Append(l, r), PlacesOf(Append(l, r), key), None, None) = OrElse(r.val, None)
    <3>1. /\ PlacesOf(Append(l, r), key) \subseteq 1 .. Len(l) + 1
          /\ Len(l) + 1 \in PlacesOf(Append(l, r), key)
      BY <1>1, <2>1
    <3> QED BY <3>1, NewLast
  <2> QED BY <1>2, <1>3, <2>2, LatestIsLast
<1>4. CASE r.key # key
  <2>1. PlacesOf(Append(l, r), key) = PlacesOf(l, key)
    <3>1. /\ PlacesOf(Append(l, r), key) =
                PlacesOf(l, key) \cup (IF r.key = key THEN {Len(l) + 1} ELSE {})
      BY PlacesOfAppend
    <3> QED BY <1>4, <3>1
  <2>2. LastOf(Append(l, r), PlacesOf(l, key), None, None)
          = LastOf(l, PlacesOf(l, key), None, None)
    BY <1>1, OldLast
  <2> QED BY <1>4, <2>1, <2>2, LatestIsLast
<1> QED BY <1>3, <1>4

\* It answers a value of the key's kind, or nothing.
LEMMA LatestType ==
  ASSUME NEW l \in Seq(Rows), NEW key
  PROVE  Latest(l, key) \in ValuesOf(key) \cup {None}
PROOF
<1>1. CASE PlacesOf(l, key) = {}
  BY <1>1, LatestIsLast DEF LastOf
<1>2. CASE PlacesOf(l, key) # {}
  <2> DEFINE n == CHOOSE n \in PlacesOf(l, key) : \A m \in PlacesOf(l, key) : m <= n
  <2>1. PlacesOf(l, key) \in SUBSET (1 .. Len(l)) /\ Len(l) \in Nat
    BY DEF PlacesOf
  <2>2. n \in PlacesOf(l, key)
    BY <1>2, <2>1, HasLast
  <2>3. l[n] \in Rows /\ l[n].key = key
    BY <2>1, <2>2 DEF PlacesOf
  <2>4. l[n].val \in ValuesOf(key)
    BY <2>3 DEF Rows
  <2>5. Latest(l, key) = OrElse(l[n].val, None)
    BY <1>2, LatestIsLast DEF LastOf
  <2> QED BY <2>4, <2>5 DEF OrElse
<1> QED BY <1>1, <1>2

\* A start reads a model, a ladder and a backend.
LEMMA BootTypes ==
  ASSUME NEW l \in Seq(Rows)
  PROVE  /\ BootModel(l) \in Models
         /\ BootLadder(l) \in Ladders
         /\ BootBackend(l) \in Backends
PROOF
<1>1. /\ Latest(l, "selected") \in Models \cup {None}
      /\ Latest(l, "rules") \in Models \cup {None}
      /\ Latest(l, "fallbacks") \in Ladders \cup {None}
      /\ Latest(l, "backend") \in Backends \cup {None}
  <2>1. /\ ValuesOf("selected") = Models \cup {None}
        /\ ValuesOf("rules") = Models \cup {None}
        /\ ValuesOf("fallbacks") = Ladders
        /\ ValuesOf("backend") = Backends
    BY DEF ValuesOf
  <2> QED BY <2>1, LatestType
<1>2. BootModel(l) \in Models
  BY <1>1, ProposalsAssumption DEF BootModel, RuleHolds, BootRule, BootDefault, OrElse
<1>3. BootLadder(l) \in Ladders
  BY <1>1, ProposalsAssumption DEF BootLadder
<1>4. BootBackend(l) \in Backends
  BY <1>1, ProposalsAssumption DEF BootBackend, OrElse
<1> QED BY <1>2, <1>3, <1>4

----------------------------------------------------------------------------
(* The words of this life.                                                 *)

\* The rows before the start stay what they were.
LEMMA BootStays ==
  ASSUME TypeOK, NEW r \in Rows, log' = Append(log, r), base' = base
  PROVE  AtBoot' = AtBoot
PROOF
<1>1. /\ log \in Seq(Rows) /\ base \in 0 .. Len(log) /\ Len(log) \in Nat
      /\ log' \in Seq(Rows) /\ Len(log') = Len(log) + 1
      /\ \A n \in 1 .. Len(log) : log'[n] = log[n]
  BY AppendProperties DEF TypeOK
<1>2. /\ AtBoot \in Seq(Rows) /\ Len(AtBoot) = base
      /\ \A n \in 1 .. base : AtBoot[n] = log[n]
  BY <1>1 DEF AtBoot
<1>3. /\ AtBoot' \in Seq(Rows) /\ Len(AtBoot') = base
      /\ \A n \in 1 .. base : AtBoot'[n] = log'[n]
  BY <1>1 DEF AtBoot
<1> QED BY <1>1, <1>2, <1>3, SeqEqual

Counts(r, keys) == r.key \in keys /\ (r.key = "rules" => r.val # None)

LEMMA LifeOfAppend ==
  ASSUME TypeOK, NEW r \in Rows, log' = Append(log, r), base' = base, NEW keys
  PROVE  /\ OfThisLife(keys) \in SUBSET (1 .. Len(log))
         /\ OfThisLife(keys)' =
              OfThisLife(keys) \cup (IF Counts(r, keys) THEN {Len(log) + 1} ELSE {})
PROOF
<1>1. /\ base \in 0 .. Len(log) /\ Len(log) \in Nat
      /\ Len(log') = Len(log) + 1 /\ log'[Len(log) + 1] = r
      /\ \A n \in 1 .. Len(log) : log'[n] = log[n]
  BY AppendProperties DEF TypeOK
<1> QED BY <1>1 DEF OfThisLife, Counts

LEMMA WordOfAppend ==
  ASSUME TypeOK, NEW r \in Rows, log' = Append(log, r), base' = base,
         NEW keys, NEW default, NEW before
  PROVE  LastOf(log', OfThisLife(keys)', default, before) =
           IF Counts(r, keys) THEN OrElse(r.val, default)
           ELSE LastOf(log, OfThisLife(keys), default, before)
PROOF
<1>1. log \in Seq(Rows) /\ OfThisLife(keys) \in SUBSET (1 .. Len(log))
  BY LifeOfAppend DEF TypeOK
<1>2. CASE Counts(r, keys)
  <2>1. OfThisLife(keys)' = OfThisLife(keys) \cup {Len(log) + 1}
    BY <1>2, LifeOfAppend
  <2>2. /\ OfThisLife(keys)' \subseteq 1 .. Len(log) + 1
        /\ Len(log) + 1 \in OfThisLife(keys)'
    BY <1>1, <2>1
  <2>3. LastOf(Append(log, r), OfThisLife(keys)', default, before)
          = OrElse(r.val, default)
    BY <1>1, <2>2, NewLast
  <2> QED BY <1>2, <2>3
<1>3. CASE ~Counts(r, keys)
  <2>1. OfThisLife(keys)' = OfThisLife(keys)
    <3>1. OfThisLife(keys)' = OfThisLife(keys) \cup {}
      BY <1>3, LifeOfAppend
    <3> QED BY <3>1
  <2>2. LastOf(Append(log, r), OfThisLife(keys), default, before)
          = LastOf(log, OfThisLife(keys), default, before)
    BY <1>1, OldLast
  <2> QED BY <1>3, <2>1, <2>2
<1> QED BY <1>2, <1>3

LEMMA WordsOfAppend ==
  ASSUME TypeOK, NEW r \in Rows, log' = Append(log, r), base' = base
  PROVE  /\ LiveWord' = IF r.key \in {"selected", "rules"} /\ (r.key = "rules" => r.val # None)
                        THEN OrElse(r.val, TomlModel) ELSE LiveWord
         /\ LadderWord' = IF r.key = "fallbacks" THEN r.val ELSE LadderWord
         /\ BackendWord' = IF r.key = "backend" THEN r.val ELSE BackendWord
PROOF
<1>1. AtBoot' = AtBoot
  BY BootStays
<1>2. LiveWord' = LastOf(log', OfThisLife({"selected", "rules"})', TomlModel, BootModel(AtBoot))
  BY <1>1 DEF LiveWord, LastWord, LastOf
<1>3. LiveWord = LastOf(log, OfThisLife({"selected", "rules"}), TomlModel, BootModel(AtBoot))
  BY DEF LiveWord, LastWord, LastOf
<1>4. LadderWord' = LastOf(log', OfThisLife({"fallbacks"})', None, BootLadder(AtBoot))
  BY <1>1 DEF LadderWord, LastWord, LastOf
<1>5. LadderWord = LastOf(log, OfThisLife({"fallbacks"}), None, BootLadder(AtBoot))
  BY DEF LadderWord, LastWord, LastOf
<1>6. BackendWord' = LastOf(log', OfThisLife({"backend"})', None, BootBackend(AtBoot))
  BY <1>1 DEF BackendWord, LastWord, LastOf
<1>7. BackendWord = LastOf(log, OfThisLife({"backend"}), None, BootBackend(AtBoot))
  BY DEF BackendWord, LastWord, LastOf
<1>8. OrElse(r.val, None) = r.val
  BY DEF OrElse
<1>9. LiveWord' = IF r.key \in {"selected", "rules"} /\ (r.key = "rules" => r.val # None)
                  THEN OrElse(r.val, TomlModel) ELSE LiveWord
  BY <1>2, <1>3, WordOfAppend DEF Counts
<1>10. LadderWord' = IF r.key = "fallbacks" THEN r.val ELSE LadderWord
  BY <1>4, <1>5, <1>8, WordOfAppend DEF Counts
<1>11. BackendWord' = IF r.key = "backend" THEN r.val ELSE BackendWord
  BY <1>6, <1>7, <1>8, WordOfAppend DEF Counts
<1> QED BY <1>9, <1>10, <1>11

\* A start has said nothing yet.
LEMMA WordsAtBoot ==
  ASSUME TypeOK, UNCHANGED log, base' = Len(log)
  PROVE  /\ LiveWord' = BootModel(log)
         /\ LadderWord' = BootLadder(log)
         /\ BackendWord' = BootBackend(log)
PROOF
<1>1. log \in Seq(Rows) /\ Len(log) \in Nat
  BY DEF TypeOK
<1>2. AtBoot' = log
  <2>1. /\ AtBoot' \in Seq(Rows) /\ Len(AtBoot') = Len(log)
        /\ \A n \in 1 .. Len(log) : AtBoot'[n] = log[n]
    BY <1>1 DEF AtBoot
  <2> QED BY <1>1, <2>1, SeqEqual
<1>3. ASSUME NEW keys PROVE OfThisLife(keys)' = {}
  BY <1>1 DEF OfThisLife
<1> QED BY <1>2, <1>3 DEF LiveWord, LadderWord, BackendWord, LastWord

----------------------------------------------------------------------------
(* The rows a step writes, and the types.                                  *)

\* The history variables are named one by one in what follows.
USE DEF history

Base == TypeOK /\ AskedInv /\ CmdInv

LEMMA RowTypes ==
  ASSUME NEW by \in Ids \cup {None}
  PROVE  /\ \A m \in Models \cup {None} : Row("selected", m, by) \in Rows
         /\ \A m \in Models \cup {None} : Row("rules", m, by) \in Rows
         /\ \A a \in Ladders : Row("fallbacks", a, by) \in Rows
         /\ \A b \in Backends : Row("backend", b, by) \in Rows
         /\ \A k \in Keys : Row("secret", k, by) \in Rows
PROOF
BY DEF Row, Rows, LogKeys, Values, ValuesOf

\* What the command under way was asked for.
LEMMA AskTypes ==
  ASSUME Base
  PROVE  /\ cmd.pc = "model" => Ask.model \in Models
         /\ cmd.pc \in {"ladder", "swapLadder"} => Ask.ladder \in Ladders
         /\ cmd.pc = "rules" => Ask.rule \in Models \cup {None}
         /\ cmd.pc \in {"take", "open", "fill", "mark"} => Ask.key \in Keys
         /\ cmd.pc = "swap" => cmd.val \in Models
         /\ cmd.pc \notin {"idle", "swap"} => cmd.id \in Ids
PROOF
<1>1. cmd.id \in Ids \cup {None} /\ cmd.val \in Models \cup {None}
  BY DEF Base, TypeOK
<1>2. cmd.pc = "swap" => cmd.val # None
  BY DEF Base, CmdInv
<1>3. CASE cmd.id = None
  BY <1>1, <1>2, <1>3 DEF Base, CmdInv
<1>4. CASE cmd.id # None
  <2>1. KindInv
    BY <1>4 DEF Base, CmdInv
  <2>2. Ask \in Payloads
    BY <1>1, <1>4, <2>1 DEF Base, AskedInv, KindInv, Ask
  <2>3. \/ Ask.kind = "persona"
        \/ /\ Ask.kind = "model" /\ Ask.model \in Models \cup {None}
           /\ Ask.ladder \in Ladders \cup {None}
        \/ Ask.kind = "secret" /\ Ask.key \in Keys
        \/ Ask.kind = "routing" /\ Ask.rule \in Models \cup {None}
    BY <2>2, ProposalsAssumption
  <2> QED BY <1>1, <1>2, <1>4, <2>1, <2>3 DEF KindInv
<1> QED BY <1>3, <1>4

LEMMA AppendType ==
  ASSUME TypeOK, NEW r \in Rows, Apply(r), base' = base
  PROVE  log' \in Seq(Rows) /\ base' \in 0 .. Len(log')
PROOF
BY AppendProperties DEF TypeOK, Apply

LEMMA SwapType ==
  ASSUME TypeOK, NEW m \in Models \cup {None}
  PROVE  {Idle, [cmd EXCEPT !.pc = "swap", !.val = m]}
           \subseteq [pc : Steps, id : Ids \cup {None}, val : Models \cup {None}]
PROOF
<1>1. cmd \in [pc : Steps, id : Ids \cup {None}, val : Models \cup {None}]
  BY DEF TypeOK
<1>2. "swap" \in Steps /\ "idle" \in Steps
  BY DEF Steps
<1>3. Idle \in [pc : Steps, id : Ids \cup {None}, val : Models \cup {None}]
  BY <1>2 DEF Idle
<1>4. [cmd EXCEPT !.pc = "swap", !.val = m]
        \in [pc : Steps, id : Ids \cup {None}, val : Models \cup {None}]
  BY <1>1, <1>2
<1> QED BY <1>3, <1>4

LEMMA InitTypes == Init => TypeOK
PROOF
<1> SUFFICES ASSUME Init PROVE TypeOK
  OBVIOUS
<1>1. log = <<>> /\ log \in Seq(Rows) /\ base \in 0 .. Len(log)
  BY DEF Init
<1>2. live \in Models \cup {None} /\ ladder \in Ladders \cup {None}
      /\ backend \in Backends \cup {None}
  BY <1>1, BootTypes DEF Init
<1> QED BY <1>1, <1>2, ProposalsAssumption
        DEF Init, TypeOK, Statuses, Idle, Steps

\* The steps that leave the store, the files and the live handles alone.
LEMMA RowStepTypes ==
  ASSUME Base,
         \/ \E i \in Ids : \/ \E p \in Payloads : Create(i, p)
                           \/ Put(i) \/ Abandon(i) \/ Approve(i) \/ Reject(i)
         \/ Take
  PROVE  TypeOK'
PROOF
<1> USE DEF Base, TypeOK, keepDisk, keepLive, keepWeb, keepRest, Statuses
<1>1. ASSUME NEW i \in Ids, NEW p \in Payloads, Create(i, p) PROVE TypeOK'
  BY <1>1 DEF Create
<1>2. ASSUME NEW i \in Ids, Put(i) PROVE TypeOK'
  BY <1>2 DEF Put
<1>6. ASSUME NEW i \in Ids, Abandon(i) PROVE TypeOK'
  BY <1>6 DEF Abandon
<1>3. ASSUME NEW i \in Ids, Approve(i) PROVE TypeOK'
  <2>1. cmd' \in [pc : Steps, id : Ids \cup {None}, val : Models \cup {None}]
    BY <1>3 DEF Approve, FirstStep, Steps
  <2>2. row' \in [Ids -> Statuses] /\ late' \subseteq Ids
    BY <1>3 DEF Approve
  <2> QED BY <1>3, <2>1, <2>2 DEF Approve
<1>4. ASSUME NEW i \in Ids, Reject(i) PROVE TypeOK'
  BY <1>4 DEF Reject
<1>5. CASE Take
  BY <1>5 DEF Take, Done, Idle, GoTo, Steps
<1> QED BY <1>1, <1>2, <1>3, <1>4, <1>5, <1>6

\* The steps that write to the store.
LEMMA StoreStepTypes ==
  ASSUME Base,
         \/ SetDefault \/ SetLadder \/ SetRules \/ Mark \/ ResetModel
         \/ \E m \in Models : SwitchModel(m)
         \/ \E b \in Backends : UseBackend(b)
  PROVE  TypeOK'
PROOF
<1> USE DEF Base, TypeOK, keepDisk, keepLive, keepWeb, keepRest, keepSwitch
<1>1. base' = base /\ cmd.id \in Ids \cup {None}
  BY DEF SetDefault, SetLadder, SetRules, Mark, ResetModel, SwitchModel, UseBackend
<1>2. ASSUME NEW r \in Rows, Apply(r) PROVE log' \in Seq(Rows) /\ base' \in 0 .. Len(log')
  BY <1>1, <1>2, AppendType
<1>3. ASSUME Fault PROVE harm' \in 0 .. MaxHarm
  BY <1>3, ProposalsAssumption DEF Fault
<1>4. CASE SetDefault
  <2>1. Ask.model \in Models /\ Row("selected", Ask.model, cmd.id) \in Rows
    BY <1>1, <1>4, RowTypes, AskTypes DEF SetDefault, At
  <2>2. log' \in Seq(Rows) /\ base' \in 0 .. Len(log') /\ harm' \in 0 .. MaxHarm
    BY <1>1, <1>2, <1>3, <1>4, <2>1 DEF SetDefault, Apply
  <2>3. KeyOf[Ask.model] \in Keys \cup {None} /\ env' \subseteq Keys /\ ProcessEnv \subseteq env'
    BY <1>4, <2>1, ProposalsAssumption DEF SetDefault, Published
  <2>4. cmd' \in [pc : Steps, id : Ids \cup {None}, val : Models \cup {None}]
    <3>1. cmd' = Idle \/ cmd' = [cmd EXCEPT !.pc = "swap", !.val = Ask.model]
      BY <1>4 DEF SetDefault, Done
    <3> QED BY <2>1, <3>1, SwapType
  <2> QED BY <1>4, <2>2, <2>3, <2>4 DEF SetDefault
<1>5. CASE SetLadder
  <2>1. Row("fallbacks", Ask.ladder, cmd.id) \in Rows
    BY <1>1, <1>5, RowTypes, AskTypes DEF SetLadder, At
  <2>2. log' \in Seq(Rows) /\ base' \in 0 .. Len(log') /\ harm' \in 0 .. MaxHarm
    BY <1>1, <1>2, <1>3, <1>5, <2>1 DEF SetLadder, Apply
  <2>3. cmd' \in [pc : Steps, id : Ids \cup {None}, val : Models \cup {None}]
    BY <1>5 DEF SetLadder, Done, GoTo, Idle, Steps
  <2> QED BY <1>5, <2>2, <2>3 DEF SetLadder
<1>6. CASE SetRules
  <2>1. Ask.rule \in Models \cup {None} /\ Row("rules", Ask.rule, cmd.id) \in Rows
    BY <1>1, <1>6, RowTypes, AskTypes DEF SetRules, At
  <2>2. log' \in Seq(Rows) /\ base' \in 0 .. Len(log') /\ harm' \in 0 .. MaxHarm
    BY <1>1, <1>2, <1>3, <1>6, <2>1 DEF SetRules, Apply
  <2>3. cmd' \in [pc : Steps, id : Ids \cup {None}, val : Models \cup {None}]
    <3>1. cmd' = Idle \/ cmd' = [cmd EXCEPT !.pc = "swap", !.val = Ask.rule]
      BY <1>6 DEF SetRules, Done
    <3> QED BY <2>1, <3>1, SwapType
  <2> QED BY <1>6, <2>2, <2>3 DEF SetRules
<1>7. CASE Mark
  <2>1. Row("secret", Ask.key, cmd.id) \in Rows
    BY <1>1, <1>7, RowTypes, AskTypes DEF Mark, At
  <2>2. log' \in Seq(Rows) /\ base' \in 0 .. Len(log') /\ harm' \in 0 .. MaxHarm
    BY <1>1, <1>2, <1>3, <1>7, <2>1 DEF Mark, Apply
  <2>3. cmd' \in [pc : Steps, id : Ids \cup {None}, val : Models \cup {None}]
    BY <1>7 DEF Mark, Done, Idle, Steps
  <2> QED BY <1>7, <2>2, <2>3 DEF Mark
<1>8. ASSUME NEW m \in Models \cup {None}, NEW v \in Models, ASwitch,
             UNCHANGED <<live, ladder, backend>>, keepSwitch,
             \/ /\ Apply(Row("selected", m, None))
                /\ cmd' = [pc |-> "swap", id |-> None, val |-> v]
             \/ Fault /\ UNCHANGED <<log, cmd>>
      PROVE  TypeOK'
  <2>1. Row("selected", m, None) \in Rows
    BY RowTypes
  <2>2. log' \in Seq(Rows) /\ base' \in 0 .. Len(log') /\ harm' \in 0 .. MaxHarm
    BY <1>1, <1>2, <1>3, <1>8, <2>1 DEF Apply
  <2>3. cmd' \in [pc : Steps, id : Ids \cup {None}, val : Models \cup {None}]
    BY <1>8 DEF Steps
  <2> QED BY <1>8, <2>2, <2>3, ProposalsAssumption DEF ASwitch
<1>9. CASE ResetModel \/ \E m \in Models : SwitchModel(m)
  BY <1>8, <1>9, ProposalsAssumption DEF ResetModel, SwitchModel
<1>10. ASSUME NEW b \in Backends, UseBackend(b) PROVE TypeOK'
  <2>1. Row("backend", b, None) \in Rows
    BY RowTypes
  <2>2. log' \in Seq(Rows) /\ base' \in 0 .. Len(log') /\ harm' \in 0 .. MaxHarm
    BY <1>1, <1>2, <1>3, <1>10, <2>1 DEF Apply, UseBackend
  <2> QED BY <1>10, <2>2, ProposalsAssumption DEF UseBackend, ASwitch
<1> QED BY <1>4, <1>5, <1>6, <1>7, <1>9, <1>10

\* The steps that write to a file or to a live handle, and the process.
LEMMA OtherStepTypes ==
  ASSUME Base,
         \/ Swap \/ SwapLadder \/ OpenFile \/ FillFile \/ BackUp \/ LookFails \/ OpenSoul
         \/ FillSoul \/ Crash \/ Boot
  PROVE  TypeOK'
PROOF
<1> USE ProposalsAssumption
        DEF Base, TypeOK, keepDisk, keepLive, keepWeb, keepRest, Done, GoTo, Idle,
            Steps, Fault
<1>1. CASE Swap
  BY <1>1 DEF Swap, AfterSwap
<1>2. CASE SwapLadder
  <2>1. Ask.ladder \in Ladders
    BY <1>2, AskTypes DEF SwapLadder, At
  <2> QED BY <1>2, <2>1 DEF SwapLadder
<1>3. CASE OpenFile
  <2>1. file' \in [Keys -> Ids \cup {None, Mounted, Torn}] /\ harm' \in 0 .. MaxHarm
    BY <1>3 DEF OpenFile
  <2>2. cmd' \in [pc : Steps, id : Ids \cup {None}, val : Models \cup {None}]
    BY <1>3 DEF OpenFile
  <2> QED BY <1>3, <2>1, <2>2 DEF OpenFile
<1>4. CASE FillFile
  <2>1. cmd.id \in Ids
    BY <1>4, AskTypes DEF FillFile, At
  <2>2. file' \in [Keys -> Ids \cup {None, Mounted, Torn}] /\ harm' \in 0 .. MaxHarm
    BY <1>4, <2>1 DEF FillFile
  <2>3. cmd' \in [pc : Steps, id : Ids \cup {None}, val : Models \cup {None}]
    BY <1>4 DEF FillFile
  <2> QED BY <1>4, <2>2, <2>3 DEF FillFile
<1>5. CASE BackUp
  <2>1. backups' \subseteq Ids \cup {None, Torn} /\ harm' \in 0 .. MaxHarm
    BY <1>5 DEF BackUp
  <2>2. cmd' \in [pc : Steps, id : Ids \cup {None}, val : Models \cup {None}]
    BY <1>5 DEF BackUp
  <2> QED BY <1>5, <2>1, <2>2 DEF BackUp
<1>10. CASE LookFails
  <2>1. cmd.id \in Ids
    BY <1>10, AskTypes DEF LookFails, At
  <2>2. unseen' \subseteq Ids /\ harm' \in 0 .. MaxHarm
    BY <1>10, <2>1 DEF LookFails
  <2>3. cmd' \in [pc : Steps, id : Ids \cup {None}, val : Models \cup {None}]
    BY <1>10 DEF LookFails
  <2> QED BY <1>10, <2>2, <2>3 DEF LookFails
<1>6. CASE OpenSoul
  <2>1. soul' \in Ids \cup {None, Torn} /\ harm' \in 0 .. MaxHarm
    BY <1>6 DEF OpenSoul
  <2>2. cmd' \in [pc : Steps, id : Ids \cup {None}, val : Models \cup {None}]
    BY <1>6 DEF OpenSoul
  <2> QED BY <1>6, <2>1, <2>2 DEF OpenSoul
<1>7. CASE FillSoul
  BY <1>7 DEF FillSoul
<1>8. CASE Crash
  BY <1>8 DEF Crash, disk
<1>9. CASE Boot
  <2>1. /\ BootModel(log) \in Models /\ BootLadder(log) \in Ladders
        /\ BootBackend(log) \in Backends /\ Len(log) \in Nat
    BY BootTypes
  <2> QED BY <1>9, <2>1 DEF Boot, disk
<1> QED BY <1>1, <1>2, <1>3, <1>4, <1>5, <1>6, <1>7, <1>8, <1>9, <1>10

LEMMA TypeStep ==
  ASSUME Base, Next
  PROVE  TypeOK'
PROOF
BY RowStepTypes, StoreStepTypes, OtherStepTypes DEF Next

----------------------------------------------------------------------------
(* The command under way.                                                  *)

\* Who changes a row.
LEMMA RowMoves ==
  ASSUME Next
  PROVE  \/ UNCHANGED <<row, asked>>
         \/ \E i \in Ids : \/ \E p \in Payloads : Create(i, p)
                           \/ Put(i) \/ Abandon(i) \/ Approve(i) \/ Reject(i)
PROOF
BY DEF Next, SetDefault, Swap, SetLadder, SwapLadder, SetRules, Take, OpenFile,
   FillFile, Mark, BackUp, LookFails, OpenSoul, FillSoul, SwitchModel, ResetModel,
   UseBackend, keepSwitch, keepDisk, Crash, Boot, disk

LEMMA AskedStep ==
  ASSUME Base, Next
  PROVE  AskedInv'
PROOF
<1> USE DEF Base, TypeOK, AskedInv, keepDisk
<1>1. ASSUME NEW i \in Ids, NEW p \in Payloads, Create(i, p) PROVE AskedInv'
  BY <1>1 DEF Create
<1>2. ASSUME NEW i \in Ids, Put(i) \/ Abandon(i) \/ Approve(i) \/ Reject(i) PROVE AskedInv'
  BY <1>2 DEF Put, Abandon, Approve, Reject, Resolvable
<1>3. CASE UNCHANGED <<row, asked>>
  BY <1>3
<1> QED BY <1>1, <1>2, <1>3, RowMoves

\* A payload has one kind, and what its first step needs.
LEMMA FirstSteps ==
  ASSUME NEW p \in Payloads
  PROVE  \/ FirstStep(p) = "persona" /\ p.kind = "persona"
         \/ FirstStep(p) = "take" /\ p.kind = "secret"
         \/ FirstStep(p) = "rules" /\ p.kind = "routing"
         \/ FirstStep(p) = "model" /\ p.kind = "model" /\ p.model # None
         \/ FirstStep(p) = "ladder" /\ p.kind = "model" /\ p.ladder # None
PROOF
BY ProposalsAssumption DEF FirstStep

\* What a command's step does to the command.
LEMMA CommandMoves ==
  ASSUME Base, Next
  PROVE  \/ cmd' = Idle
         \/ UNCHANGED cmd
         \/ \E i \in Ids : Approve(i)
         \/ /\ cmd.pc = "idle" /\ Up' /\ cmd'.pc = "swap" /\ cmd'.id = None
            /\ cmd'.val # None
         \/ /\ cmd' = [cmd EXCEPT !.pc = "swap", !.val = cmd'.val]
            /\ cmd.pc \in {"model", "rules"} /\ cmd'.val # None
         \/ /\ cmd' = [cmd EXCEPT !.pc = cmd'.pc]
            /\ \/ <<cmd.pc, cmd'.pc>> \in {<<"ladder", "swapLadder">>, <<"take", "open">>,
                                           <<"open", "fill">>, <<"fill", "mark">>,
                                           <<"persona", "openSoul">>,
                                           <<"openSoul", "fillSoul">>}
               \/ /\ cmd.pc = "swap" /\ cmd'.pc = "ladder" /\ cmd.id # None
                  /\ Ask.kind = "model" /\ Ask.ladder # None
PROOF
<1> USE DEF At, GoTo, Done
<1>0. cmd \in [pc : Steps, id : Ids \cup {None}, val : Models \cup {None}]
  BY DEF Base, TypeOK
<1>1. CASE SetDefault
  <2>1. Ask.model # None
    BY <1>1, AskTypes, ProposalsAssumption DEF SetDefault
  <2> QED BY <1>0, <1>1, <2>1 DEF SetDefault
<1>2. CASE Swap
  BY <1>0, <1>2 DEF Swap, AfterSwap
<1>3. CASE SetLadder \/ SwapLadder
  BY <1>0, <1>3 DEF SetLadder, SwapLadder
<1>4. CASE SetRules
  BY <1>0, <1>4 DEF SetRules
<1>5. CASE Take \/ OpenFile \/ FillFile \/ Mark
  BY <1>0, <1>5 DEF Take, OpenFile, FillFile, Mark
<1>6. CASE BackUp \/ LookFails \/ OpenSoul \/ FillSoul
  BY <1>0, <1>6 DEF BackUp, LookFails, OpenSoul, FillSoul
<1>7. CASE ResetModel \/ \E m \in Models : SwitchModel(m)
  BY <1>7, ProposalsAssumption
     DEF ResetModel, SwitchModel, ASwitch, AtPrompt, keepSwitch, Up, Idle
<1>8. CASE \/ \E b \in Backends : UseBackend(b)
           \/ \E i \in Ids : \/ \E p \in Payloads : Create(i, p)
                             \/ Put(i) \/ Abandon(i) \/ Reject(i)
           \/ Crash \/ Boot
  BY <1>8 DEF UseBackend, Create, Put, Abandon, Reject, Crash, Boot
<1> QED BY <1>1, <1>2, <1>3, <1>4, <1>5, <1>6, <1>7, <1>8 DEF Next

\* Approved rows stay approved, with their payloads.
LEMMA StayApproved ==
  ASSUME Base, Next
  PROVE  \A i \in Ids : row[i] = "approved" =>
           row'[i] = "approved" /\ asked'[i] = asked[i]
PROOF
<1>1. asked \in [Ids -> Payloads \cup {None}] /\ row \in [Ids -> Statuses]
  BY DEF Base, TypeOK
<1>2. ASSUME NEW i \in Ids, \/ \E p \in Payloads : Create(i, p)
                            \/ Put(i) \/ Abandon(i) \/ Approve(i) \/ Reject(i)
      PROVE  \A j \in Ids : row[j] = "approved" =>
               row'[j] = "approved" /\ asked'[j] = asked[j]
  BY <1>1, <1>2 DEF Create, Put, Abandon, Approve, Reject, Resolvable, keepDisk
<1>3. CASE UNCHANGED <<row, asked>>
  BY <1>3
<1> QED BY <1>2, <1>3, RowMoves

LEMMA KindStep ==
  ASSUME Base, Next
  PROVE  CmdInv'
PROOF
<1>1. /\ cmd \in [pc : Steps, id : Ids \cup {None}, val : Models \cup {None}]
      /\ asked \in [Ids -> Payloads \cup {None}] /\ row \in [Ids -> Statuses]
      /\ cmd.id = None => cmd.pc \in {"idle", "swap"}
      /\ cmd.id # None => KindInv
  BY DEF Base, TypeOK, CmdInv
\* Who runs a command is up, and a dead process has none.
<1>2. ~Up' => cmd' = Idle /\ putting' = {} /\ pen' = {}
  <2>1. CASE Crash
    BY <2>1 DEF Crash
  <2>2. CASE Boot
    BY <2>2 DEF Boot, Base, CmdInv, Up
  <2>3. CASE ~Crash /\ ~Boot
    BY <2>3 DEF Next, Up, AtPrompt, At, ASwitch, Create, Put, Abandon, Approve, Reject,
       SetDefault, Swap, SetLadder, SwapLadder, SetRules, Take, OpenFile, FillFile,
       Mark, BackUp, LookFails, OpenSoul, FillSoul, SwitchModel, ResetModel, UseBackend,
       keepSwitch, keepRest
  <2> QED BY <2>1, <2>2, <2>3
<1>4. cmd.id # None => row'[cmd.id] = "approved" /\ asked'[cmd.id] = Ask
  BY <1>1, StayApproved DEF KindInv, Ask
<1> USE DEF CmdInv, Idle
<1>5. CASE cmd' = Idle
  BY <1>2, <1>5
<1>6. CASE UNCHANGED cmd
  BY <1>2, <1>4, <1>6 DEF Base, KindInv, Ask
<1>7. ASSUME NEW i \in Ids, Approve(i) PROVE CmdInv'
  <2>1. /\ row'[i] = "approved" /\ asked'[i] = asked[i] /\ asked[i] \in Payloads
        /\ cmd'.pc = FirstStep(asked[i]) /\ cmd'.id = i
    BY <1>1, <1>7 DEF Approve, Resolvable, Base, AskedInv
  <2>2. i # None
    BY ProposalsAssumption
  <2>3. KindInv' /\ cmd'.pc \notin {"idle", "swap"}
    BY <2>1, <2>2, FirstSteps DEF KindInv, Ask
  <2> QED BY <1>2, <2>1, <2>2, <2>3
<1>8. CASE /\ cmd.pc = "idle" /\ Up' /\ cmd'.pc = "swap" /\ cmd'.id = None
           /\ cmd'.val # None
  BY <1>2, <1>8
<1>9. CASE /\ cmd' = [cmd EXCEPT !.pc = "swap", !.val = cmd'.val]
           /\ cmd.pc \in {"model", "rules"} /\ cmd'.val # None
  <2>1. cmd'.pc = "swap" /\ cmd'.id = cmd.id /\ cmd.id # None
    BY <1>1, <1>9
  <2>2. KindInv'
    BY <1>1, <1>4, <1>9, <2>1 DEF KindInv, Ask
  <2> QED BY <1>2, <1>9, <2>1, <2>2
<1>10. CASE /\ cmd' = [cmd EXCEPT !.pc = cmd'.pc]
            /\ \/ <<cmd.pc, cmd'.pc>> \in {<<"ladder", "swapLadder">>, <<"take", "open">>,
                                           <<"open", "fill">>, <<"fill", "mark">>,
                                           <<"persona", "openSoul">>,
                                           <<"openSoul", "fillSoul">>}
               \/ /\ cmd.pc = "swap" /\ cmd'.pc = "ladder" /\ cmd.id # None
                  /\ Ask.kind = "model" /\ Ask.ladder # None
  <2>1. cmd'.id = cmd.id /\ cmd.id # None /\ cmd'.pc \notin {"idle", "swap"}
    BY <1>1, <1>10
  <2>2. KindInv'
    BY <1>1, <1>4, <1>10, <2>1 DEF KindInv, Ask
  <2> QED BY <1>2, <1>10, <2>1, <2>2
<1> QED BY <1>5, <1>6, <1>7, <1>8, <1>9, <1>10, CommandMoves

----------------------------------------------------------------------------
(* Effects.                                                                *)

LEMMA ByOfAppend ==
  ASSUME TypeOK, NEW r \in Rows, log' = Append(log, r), NEW i, NEW key
  PROVE  By(i, key)' = By(i, key) \cup
           (IF r.by = i /\ r.key = key THEN {Len(log) + 1} ELSE {})
PROOF
<1>1. /\ DOMAIN log' = 1 .. Len(log) + 1 /\ DOMAIN log = 1 .. Len(log)
      /\ log'[Len(log) + 1] = r /\ Len(log) \in Nat
      /\ \A n \in 1 .. Len(log) : log'[n] = log[n]
  BY AppendProperties, LenProperties DEF TypeOK
<1> QED BY <1>1 DEF By

\* Who writes to the store, and what, step by step.
LEMMA StoreMoves ==
  ASSUME Base, Next
  PROVE  \/ UNCHANGED log
         \/ \E r \in Rows :
              /\ log' = Append(log, r) /\ r.by = cmd.id /\ cmd.id # None
              /\ \/ cmd.pc = "model" /\ r.key = "selected" /\ cmd'.pc = "swap"
                 \/ cmd.pc = "ladder" /\ r.key = "fallbacks" /\ cmd'.pc = "swapLadder"
                 \/ cmd.pc = "rules" /\ r.key = "rules" /\ cmd'.pc \in {"idle", "swap"}
                 \/ cmd.pc = "mark" /\ r.key = "secret" /\ cmd'.pc = "idle"
         \/ \E r \in Rows : log' = Append(log, r) /\ r.by = None
PROOF
<1> USE DEF At, GoTo, Done, Apply, Idle
<1>0. /\ cmd \in [pc : Steps, id : Ids \cup {None}, val : Models \cup {None}]
      /\ cmd.id = None => cmd.pc \in {"idle", "swap"}
  BY DEF Base, TypeOK, CmdInv
<1>1. CASE SetDefault
  <2>1. Row("selected", Ask.model, cmd.id) \in Rows /\ cmd.id # None
    BY <1>0, <1>1, RowTypes, AskTypes DEF SetDefault
  <2>2. \/ UNCHANGED log
        \/ log' = Append(log, Row("selected", Ask.model, cmd.id)) /\ cmd'.pc = "swap"
    BY <1>0, <1>1 DEF SetDefault
  <2> QED BY <1>1, <2>1, <2>2 DEF Row, SetDefault
<1>2. CASE SetLadder
  <2>1. Row("fallbacks", Ask.ladder, cmd.id) \in Rows /\ cmd.id # None
    BY <1>0, <1>2, RowTypes, AskTypes DEF SetLadder
  <2>2. \/ UNCHANGED log
        \/ log' = Append(log, Row("fallbacks", Ask.ladder, cmd.id)) /\ cmd'.pc = "swapLadder"
    BY <1>0, <1>2 DEF SetLadder
  <2> QED BY <1>2, <2>1, <2>2 DEF Row, SetLadder
<1>3. CASE SetRules
  <2>1. Row("rules", Ask.rule, cmd.id) \in Rows /\ cmd.id # None
    BY <1>0, <1>3, RowTypes, AskTypes DEF SetRules
  <2>2. \/ UNCHANGED log
        \/ log' = Append(log, Row("rules", Ask.rule, cmd.id)) /\ cmd'.pc \in {"idle", "swap"}
    <3>1. \/ UNCHANGED log
          \/ /\ log' = Append(log, Row("rules", Ask.rule, cmd.id))
             /\ cmd' = Idle \/ cmd' = [cmd EXCEPT !.pc = "swap", !.val = Ask.rule]
      BY <1>3 DEF SetRules
    <3>2. [cmd EXCEPT !.pc = "swap", !.val = Ask.rule].pc = "swap"
      BY <1>0
    <3>3. Idle.pc = "idle"
      OBVIOUS
    <3> HIDE DEF Idle
    <3>4. cmd' = Idle \/ cmd' = [cmd EXCEPT !.pc = "swap", !.val = Ask.rule]
            => cmd'.pc \in {"idle", "swap"}
      BY <3>2, <3>3
    <3> QED BY <3>1, <3>4
  <2> QED BY <1>3, <2>1, <2>2 DEF Row, SetRules
<1>4. CASE Mark
  <2>1. Row("secret", Ask.key, cmd.id) \in Rows /\ cmd.id # None
    BY <1>0, <1>4, RowTypes, AskTypes DEF Mark
  <2>2. \/ UNCHANGED log
        \/ log' = Append(log, Row("secret", Ask.key, cmd.id)) /\ cmd'.pc = "idle"
    BY <1>0, <1>4 DEF Mark
  <2> QED BY <1>4, <2>1, <2>2 DEF Row, Mark
<1>5. ASSUME ResetModel \/ \E m \in Models : SwitchModel(m)
      PROVE  UNCHANGED log \/ \E r \in Rows : log' = Append(log, r) /\ r.by = None
  <2>1. \E m \in Models \cup {None} : UNCHANGED log \/ log' = Append(log, Row("selected", m, None))
    BY <1>5 DEF ResetModel, SwitchModel
  <2> QED BY <2>1, RowTypes DEF Row
<1>6. ASSUME NEW b \in Backends, UseBackend(b)
      PROVE  UNCHANGED log \/ \E r \in Rows : log' = Append(log, r) /\ r.by = None
  BY <1>6, RowTypes DEF UseBackend, Row
<1>7. CASE \/ \E i \in Ids : \/ \E p \in Payloads : Create(i, p)
                             \/ Put(i) \/ Abandon(i) \/ Approve(i) \/ Reject(i)
           \/ Swap \/ SwapLadder \/ Take \/ OpenFile \/ FillFile \/ BackUp \/ LookFails \/ OpenSoul
           \/ FillSoul \/ Crash \/ Boot
  BY <1>7 DEF Create, Put, Abandon, Approve, Reject, Swap, SwapLadder, Take, OpenFile, FillFile,
     BackUp, LookFails, OpenSoul, FillSoul, Crash, Boot, disk
<1> QED BY <1>1, <1>2, <1>3, <1>4, <1>5, <1>6, <1>7 DEF Next

\* The rows of its own a command writes, and at which step.
OwnWrites == {<<"model", "selected", "swap">>, <<"ladder", "fallbacks", "swapLadder">>,
              <<"rules", "rules", "swap">>, <<"rules", "rules", "idle">>,
              <<"mark", "secret", "idle">>}

LEMMA OwnRows ==
  ASSUME Base, Next, NEW i \in Ids, NEW key
  PROVE  \/ By(i, key)' = By(i, key)
         \/ /\ i = cmd.id /\ <<cmd.pc, key, cmd'.pc>> \in OwnWrites
            /\ \E n : By(i, key)' = By(i, key) \cup {n}
PROOF
<1>0. TypeOK /\ i # None
  BY ProposalsAssumption DEF Base
<1>a. ASSUME NEW r \in Rows, log' = Append(log, r)
      PROVE  By(i, key)' = By(i, key) \cup
               (IF r.by = i /\ r.key = key THEN {Len(log) + 1} ELSE {})
  BY <1>0, <1>a, ByOfAppend
<1>1. CASE UNCHANGED log
  BY <1>1 DEF By
<1>2. ASSUME NEW r \in Rows, log' = Append(log, r), r.by # i \/ r.key # key
      PROVE  By(i, key)' = By(i, key)
  BY <1>a, <1>2
<1>3. ASSUME NEW r \in Rows, log' = Append(log, r), r.by = i, r.key = key
      PROVE  By(i, key)' = By(i, key) \cup {Len(log) + 1}
  BY <1>a, <1>3
<1>4. ASSUME NEW r \in Rows, log' = Append(log, r), r.by = cmd.id,
             <<cmd.pc, r.key, cmd'.pc>> \in OwnWrites
      PROVE  \/ By(i, key)' = By(i, key)
             \/ /\ i = cmd.id /\ <<cmd.pc, key, cmd'.pc>> \in OwnWrites
                /\ \E n : By(i, key)' = By(i, key) \cup {n}
  <2>1. CASE r.by # i \/ r.key # key
    BY <1>2, <1>4, <2>1
  <2>2. CASE r.by = i /\ r.key = key
    <3>1. By(i, key)' = By(i, key) \cup {Len(log) + 1}
      BY <1>3, <1>4, <2>2
    <3> QED BY <1>4, <2>2, <3>1
  <2> QED BY <2>1, <2>2
<1>5. ASSUME NEW r \in Rows, log' = Append(log, r), r.by = None
      PROVE  By(i, key)' = By(i, key)
  BY <1>0, <1>2, <1>5
<1>6. \/ UNCHANGED log
      \/ \E r \in Rows : /\ log' = Append(log, r) /\ r.by = cmd.id
                         /\ <<cmd.pc, r.key, cmd'.pc>> \in OwnWrites
      \/ \E r \in Rows : log' = Append(log, r) /\ r.by = None
  BY StoreMoves DEF OwnWrites
<1> QED BY <1>1, <1>4, <1>5, <1>6

LEMMA FileMoves ==
  ASSUME Base, Next
  PROVE  /\ \A k \in Keys : \/ file'[k] = file[k] \/ file'[k] = Torn
                            \/ file'[k] = cmd.id /\ cmd.pc = "fill"
         /\ \/ soul' = soul
            \/ soul' = Torn /\ cmd.pc = "openSoul"
            \/ soul' = cmd.id /\ cmd.pc = "fillSoul" /\ cmd'.pc = "idle"
         /\ \/ backups' = backups
            \/ backups' = backups \cup {soul} /\ soul # None /\ cmd.pc = "persona"
PROOF
<1>1. file \in [Keys -> Ids \cup {None, Mounted, Torn}]
  BY DEF Base, TypeOK
<1>2. CASE OpenFile \/ FillFile
  BY <1>1, <1>2 DEF OpenFile, FillFile, At
<1>3. CASE BackUp \/ LookFails \/ OpenSoul \/ FillSoul
  BY <1>3 DEF BackUp, LookFails, OpenSoul, FillSoul, At, Done, Idle
<1>4. \/ OpenFile \/ FillFile \/ BackUp \/ LookFails \/ OpenSoul \/ FillSoul
      \/ UNCHANGED <<file, soul, backups>>
  BY DEF Next, Create, Put, Abandon, Approve, Reject, SetDefault, Swap, SetLadder, SwapLadder,
     SetRules, Take, Mark, SwitchModel, ResetModel, UseBackend, keepSwitch, keepDisk,
     Crash, Boot, disk
<1> QED BY <1>2, <1>3, <1>4

LEMMA EffectStep ==
  ASSUME Base, EffectInv, Next
  PROVE  EffectInv'
PROOF
<1> USE DEF EffectInv
<1>1. /\ cmd \in [pc : Steps, id : Ids \cup {None}, val : Models \cup {None}]
      /\ cmd.id # None => row[cmd.id] = "approved"
      /\ None \notin Ids /\ {Torn, Mounted} \cap Ids = {}
  BY ProposalsAssumption DEF Base, CmdInv, TypeOK, KindInv
<1>2. \A i \in Ids : \A key \in Unwritten(cmd.pc) : i = cmd.id => By(i, key) = {}
  BY <1>1 DEF OwnUnwritten
<1>3. RowsOnce'
  <2> SUFFICES ASSUME NEW i \in Ids, NEW key \in LogKeys, By(i, key)' # {}
               PROVE  row'[i] = "approved" /\ \E n \in By(i, key)' : By(i, key)' = {n}
    BY DEF RowsOnce
  <2>1. By(i, key) # {} =>
          row'[i] = "approved" /\ \E n \in By(i, key) : By(i, key) = {n}
    BY StayApproved DEF RowsOnce
  <2>2. CASE By(i, key)' = By(i, key)
    BY <2>1, <2>2
  <2>3. ASSUME i = cmd.id, <<cmd.pc, key, cmd'.pc>> \in OwnWrites,
               NEW n, By(i, key)' = By(i, key) \cup {n}
        PROVE  row'[i] = "approved" /\ \E m \in By(i, key)' : By(i, key)' = {m}
    <3>1. key \in Unwritten(cmd.pc)
      BY <2>3 DEF OwnWrites, Unwritten
    <3>2. By(i, key)' = {n}
      BY <1>2, <2>3, <3>1
    <3>3. row'[i] = "approved"
      BY <1>1, <2>3, StayApproved
    <3> QED BY <3>2, <3>3
  <2> QED BY <2>2, <2>3, OwnRows
<1>4. FilesApproved'
  <2>1. ASSUME NEW i \in Ids, i = soul' \/ i \in backups' \/ \E k \in Keys : file'[k] = i
        PROVE  i = cmd.id \/ i = soul \/ i \in backups \/ \E k \in Keys : file[k] = i
    BY <1>1, <2>1, FileMoves
  <2>2. ASSUME NEW i \in Ids, i = cmd.id PROVE row[i] = "approved"
    BY <1>1, <2>2
  <2> QED BY <2>1, <2>2, StayApproved DEF FilesApproved
<1>5. OwnUnwritten'
  <2>1. ASSUME NEW i \in Ids, i = cmd.id, cmd'.id = cmd.id,
               \A key \in Unwritten(cmd'.pc) :
                 key \in Unwritten(cmd.pc) /\ <<cmd.pc, key, cmd'.pc>> \notin OwnWrites
        PROVE  OwnUnwritten'
    <3>1. ASSUME NEW key \in Unwritten(cmd'.pc) PROVE By(i, key)' = {}
      BY <1>2, <2>1, <3>1, OwnRows
    <3>2. cmd'.id = i
      BY <2>1
    <3> QED BY <3>1, <3>2 DEF OwnUnwritten
  <2>2. ASSUME NEW i \in Ids, Approve(i) PROVE OwnUnwritten'
    <3>1. cmd'.id = i /\ row[i] = "pending" /\ UNCHANGED log
      BY <2>2 DEF Approve, Resolvable
    <3>2. Unwritten(cmd'.pc) \subseteq LogKeys
      BY DEF Unwritten, LogKeys
    <3>3. \A key \in LogKeys : By(i, key) = {}
      BY <3>1 DEF RowsOnce
    <3>4. \A key \in LogKeys : By(i, key)' = {}
      BY <3>1, <3>3 DEF By
    <3> QED BY <3>1, <3>2, <3>4 DEF OwnUnwritten
  <2>3. CASE cmd'.id = None
    BY <2>3 DEF OwnUnwritten
  <2>4. CASE /\ cmd'.id = cmd.id /\ cmd.id \in Ids
             /\ \A key \in Unwritten(cmd'.pc) :
                  key \in Unwritten(cmd.pc) /\ <<cmd.pc, key, cmd'.pc>> \notin OwnWrites
    BY <2>1, <2>4
  <2>5. CASE UNCHANGED cmd
    BY <1>1, <2>3, <2>4, <2>5 DEF OwnWrites
  <2>6. CASE /\ cmd' = [cmd EXCEPT !.pc = "swap", !.val = cmd'.val]
             /\ cmd.pc \in {"model", "rules"} /\ cmd'.val # None
    <3>1. cmd'.pc = "swap" /\ cmd'.id = cmd.id
      BY <1>1, <2>6
    <3>2. \A key \in Unwritten(cmd'.pc) :
            key \in Unwritten(cmd.pc) /\ <<cmd.pc, key, cmd'.pc>> \notin OwnWrites
      BY <2>6, <3>1 DEF Unwritten, OwnWrites
    <3> QED BY <1>1, <2>3, <2>4, <3>1, <3>2
  <2>7. CASE /\ cmd' = [cmd EXCEPT !.pc = cmd'.pc]
             /\ \/ <<cmd.pc, cmd'.pc>> \in {<<"ladder", "swapLadder">>, <<"take", "open">>,
                                            <<"open", "fill">>, <<"fill", "mark">>,
                                            <<"persona", "openSoul">>,
                                            <<"openSoul", "fillSoul">>}
                \/ /\ cmd.pc = "swap" /\ cmd'.pc = "ladder" /\ cmd.id # None
                   /\ Ask.kind = "model" /\ Ask.ladder # None
    <3>1. cmd'.id = cmd.id
      BY <1>1, <2>7
    <3>2. \A key \in Unwritten(cmd'.pc) :
            key \in Unwritten(cmd.pc) /\ <<cmd.pc, key, cmd'.pc>> \notin OwnWrites
      BY <2>7 DEF Unwritten, OwnWrites
    <3> QED BY <1>1, <2>3, <2>4, <3>1, <3>2
  <2>8. CASE cmd' = Idle
    BY <2>3, <2>8 DEF Idle
  <2> QED BY <2>2, <2>3, <2>5, <2>6, <2>7, <2>8, CommandMoves
<1> QED BY <1>3, <1>4, <1>5

----------------------------------------------------------------------------
(* The persona file.                                                       *)

LEMMA SoulStep ==
  ASSUME Base, SoulInv, Next
  PROVE  SoulInv'
PROOF
<1> USE DEF SoulInv, At, Done, GoTo, Idle
<1>0. cmd \in [pc : Steps, id : Ids \cup {None}, val : Models \cup {None}]
  BY DEF Base, TypeOK
<1>01. /\ Idle.pc = "idle"
       /\ \A m : [cmd EXCEPT !.pc = "swap", !.val = m].pc = "swap"
       /\ \A pc : [cmd EXCEPT !.pc = pc].pc = pc
  BY <1>0
<1>1. CASE BackUp
  BY <1>0, <1>1 DEF BackUp
<1>2. CASE OpenSoul
  BY <1>0, <1>2 DEF OpenSoul
<1>3. CASE FillSoul
  BY <1>0, <1>3 DEF FillSoul
<1>4. ASSUME NEW i \in Ids, Approve(i) PROVE SoulInv'
  <2>1. asked[i] \in Payloads
    BY <1>4 DEF Approve, Resolvable, Base, AskedInv
  <2>2. cmd'.pc \notin {"openSoul", "fillSoul"}
    BY <1>4, <2>1, FirstSteps DEF Approve
  <2> QED BY <2>2
<1>11. CASE LookFails
  BY <1>0, <1>11 DEF LookFails
<1>5. CASE UNCHANGED <<soul, backups, cmd, unseen>>
  BY <1>5
<1>6. CASE cmd'.pc \notin {"openSoul", "fillSoul"}
  BY <1>6
<1>7. CASE SetDefault \/ Swap \/ SetLadder \/ SwapLadder \/ SetRules
  <2> HIDE DEF Idle
  <2>1. CASE SetDefault \/ SetRules
    BY <1>01, <2>1 DEF SetDefault, SetRules
  <2>2. CASE Swap
    BY <1>01, <2>2 DEF Swap, AfterSwap
  <2>3. CASE SetLadder
    BY <1>01, <2>3 DEF SetLadder
  <2>4. CASE SwapLadder
    BY <1>01, <2>4 DEF SwapLadder
  <2> QED BY <1>7, <2>1, <2>2, <2>3, <2>4
<1>8. CASE Take \/ OpenFile \/ FillFile \/ Mark
  <2>1. cmd'.pc \notin {"openSoul", "fillSoul"}
    BY <1>0, <1>8 DEF Take, OpenFile, FillFile, Mark
  <2> QED BY <1>6, <2>1
<1>9. CASE ResetModel \/ (\E m \in Models : SwitchModel(m)) \/ Crash
  <2>1. UNCHANGED <<soul, backups, cmd, unseen>> \/ cmd'.pc \notin {"openSoul", "fillSoul"}
    BY <1>9 DEF ResetModel, SwitchModel, keepSwitch, Crash
  <2> QED BY <1>5, <1>6, <2>1
<1>10. CASE \/ \E i \in Ids : \/ \E p \in Payloads : Create(i, p)
                              \/ Put(i) \/ Abandon(i) \/ Reject(i)
            \/ \E b \in Backends : UseBackend(b)
            \/ Boot
  BY <1>5, <1>10 DEF Create, Put, Abandon, Reject, keepDisk, keepRest,
     UseBackend, keepSwitch, Boot, disk
<1> QED BY <1>1, <1>2, <1>3, <1>4, <1>7, <1>8, <1>9, <1>10, <1>11 DEF Next

----------------------------------------------------------------------------
(* The store and the live handles.                                         *)

LEMMA SameWords ==
  ASSUME UNCHANGED <<log, base>>
  PROVE  UNCHANGED <<LiveWord, LadderWord, BackendWord>>
PROOF
BY DEF LiveWord, LadderWord, BackendWord, LastWord, OfThisLife, AtBoot

\* What a step that leaves the store alone does to the handles.
Quiet == /\ UNCHANGED <<log, base, LiveSoon, LadderSoon>>
         /\ harm' >= harm
         /\ harm' = harm => backend' = backend

\* What a row does to them.
Told(r) ==
  /\ log' = Append(log, r) /\ UNCHANGED <<base, harm>>
  /\ LiveSoon' = IF r.key \in {"selected", "rules"} /\ (r.key = "rules" => r.val # None)
                 THEN OrElse(r.val, TomlModel) ELSE LiveSoon
  /\ LadderSoon' = IF r.key = "fallbacks" THEN r.val ELSE LadderSoon
  /\ backend' = IF r.key = "backend" THEN r.val ELSE backend

LEMMA CommandHandles ==
  ASSUME Base, SetDefault \/ Swap \/ SetLadder \/ SwapLadder \/ SetRules \/ Mark
  PROVE  Quiet \/ \E r \in Rows : Told(r)
PROOF
<1> USE DEF At, GoTo, Done, keepLive, keepRest, keepDisk
<1>0. /\ cmd \in [pc : Steps, id : Ids \cup {None}, val : Models \cup {None}]
      /\ harm \in Nat /\ cmd.id \in Ids \cup {None}
  BY ProposalsAssumption DEF Base, TypeOK
<1>1. Fault => harm' = harm + 1
  BY DEF Fault
<1>2. /\ Idle.pc = "idle"
      /\ \A m : [cmd EXCEPT !.pc = "swap", !.val = m].pc = "swap"
      /\ \A m : [cmd EXCEPT !.pc = "swap", !.val = m].val = m
      /\ \A pc : [cmd EXCEPT !.pc = pc].pc = pc /\ [cmd EXCEPT !.pc = pc].id = cmd.id
  BY <1>0 DEF Idle
<1>3. CASE SetDefault
  <2>1. Ask.model \in Models /\ Row("selected", Ask.model, cmd.id) \in Rows
    BY <1>0, <1>3, RowTypes, AskTypes DEF SetDefault
  <2>2. OrElse(Ask.model, TomlModel) = Ask.model
    BY <2>1, ProposalsAssumption DEF OrElse
  <2>3. \/ cmd' = Idle /\ UNCHANGED log /\ (Fault \/ UNCHANGED harm)
        \/ /\ Apply(Row("selected", Ask.model, cmd.id))
           /\ cmd' = [cmd EXCEPT !.pc = "swap", !.val = Ask.model]
    BY <1>3 DEF SetDefault
  <2>4. cmd.pc = "model" /\ UNCHANGED <<live, ladder, backend, base>>
    BY <1>3 DEF SetDefault
  <2>5. CASE cmd' = Idle /\ UNCHANGED log /\ (Fault \/ UNCHANGED harm)
    BY <1>0, <1>1, <1>2, <2>4, <2>5 DEF Quiet, LiveSoon, LadderSoon
  <2>6. CASE /\ Apply(Row("selected", Ask.model, cmd.id))
             /\ cmd' = [cmd EXCEPT !.pc = "swap", !.val = Ask.model]
    <3>1. LiveSoon' = Ask.model /\ LadderSoon' = LadderSoon
      BY <1>2, <2>4, <2>6 DEF LiveSoon, LadderSoon
    <3>2. Told(Row("selected", Ask.model, cmd.id))
      BY <2>2, <2>4, <2>6, <3>1 DEF Told, Apply, Row
    <3> QED BY <2>1, <3>2
  <2> QED BY <2>3, <2>5, <2>6
<1>4. CASE Swap
  <2>1. cmd'.pc \in {"ladder", "idle"}
    BY <1>2, <1>4 DEF Swap, AfterSwap
  <2>2. cmd.pc = "swap" /\ live' = cmd.val /\ UNCHANGED <<log, base, ladder, backend, harm>>
    BY <1>4 DEF Swap
  <2> QED BY <1>0, <2>1, <2>2 DEF Quiet, LiveSoon, LadderSoon
<1>5. CASE SetLadder
  <2>1. Row("fallbacks", Ask.ladder, cmd.id) \in Rows
    BY <1>0, <1>5, RowTypes, AskTypes DEF SetLadder
  <2>2. cmd.pc = "ladder" /\ UNCHANGED <<live, ladder, backend, base, asked>>
    BY <1>5 DEF SetLadder
  <2>3. \/ cmd' = Idle /\ UNCHANGED log /\ Fault
        \/ Apply(Row("fallbacks", Ask.ladder, cmd.id)) /\ cmd' = [cmd EXCEPT !.pc = "swapLadder"]
    BY <1>5 DEF SetLadder
  <2>4. CASE cmd' = Idle /\ UNCHANGED log /\ Fault
    BY <1>0, <1>1, <1>2, <2>2, <2>4 DEF Quiet, LiveSoon, LadderSoon
  <2>5. CASE Apply(Row("fallbacks", Ask.ladder, cmd.id)) /\ cmd' = [cmd EXCEPT !.pc = "swapLadder"]
    <3>1. LiveSoon' = LiveSoon /\ LadderSoon' = Ask.ladder
      BY <1>2, <2>2, <2>5 DEF LiveSoon, LadderSoon, Ask
    <3>2. Told(Row("fallbacks", Ask.ladder, cmd.id))
      BY <2>2, <2>5, <3>1 DEF Told, Apply, Row
    <3> QED BY <2>1, <3>2
  <2> QED BY <2>3, <2>4, <2>5
<1>6. CASE SwapLadder
  <2>1. cmd'.pc = "idle" /\ cmd.pc = "swapLadder" /\ ladder' = Ask.ladder
        /\ UNCHANGED <<log, base, live, backend, harm>>
    BY <1>2, <1>6 DEF SwapLadder
  <2> QED BY <1>0, <2>1 DEF Quiet, LiveSoon, LadderSoon
<1>7. CASE SetRules
  <2>1. Ask.rule \in Models \cup {None} /\ Row("rules", Ask.rule, cmd.id) \in Rows
    BY <1>0, <1>7, RowTypes, AskTypes DEF SetRules
  <2>2. Ask.rule # None => OrElse(Ask.rule, TomlModel) = Ask.rule
    BY DEF OrElse
  <2>3. cmd.pc = "rules" /\ UNCHANGED <<live, ladder, backend, base>>
    BY <1>7 DEF SetRules
  <2>4. \/ cmd' = Idle /\ UNCHANGED log /\ (Fault \/ UNCHANGED harm)
        \/ /\ Apply(Row("rules", Ask.rule, cmd.id))
           /\ cmd' = IF Ask.rule = None THEN Idle
                     ELSE [cmd EXCEPT !.pc = "swap", !.val = Ask.rule]
    BY <1>7 DEF SetRules
  <2>5. CASE cmd' = Idle /\ UNCHANGED log /\ (Fault \/ UNCHANGED harm)
    BY <1>0, <1>1, <1>2, <2>3, <2>5 DEF Quiet, LiveSoon, LadderSoon
  <2>6. CASE /\ Apply(Row("rules", Ask.rule, cmd.id))
             /\ cmd' = IF Ask.rule = None THEN Idle
                       ELSE [cmd EXCEPT !.pc = "swap", !.val = Ask.rule]
    <3>1. /\ LiveSoon' = IF Ask.rule = None THEN LiveSoon ELSE Ask.rule
          /\ LadderSoon' = LadderSoon
      BY <1>2, <2>3, <2>6 DEF LiveSoon, LadderSoon
    <3>2. Told(Row("rules", Ask.rule, cmd.id))
      BY <2>2, <2>3, <2>6, <3>1 DEF Told, Apply, Row
    <3> QED BY <2>1, <3>2
  <2> QED BY <2>4, <2>5, <2>6
<1>8. CASE Mark
  <2>1. Row("secret", Ask.key, cmd.id) \in Rows
    BY <1>0, <1>8, RowTypes, AskTypes DEF Mark
  <2>2. /\ cmd'.pc = "idle" /\ cmd.pc = "mark" /\ UNCHANGED <<live, ladder, backend, base>>
        /\ \/ Apply(Row("secret", Ask.key, cmd.id))
           \/ Fault /\ UNCHANGED log
    BY <1>2, <1>8 DEF Mark
  <2>3. LiveSoon' = LiveSoon /\ LadderSoon' = LadderSoon
    BY <2>2 DEF LiveSoon, LadderSoon
  <2>4. CASE Apply(Row("secret", Ask.key, cmd.id))
    BY <2>1, <2>2, <2>3, <2>4 DEF Told, Apply, Row
  <2>5. CASE Fault /\ UNCHANGED log
    BY <1>0, <1>1, <2>2, <2>3, <2>5 DEF Quiet
  <2> QED BY <2>2, <2>4, <2>5
<1> QED BY <1>3, <1>4, <1>5, <1>6, <1>7, <1>8

LEMMA SwitchHandles ==
  ASSUME Base, \/ ResetModel \/ \E m \in Models : SwitchModel(m)
               \/ \E b \in Backends : UseBackend(b)
  PROVE  Quiet \/ \E r \in Rows : Told(r)
PROOF
<1>0. harm \in Nat
  BY ProposalsAssumption DEF Base, TypeOK
<1>1. Fault => harm' = harm + 1
  BY DEF Fault
<1>2. ASSUME NEW m \in Models \cup {None}, NEW v \in Models, v = OrElse(m, TomlModel),
             cmd = Idle, UNCHANGED <<live, ladder, backend, base>>,
             \/ /\ Apply(Row("selected", m, None))
                /\ cmd' = [pc |-> "swap", id |-> None, val |-> v]
             \/ Fault /\ UNCHANGED <<log, cmd>>
      PROVE  Quiet \/ \E r \in Rows : Told(r)
  <2>1. Row("selected", m, None) \in Rows
    BY RowTypes
  <2>2. CASE /\ Apply(Row("selected", m, None))
             /\ cmd' = [pc |-> "swap", id |-> None, val |-> v]
    <3>1. LiveSoon' = v /\ LadderSoon' = LadderSoon
      BY <1>2, <2>2 DEF LiveSoon, LadderSoon, Idle
    <3>2. Told(Row("selected", m, None))
      BY <1>2, <2>2, <3>1 DEF Told, Apply, Row
    <3> QED BY <2>1, <3>2
  <2>3. CASE Fault /\ UNCHANGED <<log, cmd>>
    BY <1>0, <1>1, <1>2, <2>3 DEF Quiet, LiveSoon, LadderSoon, Idle
  <2> QED BY <1>2, <2>2, <2>3
<1>3. CASE ResetModel
  <2>1. /\ cmd = Idle /\ UNCHANGED <<live, ladder, backend, base>>
        /\ \/ /\ Apply(Row("selected", None, None))
              /\ cmd' = [pc |-> "swap", id |-> None, val |-> TomlModel]
           \/ Fault /\ UNCHANGED <<log, cmd>>
    BY <1>3 DEF ResetModel, ASwitch, AtPrompt, keepSwitch, keepLive
  <2>2. TomlModel = OrElse(None, TomlModel) /\ TomlModel \in Models
    BY ProposalsAssumption DEF OrElse
  <2> QED BY <1>2, <2>1, <2>2
<1>4. ASSUME NEW m \in Models, SwitchModel(m) PROVE Quiet \/ \E r \in Rows : Told(r)
  <2>1. /\ cmd = Idle /\ UNCHANGED <<live, ladder, backend, base>>
        /\ \/ /\ Apply(Row("selected", m, None))
              /\ cmd' = [pc |-> "swap", id |-> None, val |-> m]
           \/ Fault /\ UNCHANGED <<log, cmd>>
    BY <1>4 DEF SwitchModel, ASwitch, AtPrompt, keepSwitch, keepLive
  <2>2. m = OrElse(m, TomlModel)
    BY ProposalsAssumption DEF OrElse
  <2> QED BY <1>2, <2>1, <2>2
<1>5. ASSUME NEW b \in Backends, UseBackend(b) PROVE Quiet \/ \E r \in Rows : Told(r)
  <2>1. /\ cmd = Idle /\ backend' = b /\ UNCHANGED <<live, ladder, base, cmd>>
        /\ Apply(Row("backend", b, None)) \/ (Fault /\ UNCHANGED log)
    BY <1>5 DEF UseBackend, ASwitch, AtPrompt, keepSwitch
  <2>2. UNCHANGED <<LiveSoon, LadderSoon>>
    BY <2>1 DEF LiveSoon, LadderSoon, Idle
  <2>3. CASE Apply(Row("backend", b, None))
    <3>1. Told(Row("backend", b, None))
      BY <2>1, <2>2, <2>3 DEF Told, Apply, Row
    <3> QED BY <3>1, RowTypes
  <2>4. CASE Fault /\ UNCHANGED log
    BY <1>0, <1>1, <2>1, <2>2, <2>4 DEF Quiet
  <2> QED BY <2>1, <2>3, <2>4
<1> QED BY <1>3, <1>4, <1>5

LEMMA QuietSteps ==
  ASSUME Base,
         \/ \E i \in Ids : \/ \E p \in Payloads : Create(i, p)
                           \/ Put(i) \/ Abandon(i) \/ Approve(i) \/ Reject(i)
         \/ Take \/ OpenFile \/ FillFile \/ BackUp \/ LookFails \/ OpenSoul \/ FillSoul
  PROVE  Quiet
PROOF
<1>0. /\ cmd \in [pc : Steps, id : Ids \cup {None}, val : Models \cup {None}]
      /\ harm \in Nat
  BY ProposalsAssumption DEF Base, TypeOK
<1>1. UNCHANGED <<log, base, live, ladder, backend>>
  BY DEF Create, Put, Abandon, Approve, Reject, Take, OpenFile, FillFile, BackUp,
     LookFails, OpenSoul, FillSoul, keepLive, keepRest
<1>2. harm' >= harm
  <2>1. harm' = harm \/ Fault
    BY DEF Create, Put, Abandon, Approve, Reject, Take, OpenFile, FillFile, BackUp,
       LookFails, OpenSoul, FillSoul
  <2> QED BY <1>0, <2>1 DEF Fault
<1>3. CASE cmd.pc \notin {"swap", "swapLadder"} /\ cmd'.pc \notin {"swap", "swapLadder"}
  BY <1>1, <1>2, <1>3 DEF Quiet, LiveSoon, LadderSoon
<1>4. CASE \E i \in Ids : (\E p \in Payloads : Create(i, p)) \/ Put(i) \/ Abandon(i) \/ Reject(i)
  <2>1. UNCHANGED cmd /\ Next
    BY <1>4 DEF Create, Put, Abandon, Reject, Next
  <2>2. cmd.pc = "swapLadder" => Ask' = Ask
    <3>1. cmd.pc = "swapLadder" => cmd.id \in Ids /\ row[cmd.id] = "approved"
      BY AskTypes, ProposalsAssumption DEF Base, CmdInv, KindInv
    <3> QED BY <2>1, <3>1, StayApproved DEF Ask
  <2> QED BY <1>1, <1>2, <2>1, <2>2 DEF Quiet, LiveSoon, LadderSoon
<1>5. ASSUME NEW i \in Ids, Approve(i) PROVE Quiet
  <2>1. asked[i] \in Payloads
    BY <1>5 DEF Approve, Resolvable, Base, AskedInv
  <2>2. cmd'.pc \notin {"swap", "swapLadder"}
    BY <1>5, <2>1, FirstSteps DEF Approve
  <2>3. cmd.pc = "idle"
    BY <1>5 DEF Approve, AtPrompt, Idle
  <2> QED BY <1>3, <2>2, <2>3
<1>6. CASE Take \/ OpenFile \/ FillFile \/ BackUp \/ LookFails \/ OpenSoul \/ FillSoul
  <2>1. cmd.pc \notin {"swap", "swapLadder"} /\ cmd'.pc \notin {"swap", "swapLadder"}
    BY <1>0, <1>6 DEF Take, OpenFile, FillFile, BackUp, LookFails, OpenSoul, FillSoul, At,
       GoTo, Done, Idle
  <2> QED BY <1>3, <2>1
<1> QED BY <1>4, <1>5, <1>6

\* Every step of a running process but its end says what it does.
LEMMA HandleMoves ==
  ASSUME Base, Next
  PROVE  \/ Quiet /\ status' = status
         \/ (\E r \in Rows : Told(r)) /\ status' = status
         \/ Crash \/ Boot
PROOF
<1>1. status' = status \/ Crash \/ Boot
  BY DEF Next, Create, Put, Abandon, Approve, Reject, SetDefault, Swap, SetLadder, SwapLadder,
     SetRules, Take, OpenFile, FillFile, Mark, BackUp, LookFails, OpenSoul, FillSoul, SwitchModel,
     ResetModel, UseBackend, keepSwitch, keepRest
<1> QED BY <1>1, CommandHandles, SwitchHandles, QuietSteps DEF Next

LEMMA WordsStep ==
  ASSUME Base, WordsInv, Next
  PROVE  WordsInv'
PROOF
<1>0. TypeOK /\ harm \in Nat /\ (Up => status' = "down" \/ Up)
  BY ProposalsAssumption DEF Base, TypeOK
<1>1. CASE Quiet /\ status' = status
  <2>1. harm' = 0 => harm = 0 /\ backend' = backend
    BY <1>0, <1>1, TypeStep DEF Quiet, TypeOK
  <2>2. UNCHANGED <<LiveWord, LadderWord, BackendWord>>
    BY <1>1, SameWords DEF Quiet
  <2> QED BY <1>1, <2>1, <2>2 DEF WordsInv, Quiet, Up, Unharmed
<1>2. ASSUME NEW r \in Rows, Told(r), status' = status PROVE WordsInv'
  <2>1. /\ LiveWord' = IF r.key \in {"selected", "rules"} /\ (r.key = "rules" => r.val # None)
                        THEN OrElse(r.val, TomlModel) ELSE LiveWord
        /\ LadderWord' = IF r.key = "fallbacks" THEN r.val ELSE LadderWord
        /\ BackendWord' = IF r.key = "backend" THEN r.val ELSE BackendWord
    BY <1>0, <1>2, WordsOfAppend DEF Told
  <2> QED BY <1>2, <2>1 DEF Told, WordsInv, Up, Unharmed
<1>3. CASE Crash
  BY <1>3 DEF Crash, WordsInv, Up
<1>4. CASE Boot
  <2>1. Up' => /\ live' = BootModel(log) /\ ladder' = BootLadder(log)
               /\ backend' = BootBackend(log)
    BY <1>4 DEF Boot, Up
  <2>2. cmd' = Idle
    BY <1>4 DEF Boot, Base, CmdInv, Up
  <2>3. UNCHANGED log /\ base' = Len(log)
    BY <1>4 DEF Boot, disk
  <2> QED BY <1>0, <2>1, <2>2, <2>3, WordsAtBoot DEF WordsInv, LiveSoon, LadderSoon, Idle
<1> QED BY <1>1, <1>2, <1>3, <1>4, HandleMoves

LEMMA LadderStep ==
  ASSUME Base, LadderInv, Next
  PROVE  LadderInv'
PROOF
<1>1. CASE Quiet /\ status' = status
  BY <1>1 DEF LadderInv, Quiet, Up
<1>2. ASSUME NEW r \in Rows, Told(r), status' = status PROVE LadderInv'
  <2>1. Latest(log', "fallbacks") = IF r.key = "fallbacks" THEN r.val ELSE Latest(log, "fallbacks")
    BY <1>2, LatestOfAppend DEF Told, Base, TypeOK
  <2>2. CASE r.key = "fallbacks"
    <3>1. r.val # None
      BY <2>2, ProposalsAssumption DEF Rows, ValuesOf
    <3>2. LadderSoon' = r.val
      BY <1>2, <2>2 DEF Told
    <3>3. r.val # NoModels => BootLadder(log)' = r.val
      BY <2>1, <2>2, <3>1 DEF BootLadder
    <3> QED BY <3>2, <3>3 DEF LadderInv
  <2>3. CASE r.key # "fallbacks"
    <3>1. LadderSoon' = LadderSoon
      BY <1>2, <2>3 DEF Told
    <3>2. BootLadder(log)' = BootLadder(log)
      BY <2>1, <2>3 DEF BootLadder
    <3> QED BY <1>2, <3>1, <3>2 DEF LadderInv, Up
  <2> QED BY <2>2, <2>3
<1>3. CASE Crash
  BY <1>3 DEF Crash, LadderInv, Up
<1>4. CASE Boot
  <2>1. cmd' = Idle /\ UNCHANGED log
    BY <1>4 DEF Boot, Base, CmdInv, Up, disk
  <2>2. Up' => ladder' = BootLadder(log)
    BY <1>4 DEF Boot, Up
  <2> QED BY <2>1, <2>2 DEF LadderInv, LadderSoon, Idle
<1> QED BY <1>1, <1>2, <1>3, <1>4, HandleMoves

----------------------------------------------------------------------------
(* The two halves of a model proposal.                                     *)

LEMMA HarmGrows == ASSUME Base, Next PROVE harm' >= harm
PROOF
<1>1. harm \in Nat
  BY ProposalsAssumption DEF Base, TypeOK
<1> QED BY <1>1, HandleMoves DEF Quiet, Told, Crash, Boot, Fault

\* A command's row is its proposal's, and one of a single key.
LEMMA OwnAppend ==
  ASSUME Base, NEW i \in Ids, NEW key, NEW v, Row(key, v, i) \in Rows,
         Apply(Row(key, v, i))
  PROVE  By(i, key)' # {} /\ \A k : k # key => By(i, k)' = By(i, k)
PROOF
<1>1. ASSUME NEW k
      PROVE  By(i, k)' = By(i, k) \cup (IF k = key THEN {Len(log) + 1} ELSE {})
  <2>1. Row(key, v, i).by = i /\ Row(key, v, i).key = key
    BY DEF Row
  <2>2. By(i, k)' = By(i, k) \cup
          (IF Row(key, v, i).by = i /\ Row(key, v, i).key = k THEN {Len(log) + 1} ELSE {})
    BY ByOfAppend DEF Base, Apply
  <2> QED BY <2>1, <2>2
<1> QED BY <1>1

\* The command of such a proposal, step by step.
LEMMA HalfStep ==
  ASSUME Base, EffectInv, Next, NEW i \in Ids, OfBoth(i), Half(i), cmd.id = i
  PROVE  Half(i)'
PROOF
<1> USE DEF At, GoTo, Done, Unharmed
<1>0. /\ cmd \in [pc : Steps, id : Ids \cup {None}, val : Models \cup {None}]
      /\ harm \in Nat /\ i # None /\ Ask = asked[i]
      /\ cmd.pc \in {"model", "swap", "ladder", "swapLadder"}
  <2>1. KindInv /\ cmd.pc # "idle" /\ cmd.pc \in Steps /\ i # None
    BY ProposalsAssumption DEF Base, TypeOK, CmdInv, Idle
  <2> QED BY <2>1, ProposalsAssumption DEF Base, TypeOK, KindInv, Ask, OfBoth, Steps
<1>1. /\ Idle.pc = "idle" /\ Idle.id # i
      /\ \A m : /\ [cmd EXCEPT !.pc = "swap", !.val = m].pc = "swap"
                /\ [cmd EXCEPT !.pc = "swap", !.val = m].id = i
      /\ \A pc : [cmd EXCEPT !.pc = pc].pc = pc /\ [cmd EXCEPT !.pc = pc].id = i
  BY <1>0 DEF Idle
<1>2. Fault => harm' # 0
  BY <1>0 DEF Fault
<1>3. UNCHANGED log => \A key : By(i, key)' = By(i, key)
  BY DEF By
<1>4. cmd.pc = "model" => By(i, "selected") = {} /\ By(i, "fallbacks") = {}
  BY <1>0 DEF EffectInv, OwnUnwritten, Unwritten
<1>5. CASE SetDefault
  <2>1. cmd.pc = "model" /\ Row("selected", Ask.model, i) \in Rows
    BY <1>5, RowTypes, AskTypes DEF SetDefault
  <2>2. \/ cmd' = Idle /\ UNCHANGED log
        \/ /\ Apply(Row("selected", Ask.model, i))
           /\ cmd' = [cmd EXCEPT !.pc = "swap", !.val = Ask.model]
    BY <1>5 DEF SetDefault
  <2>3. CASE cmd' = Idle /\ UNCHANGED log
    BY <1>1, <1>3, <1>4, <2>1, <2>3 DEF Half
  <2>4. CASE /\ Apply(Row("selected", Ask.model, i))
             /\ cmd' = [cmd EXCEPT !.pc = "swap", !.val = Ask.model]
    <3>1. By(i, "selected")' # {} /\ By(i, "fallbacks")' = By(i, "fallbacks")
      BY <2>1, <2>4, OwnAppend
    <3>2. cmd'.pc = "swap" /\ cmd'.id = i
      BY <1>1, <2>4
    <3> QED BY <3>1, <3>2 DEF Half
  <2> QED BY <2>2, <2>3, <2>4
<1>6. CASE Swap
  <2>1. UNCHANGED log /\ cmd.pc = "swap"
    BY <1>6 DEF Swap
  <2>2. cmd'.pc = "ladder" /\ cmd'.id = i
    BY <1>0, <1>1, <1>6 DEF Swap, AfterSwap, OfBoth
  <2> QED BY <1>3, <2>1, <2>2 DEF Half
<1>7. CASE SetLadder
  <2>1. cmd.pc = "ladder" /\ Row("fallbacks", Ask.ladder, i) \in Rows
    BY <1>7, RowTypes, AskTypes DEF SetLadder
  <2>2. \/ cmd' = Idle /\ UNCHANGED log /\ Fault
        \/ /\ Apply(Row("fallbacks", Ask.ladder, i))
           /\ cmd' = [cmd EXCEPT !.pc = "swapLadder"]
    BY <1>7 DEF SetLadder
  <2>3. CASE cmd' = Idle /\ UNCHANGED log /\ Fault
    BY <1>1, <1>2, <1>3, <2>1, <2>3 DEF Half
  <2>4. CASE Apply(Row("fallbacks", Ask.ladder, i)) /\ cmd' = [cmd EXCEPT !.pc = "swapLadder"]
    <3>1. By(i, "fallbacks")' # {} /\ By(i, "selected")' = By(i, "selected")
      BY <2>1, <2>4, OwnAppend
    <3>2. cmd'.pc = "swapLadder" /\ cmd'.id = i
      BY <1>1, <2>4
    <3> QED BY <2>1, <3>1, <3>2 DEF Half
  <2> QED BY <2>2, <2>3, <2>4
<1>8. CASE SwapLadder
  <2>1. UNCHANGED log /\ cmd.pc = "swapLadder" /\ cmd' = Idle
    BY <1>8 DEF SwapLadder
  <2> QED BY <1>1, <1>3, <2>1 DEF Half
<1>9. CASE Crash
  <2>1. UNCHANGED log /\ cmd' = Idle /\ harm' # 0
    BY <1>2, <1>9 DEF Crash, disk
  <2> QED BY <1>1, <1>3, <2>1 DEF Half
<1>10. CASE UNCHANGED <<log, cmd, harm>>
  BY <1>3, <1>10 DEF Half
<1>11. \/ SetDefault \/ Swap \/ SetLadder \/ SwapLadder \/ Crash
       \/ UNCHANGED <<log, cmd, harm>>
  <2>1. cmd # Idle /\ (~Up => cmd = Idle)
    BY <1>0 DEF Base, CmdInv, Idle
  <2>2. /\ ~SetRules /\ ~Take /\ ~OpenFile /\ ~FillFile /\ ~Mark
        /\ ~BackUp /\ ~LookFails /\ ~OpenSoul /\ ~FillSoul
    BY <1>0 DEF SetRules, Take, OpenFile, FillFile, Mark, BackUp, LookFails, OpenSoul, FillSoul
  <2>3. /\ ~ResetModel /\ ~Boot
        /\ \A m \in Models : ~SwitchModel(m)
        /\ \A b \in Backends : ~UseBackend(b)
        /\ \A j \in Ids : ~Approve(j)
    BY <2>1 DEF ResetModel, SwitchModel, UseBackend, ASwitch, Approve, AtPrompt, Boot, Up
  <2> QED BY <2>2, <2>3 DEF Next, Create, Put, Abandon, Reject
<1> QED BY <1>5, <1>6, <1>7, <1>8, <1>9, <1>10, <1>11

LEMMA WholeStep ==
  ASSUME Base, EffectInv, WholeInv, Next
  PROVE  WholeInv'
PROOF
<1> SUFFICES ASSUME NEW i \in Ids, OfBoth(i)' PROVE Half(i)'
  BY DEF WholeInv
<1>0. /\ row \in [Ids -> Statuses] /\ asked \in [Ids -> Payloads \cup {None}]
      /\ harm \in Nat /\ i # None
  BY ProposalsAssumption DEF Base, TypeOK
<1>1. CASE row[i] = "approved" /\ cmd.id = i
  <2>1. OfBoth(i)
    BY <1>1, StayApproved DEF OfBoth
  <2> QED BY <1>1, <2>1, HalfStep DEF WholeInv
<1>2. CASE row[i] = "approved" /\ cmd.id # i
  <2>1. OfBoth(i) /\ Half(i)
    BY <1>2, StayApproved DEF OfBoth, WholeInv
  <2>2. \A key : By(i, key)' = By(i, key)
    BY <1>2, OwnRows
  <2>3. \A j \in Ids : Approve(j) => cmd'.id = j /\ j # i
    BY <1>2 DEF Approve, Resolvable
  <2>4. cmd'.id # i
    <3>1. cmd \in [pc : Steps, id : Ids \cup {None}, val : Models \cup {None}]
      BY DEF Base, TypeOK
    <3>2. /\ Idle.id = None
          /\ \A m : [cmd EXCEPT !.pc = "swap", !.val = m].id = cmd.id
          /\ \A pc : [cmd EXCEPT !.pc = pc].id = cmd.id
      BY <3>1 DEF Idle
    <3> QED BY <1>0, <1>2, <2>3, <3>2, CommandMoves
  <2>5. Unharmed' => Unharmed
    <3>1. harm' \in Nat
      BY TypeStep, ProposalsAssumption DEF TypeOK
    <3> QED BY <1>0, <3>1, HarmGrows DEF Unharmed
  <2> QED BY <1>2, <2>1, <2>2, <2>4, <2>5 DEF Half
<1>3. CASE row[i] # "approved"
  <2>1. Approve(i)
    <3>1. \/ \E j \in Ids : \/ \E p \in Payloads : Create(j, p)
                            \/ Put(j) \/ Abandon(j) \/ Approve(j) \/ Reject(j)
          \/ UNCHANGED row
      BY RowMoves
    <3>2. ASSUME NEW j \in Ids, \/ \E p \in Payloads : Create(j, p)
                                \/ Put(j) \/ Abandon(j) \/ Reject(j)
          PROVE  row'[i] # "approved"
      BY <1>0, <1>3, <3>2 DEF Create, Put, Abandon, Reject, keepDisk
    <3>3. ASSUME NEW j \in Ids, Approve(j), j # i PROVE row'[i] # "approved"
      BY <1>0, <1>3, <3>3 DEF Approve
    <3> QED BY <1>3, <3>1, <3>2, <3>3 DEF OfBoth
  <2>2. By(i, "selected")' = {} /\ By(i, "fallbacks")' = {}
    <3>1. By(i, "selected") = {} /\ By(i, "fallbacks") = {}
      BY <1>3 DEF EffectInv, RowsOnce, LogKeys
    <3> QED BY <2>1, <3>1 DEF Approve, By
  <2>3. cmd'.pc = "model"
    BY <2>1 DEF Approve, OfBoth, FirstStep
  <2> QED BY <2>2, <2>3 DEF Half
<1> QED BY <1>1, <1>2, <1>3

----------------------------------------------------------------------------
(* Secrets.                                                                *)

LEMMA LandedMoves ==
  ASSUME Base, Next, NEW i \in Ids
  PROVE  \/ Landed(i)' <=> Landed(i)
         \/ i = cmd.id /\ cmd.pc = "mark" /\ cmd'.pc = "idle" /\ Landed(i)'
PROOF
BY OwnRows DEF Landed, OwnWrites

\* A secret's own command is at one of the steps of a secret.
AtSecret == cmd.pc \in {"take", "open", "fill", "mark"}

LEMMA SecretCommand ==
  ASSUME Base, NEW i \in Ids, cmd.id = i
  PROVE  row[i] = "approved" /\ (asked[i].kind = "secret" => AtSecret)
PROOF
<1>1. i # None /\ cmd.pc \in Steps
  BY ProposalsAssumption DEF Base, TypeOK
<1>2. KindInv /\ cmd.pc # "idle"
  BY <1>1 DEF Base, CmdInv, Idle
<1> QED BY <1>1, <1>2 DEF KindInv, Ask, AtSecret, Steps

\* A row that does not exist is nowhere.
LEMMA NotYet ==
  ASSUME Base, RowsOnce, NEW i \in Ids, Place(i), row[i] = "none"
  PROVE  i \notin putting /\ i \notin pen /\ cmd.id # i /\ ~InHand(i) /\ ~Landed(i)
PROOF
<1>1. cmd.id # i
  BY SecretCommand
<1>2. ~Landed(i)
  BY DEF RowsOnce, Landed, LogKeys
<1> QED BY <1>1, <1>2 DEF Place, InHand

\* The web's steps and the two verdicts.
LEMMA RowsKeepSecrets ==
  ASSUME Base, EffectInv, NEW i \in Ids, Place(i), Kept(i), NEW j \in Ids,
         (\E p \in Payloads : Create(j, p)) \/ Put(j) \/ Abandon(j) \/ Approve(j) \/ Reject(j)
  PROVE  Place(i)' /\ Kept(i)'
PROOF
<1> USE DEF Secrets, Unharmed
<1>0. /\ row \in [Ids -> Statuses] /\ asked \in [Ids -> Payloads \cup {None}]
      /\ UNCHANGED <<log, secretsDir, harm>>
  BY DEF Base, TypeOK, Create, Put, Abandon, Approve, Reject, keepRest
<1>1. Landed(i)' <=> Landed(i)
  BY <1>0 DEF Landed, By
<1>2. ASSUME NEW p \in Payloads, Create(j, p) PROVE Place(i)' /\ Kept(i)'
  <2>1. /\ UNCHANGED <<pen, cmd, late, dropped>> /\ row[j] = "none"
        /\ row' = [row EXCEPT ![j] = "pending"] /\ asked' = [asked EXCEPT ![j] = p]
        /\ putting' = IF p.kind = "secret" THEN putting \cup {j} ELSE putting
    BY <1>2 DEF Create, keepRest
  <2>2. InHand(i)' <=> InHand(i)
    BY <2>1 DEF InHand
  <2>3. CASE i = j
    <3>1. i \notin putting /\ i \notin pen /\ cmd.id # i /\ ~InHand(i) /\ ~Landed(i)
      BY <2>1, <2>3, NotYet DEF EffectInv
    <3>2. row'[i] = "pending" /\ asked'[i] = p
      BY <1>0, <2>1, <2>3
    <3>3. Place(i)'
      BY <1>1, <2>1, <2>2, <2>3, <3>1, <3>2 DEF Place
    <3>4. Kept(i)'
      BY <2>1, <2>3, <3>2 DEF Kept
    <3> QED BY <3>3, <3>4
  <2>4. CASE i # j
    <3>1. row'[i] = row[i] /\ asked'[i] = asked[i] /\ (i \in putting' <=> i \in putting)
      BY <1>0, <2>1, <2>4
    <3>2. Place(i)'
      BY <1>1, <2>1, <2>2, <3>1 DEF Place
    <3>3. Kept(i)'
      BY <1>0, <1>1, <2>1, <2>2, <3>1 DEF Kept
    <3> QED BY <3>2, <3>3
  <2> QED BY <2>3, <2>4
<1>3. CASE Put(j)
  <2>1. /\ UNCHANGED <<row, asked, cmd, late, dropped>>
        /\ j \in putting /\ putting' = putting \ {j} /\ pen' = pen \cup {j}
    BY <1>3 DEF Put, keepDisk, keepRest
  <2>2. InHand(i)' <=> InHand(i)
    BY <2>1 DEF InHand
  <2>3. Place(i)'
    BY <1>1, <2>1, <2>2 DEF Place
  <2>4. Kept(i)'
    BY <1>0, <1>1, <2>1, <2>2 DEF Kept
  <2> QED BY <2>3, <2>4
<1>6. CASE Abandon(j)
  <2>1. /\ UNCHANGED <<row, asked, pen, cmd, late>>
        /\ j \in putting /\ putting' = putting \ {j} /\ dropped' = dropped \cup {j}
    BY <1>6 DEF Abandon, keepDisk
  <2>2. InHand(i)' <=> InHand(i)
    BY <2>1 DEF InHand
  <2>3. Place(i)'
    BY <1>1, <2>1, <2>2 DEF Place
  <2>4. Kept(i)'
    BY <1>0, <1>1, <2>1, <2>2 DEF Kept
  <2> QED BY <2>3, <2>4
<1>4. CASE Approve(j)
  <2>1. /\ UNCHANGED <<asked, putting, pen, dropped>> /\ cmd = Idle /\ row[j] = "pending"
        /\ row' = [row EXCEPT ![j] = "approved"]
        /\ cmd'.id = j /\ cmd'.pc = FirstStep(asked[j])
        /\ late' = IF j \in putting THEN late \cup {j} ELSE late
    BY <1>4 DEF Approve, Resolvable, AtPrompt, keepWeb
  <2>2. i # None /\ asked[j] \in Payloads
    BY <2>1, ProposalsAssumption DEF Base, AskedInv
  <2>3. ~InHand(i) /\ ~InHand(i)' /\ cmd.id # i
    BY <2>1, <2>2, FirstSteps DEF InHand, Idle
  <2>4. row'[i] # "none" <=> row[i] # "none"
    BY <1>0, <2>1
  <2>5. Place(i)'
    BY <1>1, <2>1, <2>3, <2>4 DEF Place
  <2>6. CASE i = j
    <3>1. cmd'.id = i /\ row[i] = "pending" /\ (i \in putting => i \in late')
      BY <2>1, <2>6
    <3>2. i \in Secrets' => i \in Secrets
      BY <2>1, <2>4
    <3>3. Unharmed' /\ i \in Secrets' => i \in putting \/ i \in pen \/ Landed(i) \/ i \in dropped
      BY <1>0, <2>3, <3>2 DEF Kept
    <3>4. Kept(i)'
      <4> HIDE DEF Secrets
      <4> QED BY <1>1, <2>1, <3>1, <3>3 DEF Kept
    <3> QED BY <2>5, <3>4
  <2>7. CASE i # j
    <3>1. row'[i] = row[i] /\ (i \in late' <=> i \in late)
      BY <1>0, <2>1, <2>7
    <3> QED BY <1>0, <1>1, <2>1, <2>3, <2>5, <2>7, <3>1 DEF Kept
  <2> QED BY <2>5, <2>6, <2>7
<1>5. CASE Reject(j)
  <2>1. /\ UNCHANGED <<asked, putting, pen, cmd, late, dropped>> /\ row[j] = "pending"
        /\ row' = [row EXCEPT ![j] = "rejected"]
    BY <1>5 DEF Reject, Resolvable, keepWeb, keepRest
  <2>2. /\ row'[i] # "none" <=> row[i] # "none"
        /\ row'[i] = "approved" => row[i] = "approved"
    BY <1>0, <2>1
  <2>3. InHand(i)' <=> InHand(i)
    BY <2>1 DEF InHand
  <2>4. Place(i)'
    BY <1>1, <2>1, <2>2, <2>3 DEF Place
  <2>5. Kept(i)'
    BY <1>0, <1>1, <2>1, <2>2, <2>3 DEF Kept
  <2> QED BY <2>4, <2>5
<1> QED BY <1>2, <1>3, <1>4, <1>5, <1>6

\* The command that applies a secret.
LEMMA CommandKeepsSecrets ==
  ASSUME Base, EffectInv, NEW i \in Ids, Place(i), Kept(i),
         Take \/ OpenFile \/ FillFile \/ Mark
  PROVE  Place(i)' /\ Kept(i)'
PROOF
<1> USE DEF Secrets, Unharmed, At, GoTo, Done
<1>0. /\ cmd \in [pc : Steps, id : Ids \cup {None}, val : Models \cup {None}]
      /\ harm \in Nat /\ i # None /\ Next
      /\ UNCHANGED <<row, asked, putting, late, dropped, secretsDir>>
  BY ProposalsAssumption
     DEF Base, TypeOK, Next, Take, OpenFile, FillFile, Mark, keepRest, keepDisk, keepWeb
<1>1. Idle.pc = "idle" /\ Idle.id = None
  BY DEF Idle
<1>2. \A pc : [cmd EXCEPT !.pc = pc].pc = pc /\ [cmd EXCEPT !.pc = pc].id = cmd.id
  BY <1>0
<1>3. cmd.id = i => ~Landed(i)
  BY DEF EffectInv, OwnUnwritten, Unwritten, Landed, Take, OpenFile, FillFile, Mark, Base,
     CmdInv
<1>4. CASE Take
  <2>1. UNCHANGED <<log, harm>> /\ cmd.pc = "take"
    BY <1>4 DEF Take
  <2>2. Landed(i)' <=> Landed(i)
    BY <2>1 DEF Landed, By
  <2>3. CASE secretsDir /\ cmd.id \in pen
    <3>1. pen' = pen \ {cmd.id} /\ cmd'.pc = "open" /\ cmd'.id = cmd.id
      BY <1>2, <1>4, <2>3 DEF Take
    <3>2. ~InHand(i) /\ (InHand(i)' <=> cmd.id = i)
      BY <2>1, <3>1 DEF InHand
    <3>3. Place(i)'
      BY <1>0, <1>3, <2>2, <2>3, <3>1, <3>2 DEF Place
    <3>4. Kept(i)'
      BY <1>0, <2>1, <2>2, <2>3, <3>1, <3>2 DEF Kept
    <3> QED BY <3>3, <3>4
  <2>4. CASE ~(secretsDir /\ cmd.id \in pen)
    <3>1. pen' = pen /\ cmd' = Idle
      BY <1>4, <2>4 DEF Take
    <3>2. ~InHand(i) /\ ~InHand(i)' /\ cmd'.id # i
      BY <1>0, <1>1, <2>1, <3>1 DEF InHand
    <3>3. Place(i)'
      BY <1>0, <2>2, <3>1, <3>2 DEF Place
    <3>4. Kept(i)'
      BY <1>0, <1>3, <2>1, <2>2, <2>4, <3>1, <3>2 DEF Kept
    <3> QED BY <3>3, <3>4
  <2> QED BY <2>3, <2>4
<1>5. CASE OpenFile \/ FillFile
  <2>1. UNCHANGED <<log, pen>> /\ cmd.pc \in {"open", "fill"}
    BY <1>5 DEF OpenFile, FillFile, keepWeb
  <2>2. \/ cmd'.pc \in {"fill", "mark"} /\ cmd'.id = cmd.id /\ harm' = harm
        \/ cmd' = Idle /\ harm' = harm + 1
    BY <1>2, <1>5 DEF OpenFile, FillFile, Fault
  <2>3. Landed(i)' <=> Landed(i)
    BY <2>1 DEF Landed, By
  <2>4. InHand(i) <=> cmd.id = i
    BY <2>1 DEF InHand
  <2>5. CASE cmd'.pc \in {"fill", "mark"} /\ cmd'.id = cmd.id /\ harm' = harm
    <3>1. InHand(i)' <=> cmd.id = i
      BY <2>5 DEF InHand
    <3>2. Place(i)'
      BY <1>0, <2>1, <2>3, <2>4, <3>1 DEF Place
    <3>3. Kept(i)'
      BY <1>0, <2>1, <2>3, <2>4, <2>5, <3>1 DEF Kept
    <3> QED BY <3>2, <3>3
  <2>6. CASE cmd' = Idle /\ harm' = harm + 1
    <3>1. ~InHand(i)'
      BY <1>0, <1>1, <2>6 DEF InHand
    <3>2. Place(i)'
      BY <1>0, <2>1, <2>3, <3>1 DEF Place
    <3>3. Kept(i)'
      BY <1>0, <2>6 DEF Kept
    <3> QED BY <3>2, <3>3
  <2> QED BY <2>2, <2>5, <2>6
<1>6. CASE Mark
  <2>1. pen' = pen /\ cmd' = Idle /\ cmd.pc = "mark"
    BY <1>6 DEF Mark, keepWeb
  <2>2. ~InHand(i)' /\ (InHand(i) <=> cmd.id = i)
    BY <1>0, <1>1, <2>1 DEF InHand
  <2>3. CASE cmd.id = i
    <3>1. i \notin pen /\ i \notin putting
      BY <2>2, <2>3 DEF Place
    <3>2. Place(i)'
      BY <1>0, <2>1, <2>2, <3>1 DEF Place
    <3>3. CASE harm' = harm + 1
      BY <1>0, <3>2, <3>3 DEF Kept
    <3>4. CASE Apply(Row("secret", Ask.key, cmd.id))
      <4>1. Row("secret", Ask.key, cmd.id) \in Rows
        BY <1>0, <2>1, RowTypes, AskTypes
      <4>2. Row("secret", Ask.key, cmd.id).by = i /\ Row("secret", Ask.key, cmd.id).key = "secret"
        BY <2>3 DEF Row
      <4>3. By(i, "secret")' = By(i, "secret") \cup {Len(log) + 1}
        BY <3>4, <4>1, <4>2, ByOfAppend DEF Apply, Base
      <4>4. Landed(i)'
        BY <4>3 DEF Landed
      <4> QED BY <1>0, <3>1, <3>2, <4>4 DEF Kept
    <3> QED BY <1>6, <3>3, <3>4 DEF Mark, Fault
  <2>4. CASE cmd.id # i
    <3>1. Landed(i)' <=> Landed(i)
      BY <1>0, <2>4, LandedMoves
    <3>2. harm' = harm \/ harm' = harm + 1
      BY <1>6 DEF Mark, Fault, Apply
    <3>3. Place(i)'
      BY <1>0, <2>1, <2>2, <3>1 DEF Place
    <3>4. Kept(i)'
      BY <1>0, <2>1, <2>2, <2>4, <3>1, <3>2 DEF Kept
    <3> QED BY <3>3, <3>4
  <2> QED BY <2>3, <2>4
<1> QED BY <1>4, <1>5, <1>6

\* What has nothing to do with secrets.
LEMMA OthersKeepSecrets ==
  ASSUME Base, NEW i \in Ids, Place(i), Kept(i), Next,
         UNCHANGED <<row, asked, putting, pen, late, dropped, secretsDir>>,
         harm' = harm \/ harm' = harm + 1, ~AtSecret,
         cmd'.id \in {cmd.id, None}, ~AtSecret'
  PROVE  Place(i)' /\ Kept(i)'
PROOF
<1> USE DEF Secrets, Unharmed
<1>0. harm \in Nat
  BY ProposalsAssumption DEF Base, TypeOK
<1>1. ~InHand(i) /\ ~InHand(i)'
  BY DEF InHand, AtSecret
<1>2. Landed(i)' <=> Landed(i)
  BY LandedMoves DEF AtSecret
<1>3. Place(i)'
  BY <1>1, <1>2 DEF Place
<1>4. i \in Secrets => cmd.id # i
  BY SecretCommand
<1>5. Kept(i)'
  BY <1>0, <1>1, <1>2, <1>4 DEF Kept
<1> QED BY <1>3, <1>5

LEMMA SecretStep ==
  ASSUME Base, EffectInv, SecretInv, Next
  PROVE  SecretInv'
PROOF
<1> SUFFICES ASSUME NEW i \in Ids PROVE Place(i)' /\ Kept(i)'
  BY DEF SecretInv
<1> USE DEF At, GoTo, Done, AtSecret
<1>0. /\ cmd \in [pc : Steps, id : Ids \cup {None}, val : Models \cup {None}]
      /\ harm \in Nat /\ Place(i) /\ Kept(i)
  BY ProposalsAssumption DEF Base, TypeOK, SecretInv
<1>1. Fault => harm' = harm + 1
  BY DEF Fault
<1>2. /\ Idle.pc = "idle" /\ Idle.id = None
      /\ \A m : [cmd EXCEPT !.pc = "swap", !.val = m].pc = "swap"
      /\ \A m : [cmd EXCEPT !.pc = "swap", !.val = m].id = cmd.id
      /\ \A pc : [cmd EXCEPT !.pc = pc].pc = pc /\ [cmd EXCEPT !.pc = pc].id = cmd.id
  BY <1>0 DEF Idle
<1>3. CASE \E j \in Ids : \/ \E p \in Payloads : Create(j, p)
                          \/ Put(j) \/ Abandon(j) \/ Approve(j) \/ Reject(j)
  BY <1>0, <1>3, RowsKeepSecrets
<1>4. CASE Take \/ OpenFile \/ FillFile \/ Mark
  BY <1>0, <1>4, CommandKeepsSecrets
<1>5. CASE SetDefault \/ SetRules \/ Swap \/ SetLadder \/ SwapLadder
  <2>1. UNCHANGED <<row, asked, putting, pen, late, dropped, secretsDir>> /\ ~AtSecret
    BY <1>5 DEF SetDefault, SetRules, Swap, SetLadder, SwapLadder, keepDisk, keepWeb, keepRest
  <2>2. harm' = harm \/ harm' = harm + 1
    BY <1>1, <1>5 DEF SetDefault, SetRules, Swap, SetLadder, SwapLadder, Apply
  <2>3. cmd'.id \in {cmd.id, None} /\ ~AtSecret'
    <3>1. cmd'.id \in {cmd.id, None} /\ cmd'.pc \in {"idle", "swap", "ladder", "swapLadder"}
      <4>1. ASSUME NEW m, cmd' = Idle \/ cmd' = [cmd EXCEPT !.pc = "swap", !.val = m]
            PROVE  cmd'.id \in {cmd.id, None} /\ cmd'.pc \in {"idle", "swap"}
        <5>1. CASE cmd' = Idle
          BY <5>1 DEF Idle
        <5>2. CASE cmd' = [cmd EXCEPT !.pc = "swap", !.val = m]
          BY <1>0, <5>2
        <5> QED BY <4>1, <5>1, <5>2
      <4>3. CASE SetDefault
        <5>1. cmd' = Idle \/ cmd' = [cmd EXCEPT !.pc = "swap", !.val = Ask.model]
          BY <4>3 DEF SetDefault
        <5> QED BY <4>1, <5>1
      <4>4. CASE SetRules
        <5>1. cmd' = Idle \/ cmd' = [cmd EXCEPT !.pc = "swap", !.val = Ask.rule]
          BY <4>4 DEF SetRules
        <5> QED BY <4>1, <5>1
      <4>2. CASE Swap \/ SetLadder \/ SwapLadder
        BY <1>0, <4>2 DEF Swap, AfterSwap, SetLadder, SwapLadder, Idle
      <4> QED BY <1>5, <4>2, <4>3, <4>4
    <3> QED BY <3>1
  <2> QED BY <1>0, <2>1, <2>2, <2>3, OthersKeepSecrets
<1>6. CASE BackUp \/ LookFails \/ OpenSoul \/ FillSoul
  <2>1. UNCHANGED <<row, asked, putting, pen, late, dropped, secretsDir>> /\ ~AtSecret
    BY <1>6 DEF BackUp, LookFails, OpenSoul, FillSoul, keepWeb, keepRest
  <2>2. harm' = harm \/ harm' = harm + 1
    BY <1>1, <1>6 DEF BackUp, LookFails, OpenSoul, FillSoul
  <2>3. cmd'.id \in {cmd.id, None} /\ ~AtSecret'
    <3>1. cmd'.id \in {cmd.id, None} /\ cmd'.pc \in {"idle", "openSoul", "fillSoul"}
      BY <1>0, <1>6 DEF BackUp, LookFails, OpenSoul, FillSoul, Idle
    <3> QED BY <3>1
  <2> QED BY <1>0, <2>1, <2>2, <2>3, OthersKeepSecrets
<1>7. CASE \/ ResetModel \/ \E m \in Models : SwitchModel(m)
           \/ \E b \in Backends : UseBackend(b)
  <2>1. UNCHANGED <<row, asked, putting, pen, late, dropped, secretsDir>> /\ cmd = Idle
    BY <1>7 DEF ResetModel, SwitchModel, UseBackend, ASwitch, AtPrompt, keepSwitch
  <2>2. harm' = harm \/ harm' = harm + 1
    BY <1>1, <1>7 DEF ResetModel, SwitchModel, UseBackend, Apply
  <2>3. cmd'.id \in {cmd.id, None} /\ cmd'.pc \in {"idle", "swap"}
    BY <1>2, <1>7, <2>1 DEF ResetModel, SwitchModel, UseBackend
  <2> QED BY <1>0, <1>2, <2>1, <2>2, <2>3, OthersKeepSecrets
<1>8. CASE Crash
  <2>1. putting' = {} /\ pen' = {} /\ cmd' = Idle /\ harm' = harm + 1
    BY <1>1, <1>8 DEF Crash
  <2>2. ~InHand(i)'
    BY <1>2, <2>1 DEF InHand
  <2>3. Place(i)'
    BY <2>1, <2>2 DEF Place
  <2>4. Kept(i)'
    BY <1>0, <2>1 DEF Kept, Unharmed
  <2> QED BY <2>3, <2>4
<1>9. CASE Boot
  <2>1. UNCHANGED <<row, asked, putting, pen, late, dropped, secretsDir, harm, cmd>>
    BY <1>9 DEF Boot, disk
  <2>2. cmd = Idle
    BY <1>9 DEF Boot, Base, CmdInv, Up
  <2> QED BY <1>0, <1>2, <2>1, <2>2, OthersKeepSecrets
<1> QED BY <1>3, <1>4, <1>5, <1>6, <1>7, <1>8, <1>9 DEF Next

----------------------------------------------------------------------------
(* The theorems.                                                           *)

LEMMA InitInv == Init => ProposalInv
PROOF
<1> SUFFICES ASSUME Init PROVE ProposalInv
  OBVIOUS
<1>1. /\ TypeOK /\ log = <<>> /\ cmd = Idle /\ putting = {} /\ pen = {} /\ base = 0
      /\ row = [i \in Ids |-> "none"] /\ status = "up"
  BY InitTypes DEF Init
<1>2. \A i, key : By(i, key) = {}
  BY <1>1 DEF By
<1>3. \A i \in Ids : row[i] = "none" /\ i \notin {None, Torn, Mounted}
  BY <1>1, ProposalsAssumption
<1>4. AskedInv /\ CmdInv
  BY <1>1, <1>3 DEF AskedInv, CmdInv, Idle, Up
<1>5. EffectInv
  <2>1. \A i \in Ids : soul # i /\ i \notin backups /\ \A k \in Keys : file[k] # i
    BY <1>3 DEF Init
  <2> QED BY <1>1, <1>2, <2>1 DEF EffectInv, RowsOnce, FilesApproved, OwnUnwritten, Idle
<1>6. SoulInv
  BY <1>1 DEF SoulInv, Idle
<1>7. WordsInv /\ LadderInv
  <2>1. AtBoot = <<>> /\ \A keys : OfThisLife(keys) = {}
    BY <1>1 DEF AtBoot, OfThisLife
  <2>2. LiveWord = live /\ LadderWord = ladder /\ BackendWord = backend
    BY <2>1 DEF LiveWord, LadderWord, BackendWord, LastWord, Init
  <2>3. LiveSoon = live /\ LadderSoon = ladder
    BY <1>1 DEF LiveSoon, LadderSoon, Idle
  <2> QED BY <2>2, <2>3 DEF WordsInv, LadderInv, Init
<1>8. SecretInv
  BY <1>1, <1>2, <1>3 DEF SecretInv, Place, Kept, InHand, Landed, Secrets, Idle
<1>9. WholeInv
  BY <1>3 DEF WholeInv, OfBoth
<1> QED BY <1>1, <1>4, <1>5, <1>6, <1>7, <1>8, <1>9 DEF ProposalInv

LEMMA NextInv == ProposalInv /\ [Next]_vars => ProposalInv'
PROOF
<1> SUFFICES ASSUME ProposalInv, [Next]_vars PROVE ProposalInv'
  OBVIOUS
<1>0. Base
  BY DEF ProposalInv, Base
<1>1. CASE Next
  <2>1. TypeOK' /\ AskedInv' /\ CmdInv'
    BY <1>0, <1>1, TypeStep, AskedStep, KindStep
  <2>2. EffectInv' /\ SoulInv'
    BY <1>0, <1>1, EffectStep, SoulStep DEF ProposalInv
  <2>3. WordsInv' /\ LadderInv' /\ SecretInv' /\ WholeInv'
    BY <1>0, <1>1, WordsStep, LadderStep, SecretStep, WholeStep DEF ProposalInv
  <2> QED BY <2>1, <2>2, <2>3 DEF ProposalInv
<1>2. CASE UNCHANGED vars
  <2> USE <1>2 DEF ProposalInv, vars, disk, process
  <2>1. TypeOK' /\ AskedInv' /\ CmdInv'
    BY DEF TypeOK, AskedInv, CmdInv, KindInv, Ask, Up
  <2>2. EffectInv' /\ SoulInv'
    BY DEF EffectInv, RowsOnce, FilesApproved, OwnUnwritten, By, SoulInv
  <2>3. WordsInv' /\ LadderInv'
    <3>1. UNCHANGED <<LiveWord, LadderWord, BackendWord>>
      BY SameWords
    <3>2. UNCHANGED <<LiveSoon, LadderSoon>>
      BY DEF LiveSoon, LadderSoon, Ask
    <3> QED BY <3>1, <3>2 DEF WordsInv, LadderInv, Up, Unharmed
  <2>4. SecretInv'
    BY DEF SecretInv, Place, Kept, InHand, Landed, By, Secrets, Unharmed
  <2>5. WholeInv'
    BY DEF WholeInv, OfBoth, Half, By, Unharmed
  <2> QED BY <2>1, <2>2, <2>3, <2>4, <2>5
<1> QED BY <1>1, <1>2

\* Every reachable state satisfies ProposalInv: rows, files and live handles
\* agree with what was approved and persisted at every await of a command,
\* not only between commands (proposals.rs, apply).
THEOREM ProposalInvariant == Spec => []ProposalInv
PROOF
BY InitInv, NextInv, PTL DEF Spec

\* The stores, files and handles hold values of their types only: the rows of
\* config_overrides carry the kind of value of their key (ConfigStore::apply).
THEOREM TypeCorrect == Spec => []TypeOK
PROOF
<1>1. ProposalInv => TypeOK
  BY DEF ProposalInv
<1> QED BY <1>1, ProposalInvariant, PTL

\* "Approvals are once-only" (resolve): what a proposal changed was changed by
\* one that the console approved, and each of its rows was written once.
THEOREM ApprovedOnce == Spec => []EffectsAreApproved
PROOF
<1>1. ProposalInv => EffectsAreApproved
  BY DEF ProposalInv, EffectInv, RowsOnce, FilesApproved, CmdInv, KindInv, EffectsAreApproved
<1> QED BY <1>1, ProposalInvariant, PTL

\* Between commands the running provider and backend are those of the last row
\* of this life, or those the start resolved (apply_model_config,
\* apply_routing_config, switch_model, use_backend).
THEOREM LiveIsPersisted == Spec => []LiveFollowsTheLog
PROOF
<1>1. ProposalInv => LiveFollowsTheLog
  BY DEF ProposalInv, WordsInv, LiveFollowsTheLog, AtPrompt, LiveSoon, Idle,
     LiveWord, BackendWord
<1> QED BY <1>1, ProposalInvariant, PTL

\* A ladder that is not empty is the one the next start reads
\* (apply_model_config: "a restart reloads the same ladder").
THEOREM LadderIsReloaded == Spec => []LadderSurvives
PROOF
<1>1. ProposalInv => LadderSurvives
  BY DEF ProposalInv, LadderInv, LadderSurvives, AtPrompt, LadderSoon, Idle
<1> QED BY <1>1, ProposalInvariant, PTL

\* A proposal of a default and a ladder that met no failed write and no crash is
\* applied whole, the default first (apply_model_config).
THEOREM AppliedInOrder == Spec => []AppliedWhole
PROOF
<1>1. ProposalInv => AppliedWhole
  BY DEF ProposalInv, WholeInv, OfBoth, Half, AppliedWhole
<1> QED BY <1>1, ProposalInvariant, PTL

\* A secret is in one place from its creation to its file, and what loses it is
\* a failed write, a crash or a handler dropped before it put the value in the
\* pen (post_proposal, PendingSecretValues, apply_secret_set).
THEOREM SecretIsKept == Spec => []SecretIsAccountedFor
PROOF
<1>1. ProposalInv => SecretIsAccountedFor
  <2> SUFFICES ASSUME ProposalInv, NEW i \in Secrets
               PROVE  LET places == {p \in {"putting", "pen", "hand", "landed"} :
                                       \/ p = "putting" /\ i \in putting
                                       \/ p = "pen" /\ i \in pen
                                       \/ p = "hand" /\ InHand(i)
                                       \/ p = "landed" /\ Landed(i)}
                      IN /\ \A p, q \in places : p = q
                         /\ Unharmed /\ i \notin dropped => places # {}
                         /\ /\ Unharmed /\ row[i] = "approved"
                            /\ i \notin late \cup dropped
                            /\ secretsDir /\ cmd.id # i
                            => Landed(i)
    BY DEF SecretIsAccountedFor
  <2>1. Place(i) /\ Kept(i)
    BY DEF ProposalInv, SecretInv, Secrets
  <2>2. /\ ~(i \in putting /\ i \in pen) /\ ~(i \in putting /\ InHand(i))
        /\ ~(i \in putting /\ Landed(i)) /\ ~(i \in pen /\ InHand(i))
        /\ ~(i \in pen /\ Landed(i)) /\ ~(InHand(i) /\ Landed(i))
    BY <2>1 DEF Place
  <2>3. Unharmed /\ i \notin dropped
          => i \in putting \/ i \in pen \/ InHand(i) \/ Landed(i)
    BY <2>1 DEF Kept
  <2>4. /\ Unharmed /\ row[i] = "approved" /\ i \notin late \cup dropped
        /\ secretsDir /\ cmd.id # i
        => Landed(i)
    BY <2>1 DEF Kept
  <2> HIDE DEF InHand, Landed
  <2> QED BY <2>2, <2>3, <2>4
<1> QED BY <1>1, ProposalInvariant, PTL

\* No text of SOUL.md is overwritten that is not in a backup beside it, but by a
\* proposal whose look for the file failed: the copy comes before the
\* truncating write (apply, PersonaEdit).
THEOREM SoulIsKept == Spec => SoulIsBackedUp
PROOF
<1>1. ProposalInv /\ [Next]_vars
        => [soul' # soul /\ soul \notin {None, Torn}
              => soul \in backups' \/ cmd.id \in unseen]_vars
  <2> SUFFICES ASSUME ProposalInv, Next, soul' # soul, soul \notin {None, Torn}
               PROVE  soul \in backups' \/ cmd.id \in unseen
    BY DEF vars, disk
  <2>1. Base /\ SoulInv
    BY DEF ProposalInv, Base
  <2>2. cmd.pc = "openSoul" \/ cmd.pc = "fillSoul"
    BY <2>1, FileMoves
  <2>3. backups \subseteq backups'
    BY <2>1, FileMoves
  <2> QED BY <2>1, <2>2, <2>3 DEF SoulInv
<1> QED BY <1>1, ProposalInvariant, PTL DEF Spec, SoulIsBackedUp
=============================================================================
