------------------------ MODULE ExtensionHostProofs ------------------------
(***************************************************************************)
(* What holds of the extension host for every set of extensions, versions, *)
(* capabilities and requirements: no orphan capability, all-or-nothing     *)
(* calls, and no comeback of a revoked extension.                          *)
(***************************************************************************)
EXTENDS ExtensionHost, TLAPS

\* A version that an empty registry would activate: its entries are declared
\* and all different.
Fit(i, v) ==
  \A k \in DOMAIN Entries[i][v] :
    /\ Entries[i][v][k] \in Declared[i][v]
    /\ \A j \in 1 .. k - 1 : Entries[i][v][j] # Entries[i][v][k]

\* What the host knows of an installed extension is what the registry has.
Owned(i) ==
  IF installed[i] = NoOne THEN held[i] = {}
  ELSE /\ Fit(i, installed[i])
       /\ held[i] = Names(i, installed[i])
       /\ \A c \in held[i] : registry[c] = i

\* Whatever a restart reads is a version that was installed once.
Persisted(i) == store[i] # NoOne => Fit(i, store[i])

HostInv ==
  /\ TypeOK
  /\ saving = NoOne \/ revoking = NoOne
  /\ \A i \in Ids : Owned(i) /\ Persisted(i)

----------------------------------------------------------------------------
(* Activation and its undoing.                                             *)

LEMMA EntriesType ==
  ASSUME NEW i \in Ids, NEW v \in Versions
  PROVE  /\ Entries[i][v] \in Seq(Caps)
         /\ DOMAIN Entries[i][v] = 1 .. Len(Entries[i][v])
         /\ Len(Entries[i][v]) \in Nat
         /\ Names(i, v) \subseteq Caps
         /\ v # NoOne /\ i # NoOne
BY ExtensionAssumption DEF Names

\* An activation that stops half-way registered only names that were free.
LEMMA RegisteredWereFree ==
  ASSUME NEW reg, NEW i \in Ids, NEW v \in Versions
  PROVE  /\ Registered(reg, i, v) \subseteq Names(i, v)
         /\ \A c \in Registered(reg, i, v) : reg[c] = NoOne
<1>1. ASSUME NEW n \in DOMAIN Entries[i][v],
             \A j \in 1 .. n : Registers(reg, i, v, j)
      PROVE  reg[Entries[i][v][n]] = NoOne
  <2>1. n \in 1 .. n
    BY EntriesType
  <2> QED BY <2>1, <1>1 DEF Registers
<1> QED BY <1>1 DEF Registered, Names

\* An activation that succeeds registered every name of its version.
LEMMA ActivatesAll ==
  ASSUME NEW reg, NEW i \in Ids, NEW v \in Versions, Activates(reg, i, v)
  PROVE  /\ Registered(reg, i, v) = Names(i, v)
         /\ Fit(i, v)
         /\ \A c \in Names(i, v) : reg[c] = NoOne
<1>1. ASSUME NEW n \in DOMAIN Entries[i][v]
      PROVE  \A j \in 1 .. n : Registers(reg, i, v, j)
  BY EntriesType DEF Activates
<1>2. Registered(reg, i, v) = Names(i, v)
  BY <1>1 DEF Registered, Names
<1>3. Fit(i, v)
  BY DEF Fit, Activates, Registers
<1>4. \A c \in Names(i, v) : reg[c] = NoOne
  BY <1>2, RegisteredWereFree
<1> QED BY <1>2, <1>3, <1>4

\* A fit version whose names are free activates.
LEMMA FitActivates ==
  ASSUME NEW reg, NEW i \in Ids, NEW v \in Versions,
         Fit(i, v), \A c \in Names(i, v) : reg[c] = NoOne
  PROVE  Activates(reg, i, v)
BY DEF Activates, Registers, Fit, Names

\* The cleanup of a failed activation leaves the registry as it was.
LEMMA FailedIsClean ==
  ASSUME NEW reg \in [Caps -> Ids \cup {NoOne}],
         NEW i \in Ids, NEW v \in Versions
  PROVE  Failed(reg, i, v) = reg
<1>1. \A c \in Registered(reg, i, v) : reg[c] = NoOne
  BY RegisteredWereFree
<1>2. \A c \in Caps : Failed(reg, i, v)[c] = reg[c]
  BY <1>1 DEF Failed, Without, Activated, With
<1>3. Failed(reg, i, v) = [c \in Caps |-> Failed(reg, i, v)[c]]
  BY DEF Failed, Without
<1> QED BY <1>2, <1>3

LEMMA RegistryTypes ==
  ASSUME NEW reg \in [Caps -> Ids \cup {NoOne}], NEW i \in Ids
  PROVE  /\ \A v : Activated(reg, i, v) \in [Caps -> Ids \cup {NoOne}]
         /\ Removed(reg, i) \in [Caps -> Ids \cup {NoOne}]
BY DEF Activated, With, Removed, Without

----------------------------------------------------------------------------
(* What a host method on i does to the others.                             *)

\* A registry in which every installed extension but i has its names.
OthersOwn(reg, i) ==
  \A j \in Ids \ {i} : installed[j] # NoOne => \A c \in held[j] : reg[c] = j

LEMMA TakenOut ==
  ASSUME HostInv, NEW i \in Ids
  PROVE  /\ OthersOwn(registry, i)
         /\ installed[i] # NoOne => OthersOwn(Removed(registry, i), i)
         /\ installed[i] # NoOne =>
              \A c \in Names(i, installed[i]) : Removed(registry, i)[c] = NoOne
<1>1. OthersOwn(registry, i)
  BY DEF HostInv, Owned, OthersOwn
<1>2. ASSUME installed[i] # NoOne
      PROVE  /\ held[i] = Names(i, installed[i])
             /\ \A c \in held[i] : registry[c] = i
             /\ installed[i] \in Versions
             /\ held[i] \subseteq Caps
  BY <1>2 DEF HostInv, Owned, TypeOK
<1>3. ASSUME installed[i] # NoOne, NEW c \in Caps
      PROVE  Removed(registry, i)[c] =
               IF c \in held[i] THEN NoOne ELSE registry[c]
  BY <1>2, <1>3 DEF Removed, Without
<1>4. ASSUME installed[i] # NoOne,
             NEW j \in Ids \ {i}, installed[j] # NoOne, NEW c \in held[j]
      PROVE  Removed(registry, i)[c] = j
  <2>1. c \in Caps /\ registry[c] = j
    BY <1>1, <1>4 DEF OthersOwn, HostInv, TypeOK
  <2> QED BY <2>1, <1>2, <1>3, <1>4
<1> QED BY <1>1, <1>2, <1>3, <1>4 DEF OthersOwn

LEMMA OthersKept ==
  ASSUME HostInv, NEW i \in Ids, NEW v \in Versions,
         NEW reg \in [Caps -> Ids \cup {NoOne}], OthersOwn(reg, i)
  PROVE  OthersOwn(Activated(reg, i, v), i)
<1>1. ASSUME NEW j \in Ids \ {i}, installed[j] # NoOne, NEW c \in held[j]
      PROVE  Activated(reg, i, v)[c] = j
  <2>1. c \in Caps /\ reg[c] = j /\ j # NoOne
    BY <1>1, ExtensionAssumption DEF OthersOwn, HostInv, TypeOK
  <2>2. c \notin Registered(reg, i, v)
    BY <2>1, RegisteredWereFree
  <2> QED BY <2>1, <2>2 DEF Activated, With
<1> QED BY <1>1 DEF OthersOwn

\* A registry in which the new version of i is activated owns its names.
LEMMA NewOwned ==
  ASSUME NEW i \in Ids, NEW v \in Versions,
         NEW reg \in [Caps -> Ids \cup {NoOne}], Activates(reg, i, v)
  PROVE  /\ Registered(reg, i, v) = Names(i, v)
         /\ Registered(reg, i, v) \subseteq Caps
         /\ Fit(i, v)
         /\ v # NoOne
         /\ \A c \in Registered(reg, i, v) : Activated(reg, i, v)[c] = i
<1>1. Registered(reg, i, v) = Names(i, v) /\ Fit(i, v)
  BY ActivatesAll
<1>2. Names(i, v) \subseteq Caps /\ v # NoOne
  BY EntriesType
<1>3. \A c \in Registered(reg, i, v) : Activated(reg, i, v)[c] = i
  BY <1>1, <1>2 DEF Activated, With
<1> QED BY <1>1, <1>2, <1>3

\* A failed upgrade puts the registry and held back as they were.
LEMMA RestoresAll ==
  ASSUME HostInv, NEW i \in Installed, NEW v \in Versions
  PROVE  LET back == Failed(Removed(registry, i), i, v)
         IN /\ Restored(back, i) = registry
            /\ Registered(back, i, installed[i]) = held[i]
<1> DEFINE reg == Removed(registry, i)
           back == Failed(reg, i, v)
           old == installed[i]
<1>1. i \in Ids /\ old # NoOne /\ old \in Versions
      /\ registry \in [Caps -> Ids \cup {NoOne}]
  BY DEF Installed, HostInv, TypeOK
<1>2. reg \in [Caps -> Ids \cup {NoOne}]
  BY <1>1, RegistryTypes
<1>3. back = reg
  BY <1>1, <1>2, FailedIsClean
<1>4. \A c \in Names(i, old) : reg[c] = NoOne
  BY <1>1, TakenOut
<1>5. Fit(i, old) /\ held[i] = Names(i, old)
      /\ \A c \in held[i] : registry[c] = i
  BY <1>1 DEF HostInv, Owned
<1>6. Activates(reg, i, old)
  BY <1>1, <1>4, <1>5, FitActivates
<1>7. Registered(reg, i, old) = held[i]
  BY <1>1, <1>5, <1>6, ActivatesAll
<1>8. \A c \in Caps : Activated(reg, i, old)[c] = registry[c]
  BY <1>5, <1>7 DEF Activated, With, Removed, Without
<1>9. Activated(reg, i, old) = registry
  <2>1. Activated(reg, i, old) = [c \in Caps |-> Activated(reg, i, old)[c]]
    BY DEF Activated, With
  <2> QED BY <2>1, <1>1, <1>8
<1> QED BY <1>3, <1>7, <1>9 DEF Restored

----------------------------------------------------------------------------
(* HostInv is inductive.                                                   *)

\* Everything about i alone changed, and the registry owns the others still.
LEMMA OneChanges ==
  ASSUME HostInv, NEW i \in Ids, OthersOwn(registry', i),
         installed' = [installed EXCEPT ![i] = installed'[i]],
         held' = [held EXCEPT ![i] = held'[i]],
         Owned(i)'
  PROVE  \A j \in Ids : Owned(j)'
<1>1. ASSUME NEW j \in Ids \ {i}
      PROVE  Owned(j)'
  <2>1. installed'[j] = installed[j] /\ held'[j] = held[j] /\ Owned(j)
    BY <1>1 DEF HostInv, TypeOK
  <2>2. installed[j] # NoOne => \A c \in held[j] : registry'[c] = j
    BY <1>1 DEF OthersOwn
  <2> QED BY <2>1, <2>2 DEF Owned
<1> QED BY <1>1

LEMMA InitHost == Init => HostInv
<1> SUFFICES ASSUME Init PROVE HostInv
  OBVIOUS
<1> USE DEF Init
<1>1. TypeOK
  <2>1. <<>> \in Seq(Versions)
    OBVIOUS
  <2> QED BY <2>1 DEF TypeOK, Installed
<1>2. \A i \in Ids : Owned(i) /\ Persisted(i)
  BY DEF Owned, Persisted
<1> QED BY <1>1, <1>2 DEF HostInv

\* A host method that changed nothing.
LEMMA HostSame ==
  ASSUME HostInv, UNCHANGED <<registry, installed, held>>
  PROVE  \A i \in Ids : Owned(i)'
BY DEF HostInv, Owned

LEMMA InstallHolds ==
  ASSUME HostInv, NEW i \in Ids, NEW v \in Versions, Install(i, v)
  PROVE  HostInv'
<1> USE DEF HostInv
<1>1. CASE installed[i] = NoOne /\ Permitted(i, v) /\ Activates(registry, i, v)
  <2>1. /\ registry' = Activated(registry, i, v)
        /\ installed' = [installed EXCEPT ![i] = v]
        /\ held' = [held EXCEPT ![i] = Registered(registry, i, v)]
        /\ lock' = [lock EXCEPT ![i] = v]
        /\ ok' = TRUE /\ saving' = i /\ gone' = gone \ {i}
        /\ revoking = NoOne
        /\ UNCHANGED <<history, store, revoking, broken, faults>>
    BY <1>1 DEF Install, InstallHost, Idle
  <2>2. registry \in [Caps -> Ids \cup {NoOne}]
    BY DEF TypeOK
  <2>3. /\ Registered(registry, i, v) = Names(i, v)
        /\ Registered(registry, i, v) \subseteq Caps
        /\ Fit(i, v) /\ v # NoOne
        /\ \A c \in Registered(registry, i, v) : registry'[c] = i
    BY <1>1, <2>1, <2>2, NewOwned
  <2>4. OthersOwn(registry', i)
    BY <2>1, <2>2, TakenOut, OthersKept
  <2>5. installed'[i] = v /\ held'[i] = Registered(registry, i, v)
    BY <2>1 DEF TypeOK
  <2>6. \A j \in Ids : Owned(j)'
    <3>1. Owned(i)'
      BY <2>3, <2>5 DEF Owned
    <3>2. /\ installed' = [installed EXCEPT ![i] = installed'[i]]
          /\ held' = [held EXCEPT ![i] = held'[i]]
      BY <2>1, <2>5
    <3> QED BY <2>4, <3>1, <3>2, OneChanges
  <2>7. registry' \in [Caps -> Ids \cup {NoOne}]
    BY <2>1, <2>2, RegistryTypes
  <2>8. TypeOK'
    BY <2>1, <2>3, <2>5, <2>7 DEF TypeOK, Installed
  <2> QED BY <2>1, <2>6, <2>8 DEF Persisted
<1>2. CASE ~(installed[i] = NoOne /\ Permitted(i, v)
             /\ Activates(registry, i, v))
  <2>1. registry' = registry
    BY <1>2, FailedIsClean DEF Install, InstallHost, TypeOK
  <2>2. /\ ok' = FALSE /\ saving' = NoOne
        /\ UNCHANGED <<installed, held, history, lock, gone, store, revoking,
                       broken, faults>>
    BY <1>2 DEF Install, InstallHost
  <2>3. TypeOK'
    BY <2>1, <2>2 DEF TypeOK, Installed
  <2> QED BY <2>1, <2>2, <2>3, HostSame DEF Persisted
<1> QED BY <1>1, <1>2

LEMMA UpgradeHolds ==
  ASSUME HostInv, NEW i \in Ids, NEW v \in Versions, Idle, Upgrade(i, v)
  PROVE  HostInv'
<1> USE DEF HostInv
<1> DEFINE reg == Removed(registry, i)
           back == Failed(reg, i, v)
<1>0. /\ saving = NoOne /\ revoking = NoOne
      /\ UNCHANGED <<store, saving, revoking, broken, gone, faults>>
  BY DEF Idle, Upgrade
<1>1. CASE i \notin Installed \/ Breaks(i, v) \/ ~Permitted(i, v)
  <2>1. ok' = FALSE /\ UNCHANGED <<registry, installed, held, history, lock>>
    BY <1>1 DEF Upgrade, host
  <2>2. TypeOK'
    BY <1>0, <2>1 DEF TypeOK, Installed
  <2> QED BY <1>0, <2>1, <2>2, HostSame DEF Persisted
<1>2. CASE /\ i \in Installed /\ ~Breaks(i, v) /\ Permitted(i, v)
           /\ Activates(reg, i, v)
  <2>1. /\ registry' = Activated(reg, i, v)
        /\ installed' = [installed EXCEPT ![i] = v]
        /\ held' = [held EXCEPT ![i] = Registered(reg, i, v)]
        /\ history' = [history EXCEPT ![i] = Append(@, installed[i])]
        /\ lock' = [lock EXCEPT ![i] = v]
        /\ ok' = TRUE
    BY <1>2 DEF Upgrade
  <2>2. installed[i] # NoOne /\ installed[i] \in Versions
        /\ reg \in [Caps -> Ids \cup {NoOne}]
    BY <1>2, RegistryTypes DEF TypeOK, Installed
  <2>3. /\ Registered(reg, i, v) = Names(i, v)
        /\ Registered(reg, i, v) \subseteq Caps
        /\ Fit(i, v) /\ v # NoOne
        /\ \A c \in Registered(reg, i, v) : registry'[c] = i
    BY <1>2, <2>1, <2>2, NewOwned
  <2>4. OthersOwn(registry', i)
    BY <2>1, <2>2, TakenOut, OthersKept
  <2>5. installed'[i] = v /\ held'[i] = Registered(reg, i, v)
    BY <2>1 DEF TypeOK
  <2>6. \A j \in Ids : Owned(j)'
    <3>1. Owned(i)'
      BY <2>3, <2>5 DEF Owned
    <3>2. /\ installed' = [installed EXCEPT ![i] = installed'[i]]
          /\ held' = [held EXCEPT ![i] = held'[i]]
      BY <2>1, <2>5
    <3> QED BY <2>4, <3>1, <3>2, OneChanges
  <2>7. registry' \in [Caps -> Ids \cup {NoOne}]
    BY <2>1, <2>2, RegistryTypes
  <2>8. history' \in [Ids -> Seq(Versions)]
    <3>1. Append(history[i], installed[i]) \in Seq(Versions)
      BY <2>2 DEF TypeOK
    <3> QED BY <2>1, <3>1 DEF TypeOK
  <2>9. TypeOK'
    BY <1>0, <2>1, <2>3, <2>7, <2>8 DEF TypeOK, Installed
  <2> QED BY <1>0, <2>6, <2>9 DEF Persisted
<1>3. CASE /\ i \in Installed /\ ~Breaks(i, v) /\ Permitted(i, v)
           /\ ~Activates(reg, i, v)
  <2>1. /\ registry' = Restored(back, i)
        /\ held' = [held EXCEPT ![i] = Registered(back, i, installed[i])]
        /\ ok' = FALSE
        /\ UNCHANGED <<installed, history, lock>>
    BY <1>3 DEF Upgrade
  <2>2. registry' = registry /\ held' = held
    BY <1>3, <2>1, RestoresAll DEF TypeOK
  <2>3. TypeOK'
    BY <1>0, <2>1, <2>2 DEF TypeOK, Installed
  <2> QED BY <1>0, <2>1, <2>2, <2>3, HostSame DEF Persisted
<1> QED BY <1>1, <1>2, <1>3

LEMMA RollbackHolds ==
  ASSUME HostInv, NEW i \in Ids, Idle, Rollback(i)
  PROVE  HostInv'
<1> USE DEF HostInv
<1> DEFINE target == history[i][Len(history[i])]
           reg == IF i \in Installed THEN Removed(registry, i) ELSE registry
<1>1. /\ saving = NoOne /\ revoking = NoOne
      /\ history[i] # <<>>
      /\ registry' = Activated(reg, i, target)
      /\ history' = [history EXCEPT ![i] = SubSeq(@, 1, Len(@) - 1)]
      /\ UNCHANGED <<store, saving, revoking, gone, faults>>
  BY DEF Idle, Rollback
<1>2. /\ history[i] \in Seq(Versions) /\ Len(history[i]) \in Nat \ {0}
      /\ target \in Versions
      /\ history' \in [Ids -> Seq(Versions)]
  <2>1. history[i] \in Seq(Versions) /\ Len(history[i]) \in Nat \ {0}
    BY <1>1 DEF TypeOK
  <2>2. SubSeq(history[i], 1, Len(history[i]) - 1) \in Seq(Versions)
    BY <2>1
  <2>3. target \in Versions
    BY <2>1
  <2> QED BY <1>1, <2>1, <2>2, <2>3 DEF TypeOK
<1>3. reg \in [Caps -> Ids \cup {NoOne}] /\ OthersOwn(reg, i)
  BY RegistryTypes, TakenOut DEF TypeOK, Installed
<1>4. registry' \in [Caps -> Ids \cup {NoOne}] /\ OthersOwn(registry', i)
  BY <1>1, <1>2, <1>3, RegistryTypes, OthersKept
<1>5. CASE Activates(reg, i, target)
  <2>1. /\ installed' = [installed EXCEPT ![i] = target]
        /\ held' = [held EXCEPT ![i] = Registered(reg, i, target)]
        /\ lock' = [lock EXCEPT ![i] = target]
        /\ ok' = TRUE
        /\ UNCHANGED broken
    BY <1>5 DEF Rollback
  <2>2. /\ Registered(reg, i, target) = Names(i, target)
        /\ Registered(reg, i, target) \subseteq Caps
        /\ Fit(i, target) /\ target # NoOne
        /\ \A c \in Registered(reg, i, target) : registry'[c] = i
    BY <1>1, <1>2, <1>3, <1>5, NewOwned
  <2>3. installed'[i] = target /\ held'[i] = Registered(reg, i, target)
    BY <2>1 DEF TypeOK
  <2> HIDE DEF target, reg
  <2>4. \A j \in Ids : Owned(j)'
    BY <1>4, <2>1, <2>2, <2>3, OneChanges DEF Owned
  <2>5. TypeOK'
    BY <1>1, <1>2, <1>4, <2>1, <2>2 DEF TypeOK, Installed
  <2> QED BY <1>1, <2>4, <2>5 DEF Persisted
<1>6. CASE ~Activates(reg, i, target)
  <2>1. /\ installed' = [installed EXCEPT ![i] = NoOne]
        /\ held' = [held EXCEPT ![i] = {}]
        /\ ok' = FALSE /\ broken' = TRUE
        /\ UNCHANGED lock
    BY <1>6 DEF Rollback
  <2>2. installed'[i] = NoOne /\ held'[i] = {}
    BY <2>1 DEF TypeOK
  <2>3. \A j \in Ids : Owned(j)'
    BY <1>4, <2>1, <2>2, OneChanges DEF Owned
  <2>4. TypeOK'
    BY <1>1, <1>2, <1>4, <2>1 DEF TypeOK, Installed
  <2> QED BY <1>1, <2>3, <2>4 DEF Persisted
<1> QED BY <1>5, <1>6

LEMMA SaveHolds == ASSUME HostInv, Save PROVE HostInv'
<1> USE DEF HostInv
<1>1. /\ saving \in Installed /\ saving' = NoOne /\ revoking = NoOne
      /\ UNCHANGED <<registry, installed, held, history, lock, revoking, ok,
                     broken, gone>>
  BY DEF Save, TypeOK, host
<1>2. \/ store' = [store EXCEPT ![saving] = installed[saving]]
         /\ UNCHANGED faults
      \/ faults' = faults + 1 /\ UNCHANGED store
  BY DEF Save
<1>3. Fit(saving, installed[saving])
  BY <1>1 DEF Owned, Installed
<1>4. TypeOK'
  BY <1>1, <1>2 DEF TypeOK, Installed
<1>5. \A j \in Ids : Persisted(j)'
  BY <1>1, <1>2, <1>3 DEF Persisted, Installed, TypeOK
<1> QED BY <1>1, <1>4, <1>5, HostSame

LEMMA RemoveRowHolds ==
  ASSUME HostInv, NEW i \in Ids, RemoveRow(i)
  PROVE  HostInv'
<1> USE DEF HostInv
<1>1. /\ Idle /\ i \in Installed
      /\ UNCHANGED <<registry, installed, held, history, lock, saving, ok,
                     broken, gone>>
  BY DEF RemoveRow, host
<1>2. \/ /\ store' = [store EXCEPT ![i] = NoOne]
         /\ revoking' = i /\ faults' = faults
      \/ faults' = faults + 1 /\ store' = store /\ revoking' = revoking
  BY DEF RemoveRow
<1>3. TypeOK'
  <2>1. Installed' = Installed /\ i \in Ids
    BY <1>1 DEF Installed
  <2>2. /\ store' \in [Ids -> Versions \cup {NoOne}]
        /\ faults' \in Nat
    <3>1. store \in [Ids -> Versions \cup {NoOne}] /\ faults \in Nat
      BY DEF TypeOK
    <3>2. [store EXCEPT ![i] = NoOne] \in [Ids -> Versions \cup {NoOne}]
      BY <3>1
    <3> QED BY <1>2, <3>1, <3>2
  <2>3. /\ saving' \in Installed \cup {NoOne}
        /\ revoking' \in Installed \cup {NoOne}
    BY <1>1, <1>2 DEF TypeOK, Idle
  <2>4. ok' \in BOOLEAN /\ broken' \in BOOLEAN
    BY <1>1, Zenon DEF TypeOK
  <2> QED BY <1>1, <2>1, <2>2, <2>3, <2>4 DEF TypeOK
<1>4. \A j \in Ids : Persisted(j)'
  BY <1>1, <1>2 DEF Persisted, TypeOK
<1> QED BY <1>1, <1>2, <1>3, <1>4, HostSame DEF Idle

LEMMA RevokeHolds == ASSUME HostInv, Revoke PROVE HostInv'
<1> USE DEF HostInv
<1> DEFINE i == revoking
<1>1. i \in Installed /\ i \in Ids /\ i # NoOne /\ saving = NoOne
  BY DEF Revoke, TypeOK, Installed
<1>2. /\ registry' = Removed(registry, i)
      /\ installed' = [installed EXCEPT ![i] = NoOne]
      /\ held' = [held EXCEPT ![i] = {}]
      /\ history' = [history EXCEPT ![i] = <<>>]
      /\ lock' = [lock EXCEPT ![i] = NoOne]
      /\ ok' = TRUE
      /\ gone' = gone \cup {i} /\ revoking' = NoOne
      /\ UNCHANGED <<store, saving, broken, faults>>
  BY <1>1 DEF Revoke, RevokeHost
<1> HIDE DEF i
<1>3. /\ registry' \in [Caps -> Ids \cup {NoOne}] /\ OthersOwn(registry', i)
  BY <1>1, <1>2, RegistryTypes, TakenOut DEF TypeOK, Installed
<1>4. installed'[i] = NoOne /\ held'[i] = {}
  BY <1>1, <1>2 DEF TypeOK
<1>5. \A j \in Ids : Owned(j)'
  BY <1>1, <1>2, <1>3, <1>4, OneChanges DEF Owned
<1>6. TypeOK'
  <2>1. <<>> \in Seq(Versions)
    OBVIOUS
  <2> QED BY <1>1, <1>2, <1>3, <2>1 DEF TypeOK, Installed
<1> QED BY <1>1, <1>2, <1>5, <1>6 DEF Persisted

LEMMA RestartHolds == ASSUME HostInv, Restart PROVE HostInv'
<1> USE DEF HostInv
<1>1. PICK keep \in SUBSET Rows : Disjoint(keep) /\ Reloaded(keep)
  BY DEF Restart
<1>2. /\ saving' = NoOne /\ revoking' = NoOne /\ ok' = TRUE
      /\ broken' = FALSE /\ faults' = faults + 1
      /\ UNCHANGED <<store, gone>>
  BY DEF Restart
<1>3. \A i \in keep : /\ i \in Ids /\ store[i] \in Versions
                      /\ store[i] # NoOne
                      /\ Fit(i, store[i])
                      /\ Names(i, store[i]) \subseteq Caps
  BY EntriesType DEF Rows, TypeOK, Persisted
<1>4. /\ registry' \in [Caps -> Ids \cup {NoOne}]
      /\ \A i \in keep : \A c \in Names(i, store[i]) : registry'[c] = i
  <2>1. ASSUME NEW i \in keep, NEW c \in Names(i, store[i])
        PROVE  (CHOOSE j \in keep : c \in Names(j, store[j])) = i
    BY <1>1, <2>1 DEF Disjoint
  <2>2. registry' = [c \in Caps |->
          IF \E i \in keep : c \in Names(i, store[i])
          THEN CHOOSE i \in keep : c \in Names(i, store[i]) ELSE NoOne]
    BY <1>1 DEF Reloaded
  <2> QED BY <1>3, <2>1, <2>2
<1>5. /\ installed' = [i \in Ids |-> IF i \in keep THEN store[i] ELSE NoOne]
      /\ held' = [i \in Ids |->
                    IF i \in keep THEN Names(i, store[i]) ELSE {}]
      /\ lock' = [i \in Ids |-> IF i \in keep THEN store[i] ELSE NoOne]
      /\ history' = [i \in Ids |-> <<>>]
  BY <1>1 DEF Reloaded
<1>6. \A i \in Ids : Owned(i)'
  BY <1>3, <1>4, <1>5 DEF Owned
<1>7. TypeOK'
  <2>1. <<>> \in Seq(Versions)
    OBVIOUS
  <2>2. /\ installed' \in [Ids -> Versions \cup {NoOne}]
        /\ lock' \in [Ids -> Versions \cup {NoOne}]
    BY <1>3, <1>5
  <2>3. held' \in [Ids -> SUBSET Caps]
    BY <1>3, <1>5
  <2>4. history' \in [Ids -> Seq(Versions)]
    BY <1>5, <2>1
  <2>5. /\ store' \in [Ids -> Versions \cup {NoOne}]
        /\ {saving, revoking}' \subseteq Installed' \cup {NoOne}
        /\ gone' \subseteq Ids /\ faults' \in Nat
    BY <1>2 DEF TypeOK
  <2>6. ok' \in BOOLEAN /\ broken' \in BOOLEAN
    BY <1>2
  <2> QED BY <1>4, <2>2, <2>3, <2>4, <2>5, <2>6 DEF TypeOK
<1> QED BY <1>2, <1>6, <1>7 DEF Persisted

THEOREM HostInvariant == Spec => []HostInv
<1>1. HostInv /\ [Next]_vars => HostInv'
  <2> SUFFICES ASSUME HostInv, [Next]_vars PROVE HostInv'
    OBVIOUS
  <2>1. CASE UNCHANGED vars
    BY <2>1 DEF vars, host, HostInv, TypeOK, Owned, Persisted, Installed
  <2>2. ASSUME NEW i \in Ids, NEW v \in Versions,
               Install(i, v) \/ (Idle /\ Upgrade(i, v))
        PROVE  HostInv'
    BY <2>2, InstallHolds, UpgradeHolds
  <2>3. ASSUME NEW i \in Ids, RemoveRow(i) \/ (Idle /\ Rollback(i))
        PROVE  HostInv'
    BY <2>3, RemoveRowHolds, RollbackHolds
  <2>4. CASE Save \/ Revoke \/ Restart
    BY <2>4, SaveHolds, RevokeHolds, RestartHolds
  <2> QED BY <2>1, <2>2, <2>3, <2>4 DEF Next
<1> QED BY InitHost, <1>1, PTL DEF Spec

\* TypeOK, for every set of extensions: among the rest, the row to be saved
\* and the row just removed are of an extension that is installed.
THEOREM TypeCorrect == Spec => []TypeOK
<1>1. HostInv => TypeOK
  BY DEF HostInv
<1> QED BY <1>1, HostInvariant, PTL

----------------------------------------------------------------------------
(* A revoked extension does not come back.                                 *)

\* Nothing of a revoked extension is left that a call or a restart could
\* install again, and the row of one being revoked is gone already.
GoneInv ==
  /\ \A i \in gone : /\ installed[i] = NoOne
                     /\ store[i] = NoOne
                     /\ history[i] = <<>>
  /\ revoking # NoOne => store[revoking] = NoOne

LEMMA GoneStep == HostInv /\ GoneInv /\ [Next]_vars => GoneInv'
<1> SUFFICES ASSUME HostInv, GoneInv, [Next]_vars PROVE GoneInv'
  OBVIOUS
<1> USE DEF GoneInv
<1>0. /\ TypeOK /\ gone \subseteq Ids
      /\ saving = NoOne \/ revoking = NoOne
      /\ saving # NoOne => saving \in Installed
      /\ revoking # NoOne => revoking \in Installed
  BY DEF HostInv, TypeOK
<1>1. CASE UNCHANGED vars
  BY <1>1 DEF vars, host
<1>2. ASSUME NEW i \in Ids, NEW v \in Versions, Install(i, v)
      PROVE  GoneInv'
  <2>1. CASE ok'
    <3>1. /\ installed' = [installed EXCEPT ![i] = v]
          /\ gone' = gone \ {i} /\ history' = history /\ store' = store
          /\ revoking = NoOne /\ revoking' = NoOne
      BY <1>2, <2>1 DEF Install, InstallHost, Idle
    <3> QED BY <3>1, <1>0 DEF TypeOK
  <2>2. CASE ~ok'
    <3>1. /\ UNCHANGED <<installed, gone, history, store, revoking>>
      BY <1>2, <2>2 DEF Install, InstallHost
    <3> QED BY <3>1
  <2> QED BY <2>1, <2>2
<1>3. ASSUME NEW i \in Ids, NEW v \in Versions, Idle /\ Upgrade(i, v)
      PROVE  GoneInv'
  <2>1. UNCHANGED <<store, revoking, gone>>
    BY <1>3 DEF Upgrade
  <2>2. \/ UNCHANGED <<installed, history>>
        \/ /\ i \in Installed
           /\ installed' = [installed EXCEPT ![i] = v]
           /\ history' = [history EXCEPT ![i] = Append(@, installed[i])]
    BY <1>3 DEF Upgrade, host
  <2> QED BY <1>0, <2>1, <2>2 DEF Installed, TypeOK
<1>4. ASSUME NEW i \in Ids, RemoveRow(i)
      PROVE  GoneInv'
  BY <1>0, <1>4 DEF RemoveRow, host, TypeOK
<1>5. ASSUME NEW i \in Ids, Idle /\ Rollback(i)
      PROVE  GoneInv'
  <2>1. /\ i \notin gone /\ UNCHANGED <<store, revoking, gone>>
        /\ \A j \in Ids \ {i} : installed'[j] = installed[j]
                                /\ history'[j] = history[j]
    BY <1>0, <1>5 DEF Rollback, TypeOK
  <2> QED BY <1>0, <2>1
<1>6. CASE Save
  BY <1>0, <1>6 DEF Save, host, Installed, TypeOK
<1>7. CASE Revoke
  <2>1. /\ revoking \in Installed /\ revoking \in Ids
        /\ installed' = [installed EXCEPT ![revoking] = NoOne]
        /\ history' = [history EXCEPT ![revoking] = <<>>]
        /\ gone' = gone \cup {revoking}
        /\ revoking' = NoOne /\ store' = store
    BY <1>0, <1>7 DEF Revoke, RevokeHost, Installed
  <2>2. ASSUME NEW i \in gone'
        PROVE  installed'[i] = NoOne /\ store'[i] = NoOne /\ history'[i] = <<>>
    <3>1. CASE i = revoking
      BY <1>0, <1>7, <2>1, <3>1 DEF TypeOK, Revoke
    <3>2. CASE i # revoking
      BY <1>0, <2>1, <2>2, <3>2 DEF TypeOK
    <3> QED BY <3>1, <3>2
  <2> QED BY <2>1, <2>2
<1>8. CASE Restart
  <2>1. PICK keep \in SUBSET Rows : Reloaded(keep)
    BY <1>8 DEF Restart
  <2>2. UNCHANGED <<store, gone>> /\ revoking' = NoOne
    BY <1>8 DEF Restart
  <2>3. \A i \in gone : i \in Ids /\ i \notin keep
    BY <1>0, <2>1 DEF Rows
  <2> QED BY <2>1, <2>2, <2>3 DEF Reloaded
<1> QED BY <1>1, <1>2, <1>3, <1>4, <1>5, <1>6, <1>7, <1>8 DEF Next

\* NoComeback, whatever store call fails and whenever the process restarts.
THEOREM RevokedStaysAway == Spec => []NoComeback
<1>1. Init => GoneInv
  BY DEF Init, GoneInv
<1>2. GoneInv => NoComeback
  BY DEF GoneInv, NoComeback, Installed
<1> QED BY <1>1, <1>2, GoneStep, HostInvariant, PTL DEF Spec

----------------------------------------------------------------------------
(* A failed call changes nothing.                                          *)

LEMMA FailedChangesNothing ==
  ASSUME HostInv, [Next]_vars, ~ok', vars' # vars
  PROVE  \/ UNCHANGED host
         \/ \E i \in Ids : Len(history'[i]) < Len(history[i])
<1> USE DEF host
<1>1. ASSUME NEW i \in Ids, NEW v \in Versions, Install(i, v)
      PROVE  UNCHANGED host
  <2>1. registry \in [Caps -> Ids \cup {NoOne}]
    BY DEF HostInv, TypeOK
  <2>2. registry' = registry
    BY <1>1, <2>1, FailedIsClean DEF Install, InstallHost
  <2> QED BY <1>1, <2>2 DEF Install, InstallHost
<1>2. ASSUME NEW i \in Ids, NEW v \in Versions, Upgrade(i, v)
      PROVE  UNCHANGED host
  <2>1. CASE UNCHANGED host
    BY <2>1
  <2>2. CASE ~UNCHANGED host
    <3> DEFINE back == Failed(Removed(registry, i), i, v)
    <3>1. /\ i \in Installed
          /\ registry' = Restored(back, i)
          /\ held' = [held EXCEPT ![i] = Registered(back, i, installed[i])]
          /\ UNCHANGED <<installed, history, lock>>
      BY <1>2, <2>2 DEF Upgrade
    <3>2. registry' = registry /\ held' = held
      BY <3>1, RestoresAll DEF HostInv, TypeOK
    <3> QED BY <3>1, <3>2
  <2> QED BY <2>1, <2>2
<1>3. ASSUME NEW i \in Ids, Rollback(i)
      PROVE  Len(history'[i]) < Len(history[i])
  <2>1. /\ history[i] \in Seq(Versions) /\ history[i] # <<>>
        /\ history'[i] = SubSeq(history[i], 1, Len(history[i]) - 1)
    BY <1>3 DEF Rollback, HostInv, TypeOK
  <2> QED BY <2>1
<1>4. ASSUME NEW i \in Ids, RemoveRow(i)
      PROVE  UNCHANGED host
  BY <1>4 DEF RemoveRow
<1>5. CASE Save
  BY <1>5 DEF Save
<1>6. CASE Revoke
  BY <1>6 DEF Revoke, RevokeHost
<1>7. CASE Restart
  BY <1>7 DEF Restart
<1> QED BY <1>1, <1>2, <1>3, <1>4, <1>5, <1>6, <1>7 DEF Next

\* AllOrNothing: the old version of a failed upgrade is there again, with
\* exactly the capabilities it had, whatever else is installed.
THEOREM FailedCallsAreClean == Spec => AllOrNothing
<1>1. HostInv /\ [Next]_vars =>
        [~ok' => \/ UNCHANGED host
                 \/ \E i \in Ids : Len(history'[i]) < Len(history[i])]_vars
  BY FailedChangesNothing
<1> QED BY <1>1, HostInvariant, PTL DEF Spec, AllOrNothing

----------------------------------------------------------------------------
(* No orphan capability.                                                   *)

\* Until a rollback fails, whatever is registered is of an installed version.
NoOrphan ==
  ~broken =>
    /\ \A c \in Caps : registry[c] # NoOne =>
         registry[c] \in Installed /\ c \in held[registry[c]]
    /\ lock = installed
    /\ \A i \in Ids : history[i] # <<>> => installed[i] # NoOne

\* What reg has beside the capabilities of i is of another installed
\* extension.
OthersOnly(reg, i) ==
  \A c \in Caps : reg[c] # NoOne =>
    reg[c] \in Installed \ {i} /\ c \in held[reg[c]]

LEMMA OnlyOthersLeft ==
  ASSUME HostInv, NoOrphan, ~broken, NEW i \in Ids
  PROVE  /\ i \notin Installed => OthersOnly(registry, i)
         /\ i \in Installed => OthersOnly(Removed(registry, i), i)
<1>1. i \notin Installed => OthersOnly(registry, i)
  BY DEF NoOrphan, OthersOnly
<1>2. ASSUME i \in Installed, NEW c \in Caps, Removed(registry, i)[c] # NoOne
      PROVE  /\ Removed(registry, i)[c] \in Installed \ {i}
             /\ c \in held[Removed(registry, i)[c]]
  <2>1. c \notin held[i] /\ Removed(registry, i)[c] = registry[c]
    BY <1>2 DEF Removed, Without
  <2> QED BY <1>2, <2>1 DEF NoOrphan
<1> QED BY <1>1, <1>2 DEF OthersOnly

\* A version activated among the others' capabilities leaves no orphan.
LEMMA ActivatedNoOrphan ==
  ASSUME HostInv, NEW i \in Ids, NEW v \in Versions,
         NEW reg \in [Caps -> Ids \cup {NoOne}], OthersOnly(reg, i),
         registry' = Activated(reg, i, v),
         installed' = [installed EXCEPT ![i] = v],
         held' = [held EXCEPT ![i] = Registered(reg, i, v)]
  PROVE  \A c \in Caps : registry'[c] # NoOne =>
           registry'[c] \in Installed' /\ c \in held'[registry'[c]]
<1> SUFFICES ASSUME NEW c \in Caps, registry'[c] # NoOne
             PROVE  registry'[c] \in Installed' /\ c \in held'[registry'[c]]
  OBVIOUS
<1>1. /\ installed'[i] = v /\ v # NoOne
      /\ held'[i] = Registered(reg, i, v)
      /\ \A j \in Ids \ {i} : installed'[j] = installed[j] /\ held'[j] = held[j]
  BY ExtensionAssumption DEF HostInv, TypeOK
<1>2. CASE c \in Registered(reg, i, v)
  BY <1>1, <1>2 DEF Activated, With, Installed
<1>3. CASE c \notin Registered(reg, i, v)
  <2>1. registry'[c] = reg[c]
    BY <1>3 DEF Activated, With
  <2>2. reg[c] \in Ids \ {i} /\ installed[reg[c]] # NoOne /\ c \in held[reg[c]]
    BY <2>1 DEF OthersOnly, Installed
  <2> QED BY <1>1, <2>1, <2>2 DEF Installed
<1> QED BY <1>2, <1>3

LEMMA NoOrphanStep == HostInv /\ NoOrphan /\ [Next]_vars => NoOrphan'
<1> SUFFICES ASSUME HostInv, NoOrphan, [Next]_vars, ~broken'
             PROVE  /\ \A c \in Caps : registry'[c] # NoOne =>
                         /\ registry'[c] \in Installed'
                         /\ c \in held'[registry'[c]]
                    /\ lock' = installed'
                    /\ \A i \in Ids : history'[i] # <<>> =>
                                      installed'[i] # NoOne
  BY DEF NoOrphan
<1> DEFINE Goal ==
      /\ \A c \in Caps : registry'[c] # NoOne =>
           registry'[c] \in Installed' /\ c \in held'[registry'[c]]
      /\ lock' = installed'
      /\ \A i \in Ids : history'[i] # <<>> => installed'[i] # NoOne
<1>0. TypeOK
  BY DEF HostInv
<1>1. ASSUME UNCHANGED host, ~broken
      PROVE  Goal
  BY <1>1 DEF host, NoOrphan, Installed
<1>2. ASSUME NEW i \in Ids, NEW v \in Versions, Install(i, v)
      PROVE  Goal
  <2>0. ~broken
    BY <1>2, Zenon DEF Install
  <2>1. CASE ~ok'
    <3>1. registry' = registry
      BY <1>0, <1>2, <2>1, FailedIsClean DEF Install, InstallHost, TypeOK
    <3>2. UNCHANGED host
      BY <1>2, <2>1, <3>1 DEF Install, InstallHost, host
    <3> QED BY <1>1, <2>0, <3>2
  <2>2. CASE ok'
    <3>1. /\ i \notin Installed
          /\ registry' = Activated(registry, i, v)
          /\ installed' = [installed EXCEPT ![i] = v]
          /\ held' = [held EXCEPT ![i] = Registered(registry, i, v)]
          /\ lock' = [lock EXCEPT ![i] = v]
          /\ history' = history
      BY <1>2, <2>2 DEF Install, InstallHost, Installed
    <3>2. OthersOnly(registry, i)
      BY <2>0, <3>1, OnlyOthersLeft
    <3>3. \A c \in Caps : registry'[c] # NoOne =>
            registry'[c] \in Installed' /\ c \in held'[registry'[c]]
      BY <1>0, <3>1, <3>2, ActivatedNoOrphan DEF TypeOK
    <3>4. lock' = installed'
      BY <2>0, <3>1 DEF NoOrphan
    <3>5. \A j \in Ids : history'[j] # <<>> => installed'[j] # NoOne
      BY <1>0, <2>0, <3>1, ExtensionAssumption DEF NoOrphan, TypeOK
    <3> QED BY <3>3, <3>4, <3>5
  <2> QED BY <2>1, <2>2
<1>3. ASSUME NEW i \in Ids, NEW v \in Versions, Upgrade(i, v)
      PROVE  Goal
  <2>0. ~broken
    BY <1>3, Zenon DEF Upgrade
  <2>1. CASE UNCHANGED host
    BY <1>1, <2>0, <2>1
  <2>2. CASE ~UNCHANGED host /\ ~ok'
    <3> DEFINE back == Failed(Removed(registry, i), i, v)
    <3>1. /\ i \in Installed
          /\ registry' = Restored(back, i)
          /\ held' = [held EXCEPT ![i] = Registered(back, i, installed[i])]
          /\ UNCHANGED <<installed, history, lock>>
      BY <1>3, <2>2 DEF Upgrade
    <3>2. registry' = registry /\ held' = held
      BY <1>0, <3>1, RestoresAll DEF TypeOK
    <3> QED BY <2>2, <3>1, <3>2 DEF host
  <2>3. CASE ~UNCHANGED host /\ ok'
    <3> DEFINE reg == Removed(registry, i)
    <3>1. /\ i \in Installed
          /\ registry' = Activated(reg, i, v)
          /\ installed' = [installed EXCEPT ![i] = v]
          /\ held' = [held EXCEPT ![i] = Registered(reg, i, v)]
          /\ history' = [history EXCEPT ![i] = Append(@, installed[i])]
          /\ lock' = [lock EXCEPT ![i] = v]
      BY <1>3, <2>3 DEF Upgrade
    <3>2. OthersOnly(reg, i) /\ reg \in [Caps -> Ids \cup {NoOne}]
      BY <1>0, <2>0, <3>1, OnlyOthersLeft, RegistryTypes DEF TypeOK
    <3>3. \A c \in Caps : registry'[c] # NoOne =>
            registry'[c] \in Installed' /\ c \in held'[registry'[c]]
      BY <3>1, <3>2, ActivatedNoOrphan
    <3>4. lock' = installed'
      BY <2>0, <3>1 DEF NoOrphan
    <3>5. \A j \in Ids : history'[j] # <<>> => installed'[j] # NoOne
      BY <1>0, <2>0, <3>1, ExtensionAssumption DEF NoOrphan, TypeOK
    <3> QED BY <3>3, <3>4, <3>5
  <2> QED BY <2>1, <2>2, <2>3
<1>4. ASSUME NEW i \in Ids, Rollback(i)
      PROVE  Goal
  <2> DEFINE target == history[i][Len(history[i])]
             reg == IF i \in Installed THEN Removed(registry, i) ELSE registry
  <2>1. /\ ~broken
        /\ history[i] # <<>>
        /\ registry' = Activated(reg, i, target)
        /\ installed' = [installed EXCEPT ![i] = target]
        /\ held' = [held EXCEPT ![i] = Registered(reg, i, target)]
        /\ lock' = [lock EXCEPT ![i] = target]
        /\ \A j \in Ids \ {i} : history'[j] = history[j]
    <3>1. Activates(reg, i, target)
      BY <1>4, Zenon DEF Rollback
    <3>2. UNCHANGED broken
      BY <1>4, <3>1, Zenon DEF Rollback
    <3>3. ~broken
      BY <3>2, Zenon
    <3> QED BY <1>0, <1>4, <3>1, <3>3 DEF Rollback, TypeOK
  <2>2. target \in Versions
    BY <1>0, <2>1 DEF TypeOK
  <2>3. OthersOnly(reg, i) /\ reg \in [Caps -> Ids \cup {NoOne}]
    BY <1>0, <2>1, OnlyOthersLeft, RegistryTypes DEF TypeOK
  <2> HIDE DEF target, reg
  <2>4. \A c \in Caps : registry'[c] # NoOne =>
          registry'[c] \in Installed' /\ c \in held'[registry'[c]]
    BY <2>1, <2>2, <2>3, ActivatedNoOrphan
  <2>5. lock' = installed'
    BY <2>1 DEF NoOrphan
  <2>6. \A j \in Ids : history'[j] # <<>> => installed'[j] # NoOne
    BY <1>0, <2>1, <2>2, ExtensionAssumption DEF NoOrphan, TypeOK
  <2> QED BY <2>4, <2>5, <2>6
<1>5. ASSUME NEW i \in Ids, RemoveRow(i)
      PROVE  Goal
  BY <1>1, <1>5, Zenon DEF RemoveRow
<1>6. CASE Save
  BY <1>1, <1>6, Zenon DEF Save
<1>7. CASE Revoke
  <2> DEFINE i == revoking
  <2>1. i \in Installed /\ i \in Ids /\ i # NoOne
    BY <1>0, <1>7 DEF Revoke, TypeOK, Installed
  <2>2. /\ registry' = Removed(registry, i)
        /\ installed' = [installed EXCEPT ![i] = NoOne]
        /\ held' = [held EXCEPT ![i] = {}]
        /\ history' = [history EXCEPT ![i] = <<>>]
        /\ lock' = [lock EXCEPT ![i] = NoOne]
    BY <1>7, <2>1 DEF Revoke, RevokeHost
  <2>3. ~broken
    BY <1>7, Zenon DEF Revoke
  <2> HIDE DEF i
  <2>4. OthersOnly(registry', i)
    BY <2>1, <2>2, <2>3, OnlyOthersLeft
  <2>5. ASSUME NEW c \in Caps, registry'[c] # NoOne
        PROVE  registry'[c] \in Installed' /\ c \in held'[registry'[c]]
    <3>1. /\ registry'[c] \in Ids \ {i} /\ installed[registry'[c]] # NoOne
          /\ c \in held[registry'[c]]
      BY <2>4, <2>5 DEF OthersOnly, Installed
    <3> QED BY <1>0, <2>2, <3>1 DEF Installed, TypeOK
  <2>6. lock' = installed'
    BY <2>2, <2>3 DEF NoOrphan
  <2>7. \A j \in Ids : history'[j] # <<>> => installed'[j] # NoOne
    BY <1>0, <2>1, <2>2, <2>3 DEF NoOrphan, TypeOK
  <2> QED BY <2>5, <2>6, <2>7
<1>8. CASE Restart
  <2>1. PICK keep \in SUBSET Rows : Reloaded(keep)
    BY <1>8 DEF Restart
  <2>2. ASSUME NEW c \in Caps, registry'[c] # NoOne
        PROVE  registry'[c] \in Installed' /\ c \in held'[registry'[c]]
    <3> DEFINE i == CHOOSE j \in keep : c \in Names(j, store[j])
    <3>1. registry'[c] = i /\ i \in keep /\ c \in Names(i, store[i])
      BY <2>1, <2>2 DEF Reloaded
    <3> HIDE DEF i
    <3>2. i \in Ids /\ store[i] # NoOne
      BY <3>1 DEF Rows
    <3>3. installed'[i] = store[i] /\ held'[i] = Names(i, store[i])
      BY <2>1, <3>1, <3>2 DEF Reloaded
    <3> QED BY <3>1, <3>2, <3>3 DEF Installed
  <2>3. lock' = installed' /\ \A j \in Ids : history'[j] = <<>>
    BY <2>1 DEF Reloaded
  <2> QED BY <2>2, <2>3
<1>9. CASE UNCHANGED vars
  BY <1>1, <1>9, Zenon DEF vars
<1> QED BY <1>2, <1>3, <1>4, <1>5, <1>6, <1>7, <1>8, <1>9 DEF Next

\* ZeroOrphan: unless a rollback failed, the registry, the installed versions
\* and the lockfile agree, whatever calls failed half-way.
THEOREM NoCapabilityIsOrphaned == Spec => []ZeroOrphan
<1>1. Init => NoOrphan
  BY DEF Init, NoOrphan
<1>2. HostInv /\ NoOrphan => ZeroOrphan
  <2> SUFFICES ASSUME HostInv, NoOrphan, ~broken PROVE ZeroOrphan
    BY DEF ZeroOrphan
  <2>1. ASSUME NEW c \in Caps, NEW i \in Ids
        PROVE  registry[c] = i <=>
                 i \in Installed /\ c \in Names(i, installed[i])
    <3>1. i # NoOne
      BY ExtensionAssumption
    <3>2. registry[c] = i =>
            i \in Installed /\ c \in Names(i, installed[i])
      BY <3>1 DEF NoOrphan, HostInv, Owned, Installed
    <3>3. i \in Installed /\ c \in Names(i, installed[i]) => registry[c] = i
      BY DEF HostInv, Owned, Installed
    <3> QED BY <3>2, <3>3
  <2> QED BY <2>1 DEF ZeroOrphan, NoOrphan, Installed
<1> QED BY <1>1, <1>2, NoOrphanStep, HostInvariant, PTL DEF Spec
=============================================================================
