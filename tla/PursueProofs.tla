---------------------------- MODULE PursueProofs ----------------------------
(***************************************************************************)
(* Proofs about Pursue, for every set of tasks, parallelism and bound.     *)
(***************************************************************************)
EXTENDS Pursue, TLAPS

StoreType ==
  /\ status \in [Tasks -> TaskStatus]
  /\ attempts \in [Tasks -> Seq(Verdicts)]
  /\ marked \in SUBSET Tasks
  /\ credited \in [Tasks -> Seq(Nat)]

ProcessType ==
  /\ driver \in [Tasks -> {"off", "queued"} \cup CodingSteps \cup DelegateSteps]
  /\ driver[Parent] \in {"off"} \cup DelegateSteps
  /\ \A t \in Tasks \ {Parent} : driver[t] \in {"off", "queued"} \cup CodingSteps
  /\ current \in SUBSET Tasks
  /\ spawned \in SUBSET Children
  /\ summary \in BOOLEAN

\* A driver is about to run an attempt only if one is left.
AttemptsInv ==
  \A t \in Tasks : /\ Len(attempts[t]) <= MaxAttempts
                   /\ driver[t] = "act" => Len(attempts[t]) < MaxAttempts

Types == StoreType /\ ProcessType /\ AttemptsInv

\* The steps of a driver before it has credited its task.
Uncredited == {"queued", "cycle", "act", "attribute", "credit"}

\* A task that has been credited has ended, and has no driver that could
\* credit it again or add an attempt.
CreditInv(t) ==
  /\ credited[t] \in {<<>>, <<Len(attempts[t])>>}
  /\ credited[t] # <<>> => status[t] \in Terminal /\ driver[t] \notin Uncredited
  /\ driver[t] \in {"attribute", "credit", "mark"} => status[t] \in Terminal
  /\ status[t] = "absent" => credited[t] = <<>> /\ driver[t] = "off"

\* Children have no driver before the parent's starts them all, which it
\* does once.
FreshInv ==
  status[Parent] = "absent" \/ driver[Parent] = "spawn" =>
    \A c \in Children : /\ driver[c] = "off"
                        /\ credited[c] = <<>>
                        /\ c \in spawned <=> status[c] # "absent"
                        /\ status[Parent] = "absent" => c \notin spawned

AllOff == \A c \in Children : driver[c] = "off"
AllCompleted == \A c \in Children : status[c] = "completed"

\* From the join on no child has a driver, so what the parent's driver was
\* told of them stays true.
VerdictInv ==
  /\ driver[Parent] \in {"summarize", "reload", "decide"} => AllOff
  /\ driver[Parent] \in {"reload", "decide"} => (summary <=> AllCompleted)
  /\ driver[Parent] = "decide" /\ Parent \in current =>
       status[Parent] \notin Terminal
  /\ status[Parent] \in {"completed", "escalated"} =>
       AllOff /\ driver[Parent] = "off"

PursueInv ==
  /\ Types
  /\ \A t \in Tasks : CreditInv(t)
  /\ FreshInv
  /\ VerdictInv
  /\ ParentFollowsChildren

\* Every step keeps the store's types.
LEMMA StoreStep ==
  ASSUME Types, Next
  PROVE  StoreType'
PROOF
<1> USE PursueAssumption DEF Goto, KeepBounds, store, process, Tasks, TaskStatus, Terminal, Verdicts, CodingSteps, DelegateSteps, Types, StoreType, ProcessType
<1>1. ASSUME NEW t \in Tasks, Enqueue(t) PROVE StoreType'
  BY <1>1 DEF Enqueue
<1>2. ASSUME NEW t \in Tasks, Act(t) PROVE StoreType'
  BY <1>2 DEF Act, Rolling
<1>3. ASSUME NEW t \in Tasks, Execute(t) PROVE StoreType'
  BY <1>3 DEF Execute
<1>4. ASSUME NEW t \in Tasks, Conclude(t) PROVE StoreType'
  BY <1>4 DEF Conclude, Rolling
<1>5. ASSUME NEW t \in Tasks, Return(t) PROVE StoreType'
  BY <1>5 DEF Return
<1>6. ASSUME NEW t \in Tasks, CycleFails(t) PROVE StoreType'
  BY <1>6 DEF CycleFails
<1>7. ASSUME NEW t \in Tasks, Attribute(t) PROVE StoreType'
  BY <1>7 DEF Attribute, FinalAttempt
<1>8. ASSUME NEW t \in Tasks, Credit(t) PROVE StoreType'
  BY <1>8 DEF Credit, FinalAttempt
<1>9. ASSUME NEW t \in Tasks, Mark(t) PROVE StoreType'
  BY <1>9 DEF Mark
<1>10. ASSUME NEW c \in Children, SpawnChild(c) PROVE StoreType'
  BY <1>10 DEF SpawnChild
<1>11. CASE SpawnFails
  BY <1>11 DEF SpawnFails
<1>12. CASE StartAll
  BY <1>12 DEF StartAll
<1>13. ASSUME NEW c \in Children, Acquire(c) PROVE StoreType'
  BY <1>13 DEF Acquire
<1>14. CASE Join
  BY <1>14 DEF Join, Joined
<1>15. CASE Summarize
  BY <1>15 DEF Summarize
<1>16. CASE Reload
  BY <1>16 DEF Reload
<1>17. CASE Decide
  BY <1>17 DEF Decide, AtLoadedRevision
<1>18. ASSUME NEW t \in Tasks, Command(t) PROVE StoreType'
  BY <1>18 DEF Command, Pause, Resume, Cancel, Steer, Written
<1>19. CASE Restart
  BY <1>19 DEF Restart
<1> QED BY <1>1, <1>2, <1>3, <1>4, <1>5, <1>6, <1>7, <1>8, <1>9, <1>10, <1>11, <1>12, <1>13, <1>14, <1>15, <1>16, <1>17, <1>18, <1>19 DEF Next, CodingStep, DelegateStep

\* The attribution goes on to the credit or ends there.
LEMMA AttributeTypes ==
  ASSUME Types, NEW t \in Tasks, Attribute(t)
  PROVE  ProcessType'
PROOF
<1> DEFINE steps == {"off", "queued"} \cup CodingSteps \cup DelegateSteps
<1>1. /\ driver \in [Tasks -> steps] /\ driver[t] = "attribute"
      /\ t # Parent
  BY PursueAssumption
     DEF Types, ProcessType, Attribute, CodingSteps, DelegateSteps
<1>2. PICK s \in {"off", "credit"} : driver' = [driver EXCEPT ![t] = s]
  BY DEF Attribute, Goto
<1>3. s \in steps \cap ({"off", "queued"} \cup CodingSteps)
  BY DEF CodingSteps
<1>4. driver' \in [Tasks -> steps]
  <2> HIDE DEF steps
  <2> QED BY <1>1, <1>2, <1>3
<1>5. /\ driver'[Parent] \in {"off"} \cup DelegateSteps
      /\ \A u \in Tasks \ {Parent} :
           driver'[u] \in {"off", "queued"} \cup CodingSteps
  BY <1>1, <1>2, <1>3 DEF Types, ProcessType, Tasks
<1>6. current' \in SUBSET Tasks /\ UNCHANGED <<spawned, summary>>
  BY DEF Types, ProcessType, Attribute
<1> QED BY <1>4, <1>5, <1>6 DEF Types, ProcessType

\* Every step keeps the drivers' types.
LEMMA ProcessStep ==
  ASSUME Types, Next
  PROVE  ProcessType'
PROOF
<1> USE PursueAssumption DEF Goto, KeepBounds, store, process, Tasks, TaskStatus, Terminal, Verdicts, CodingSteps, DelegateSteps, Types, StoreType, ProcessType
<1>1. ASSUME NEW t \in Tasks, Enqueue(t) PROVE ProcessType'
  BY <1>1 DEF Enqueue
<1>2. ASSUME NEW t \in Tasks, Act(t) PROVE ProcessType'
  BY <1>2 DEF Act, Rolling
<1>3. ASSUME NEW t \in Tasks, Execute(t) PROVE ProcessType'
  BY <1>3 DEF Execute
<1>4. ASSUME NEW t \in Tasks, Conclude(t) PROVE ProcessType'
  BY <1>4 DEF Conclude, Rolling
<1>5. ASSUME NEW t \in Tasks, Return(t) PROVE ProcessType'
  BY <1>5 DEF Return
<1>6. ASSUME NEW t \in Tasks, CycleFails(t) PROVE ProcessType'
  BY <1>6 DEF CycleFails
<1>7. ASSUME NEW t \in Tasks, Attribute(t) PROVE ProcessType'
  BY <1>7, AttributeTypes
<1>8. ASSUME NEW t \in Tasks, Credit(t) PROVE ProcessType'
  BY <1>8 DEF Credit, FinalAttempt
<1>9. ASSUME NEW t \in Tasks, Mark(t) PROVE ProcessType'
  BY <1>9 DEF Mark
<1>10. ASSUME NEW c \in Children, SpawnChild(c) PROVE ProcessType'
  BY <1>10 DEF SpawnChild
<1>11. CASE SpawnFails
  BY <1>11 DEF SpawnFails
<1>12. CASE StartAll
  BY <1>12 DEF StartAll
<1>13. ASSUME NEW c \in Children, Acquire(c) PROVE ProcessType'
  BY <1>13 DEF Acquire
<1>14. CASE Join
  BY <1>14 DEF Join, Joined
<1>15. CASE Summarize
  BY <1>15 DEF Summarize
<1>16. CASE Reload
  BY <1>16 DEF Reload
<1>17. CASE Decide
  BY <1>17 DEF Decide, AtLoadedRevision
<1>18. ASSUME NEW t \in Tasks, Command(t) PROVE ProcessType'
  BY <1>18 DEF Command, Pause, Resume, Cancel, Steer, Written
<1>19. CASE Restart
  BY <1>19 DEF Restart
<1> QED BY <1>1, <1>2, <1>3, <1>4, <1>5, <1>6, <1>7, <1>8, <1>9, <1>10, <1>11, <1>12, <1>13, <1>14, <1>15, <1>16, <1>17, <1>18, <1>19 DEF Next, CodingStep, DelegateStep

\* No step makes more attempts than there may be.
LEMMA AttemptsStep ==
  ASSUME Types, Next
  PROVE  AttemptsInv'
PROOF
<1> USE PursueAssumption DEF Goto, KeepBounds, store, process, Tasks, TaskStatus, Terminal, Verdicts, CodingSteps, DelegateSteps, Types, StoreType, ProcessType, AttemptsInv, Choice
<1>1. ASSUME NEW t \in Tasks, Enqueue(t) PROVE AttemptsInv'
  BY <1>1 DEF Enqueue
<1>2. ASSUME NEW t \in Tasks, Act(t) PROVE AttemptsInv'
  BY <1>2 DEF Act, Rolling
<1>3. ASSUME NEW t \in Tasks, Execute(t) PROVE AttemptsInv'
  BY <1>3 DEF Execute
<1>4. ASSUME NEW t \in Tasks, Conclude(t) PROVE AttemptsInv'
  BY <1>4 DEF Conclude, Rolling
<1>5. ASSUME NEW t \in Tasks, Return(t) PROVE AttemptsInv'
  BY <1>5 DEF Return
<1>6. ASSUME NEW t \in Tasks, CycleFails(t) PROVE AttemptsInv'
  BY <1>6 DEF CycleFails
<1>7. ASSUME NEW t \in Tasks, Attribute(t) PROVE AttemptsInv'
  BY <1>7 DEF Attribute, FinalAttempt
<1>8. ASSUME NEW t \in Tasks, Credit(t) PROVE AttemptsInv'
  BY <1>8 DEF Credit, FinalAttempt
<1>9. ASSUME NEW t \in Tasks, Mark(t) PROVE AttemptsInv'
  BY <1>9 DEF Mark
<1>10. ASSUME NEW c \in Children, SpawnChild(c) PROVE AttemptsInv'
  BY <1>10 DEF SpawnChild
<1>11. CASE SpawnFails
  BY <1>11 DEF SpawnFails
<1>12. CASE StartAll
  BY <1>12 DEF StartAll
<1>13. ASSUME NEW c \in Children, Acquire(c) PROVE AttemptsInv'
  BY <1>13 DEF Acquire
<1>14. CASE Join
  BY <1>14 DEF Join, Joined
<1>15. CASE Summarize
  BY <1>15 DEF Summarize
<1>16. CASE Reload
  BY <1>16 DEF Reload
<1>17. CASE Decide
  BY <1>17 DEF Decide, AtLoadedRevision
<1>18. ASSUME NEW t \in Tasks, Command(t) PROVE AttemptsInv'
  BY <1>18 DEF Command, Pause, Resume, Cancel, Steer, Written
<1>19. CASE Restart
  BY <1>19 DEF Restart
<1> QED BY <1>1, <1>2, <1>3, <1>4, <1>5, <1>6, <1>7, <1>8, <1>9, <1>10, <1>11, <1>12, <1>13, <1>14, <1>15, <1>16, <1>17, <1>18, <1>19 DEF Next, CodingStep, DelegateStep

\* A task is credited once, when it has ended.
LEMMA CreditStep ==
  ASSUME Types, FreshInv, NEW i \in Tasks, CreditInv(i), Next
  PROVE  CreditInv(i)'
PROOF
<1> USE PursueAssumption DEF Goto, KeepBounds, store, process, Tasks, TaskStatus, Terminal, Verdicts, CodingSteps, DelegateSteps, Types, StoreType, ProcessType, FreshInv, CreditInv, Uncredited
<1>1. ASSUME NEW t \in Tasks, Enqueue(t) PROVE CreditInv(i)'
  BY <1>1 DEF Enqueue
<1>2. ASSUME NEW t \in Tasks, Act(t) PROVE CreditInv(i)'
  BY <1>2 DEF Act, Rolling
<1>3. ASSUME NEW t \in Tasks, Execute(t) PROVE CreditInv(i)'
  BY <1>3 DEF Execute
<1>4. ASSUME NEW t \in Tasks, Conclude(t) PROVE CreditInv(i)'
  BY <1>4 DEF Conclude, Rolling
<1>5. ASSUME NEW t \in Tasks, Return(t) PROVE CreditInv(i)'
  BY <1>5 DEF Return
<1>6. ASSUME NEW t \in Tasks, CycleFails(t) PROVE CreditInv(i)'
  BY <1>6 DEF CycleFails
<1>7. ASSUME NEW t \in Tasks, Attribute(t) PROVE CreditInv(i)'
  BY <1>7 DEF Attribute, FinalAttempt
<1>8. ASSUME NEW t \in Tasks, Credit(t) PROVE CreditInv(i)'
  <2>1. CASE i # t
    BY <1>8, <2>1 DEF Credit
  <2>2. CASE i = t
    <3>1. credited[i] = <<>> /\ status[i] \in Terminal
      BY <1>8, <2>2 DEF Credit
    <3>2. Append(<<>>, Len(attempts[i])) = <<Len(attempts[i])>>
      OBVIOUS
    <3>3. credited'[i] = <<Len(attempts[i])>>
      BY <1>8, <2>2, <3>1, <3>2 DEF Credit, FinalAttempt
    <3>4. driver'[i] = "mark" /\ UNCHANGED <<status, attempts>>
      BY <1>8, <2>2 DEF Credit
    <3> QED BY <3>1, <3>3, <3>4
  <2> QED BY <2>1, <2>2
<1>9. ASSUME NEW t \in Tasks, Mark(t) PROVE CreditInv(i)'
  BY <1>9 DEF Mark
<1>10. ASSUME NEW c \in Children, SpawnChild(c) PROVE CreditInv(i)'
  BY <1>10 DEF SpawnChild
<1>11. CASE SpawnFails
  BY <1>11 DEF SpawnFails
<1>12. CASE StartAll
  BY <1>12 DEF StartAll
<1>13. ASSUME NEW c \in Children, Acquire(c) PROVE CreditInv(i)'
  BY <1>13 DEF Acquire
<1>14. CASE Join
  BY <1>14 DEF Join, Joined
<1>15. CASE Summarize
  BY <1>15 DEF Summarize
<1>16. CASE Reload
  BY <1>16 DEF Reload
<1>17. CASE Decide
  BY <1>17 DEF Decide, AtLoadedRevision
<1>18. ASSUME NEW t \in Tasks, Command(t) PROVE CreditInv(i)'
  BY <1>18 DEF Command, Pause, Resume, Cancel, Steer, Written
<1>19. CASE Restart
  BY <1>19 DEF Restart
<1> QED BY <1>1, <1>2, <1>3, <1>4, <1>5, <1>6, <1>7, <1>8, <1>9, <1>10, <1>11, <1>12, <1>13, <1>14, <1>15, <1>16, <1>17, <1>18, <1>19 DEF Next, CodingStep, DelegateStep

\* The children wait for their parent's driver.
LEMMA FreshStep ==
  ASSUME Types, FreshInv, \A t \in Tasks : CreditInv(t), Next
  PROVE  FreshInv'
PROOF
<1> USE PursueAssumption DEF Goto, KeepBounds, store, process, Tasks, TaskStatus, Terminal, Verdicts, CodingSteps, DelegateSteps, Types, StoreType, ProcessType, FreshInv, CreditInv
<1>1. ASSUME NEW t \in Tasks, Enqueue(t) PROVE FreshInv'
  BY <1>1 DEF Enqueue
<1>2. ASSUME NEW t \in Tasks, Act(t) PROVE FreshInv'
  BY <1>2 DEF Act, Rolling
<1>3. ASSUME NEW t \in Tasks, Execute(t) PROVE FreshInv'
  BY <1>3 DEF Execute
<1>4. ASSUME NEW t \in Tasks, Conclude(t) PROVE FreshInv'
  BY <1>4 DEF Conclude, Rolling
<1>5. ASSUME NEW t \in Tasks, Return(t) PROVE FreshInv'
  BY <1>5 DEF Return
<1>6. ASSUME NEW t \in Tasks, CycleFails(t) PROVE FreshInv'
  BY <1>6 DEF CycleFails
<1>7. ASSUME NEW t \in Tasks, Attribute(t) PROVE FreshInv'
  BY <1>7 DEF Attribute, FinalAttempt
<1>8. ASSUME NEW t \in Tasks, Credit(t) PROVE FreshInv'
  BY <1>8 DEF Credit, FinalAttempt
<1>9. ASSUME NEW t \in Tasks, Mark(t) PROVE FreshInv'
  BY <1>9 DEF Mark
<1>10. ASSUME NEW c \in Children, SpawnChild(c) PROVE FreshInv'
  BY <1>10 DEF SpawnChild
<1>11. CASE SpawnFails
  BY <1>11 DEF SpawnFails
<1>12. CASE StartAll
  BY <1>12 DEF StartAll
<1>13. ASSUME NEW c \in Children, Acquire(c) PROVE FreshInv'
  BY <1>13 DEF Acquire
<1>14. CASE Join
  BY <1>14 DEF Join, Joined
<1>15. CASE Summarize
  BY <1>15 DEF Summarize
<1>16. CASE Reload
  BY <1>16 DEF Reload
<1>17. CASE Decide
  BY <1>17 DEF Decide, AtLoadedRevision
<1>18. ASSUME NEW t \in Tasks, Command(t) PROVE FreshInv'
  BY <1>18 DEF Command, Pause, Resume, Cancel, Steer, Written
<1>19. CASE Restart
  BY <1>19 DEF Restart
<1> QED BY <1>1, <1>2, <1>3, <1>4, <1>5, <1>6, <1>7, <1>8, <1>9, <1>10, <1>11, <1>12, <1>13, <1>14, <1>15, <1>16, <1>17, <1>18, <1>19 DEF Next, CodingStep, DelegateStep

\* What the parent was told stays true.
LEMMA VerdictStep ==
  ASSUME Types, VerdictInv, FreshInv, Next
  PROVE  VerdictInv'
PROOF
<1> USE PursueAssumption DEF Goto, KeepBounds, store, process, Tasks, TaskStatus, Terminal, Verdicts, CodingSteps, DelegateSteps, Types, StoreType, ProcessType, VerdictInv, AllOff, AllCompleted
<1>1. ASSUME NEW t \in Tasks, Enqueue(t) PROVE VerdictInv'
  BY <1>1 DEF Enqueue
<1>2. ASSUME NEW t \in Tasks, Act(t) PROVE VerdictInv'
  BY <1>2 DEF Act, Rolling
<1>3. ASSUME NEW t \in Tasks, Execute(t) PROVE VerdictInv'
  BY <1>3 DEF Execute
<1>4. ASSUME NEW t \in Tasks, Conclude(t) PROVE VerdictInv'
  BY <1>4 DEF Conclude, Rolling
<1>5. ASSUME NEW t \in Tasks, Return(t) PROVE VerdictInv'
  BY <1>5 DEF Return
<1>6. ASSUME NEW t \in Tasks, CycleFails(t) PROVE VerdictInv'
  BY <1>6 DEF CycleFails
<1>7. ASSUME NEW t \in Tasks, Attribute(t) PROVE VerdictInv'
  BY <1>7 DEF Attribute, FinalAttempt
<1>8. ASSUME NEW t \in Tasks, Credit(t) PROVE VerdictInv'
  BY <1>8 DEF Credit, FinalAttempt
<1>9. ASSUME NEW t \in Tasks, Mark(t) PROVE VerdictInv'
  BY <1>9 DEF Mark
<1>10. ASSUME NEW c \in Children, SpawnChild(c) PROVE VerdictInv'
  BY <1>10 DEF SpawnChild
<1>11. CASE SpawnFails
  BY <1>11 DEF SpawnFails
<1>12. CASE StartAll
  BY <1>12 DEF StartAll
<1>13. ASSUME NEW c \in Children, Acquire(c) PROVE VerdictInv'
  BY <1>13 DEF Acquire
<1>14. CASE Join
  BY <1>14 DEF Join, Joined
<1>15. CASE Summarize
  BY <1>15 DEF Summarize
<1>16. CASE Reload
  BY <1>16 DEF Reload
<1>17. CASE Decide
  BY <1>17 DEF Decide, AtLoadedRevision
<1>18. ASSUME NEW t \in Tasks, Command(t) PROVE VerdictInv'
  BY <1>18 DEF Command, Pause, Resume, Cancel, Steer, Written
<1>19. CASE Restart
  BY <1>19 DEF Restart
<1> QED BY <1>1, <1>2, <1>3, <1>4, <1>5, <1>6, <1>7, <1>8, <1>9, <1>10, <1>11, <1>12, <1>13, <1>14, <1>15, <1>16, <1>17, <1>18, <1>19 DEF Next, CodingStep, DelegateStep

\* A verdict stays true of the children.
LEMMA ParentStep ==
  ASSUME Types, VerdictInv, ParentFollowsChildren, Next
  PROVE  ParentFollowsChildren'
PROOF
<1> USE PursueAssumption DEF Goto, KeepBounds, store, process, Tasks, TaskStatus, Terminal, Verdicts, CodingSteps, DelegateSteps, Types, StoreType, ProcessType, VerdictInv, AllOff, AllCompleted, ParentFollowsChildren
<1>1. ASSUME NEW t \in Tasks, Enqueue(t) PROVE ParentFollowsChildren'
  BY <1>1 DEF Enqueue
<1>2. ASSUME NEW t \in Tasks, Act(t) PROVE ParentFollowsChildren'
  BY <1>2 DEF Act, Rolling
<1>3. ASSUME NEW t \in Tasks, Execute(t) PROVE ParentFollowsChildren'
  BY <1>3 DEF Execute
<1>4. ASSUME NEW t \in Tasks, Conclude(t) PROVE ParentFollowsChildren'
  BY <1>4 DEF Conclude, Rolling
<1>5. ASSUME NEW t \in Tasks, Return(t) PROVE ParentFollowsChildren'
  BY <1>5 DEF Return
<1>6. ASSUME NEW t \in Tasks, CycleFails(t) PROVE ParentFollowsChildren'
  BY <1>6 DEF CycleFails
<1>7. ASSUME NEW t \in Tasks, Attribute(t) PROVE ParentFollowsChildren'
  BY <1>7 DEF Attribute, FinalAttempt
<1>8. ASSUME NEW t \in Tasks, Credit(t) PROVE ParentFollowsChildren'
  BY <1>8 DEF Credit, FinalAttempt
<1>9. ASSUME NEW t \in Tasks, Mark(t) PROVE ParentFollowsChildren'
  BY <1>9 DEF Mark
<1>10. ASSUME NEW c \in Children, SpawnChild(c) PROVE ParentFollowsChildren'
  BY <1>10 DEF SpawnChild
<1>11. CASE SpawnFails
  BY <1>11 DEF SpawnFails
<1>12. CASE StartAll
  BY <1>12 DEF StartAll
<1>13. ASSUME NEW c \in Children, Acquire(c) PROVE ParentFollowsChildren'
  BY <1>13 DEF Acquire
<1>14. CASE Join
  BY <1>14 DEF Join, Joined
<1>15. CASE Summarize
  BY <1>15 DEF Summarize
<1>16. CASE Reload
  BY <1>16 DEF Reload
<1>17. CASE Decide
  BY <1>17 DEF Decide, AtLoadedRevision
<1>18. ASSUME NEW t \in Tasks, Command(t) PROVE ParentFollowsChildren'
  BY <1>18 DEF Command, Pause, Resume, Cancel, Steer, Written
<1>19. CASE Restart
  BY <1>19 DEF Restart
<1> QED BY <1>1, <1>2, <1>3, <1>4, <1>5, <1>6, <1>7, <1>8, <1>9, <1>10, <1>11, <1>12, <1>13, <1>14, <1>15, <1>16, <1>17, <1>18, <1>19 DEF Next, CodingStep, DelegateStep

----------------------------------------------------------------------------
LEMMA InitInv ==
  ASSUME Init
  PROVE  PursueInv
PROOF
<1> USE PursueAssumption DEF Init, Tasks
<1>1. Types
  <2>1. StoreType
    BY DEF StoreType, TaskStatus
  <2>2. ProcessType
    BY DEF ProcessType
  <2>3. AttemptsInv
    BY DEF AttemptsInv
  <2> QED BY <2>1, <2>2, <2>3 DEF Types
<1>2. \A t \in Tasks : CreditInv(t)
  BY DEF CreditInv, Uncredited
<1>3. FreshInv /\ VerdictInv /\ ParentFollowsChildren
  BY DEF FreshInv, VerdictInv, AllOff, ParentFollowsChildren
<1> QED BY <1>1, <1>2, <1>3 DEF PursueInv

LEMMA StepInv ==
  ASSUME PursueInv, [Next]_vars
  PROVE  PursueInv'
PROOF
<1>1. CASE Next
  <2>1. Types'
    BY <1>1, StoreStep, ProcessStep, AttemptsStep DEF PursueInv, Types
  <2>2. ASSUME NEW t \in Tasks PROVE CreditInv(t)'
    BY <1>1, CreditStep DEF PursueInv
  <2>3. FreshInv' /\ VerdictInv' /\ ParentFollowsChildren'
    BY <1>1, FreshStep, VerdictStep, ParentStep DEF PursueInv
  <2> QED BY <2>1, <2>2, <2>3 DEF PursueInv
<1>2. CASE UNCHANGED vars
  BY <1>2 DEF vars, store, process, PursueInv, Types, StoreType, ProcessType,
     AttemptsInv, CreditInv, FreshInv, VerdictInv, AllOff, AllCompleted,
     ParentFollowsChildren
<1> QED BY <1>1, <1>2

\* Whatever the tasks, the owner, the failures and the restarts: types hold,
\* a task is credited once and after its end, and the parent's driver knows
\* what its children came to.
THEOREM PursueInvariant == Spec => []PursueInv
PROOF
<1>1. Init => PursueInv
  BY InitInv
<1>2. PursueInv /\ [Next]_vars => PursueInv'
  BY StepInv
<1> QED BY <1>1, <1>2, PTL DEF Spec

\* Every variable keeps its type; in particular no task has more attempts
\* than CodingChooser allows, although a driver counts them before it runs
\* one.
THEOREM TypeCorrect == Spec => []TypeOK
PROOF
<1>1. PursueInv => TypeOK
  BY DEF PursueInv, Types, StoreType, ProcessType, AttemptsInv, TypeOK
<1> QED BY <1>1, PursueInvariant, PTL

\* Attribution happens once for each task, and for the attempt the task was
\* judged by (attribute_terminal).
THEOREM CreditIsGivenOnce == Spec => []CreditedOnce
PROOF
<1>1. PursueInv => CreditedOnce
  BY DEF PursueInv, CreditInv, CreditedOnce
<1> QED BY <1>1, PursueInvariant, PTL

\* run_delegated's verdict is true of the children when it is written and
\* for ever after.
THEOREM VerdictsAreTrue == Spec => []ParentFollowsChildren
PROOF
<1>1. PursueInv => ParentFollowsChildren
  BY DEF PursueInv
<1> QED BY <1>1, PursueInvariant, PTL

\* No driver and no command changes how a task ended: the verdict on a parent
\* that was cancelled meanwhile is refused by its revision.
THEOREM EndsAreFinal == Spec => TerminalStays
PROOF
<1>1. ASSUME PursueInv, [Next]_vars, NEW i \in Tasks, status[i] \in Terminal
      PROVE  status'[i] = status[i]
  <2> USE <1>1, PursueAssumption DEF PursueInv, Types, StoreType, Terminal, Tasks
  <2>1. CASE UNCHANGED status
    BY <2>1
  <2>2. ASSUME NEW t \in Tasks, Enqueue(t) PROVE status'[i] = status[i]
    BY <2>2 DEF Enqueue
  <2>3. ASSUME NEW t \in Tasks, Act(t) \/ Conclude(t) PROVE status'[i] = status[i]
    BY <2>3 DEF Act, Conclude, Rolling
  <2>4. ASSUME NEW c \in Children, SpawnChild(c) PROVE status'[i] = status[i]
    BY <2>4 DEF SpawnChild, FreshInv
  <2>5. CASE Decide
    BY <2>5 DEF Decide, AtLoadedRevision, VerdictInv
  <2>6. ASSUME NEW t \in Tasks, Command(t) PROVE status'[i] = status[i]
    BY <2>6 DEF Command, Pause, Resume, Cancel, Steer, Written
  <2>7. ASSUME Next, status' # status
        PROVE  \/ Decide
               \/ \E t \in Tasks : Enqueue(t) \/ Act(t) \/ Conclude(t) \/ Command(t)
               \/ \E c \in Children : SpawnChild(c)
    BY <2>7 DEF Next, CodingStep, DelegateStep, store, Execute, Return,
       CycleFails, Attribute, Credit, Mark, SpawnFails, StartAll, Acquire,
       Join, Summarize, Reload, Restart
  <2>8. CASE Next
    BY <2>1, <2>2, <2>3, <2>4, <2>5, <2>6, <2>7, <2>8
  <2> QED BY <2>1, <2>8 DEF vars, store
<1>2. PursueInv /\ [Next]_vars =>
        [\A t \in Tasks : status[t] \in Terminal => status'[t] = status[t]]_vars
  BY <1>1
<1> QED BY <1>2, PursueInvariant, PTL DEF Spec, TerminalStays
=============================================================================
