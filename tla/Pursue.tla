------------------------------- MODULE Pursue -------------------------------
(***************************************************************************)
(* Durable Pursue tasks and who runs them (main.rs, adaptive/enqueue.rs,   *)
(* delegate.rs, exec.rs, procedural.rs), under the owner's /task commands  *)
(* (agent/task_command.rs).                                                *)
(*                                                                         *)
(* A request is stored as a pending task, and a driver is spawned for it   *)
(* there and then. A driver runs one coding cycle, or splits the objective *)
(* into children, runs a cycle for each under a semaphore, joins them and  *)
(* gives the parent its verdict. After a cycle that ended its task, the    *)
(* beliefs of the last verified attempt are reinforced and the task is     *)
(* marked. The task store outlives the process; the drivers do not.        *)
(*                                                                         *)
(* The cycle, the store and the orchestrator are bastion-core's, modelled  *)
(* from how this code uses them: a cycle takes a pending task to running,  *)
(* asks the chooser before every step, returns when the task is paused or  *)
(* terminal, and every write has a revision guard. A write that a command  *)
(* beat, and a runtime that cannot be reached, are errors of the cycle.    *)
(***************************************************************************)
EXTENDS Naturals, Sequences, FiniteSets

CONSTANTS
  Singles,         \* tasks whose objective is one unit of work
  Parent,          \* a task whose objective decompose() splits
  Children,        \* the tasks it is split into
  MaxParallelism,  \* bounds.max_parallelism of the parent
  MaxAttempts,     \* CodingChooser.max_attempts
  MaxCommands,     \* bound: /task commands
  MaxFailures,     \* bound: errors of the store, a cycle or a runtime
  MaxBoots         \* bound: restarts

Tasks == Singles \cup {Parent} \cup Children

ASSUME PursueAssumption ==
  /\ Parent \notin Singles \cup Children /\ Singles \cap Children = {}
  /\ IsFiniteSet(Children) /\ Children # {}
  /\ MaxParallelism \in Nat
  /\ MaxAttempts \in Nat \ {0}
  /\ MaxCommands \in Nat /\ MaxFailures \in Nat /\ MaxBoots \in Nat

VARIABLES
  status,    \* [Tasks -> TaskStatus]
  attempts,  \* [Tasks -> Seq of verdicts]
  marked,    \* tasks whose business_state says procedural_attributed
  driver,    \* [Tasks -> where its driver is, "off" if it has none]
  current,   \* tasks whose driver holds the case as it is stored
  spawned,   \* children registered by the parent's driver
  summary,   \* what summarize_children told it: did a child not succeed
  credited,  \* [Tasks -> Seq(Nat)]: history: the attempts reinforced
  commands, failures, boots

store == <<status, attempts, marked, credited>>
process == <<driver, current, spawned, summary>>
vars == <<store, process, commands, failures, boots>>

TaskStatus == {"absent", "pending", "running", "paused", "completed", "escalated", "cancelled"}
Terminal == {"completed", "escalated", "cancelled"}
Verdicts == {"succeeded", "failed"}
CodingSteps == {"cycle", "act", "attribute", "credit", "mark"}
DelegateSteps == {"spawn", "join", "summarize", "reload", "decide"}

TypeOK ==
  /\ status \in [Tasks -> TaskStatus]
  /\ \A t \in Tasks : attempts[t] \in Seq(Verdicts) /\ Len(attempts[t]) <= MaxAttempts
  /\ marked \subseteq Tasks /\ current \subseteq Tasks
  /\ driver \in [Tasks -> {"off", "queued"} \cup CodingSteps \cup DelegateSteps]
  /\ spawned \subseteq Children
  /\ summary \in BOOLEAN
  /\ credited \in [Tasks -> Seq(Nat)]

Init ==
  /\ status = [t \in Tasks |-> "absent"]
  /\ attempts = [t \in Tasks |-> <<>>]
  /\ marked = {}
  /\ driver = [t \in Tasks |-> "off"]
  /\ current = {}
  /\ spawned = {}
  /\ summary = FALSE
  /\ credited = [t \in Tasks |-> <<>>]
  /\ commands = 0 /\ failures = 0 /\ boots = 0

Goto(t, step) == driver' = [driver EXCEPT ![t] = step]
KeepBounds == UNCHANGED <<commands, failures, boots>>

\* enqueue_pursue, then the background driver the daemon's loop spawns.
Enqueue(t) ==
  /\ t \notin Children /\ status[t] = "absent"
  /\ status' = [status EXCEPT ![t] = "pending"]
  /\ Goto(t, IF t = Parent THEN "spawn" ELSE "cycle")
  /\ UNCHANGED <<attempts, marked, credited, current, spawned, summary>>
  /\ KeepBounds

(***************************************************************************)
(* run_coding_pursue: the cycle                                            *)
(***************************************************************************)
\* CodingChooser::choose, on the attempts so far.
Choice(tried) ==
  IF tried = <<>> THEN "act"
  ELSE IF tried[Len(tried)] = "succeeded" THEN "complete"
  ELSE IF Len(tried) >= MaxAttempts THEN "escalate" ELSE "act"

Rolling(t) == driver[t] = "cycle" /\ status[t] \in {"pending", "running"}

Act(t) ==
  /\ Rolling(t) /\ Choice(attempts[t]) = "act"
  /\ status' = [status EXCEPT ![t] = "running"]
  /\ Goto(t, "act")
  /\ UNCHANGED <<attempts, marked, credited, current, spawned, summary>>
  /\ KeepBounds

\* RuntimeTaskExecutor::execute drives the session to its end and leaves an
\* exit status, from which RuntimeOutcomeVerifier judges.
Execute(t) ==
  /\ driver[t] = "act"
  /\ \E verdict \in Verdicts :
       attempts' = [attempts EXCEPT ![t] = Append(@, verdict)]
  /\ Goto(t, "cycle")
  /\ UNCHANGED <<status, marked, credited, current, spawned, summary>>
  /\ KeepBounds

Conclude(t) ==
  /\ Rolling(t) /\ Choice(attempts[t]) \in {"complete", "escalate"}
  /\ status' = [status EXCEPT ![t] =
                  IF Choice(attempts[t]) = "complete" THEN "completed" ELSE "escalated"]
  /\ UNCHANGED <<attempts, marked, credited, process>> /\ KeepBounds

\* The cycle returns: a terminal task goes on to attribute_terminal.
Return(t) ==
  /\ driver[t] = "cycle"
  /\ status[t] \in Terminal \cup {"paused"}
  /\ Goto(t, IF status[t] = "paused" THEN "off" ELSE "attribute")
  /\ UNCHANGED <<store, current, spawned, summary>> /\ KeepBounds

\* run() returns an error; it is logged and that is all.
CycleFails(t) ==
  /\ driver[t] \in CodingSteps /\ failures < MaxFailures
  /\ failures' = failures + 1
  /\ Goto(t, "off")
  /\ UNCHANGED <<store, current, spawned, summary, commands, boots>>

(***************************************************************************)
(* attribute_terminal                                                      *)
(***************************************************************************)
\* Mutant: the first verified attempt, as if .rev() were missing.
MutFinalAttempt(tried) == IF tried = <<>> THEN 0 ELSE 1

\* The attempt a terminal task is judged by.
FinalAttempt(tried) == Len(tried)

\* It loads the case and gives up if it is marked or was never verified.
Attribute(t) ==
  /\ driver[t] = "attribute"
  /\ IF t \in marked \/ FinalAttempt(attempts[t]) = 0
     THEN Goto(t, "off") /\ UNCHANGED current
     ELSE Goto(t, "credit") /\ current' = current \cup {t}
  /\ UNCHANGED <<store, spawned, summary>> /\ KeepBounds

\* ProceduralLearner::attribute: the beliefs' utilities, stored at once.
Credit(t) ==
  /\ driver[t] = "credit"
  /\ credited' = [credited EXCEPT ![t] = Append(@, FinalAttempt(attempts[t]))]
  /\ Goto(t, "mark")
  /\ UNCHANGED <<status, attempts, marked, current, spawned, summary>>
  /\ KeepBounds

Mark(t) ==
  /\ driver[t] = "mark"
  /\ marked' = IF t \in current THEN marked \cup {t} ELSE marked
  /\ Goto(t, "off")
  /\ UNCHANGED <<status, attempts, credited, current, spawned, summary>>
  /\ KeepBounds

(***************************************************************************)
(* run_delegated                                                           *)
(***************************************************************************)
\* Orchestrator::spawn_child, one after the other.
SpawnChild(c) ==
  /\ driver[Parent] = "spawn" /\ c \notin spawned
  /\ spawned' = spawned \cup {c}
  /\ status' = [status EXCEPT ![c] = "pending"]
  /\ UNCHANGED <<attempts, marked, credited, driver, current, summary>>
  /\ KeepBounds

\* The `?` on it: the children registered so far are left as they are.
SpawnFails ==
  /\ driver[Parent] = "spawn" /\ failures < MaxFailures
  /\ failures' = failures + 1
  /\ Goto(Parent, "off")
  /\ UNCHANGED <<store, current, spawned, summary, commands, boots>>

\* One tokio task for each child.
StartAll ==
  /\ driver[Parent] = "spawn" /\ spawned = Children
  /\ driver' = [t \in Tasks |-> IF t \in Children THEN "queued"
                                ELSE IF t = Parent THEN "join" ELSE driver[t]]
  /\ UNCHANGED <<store, current, spawned, summary>> /\ KeepBounds

\* Mutant: without the .max(1).
MutPermits == MaxParallelism

Permits == IF MaxParallelism = 0 THEN 1 ELSE MaxParallelism

\* A child's task has its permit, until it ends.
Acquire(c) ==
  /\ driver[c] = "queued"
  /\ Cardinality({d \in Children : driver[d] \in CodingSteps}) < Permits
  /\ Goto(c, "cycle")
  /\ UNCHANGED <<store, current, spawned, summary>> /\ KeepBounds

\* Mutant: the handles are not awaited.
MutJoined == TRUE

Joined == \A c \in Children : driver[c] = "off"

Join ==
  /\ driver[Parent] = "join" /\ Joined
  /\ Goto(Parent, "summarize")
  /\ UNCHANGED <<store, current, spawned, summary>> /\ KeepBounds

\* summarize_children: whatever is not completed did not succeed.
Summarize ==
  /\ driver[Parent] = "summarize"
  /\ summary' = (Children # {} /\ \A c \in Children : status[c] = "completed")
  /\ Goto(Parent, "reload")
  /\ UNCHANGED <<store, current, spawned>> /\ KeepBounds

\* The parent is loaded again for its revision, and left if it has ended.
Reload ==
  /\ driver[Parent] = "reload"
  /\ IF status[Parent] \in Terminal
     THEN Goto(Parent, "off") /\ UNCHANGED current
     ELSE Goto(Parent, "decide") /\ current' = current \cup {Parent}
  /\ UNCHANGED <<store, spawned, summary>> /\ KeepBounds

\* Mutant: the verdict is written at whatever revision there is.
MutAtLoadedRevision == TRUE

\* transition_status takes effect at the revision that was loaded only.
AtLoadedRevision == Parent \in current

\* The parent is still pending here: whether its store ends a task that
\* never ran is not written in this repository, so it may refuse as well.
Decide ==
  /\ driver[Parent] = "decide"
  /\ Goto(Parent, "off")
  /\ \/ /\ AtLoadedRevision
        /\ status' = [status EXCEPT ![Parent] = IF summary THEN "completed" ELSE "escalated"]
     \/ UNCHANGED status
  /\ UNCHANGED <<attempts, marked, credited, current, spawned, summary>>
  /\ KeepBounds

(***************************************************************************)
(* The owner, and the process                                              *)
(***************************************************************************)
\* A command's write: the copy a driver holds of the case is old from here.
Written(t, s) ==
  /\ status' = [status EXCEPT ![t] = s]
  /\ current' = current \ {t}
  /\ commands < MaxCommands /\ commands' = commands + 1
  /\ UNCHANGED <<attempts, marked, credited, driver, spawned, summary, failures, boots>>

Pause(t) == status[t] = "running" /\ Written(t, "paused")
Resume(t) == status[t] = "paused" /\ Written(t, "running")
Cancel(t) == status[t] \in {"pending", "running", "paused"} /\ Written(t, "cancelled")
Steer(t) == status[t] \in {"pending", "running", "paused"} /\ Written(t, status[t])

\* Drivers are tasks of the process, and a start looks for none to run.
Restart ==
  /\ boots < MaxBoots
  /\ boots' = boots + 1
  /\ driver' = [t \in Tasks |-> "off"]
  /\ current' = {}
  /\ UNCHANGED <<store, spawned, summary, commands, failures>>

CodingStep(t) ==
  \/ Act(t) \/ Execute(t) \/ Conclude(t) \/ Return(t)
  \/ Attribute(t) \/ Credit(t) \/ Mark(t)
DelegateStep ==
  \/ \E c \in Children : SpawnChild(c)
  \/ StartAll \/ Join \/ Summarize \/ Reload \/ Decide
Command(t) == Pause(t) \/ Resume(t) \/ Cancel(t) \/ Steer(t)

Next ==
  \/ \E t \in Tasks : Enqueue(t) \/ CodingStep(t) \/ CycleFails(t) \/ Command(t)
  \/ \E c \in Children : Acquire(c)
  \/ DelegateStep \/ SpawnFails \/ Restart

\* A tokio task that can go on does; a session ends, by per_task if by
\* nothing else; tokio's semaphore is fair.
Fairness ==
  /\ \A t \in Tasks : WF_vars(CodingStep(t))
  /\ WF_vars(DelegateStep)
  /\ \A c \in Children : SF_vars(Acquire(c))

Spec == Init /\ [][Next]_vars /\ Fairness

(***************************************************************************)
(* Properties                                                              *)
(***************************************************************************)
\* CHANGELOG.md: "Attribution is persisted once per durable task, so
\* restart/resume cannot duplicate credit"; and a retry that failed is not
\* rewarded by the success after it: it is the last attempt that counts.
CreditedOnce ==
  \A t \in Tasks : credited[t] \in {<<>>, <<Len(attempts[t])>>}

\* delegate.rs: "all children succeeded -> Completed, otherwise Escalated":
\* the verdict on the parent stays true of its children, whoever paused,
\* resumed, steered, cancelled or broke one of them before or after it.
ParentFollowsChildren ==
  /\ status[Parent] = "completed" => \A c \in Children : status[c] = "completed"
  /\ status[Parent] = "escalated" => \E c \in Children : status[c] # "completed"

\* What ended stays ended the way it ended: a verdict reached on a copy of
\* the task loaded before /task cancel does not overwrite the cancellation.
TerminalStays ==
  [][\A t \in Tasks : status[t] \in Terminal => status'[t] = status[t]]_vars

\* run_delegated and run_coding_pursue return: children get their permits,
\* whatever max_parallelism says, and the join of a delegation ends.
DriversEnd == \A t \in Tasks : driver[t] # "off" ~> driver[t] = "off"

\* enqueue.rs: a pending task is "a resumable queue entry the adaptive
\* executor drains later", which "lets a complex objective survive restart".
PendingIsDrained ==
  \A t \in Singles : status[t] = "pending" ~> status[t] # "pending"
=============================================================================
