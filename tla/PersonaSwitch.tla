--------------------------- MODULE PersonaSwitch ---------------------------
(***************************************************************************)
(* The persona a host agent's session acts as: the owner's choice in the   *)
(* hub and in state.json, what the hub remembers to have given a session,  *)
(* the context handler, and the hooks of the session that ask it           *)
(* (src/src/presence/hub.rs, routes.rs, context.rs, hook.rs).              *)
(*                                                                         *)
(* One owner.  A context is abstracted to the persona whose frame it       *)
(* carries (kind "session") or to none (kind "prompt", memories only).     *)
(* The hooks of one session run one after the other.                       *)
(***************************************************************************)
EXTENDS Naturals

CONSTANTS
  Sessions,      \* host sessions of the owner
  Personas,      \* the personas of the registry
  Heaviest,      \* the one resolve_persona falls back to
  None,          \* no choice, nothing given
  MaxSwitches,   \* bound: switches of the persona
  MaxPrompts,    \* bound: starts and prompts of all sessions
  MaxFaults      \* bound: restarts, lost calls, failed saves, silences

VARIABLES
  chosen,     \* personas[owner] of the hub, or None
  saved,      \* state.json
  listed,     \* the sessions of the hub
  silent,     \* those unheard of for SESSION_TTL_SECS
  injected,   \* what the hub recorded as given to a session, or None
  hook,       \* the running hook of a session, and its request
  acts,       \* the persona whose frame a session was given last, or None
  switches, prompts, faults

vars == <<chosen, saved, listed, silent, injected, hook, acts, switches, prompts, faults>>

Choices == Personas \cup {None}

NoHook == [at |-> "none", kind |-> "prompt", chosen |-> None, steady |-> TRUE]

Init ==
  /\ chosen = None /\ saved = None
  /\ listed = {} /\ silent = {}
  /\ injected = [s \in Sessions |-> None]
  /\ hook = [s \in Sessions |-> NoHook]
  /\ acts = [s \in Sessions |-> None]
  /\ switches = 0 /\ prompts = 0 /\ faults = 0

Fault == faults < MaxFaults /\ faults' = faults + 1
NoFault == UNCHANGED faults

\* resolve_persona: the choice when it exists, else the heaviest.
Resolve(choice) == IF choice \in Personas THEN choice ELSE Heaviest

----------------------------------------------------------------------------
\* set_persona: the choice, then the file (a failed write is only logged).
\* A hook that runs meanwhile may be told of either persona.
Switch(choice) ==
  /\ choice # chosen /\ switches < MaxSwitches
  /\ switches' = switches + 1
  /\ chosen' = choice
  /\ hook' = [s \in Sessions |-> [hook[s] EXCEPT !.steady = FALSE]]
  /\ \/ saved' = choice /\ NoFault
     \/ Fault /\ UNCHANGED saved
  /\ UNCHANGED <<listed, silent, injected, acts, prompts>>

\* record prunes the silent sessions, with what they were given, and lists
\* the event's session.
Record(s) ==
  /\ injected' = [q \in Sessions |-> IF q \in silent THEN None ELSE injected[q]]
  /\ listed' = (listed \ silent) \cup {s}
  /\ silent' = {}

\* A hook of the session posts its event first, then asks for the context.
Ask(s, kind) ==
  /\ hook[s].at = "none"
  /\ hook' = [hook EXCEPT ![s] = [NoHook EXCEPT !.at = "asked", !.kind = kind]]
  /\ \/ Record(s) /\ NoFault
     \/ Fault /\ UNCHANGED <<listed, silent, injected>>     \* the event is lost
  /\ UNCHANGED <<chosen, saved, switches>>

\* A start, a resume, a clear or a compaction.
SessionStart(s) ==
  /\ prompts < MaxPrompts /\ prompts' = prompts + 1
  /\ Ask(s, "session")
  /\ UNCHANGED acts

UserPrompt(s) ==
  /\ s \in listed \/ acts[s] # None
  /\ prompts < MaxPrompts /\ prompts' = prompts + 1
  /\ Ask(s, "prompt")
  /\ UNCHANGED acts

\* The session ends: its host forgets what it was given; the hub, if it hears.
SessionEnd(s) ==
  /\ hook[s].at = "none" /\ s \in listed
  /\ acts' = [acts EXCEPT ![s] = None]
  /\ \/ /\ listed' = (listed \ silent) \ {s} /\ silent' = {} /\ NoFault
        /\ injected' = [q \in Sessions |-> IF q \in silent \cup {s} THEN None ELSE injected[q]]
     \/ Fault /\ UNCHANGED <<listed, silent, injected>>
  /\ UNCHANGED <<chosen, saved, hook, switches, prompts>>

----------------------------------------------------------------------------
(* context_handler: two looks at the hub, the build, the mark, the answer. *)

ReadChosen(s) ==
  /\ hook[s].at = "asked"
  /\ hook' = [hook EXCEPT ![s].at = "chose", ![s].chosen = chosen]
  /\ UNCHANGED <<chosen, saved, listed, silent, injected, acts, switches, prompts, faults>>

\* A prompt of a session that was given another persona gets the whole frame.
ReadInjected(s) ==
  /\ hook[s].at = "chose"
  /\ LET given == injected[s]
         frame == given # None /\ given # Resolve(hook[s].chosen)
     IN hook' = [hook EXCEPT ![s].at = "build", ![s].kind = IF frame THEN "session" ELSE @]
  /\ UNCHANGED <<chosen, saved, listed, silent, injected, acts, switches, prompts, faults>>

\* build has read the memory; a whole frame is recorded as given.
MarkInjected(s) ==
  /\ hook[s].at = "build"
  /\ hook' = [hook EXCEPT ![s].at = "answer"]
  /\ injected' = IF hook[s].kind = "session"
                   THEN [injected EXCEPT ![s] = Resolve(hook[s].chosen)] ELSE injected
  /\ UNCHANGED <<chosen, saved, listed, silent, acts, switches, prompts, faults>>

\* The hook prints the context for its host.
Answer(s) ==
  /\ hook[s].at = "answer"
  /\ acts' = IF hook[s].kind = "session"
               THEN [acts EXCEPT ![s] = Resolve(hook[s].chosen)] ELSE acts
  /\ hook' = [hook EXCEPT ![s] = NoHook]
  /\ UNCHANGED <<chosen, saved, listed, silent, injected, switches, prompts, faults>>

\* The hook's 4 seconds pass: the handler is dropped, or its answer is lost.
GiveUp(s) ==
  /\ hook[s].at # "none" /\ Fault
  /\ hook' = [hook EXCEPT ![s] = NoHook]
  /\ UNCHANGED <<chosen, saved, listed, silent, injected, acts, switches, prompts>>

----------------------------------------------------------------------------
\* A session is left alone for SESSION_TTL_SECS (its host is open, and idle).
FallSilent(s) ==
  /\ s \in listed \ silent /\ hook[s].at = "none" /\ Fault
  /\ silent' = silent \cup {s}
  /\ UNCHANGED <<chosen, saved, listed, injected, hook, acts, switches, prompts>>

\* The daemon starts anew: the choice is read back, the sessions are not.
Restart ==
  /\ Fault
  /\ chosen' = saved
  /\ listed' = {} /\ silent' = {}
  /\ injected' = [s \in Sessions |-> None]
  /\ hook' = [s \in Sessions |-> NoHook]
  /\ UNCHANGED <<saved, acts, switches, prompts>>

Next ==
  \/ Restart
  \/ \E choice \in Choices : Switch(choice)
  \/ \E s \in Sessions :
       \/ SessionStart(s) \/ UserPrompt(s) \/ SessionEnd(s)
       \/ ReadChosen(s) \/ ReadInjected(s) \/ MarkInjected(s) \/ Answer(s)
       \/ GiveUp(s) \/ FallSilent(s)

Spec == Init /\ [][Next]_vars

----------------------------------------------------------------------------
TypeOK ==
  /\ chosen \in Choices /\ saved \in Choices
  /\ listed \subseteq Sessions /\ silent \subseteq listed
  /\ injected \in [Sessions -> Choices] /\ acts \in [Sessions -> Choices]
  /\ hook \in [Sessions -> [at : {"none", "asked", "chose", "build", "answer"},
                            kind : {"session", "prompt"}, chosen : Choices,
                            steady : BOOLEAN]]
  /\ switches \in 0 .. MaxSwitches /\ prompts \in 0 .. MaxPrompts
  /\ faults \in 0 .. MaxFaults

(***************************************************************************)
(* A switch is effective from the next prompt (as the Claude Code pack's   *)
(* README says): a session that acts as a persona and is answered acts as  *)
(* the one chosen when its hook asked, if none was chosen since.           *)
(***************************************************************************)
EffectiveFromNextPrompt ==
  [][\A s \in Sessions :
       Answer(s) /\ hook[s].steady /\ acts[s] # None => acts'[s] = Resolve(chosen)]_vars

=============================================================================
