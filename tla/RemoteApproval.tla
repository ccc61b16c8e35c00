--------------------------- MODULE RemoteApproval ---------------------------
(***************************************************************************)
(* What a `remote' presence rule promises the host agent and the owner,    *)
(* whatever the hub does inside: a tool call is let through only when a    *)
(* surface of the owner that may answer approved it, the call was shown    *)
(* whole, and no call gets two answers.                                    *)
(*                                                                         *)
(* The host hears one verdict per call.  It may hear "ask" although an     *)
(* answer was accepted (the timer and the answer cross), but it never      *)
(* hears an "allow" or a "deny" nobody gave.                               *)
(***************************************************************************)

CONSTANTS
  Calls,         \* tool calls of host agents that a remote rule covers
  Surfaces,      \* who can answer: the owner's clients and paired devices
  CallOwner,     \* [Calls -> owner]
  Complete,      \* [Calls -> BOOLEAN]: the surfaces can show the whole call
  SurfaceOwner,  \* [Surfaces -> owner]
  MayAnswer      \* [Surfaces -> BOOLEAN]: owner token, or an enabled device

VARIABLES
  verdict,       \* [Calls -> Verdicts]: what the host was told
  answer         \* [Calls -> Answers]: the answer the hub accepted

vars == <<verdict, answer>>

Verdicts == {"unasked", "open", "allow", "deny", "ask", "hungup"}

NoAnswer == [decision |-> "none", by |-> "nobody"]

Answers ==
  [decision : {"approve", "deny"}, by : Surfaces] \cup {NoAnswer}

TypeOK ==
  /\ verdict \in [Calls -> Verdicts]
  /\ answer \in [Calls -> Answers]

Init ==
  /\ verdict = [c \in Calls |-> "unasked"]
  /\ answer = [c \in Calls |-> NoAnswer]

Open(c) ==
  /\ verdict[c] = "unasked"
  /\ verdict' = [verdict EXCEPT ![c] = "open"]
  /\ UNCHANGED answer

\* A call whose client hung up can still be answered: nobody hears it.
Answer(c, s, d) ==
  /\ verdict[c] \in {"open", "hungup"}
  /\ answer[c] = NoAnswer
  /\ SurfaceOwner[s] = CallOwner[c]
  /\ MayAnswer[s]
  /\ d = "approve" => Complete[c]
  /\ answer' = [answer EXCEPT ![c] = [decision |-> d, by |-> s]]
  /\ UNCHANGED verdict

Allow(c) ==
  /\ verdict[c] = "open"
  /\ answer[c].decision = "approve"
  /\ verdict' = [verdict EXCEPT ![c] = "allow"]
  /\ UNCHANGED answer

Deny(c) ==
  /\ verdict[c] = "open"
  /\ answer[c].decision = "deny"
  /\ verdict' = [verdict EXCEPT ![c] = "deny"]
  /\ UNCHANGED answer

Ask(c) ==
  /\ verdict[c] = "open"
  /\ verdict' = [verdict EXCEPT ![c] = "ask"]
  /\ UNCHANGED answer

HangUp(c) ==
  /\ verdict[c] = "open"
  /\ verdict' = [verdict EXCEPT ![c] = "hungup"]
  /\ UNCHANGED answer

Next ==
  \E c \in Calls :
    \/ Open(c)
    \/ \E s \in Surfaces, d \in {"approve", "deny"} : Answer(c, s, d)
    \/ Allow(c)
    \/ Deny(c)
    \/ Ask(c)
    \/ HangUp(c)

Spec == Init /\ [][Next]_vars
=============================================================================
