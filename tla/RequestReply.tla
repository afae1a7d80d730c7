----------------------------- MODULE RequestReply -----------------------------
(***************************************************************************)
(* What AgentRuntime.sendTask() promises its caller, whatever the bus and  *)
(* the other agents do (core/src/runtime/agent-runtime.ts):                *)
(*   - a call ends at most once, and its end does not change;              *)
(*   - a call ends "answered" only after some agent replied to it;         *)
(*   - a call that asked for no response never ends "answered" or          *)
(*     "timeout".                                                          *)
(***************************************************************************)
CONSTANTS
  Calls       \* task requests

VARIABLES
  call,       \* how far each call has got
  replied     \* the calls some agent has replied to

vars == <<call, replied>>

Open == {"waiting", "sending"}
Ends == {"answered", "timeout", "failed", "sent"}

Init ==
  /\ call = [c \in Calls |-> "idle"]
  /\ replied = {}

\* A call that waits for its response is "waiting", another one is "sending".
Issue(c, wait) ==
  /\ call[c] = "idle"
  /\ call' = [call EXCEPT ![c] = IF wait THEN "waiting" ELSE "sending"]
  /\ UNCHANGED replied

\* Any agent may reply to a message it knows of, more than once, or too late.
Reply(c) ==
  /\ replied' = replied \cup {c}
  /\ UNCHANGED call

End(c, how) ==
  /\ \/ call[c] = "waiting" /\ how \in {"timeout", "failed"}
     \/ call[c] = "waiting" /\ how = "answered" /\ c \in replied
     \/ call[c] = "sending" /\ how \in {"sent", "failed"}
  /\ call' = [call EXCEPT ![c] = how]
  /\ UNCHANGED replied

Next ==
  \E c \in Calls :
    \/ \E wait \in BOOLEAN : Issue(c, wait)
    \/ Reply(c)
    \/ \E how \in Ends : End(c, how)

Spec == Init /\ [][Next]_vars
===============================================================================
