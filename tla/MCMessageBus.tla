---------------------------- MODULE MCMessageBus ----------------------------
(* A small bus: two agents, one capability, two messages, two receivers.     *)
EXTENDS MessageBus, TLC

CONSTANTS c1, h1, t1

MCAgents == {1, 2}

Blank ==
  [type |-> "request", from |-> 1, to |-> None, capability |-> None, reply |-> None,
   trace |-> t1]

\* One message of each way to route: direct, by capability, by in_reply_to (of a message
\* that may be on this bus, and of one that is not), and to the registry.
MCInputs ==
  {[Blank EXCEPT !.to = 2, !.capability = c1],
   [Blank EXCEPT !.capability = c1],
   [Blank EXCEPT !.type = "response", !.from = 2, !.reply = 1],
   [Blank EXCEPT !.type = "query", !.from = 2, !.capability = c1]}

\* The ways the code base registers: a runtime's start (a handler), POST /agents and the
\* capability router (a mailbox, no handler), a replacement, and a bare re-registration.
MCRegisterCalls ==
  {[agent |-> 1, handler |-> h1, capabilities |-> {c1}, useMailbox |-> FALSE, replace |-> FALSE],
   [agent |-> 1, handler |-> None, capabilities |-> None, useMailbox |-> TRUE, replace |-> FALSE],
   [agent |-> 1, handler |-> None, capabilities |-> {}, useMailbox |-> TRUE, replace |-> TRUE],
   [agent |-> 2, handler |-> None, capabilities |-> {c1}, useMailbox |-> TRUE, replace |-> FALSE]}
=============================================================================
