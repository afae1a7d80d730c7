--------------------------- MODULE MCResilientSend ----------------------------
EXTENDS ResilientSend

\* Two agents with handlers that offer the task, of which the first one offers its fallback,
\* too, as does one with a mailbox.
MCOfferedBy == << {"premium", "standard"}, {"premium"}, {"standard"} >>

Ordering(to, fallbackCapabilities, recovery) ==
  [capability |-> "premium", to |-> to, fallbackCapabilities |-> fallbackCapabilities,
   recovery |-> recovery]

Retrying ==
  [maxAttemptsPerAgent |-> 2, retryBackoffMs |-> 1, retryableTaskErrorCodes |-> {"E2"}]
Lenient ==
  [maxAttemptsPerAgent |-> 0, excludeFailedAgents |-> FALSE,
   fallbackAgents |-> <<1>>, fallbackCapabilities |-> <<"standard", "premium">>]
Ordered == [fallbackAgents |-> <<3, 1>>, maxAttemptsPerAgent |-> 2, maxTotalAttempts |-> 3]
AtMost(n) == [maxTotalAttempts |-> n]

Ask(step, policy, wait) == [step |-> step, policy |-> policy, wait |-> wait]

MCAsked ==
  {Ask(Ordering(Undefined, <<"standard">>, Undefined), Undefined, TRUE),
   Ask(Ordering(Undefined, <<>>, Undefined), Lenient, FALSE),
   Ask(Ordering(1, <<"standard">>, AtMost(0)), Retrying, TRUE),
   Ask(Ordering(Undefined, <<>>, AtMost(2)), Ordered, TRUE)}
===============================================================================
