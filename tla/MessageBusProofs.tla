--------------------------- MODULE MessageBusProofs ---------------------------
(* Proofs about the message bus, for any agents, messages, bounds and modes; *)
(* and that agent runtimes (AgentRuntime) are clients of it, so that what is *)
(* proved of the bus holds of the one they use.                              *)
EXTENDS MessageBus, SequenceTheorems, TLAPS

\* A recipient list names agents, whatever the message.
LEMMA RecipientsAreAgents ==
  ASSUME TypeOK, NEW m \in Messages
  PROVE  Recipients(m) \subseteq Agents
<1>1. Registered \subseteq Agents
  BY DEF TypeOK
<1>2. \A c \in Capabilities : Least(capabilityIndex[c]) \subseteq Agents
                             /\ capabilityIndex[c] \subseteq Agents
  BY DEF TypeOK, Least
<1>3. ByCapability(m.capability) \subseteq Agents
  BY <1>2 DEF ByCapability, Least
<1>4. ReplyRecipient(m, recorded) \subseteq Agents
  BY DEF ReplyRecipient, TypeOK, Messages
<1>5. TaskRecipients(m) \subseteq Agents
  BY <1>1, <1>3 DEF TaskRecipients
<1>6. QueryRecipients(m) \subseteq Agents
  BY <1>1, <1>2 DEF QueryRecipients
<1> QED
  BY <1>4, <1>5, <1>6 DEF Recipients

\* Recording keeps a trace a sequence of message ids.
LEMMA RecordTyped ==
  ASSUME TypeOK, NEW t \in Traces, NEW s \in Sends
  PROVE  Record(t, s) \in Seq(Sends)
<1> DEFINE all == Append(traces[t], s)
<1>0. traces[t] \in Seq(Sends)
  BY DEF TypeOK
<1>1. all \in Seq(Sends) /\ all # <<>>
  BY <1>0
<1>2. Tail(all) \in Seq(Sends)
  BY <1>1
<1> QED
  BY <1>1, <1>2 DEF Record

\* Capability declarations keep the index a set of agents per capability.
LEMMA ReindexTyped ==
  ASSUME TypeOK, NEW a \in Agents, NEW old, NEW new
  PROVE  Reindex(capabilityIndex, a, old, new) \in [Capabilities -> SUBSET Agents]
BY DEF TypeOK, Reindex

LEMMA InitTypeOK == Init => TypeOK
<1> SUFFICES ASSUME Init PROVE TypeOK
  OBVIOUS
<1>1. NoMessage \in Messages
  BY BusConstants DEF NoMessage, Messages
<1> QED
  BY <1>1, BusConstants DEF Init, TypeOK, Registered, Sends, Waits, Boxes

LEMMA RegisterTypeOK ==
  ASSUME TypeOK, NEW r \in RegisterCalls,
         Register(r.agent, r.handler, r.capabilities, r.useMailbox, r.replace)
  PROVE  TypeOK'
<1>1. /\ r.agent \in Agents /\ r.handler \in Handlers \cup {None} /\ r.useMailbox \in BOOLEAN
      /\ r.capabilities \in (SUBSET Capabilities) \cup {None}
  BY BusInputs
<1>2. CASE MergeRegistration(r.agent, r.handler, r.capabilities, r.useMailbox)
           /\ r.agent \in Registered
  <2> DEFINE old == agents[r.agent]
             new == IF r.capabilities = None THEN old.capabilities ELSE r.capabilities
  <2>1. old \in Registrations
    BY <1>2 DEF TypeOK
  <2>2. capabilityIndex' \in [Capabilities -> SUBSET Agents]
    BY <1>1, <1>2, ReindexTyped DEF MergeRegistration
  <2>3. Registered' = Registered
    BY <1>2 DEF MergeRegistration, Registered
  <2>4. agents'[r.agent] \in Registrations
    BY SMTT(30), <1>1, <1>2, <2>1, BusConstants DEF MergeRegistration, Registrations, Registered, Boxes, TypeOK
  <2>5. \A a \in Registered : a # r.agent => agents'[a] = agents[a]
    BY <1>2 DEF MergeRegistration, Registered
  <2>6. boxes' \in 0..MaxBoxes
    BY <1>2, BusConstants DEF MergeRegistration, TypeOK
  <2> QED
    BY <2>2, <2>3, <2>4, <2>5, <2>6 DEF TypeOK, Register, traceVars, sendVars, mailVars
<1>3. CASE RegisterNew(r.agent, r.handler, r.capabilities, r.useMailbox)
  <2>1. Registered' = Registered \cup {r.agent}
    BY <1>3 DEF RegisterNew, Registered
  <2>2. capabilityIndex' \in [Capabilities -> SUBSET Agents]
    BY <1>1, <1>3, ReindexTyped DEF RegisterNew
  <2>3. agents'[r.agent] \in Registrations
    BY <1>1, <1>3, BusConstants DEF RegisterNew, Registrations, Boxes, TypeOK
  <2>4. \A a \in Registered : a # r.agent => agents'[a] = agents[a]
    BY <1>3 DEF RegisterNew
  <2>5. boxes' \in 0..MaxBoxes
    BY <1>3, BusConstants DEF RegisterNew, TypeOK
  <2> QED
    BY <1>1, <2>1, <2>2, <2>3, <2>4, <2>5 DEF TypeOK, Register, traceVars, sendVars, mailVars
<1> QED
  BY <1>2, <1>3 DEF Register

LEMMA UnregisterTypeOK ==
  ASSUME TypeOK, NEW a \in Agents, Unregister(a)
  PROVE  TypeOK'
<1>1. capabilityIndex' \in [Capabilities -> SUBSET Agents]
  BY ReindexTyped DEF Unregister
<1>2. Registered' \subseteq Registered /\ \A x \in Registered' : agents'[x] = agents[x]
  BY DEF Unregister, Registered
<1> QED
  BY <1>1, <1>2 DEF Unregister, TypeOK, traceVars, sendVars, mailVars

LEMMA IssueTypeOK ==
  ASSUME TypeOK, NEW m \in Messages, NEW st, Issue(m, st),
         st \in {"refused", "unroutable", "replayed", "delivering"}
  PROVE  /\ sent' \in 0..MaxSends /\ sent + 1 \in Sends
         /\ message' \in [Sends -> Messages]
         /\ stage' \in [Sends -> {"new", "refused", "unroutable", "replayed", "delivering",
                                 "handling", "ok", "failed"}]
BY BusConstants DEF Issue, TypeOK, Sends

LEMMA SendTypeOK ==
  ASSUME TypeOK, NEW m \in Messages,
         Send(m) \/ SendRefused(m, FALSE) \/ ReplayTraceMessage(m)
  PROVE  TypeOK'
<1>1. CASE SendRefused(m, TRUE) \/ SendRefused(m, FALSE)
  <2>1. Issue(m, "refused")
    BY <1>1 DEF SendRefused
  <2> QED
    BY <1>1, <2>1, IssueTypeOK DEF SendRefused, TypeOK, Registered, registryVars, traceVars, mailVars
<1>2. ASSUME RecordMessage(m, sent + 1), sent + 1 \in Sends
      PROVE  recorded' \subseteq Sends /\ traces' \in [Traces -> Seq(Sends)]
  BY <1>2, RecordTyped DEF RecordMessage, TypeOK, Messages
<1>3. CASE SendUnroutable(m)
  <2>1. Issue(m, "unroutable") /\ RecordMessage(m, sent + 1)
    BY <1>3 DEF SendUnroutable
  <2> QED
    BY <1>2, <1>3, <2>1, IssueTypeOK DEF SendUnroutable, TypeOK, Registered, registryVars, mailVars
<1>4. CASE SendRouted(m)
  <2>1. Issue(m, "delivering") /\ RecordMessage(m, sent + 1)
    BY <1>4 DEF SendRouted
  <2>2. Recipients(m) \subseteq Agents
    BY RecipientsAreAgents
  <2> QED
    BY <1>2, <1>4, <2>1, <2>2, IssueTypeOK DEF SendRouted, TypeOK, Registered, registryVars, mailVars
<1>5. CASE ReplayTraceMessage(m)
  <2>1. Issue(m, "replayed") /\ RecordMessage(m, sent + 1)
    BY <1>5 DEF ReplayTraceMessage
  <2> QED
    BY <1>2, <1>5, <2>1, IssueTypeOK DEF ReplayTraceMessage, TypeOK, Registered, registryVars, mailVars
<1> QED
  BY <1>1, <1>3, <1>4, <1>5 DEF Send

LEMMA DeliverTypeOK ==
  ASSUME TypeOK, NEW s \in Sends, NEW a \in Agents, DeliverTo(s, a)
  PROVE  TypeOK'
<1>1. ASSUME NEW b \in Boxes \cup {None}, ToMailbox(s, b)
      PROVE  /\ queue' \in [Boxes -> Seq(Sends)] /\ handed' \in [Boxes -> Seq(Sends)]
             /\ received' \in [Boxes -> Seq(Sends)] /\ waiters' \in [Boxes -> SUBSET Waits]
             /\ waiting' \in [Waits -> {"unused", "waiting", "received", "expired"}]
  <2>1. \A q \in Seq(Sends) : Append(q, s) \in Seq(Sends)
    OBVIOUS
  <2>2. CASE b = None /\ UNCHANGED <<queue, waiters, waiting, received, handed>>
    BY <2>2 DEF TypeOK
  <2>3. CASE b \in Boxes /\ HandOver(s, b)
    <3>1. Append(queue[b], s) \in Seq(Sends) /\ Append(handed[b], s) \in Seq(Sends)
          /\ Append(received[b], s) \in Seq(Sends)
      BY <2>1, <2>3 DEF TypeOK
    <3>2. handed' \in [Boxes -> Seq(Sends)]
      BY <2>3, <3>1 DEF HandOver, TypeOK
    <3>3. CASE queue' = [queue EXCEPT ![b] = Append(@, s)]
               /\ UNCHANGED <<waiters, waiting, received>>
      BY <3>1, <3>2, <3>3 DEF TypeOK
    <3>4. ASSUME NEW w \in Least(waiters[b]),
                 /\ waiters' = [waiters EXCEPT ![b] = @ \ {w}]
                 /\ waiting' = [waiting EXCEPT ![w] = IF @ = "waiting" THEN "received" ELSE @]
                 /\ received' = IF waiting[w] = "waiting"
                                THEN [received EXCEPT ![b] = Append(@, s)] ELSE received
                 /\ queue' = queue
          PROVE  /\ queue' \in [Boxes -> Seq(Sends)] /\ received' \in [Boxes -> Seq(Sends)]
                 /\ waiters' \in [Boxes -> SUBSET Waits]
                 /\ waiting' \in [Waits -> {"unused", "waiting", "received", "expired"}]
      BY <3>1, <3>4 DEF TypeOK
    <3> QED
      BY <2>3, <3>2, <3>3, <3>4 DEF HandOver
  <2> QED
    BY <1>1, <2>2, <2>3 DEF ToMailbox
<1>2. \A x \in Registered : agents[x].mailbox \in Boxes \cup {None}
  BY DEF TypeOK, Registrations
<1>3. rest' \in [Sends -> SUBSET Agents]
  BY DEF DeliverTo, TypeOK
<1>4. CASE a \notin Registered
  BY <1>3, <1>4 DEF DeliverTo, TypeOK, Registered, registryVars, traceVars
<1>5. CASE a \in Registered
  <2>1. ToMailbox(s, agents[a].mailbox)
    BY <1>5 DEF DeliverTo
  <2>2. /\ queue' \in [Boxes -> Seq(Sends)] /\ handed' \in [Boxes -> Seq(Sends)]
        /\ received' \in [Boxes -> Seq(Sends)] /\ waiters' \in [Boxes -> SUBSET Waits]
        /\ waiting' \in [Waits -> {"unused", "waiting", "received", "expired"}]
    BY <1>1, <1>2, <1>5, <2>1
  <2>3. /\ stage' \in [Sends -> {"new", "refused", "unroutable", "replayed", "delivering",
                                "handling", "ok", "failed"}]
        /\ delivered' \in [Sends -> BOOLEAN] /\ active' \in Sends \cup {None}
    BY <1>5 DEF DeliverTo, TypeOK
  <2> QED
    BY <1>3, <2>2, <2>3 DEF DeliverTo, TypeOK, Registered, registryVars, traceVars
<1> QED
  BY <1>4, <1>5

LEMMA WaitTypeOK ==
  ASSUME TypeOK, NEW a \in Agents, WaitForMessage(a)
  PROVE  TypeOK'
<1> DEFINE b == agents[a].mailbox
<1>1. b \in Boxes /\ waits + 1 \in Waits
  BY SMTT(30), BusConstants DEF WaitForMessage, TypeOK, Registrations, Waits
<1>2. /\ queue' \in [Boxes -> Seq(Sends)] /\ received' \in [Boxes -> Seq(Sends)]
      /\ waiters' \in [Boxes -> SUBSET Waits]
      /\ waiting' \in [Waits -> {"unused", "waiting", "received", "expired"}]
  <2>1. CASE queue[b] # <<>>
    <3>1. queue[b] \in Seq(Sends) /\ received[b] \in Seq(Sends)
      BY <1>1 DEF TypeOK
    <3>2. Tail(queue[b]) \in Seq(Sends) /\ Head(queue[b]) \in Sends
      BY <2>1, <3>1
    <3>3. Append(received[b], Head(queue[b])) \in Seq(Sends)
      BY <3>1, <3>2
    <3>4. /\ queue' = [queue EXCEPT ![b] = Tail(@)]
          /\ received' = [received EXCEPT ![b] = Append(@, Head(queue[b]))]
          /\ waiting' = [waiting EXCEPT ![waits + 1] = "received"] /\ waiters' = waiters
      BY <2>1 DEF WaitForMessage
    <3> QED
      BY <1>1, <3>2, <3>3, <3>4 DEF TypeOK
  <2>2. CASE queue[b] = <<>>
    <3>1. /\ queue' = queue /\ received' = received
          /\ waiters' = [waiters EXCEPT ![b] = @ \cup {waits + 1}]
          /\ waiting' = [waiting EXCEPT ![waits + 1] = "waiting"]
      BY <2>2 DEF WaitForMessage
    <3> QED
      BY <1>1, <3>1 DEF TypeOK
  <2> QED
    BY <2>1, <2>2
<1>3. waits' \in 0..MaxWaits /\ waitBox' \in [Waits -> Boxes \cup {None}]
  BY <1>1, BusConstants DEF WaitForMessage, TypeOK
<1> QED
  BY <1>2, <1>3 DEF WaitForMessage, TypeOK, Registered, registryVars, traceVars, sendVars

\* Every step keeps every variable in its type.
LEMMA NextTypeOK == TypeOK /\ [Next]_vars => TypeOK'
<1> SUFFICES ASSUME TypeOK, [Next]_vars PROVE TypeOK'
  OBVIOUS
<1>1. ASSUME NEW s \in Sends, NEW succeeds \in BOOLEAN, HandlerEnd(s, succeeds)
      PROVE  TypeOK'
  BY <1>1 DEF HandlerEnd, TypeOK, Registered, registryVars, traceVars, mailVars
<1>2. ASSUME NEW s \in Sends, Conclude(s)
      PROVE  TypeOK'
  BY <1>2 DEF Conclude, TypeOK, Registered, registryVars, traceVars, mailVars
<1>3. ASSUME NEW w \in Waits, WaitTimeout(w)
      PROVE  TypeOK'
  BY <1>3 DEF WaitTimeout, TypeOK, Registered, registryVars, traceVars, sendVars
<1>4. ASSUME NEW value \in BOOLEAN, SetOpen(value)
      PROVE  TypeOK'
  BY <1>4 DEF SetOpen, TypeOK, Registered, registryVars, traceVars, sendVars, mailVars
<1>5. CASE UNCHANGED vars
  BY <1>5 DEF vars, TypeOK, Registered
<1>6. Sendable \subseteq Messages
  BY BusInputs DEF Sendable
<1> QED
  BY <1>1, <1>2, <1>3, <1>4, <1>5, <1>6, RegisterTypeOK, UnregisterTypeOK, SendTypeOK,
     DeliverTypeOK, WaitTypeOK DEF Next

\* Type correctness of the bus.
THEOREM TypeCorrect == Spec => []TypeOK
BY InitTypeOK, NextTypeOK, PTL DEF Spec

-------------------------------------------------------------------------------
(* The capability index.                                                    *)

LEMMA RegisterKeepsIndex ==
  ASSUME TypeOK, IndexMatchesAgents, NEW r \in RegisterCalls,
         Register(r.agent, r.handler, r.capabilities, r.useMailbox, r.replace)
  PROVE  IndexMatchesAgents'
<1> DEFINE a == r.agent
<1>1. CASE a \in Registered /\ MergeRegistration(a, r.handler, r.capabilities, r.useMailbox)
  <2> DEFINE new == IF r.capabilities = None THEN agents[a].capabilities ELSE r.capabilities
  <2>1. Registered' = Registered /\ agents'[a].capabilities = new
    BY <1>1 DEF MergeRegistration, Registered
  <2>2. \A x \in Registered : x # a => agents'[x] = agents[x]
    BY <1>1 DEF MergeRegistration, Registered
  <2>3. capabilityIndex' = Reindex(capabilityIndex, a, agents[a].capabilities, new)
    BY <1>1 DEF MergeRegistration
  <2> HIDE DEF new
  <2> QED
    BY <1>1, <2>1, <2>2, <2>3 DEF IndexMatchesAgents, Reindex
<1>2. CASE RegisterNew(a, r.handler, r.capabilities, r.useMailbox)
  <2> DEFINE new == IF r.capabilities = None THEN {} ELSE r.capabilities
             old == IF a \in Registered THEN agents[a].capabilities ELSE {}
  <2>1. Registered' = Registered \cup {a} /\ agents'[a].capabilities = new
    BY <1>2 DEF RegisterNew, Registered
  <2>2. \A x \in Registered : x # a => agents'[x] = agents[x]
    BY <1>2 DEF RegisterNew
  <2>3. capabilityIndex' = Reindex(capabilityIndex, a, old, new)
    BY <1>2 DEF RegisterNew
  <2>4. \A c \in Capabilities : a \in capabilityIndex[c] <=> c \in old
    BY DEF IndexMatchesAgents
  <2> HIDE DEF new, old
  <2> QED
    BY <2>1, <2>2, <2>3, <2>4 DEF IndexMatchesAgents, Reindex
<1> QED
  BY <1>1, <1>2 DEF Register

LEMMA UnregisterKeepsIndex ==
  ASSUME TypeOK, IndexMatchesAgents, NEW a \in Agents, Unregister(a)
  PROVE  IndexMatchesAgents'
<1>1. Registered' = Registered \ {a} /\ \A x \in Registered' : agents'[x] = agents[x]
  BY DEF Unregister, Registered
<1>2. capabilityIndex' = Reindex(capabilityIndex, a, agents[a].capabilities, {})
  BY DEF Unregister
<1> QED
  BY <1>1, <1>2 DEF IndexMatchesAgents, Reindex, Unregister

\* Only register() and unregister() touch registrations, the index and the mailbox objects.
LEMMA RegistryFrame ==
  ASSUME [Next]_vars
  PROVE  \/ UNCHANGED registryVars
         \/ \E r \in RegisterCalls :
              Register(r.agent, r.handler, r.capabilities, r.useMailbox, r.replace)
         \/ \E a \in Agents : Unregister(a)
BY DEF Next, vars, registryVars, Send, SendRefused, SendUnroutable, SendRouted,
       ReplayTraceMessage, DeliverTo, HandlerEnd, Conclude, WaitForMessage, WaitTimeout, SetOpen

\* IndexMatchesAgents is inductive together with TypeOK.
THEOREM IndexCorrect == Spec => []IndexMatchesAgents
<1>1. Init => IndexMatchesAgents
  BY DEF Init, IndexMatchesAgents, Registered
<1>2. TypeOK /\ IndexMatchesAgents /\ [Next]_vars => IndexMatchesAgents'
  <2> SUFFICES ASSUME TypeOK, IndexMatchesAgents, [Next]_vars PROVE IndexMatchesAgents'
    OBVIOUS
  <2>1. CASE UNCHANGED registryVars
    BY <2>1 DEF registryVars, IndexMatchesAgents, Registered
  <2> QED
    BY <2>1, RegistryFrame, RegisterKeepsIndex, UnregisterKeepsIndex
<1> QED
  BY <1>1, <1>2, TypeCorrect, PTL DEF Spec

-------------------------------------------------------------------------------
(* The mailboxes.                                                           *)

\* A listed waiter is one waitForMessage() call that is still waiting, on that mailbox.
WaitersLive ==
  \A b \in Boxes : \A w \in waiters[b] :
    waiting[w] = "waiting" /\ waitBox[w] = b /\ w <= waits

MailInv == WaitersLive /\ NoWaiterBesideMessage /\ MailboxExact

\* Moving the head of a queue to the end of what was received keeps their concatenation.
LEMMA MoveHead ==
  ASSUME NEW S, NEW p \in Seq(S), NEW q \in Seq(S), q # <<>>
  PROVE  Append(p, Head(q)) \o Tail(q) = p \o q
<1>1. Append(p, Head(q)) \in Seq(S) /\ Tail(q) \in Seq(S)
  BY HeadTailProperties, AppendProperties
<1> DEFINE lhs == Append(p, Head(q)) \o Tail(q)
           rhs == p \o q
<1>2. lhs \in Seq(S) /\ rhs \in Seq(S) /\ Len(lhs) = Len(rhs)
  BY <1>1, HeadTailProperties, AppendProperties, ConcatProperties
<1>3. \A i \in 1..Len(lhs) : lhs[i] = rhs[i]
  BY <1>1, <1>2, HeadTailProperties, AppendProperties, ConcatProperties
<1> QED
  BY <1>2, <1>3, SeqEqual

\* Appending to the queue appends to the concatenation.
LEMMA AppendLast ==
  ASSUME NEW S, NEW p \in Seq(S), NEW q \in Seq(S), NEW x \in S
  PROVE  p \o Append(q, x) = Append(p \o q, x)
<1>1. <<x>> \in Seq(S) /\ p \o q \in Seq(S)
  BY ConcatProperties
<1>2. Append(q, x) = q \o <<x>> /\ Append(p \o q, x) = (p \o q) \o <<x>>
  BY <1>1, AppendIsConcat
<1> QED
  BY <1>1, <1>2, ConcatAssociative

LEMMA DeliverKeepsMail ==
  ASSUME TypeOK, MailInv, NEW s \in Sends, NEW b \in Boxes, HandOver(s, b),
         UNCHANGED <<waits, waitBox>>
  PROVE  MailInv'
<1>0. /\ handed' = [handed EXCEPT ![b] = Append(@, s)]
      /\ handed[b] = received[b] \o queue[b]
      /\ received[b] \in Seq(Sends) /\ queue[b] \in Seq(Sends)
  BY DEF HandOver, MailInv, MailboxExact, TypeOK
<1>1. CASE waiters[b] = {} /\ queue' = [queue EXCEPT ![b] = Append(@, s)]
           /\ UNCHANGED <<waiters, waiting, received>>
  <2>1. \A p, q \in Seq(Sends) : p \o Append(q, s) = Append(p \o q, s)
    BY AppendLast
  <2>2. MailboxExact'
    BY <1>0, <1>1, <2>1 DEF MailInv, MailboxExact, TypeOK
  <2>3. NoWaiterBesideMessage' /\ WaitersLive'
    BY <1>1 DEF MailInv, NoWaiterBesideMessage, WaitersLive, TypeOK
  <2> QED
    BY <2>2, <2>3 DEF MailInv
<1>2. ASSUME NEW w \in Least(waiters[b]),
             /\ waiters' = [waiters EXCEPT ![b] = @ \ {w}]
             /\ waiting' = [waiting EXCEPT ![w] = IF @ = "waiting" THEN "received" ELSE @]
             /\ received' = IF waiting[w] = "waiting"
                            THEN [received EXCEPT ![b] = Append(@, s)] ELSE received
             /\ queue' = queue
      PROVE  MailInv'
  <2>1. w \in waiters[b] /\ waiting[w] = "waiting" /\ w \in Waits
    BY <1>2 DEF Least, MailInv, WaitersLive, TypeOK
  <2>2. queue[b] = <<>>
    BY <2>1 DEF MailInv, NoWaiterBesideMessage
  <2>3. Append(received[b], s) \o queue[b] = Append(received[b] \o queue[b], s)
    <3>1. Append(received[b], s) \in Seq(Sends)
      BY <1>0, AppendProperties
    <3> QED
      BY <1>0, <2>2, <3>1, ConcatEmptySeq
  <2>4. MailboxExact'
    BY <1>0, <1>2, <2>1, <2>3 DEF MailInv, MailboxExact, TypeOK
  <2>5. NoWaiterBesideMessage'
    BY <1>2, <2>2 DEF MailInv, NoWaiterBesideMessage, TypeOK
  <2>6. \A c \in Boxes : \A x \in waiters'[c] : x \in waiters[c] /\ x # w
    BY <1>2, <2>1 DEF MailInv, WaitersLive, TypeOK
  <2>7. WaitersLive'
    BY <1>2, <2>6 DEF MailInv, WaitersLive, TypeOK
  <2> QED
    BY <2>4, <2>5, <2>7 DEF MailInv
<1> QED
  BY <1>1, <1>2 DEF HandOver

LEMMA WaitKeepsMail ==
  ASSUME TypeOK, MailInv, NEW a \in Agents, WaitForMessage(a)
  PROVE  MailInv'
<1> DEFINE b == agents[a].mailbox
<1>1. b \in Boxes /\ waits + 1 \in Waits /\ waits \in Nat
  BY BusConstants DEF WaitForMessage, TypeOK, Registrations, Waits
<1>2. /\ waits' = waits + 1 /\ waitBox' = [waitBox EXCEPT ![waits + 1] = b] /\ handed' = handed
      /\ received[b] \in Seq(Sends) /\ queue[b] \in Seq(Sends)
  BY <1>1 DEF WaitForMessage, TypeOK
<1>3. \A c \in Boxes : \A w \in waiters[c] :
        /\ w \in Waits /\ w <= waits' /\ w # waits + 1
        /\ waiting[w] = "waiting" /\ waitBox[w] = c
  <2>1. \A c \in Boxes : waiters[c] \subseteq Waits
    BY DEF TypeOK
  <2> QED
    BY <1>1, <1>2, <2>1, BusConstants DEF MailInv, WaitersLive, Waits
<1>6. waiting \in [Waits -> {"unused", "waiting", "received", "expired"}]
      /\ waitBox \in [Waits -> Boxes \cup {None}] /\ waiters \in [Boxes -> SUBSET Waits]
  BY DEF TypeOK
<1>4. CASE queue[b] # <<>>
  <2>1. /\ queue' = [queue EXCEPT ![b] = Tail(@)]
        /\ received' = [received EXCEPT ![b] = Append(@, Head(queue[b]))]
        /\ waiting' = [waiting EXCEPT ![waits + 1] = "received"] /\ waiters' = waiters
    BY <1>4 DEF WaitForMessage
  <2>2. Append(received[b], Head(queue[b])) \o Tail(queue[b]) = received[b] \o queue[b]
    BY <1>2, <1>4, MoveHead
  <2>3. MailboxExact'
    BY <1>1, <1>2, <2>1, <2>2 DEF MailInv, MailboxExact, TypeOK
  <2>4. NoWaiterBesideMessage'
    BY <1>1, <1>4, <2>1 DEF MailInv, NoWaiterBesideMessage, TypeOK
  <2>5. WaitersLive'
    <3>1. \A w \in Waits : w # waits + 1 => waiting'[w] = waiting[w] /\ waitBox'[w] = waitBox[w]
      BY <1>2, <1>6, <2>1
    <3> QED
      BY <1>1, <1>2, <1>3, <2>1, <3>1 DEF WaitersLive
  <2> QED
    BY <2>3, <2>4, <2>5 DEF MailInv
<1>5. CASE queue[b] = <<>>
  <2>1. /\ queue' = queue /\ received' = received
        /\ waiters' = [waiters EXCEPT ![b] = @ \cup {waits + 1}]
        /\ waiting' = [waiting EXCEPT ![waits + 1] = "waiting"]
    BY <1>5 DEF WaitForMessage
  <2>2. MailboxExact' /\ NoWaiterBesideMessage'
    BY <1>2, <1>5, <2>1 DEF MailInv, MailboxExact, NoWaiterBesideMessage, TypeOK
  <2>3. WaitersLive'
    <3>1. \A w \in Waits : w # waits + 1 => waiting'[w] = waiting[w] /\ waitBox'[w] = waitBox[w]
      BY <1>2, <1>6, <2>1
    <3>2. \A c \in Boxes : waiters'[c] = IF c = b THEN waiters[c] \cup {waits + 1} ELSE waiters[c]
      BY <1>6, <2>1
    <3>3. waiting'[waits + 1] = "waiting" /\ waitBox'[waits + 1] = b
      BY <1>1, <1>2, <1>6, <2>1
    <3> SUFFICES ASSUME NEW c \in Boxes, NEW w \in waiters'[c]
                 PROVE  waiting'[w] = "waiting" /\ waitBox'[w] = c /\ w <= waits'
      BY DEF WaitersLive
    <3>4. CASE w = waits + 1
      <4>1. c = b
        BY <1>3, <3>2, <3>4
      <4>2. waits + 1 <= waits'
        BY <1>1, <1>2
      <4> QED
        BY <3>3, <3>4, <4>1, <4>2
    <3>5. CASE w \in waiters[c]
      BY <1>3, <3>1, <3>5
    <3> QED
      BY <3>2, <3>4, <3>5
  <2> QED
    BY <2>2, <2>3 DEF MailInv
<1> QED
  BY <1>4, <1>5

LEMMA InitMailInv == Init => MailInv
BY ConcatEmptySeq DEF Init, MailInv, WaitersLive, NoWaiterBesideMessage, MailboxExact

LEMMA NextMailInv == TypeOK /\ MailInv /\ [Next]_vars => MailInv'
<1> SUFFICES ASSUME TypeOK, MailInv, [Next]_vars PROVE MailInv'
  OBVIOUS
<1>1. CASE UNCHANGED mailVars
  BY <1>1 DEF mailVars, MailInv, WaitersLive, NoWaiterBesideMessage, MailboxExact
<1>2. ASSUME NEW s \in Sends, NEW a \in Agents, DeliverTo(s, a)
      PROVE  MailInv'
  <2>1. CASE UNCHANGED <<queue, waiters, waiting, received, handed>>
    BY <1>1, <1>2, <2>1 DEF DeliverTo, mailVars
  <2>2. CASE a \in Registered /\ agents[a].mailbox # None
             /\ HandOver(s, agents[a].mailbox)
    <3>1. agents[a].mailbox \in Boxes /\ UNCHANGED <<waits, waitBox>>
      BY <1>2, <2>2 DEF TypeOK, Registrations, DeliverTo
    <3> QED
      BY <2>2, <3>1, DeliverKeepsMail
  <2> QED
    BY <1>2, <2>1, <2>2 DEF DeliverTo, ToMailbox
<1>3. ASSUME NEW w \in Waits, WaitTimeout(w)
      PROVE  MailInv'
  <2>1. \A b \in Boxes : waiters'[b] = waiters[b] \ {w}
    BY <1>3 DEF WaitTimeout, TypeOK, MailInv, WaitersLive
  <2>2. WaitersLive'
    BY <1>3, <2>1 DEF WaitTimeout, MailInv, WaitersLive, TypeOK
  <2> QED
    BY <1>3, <2>1, <2>2 DEF WaitTimeout, MailInv, NoWaiterBesideMessage, MailboxExact
<1>4. \/ UNCHANGED mailVars
      \/ \E s \in Sends, a \in Agents : DeliverTo(s, a)
      \/ \E a \in Agents : WaitForMessage(a)
      \/ \E w \in Waits : WaitTimeout(w)
  BY DEF Next, vars, mailVars, Register, Unregister, Send, SendRefused, SendUnroutable,
         SendRouted, ReplayTraceMessage, HandlerEnd, Conclude, SetOpen
<1> QED
  BY <1>1, <1>2, <1>3, <1>4, WaitKeepsMail

\* Mailboxes are exact, and no message waits beside a receiver, in every reachable state.
THEOREM MailboxCorrect == Spec => [](MailboxExact /\ NoWaiterBesideMessage)
BY InitMailInv, NextMailInv, TypeCorrect, PTL DEF Spec, MailInv

-------------------------------------------------------------------------------
(* At-most-once delivery.                                                   *)

\* The mailbox object of a registration, or None.
BoxOf(a) == agents[a].mailbox

\* Messages in use have been issued.
SendsIssued ==
  /\ \A s \in Sends : stage[s] # "new" => s <= sent
  /\ active # None => active <= sent
  /\ \A b \in Boxes : \A i \in DOMAIN handed[b] : handed[b][i] <= sent

\* A mailbox object belongs to one registration at a time, and a new one is empty.
BoxesOwned ==
  /\ \A b \in Boxes : b > boxes => handed[b] = <<>>
  /\ \A a \in Registered : BoxOf(a) # None => BoxOf(a) <= boxes
  /\ \A a, x \in Registered : BoxOf(a) = BoxOf(x) /\ BoxOf(a) # None => a = x

\* An agent whose mailbox has got a message is not among those still to be visited with it.
VisitedOnce ==
  \A a \in Registered : BoxOf(a) # None =>
    \A i \in DOMAIN handed[BoxOf(a)] : a \notin rest[handed[BoxOf(a)][i]]

OnceInv == SendsIssued /\ BoxesOwned /\ VisitedOnce /\ AtMostOnce

LEMMA RegisterKeepsOnce ==
  ASSUME TypeOK, OnceInv, NEW r \in RegisterCalls,
         Register(r.agent, r.handler, r.capabilities, r.useMailbox, r.replace)
  PROVE  OnceInv'
<1> DEFINE a == r.agent
<1>1. /\ UNCHANGED <<stage, sent, active, handed, rest>>
      /\ boxes \in Nat /\ boxes' \in {boxes, boxes + 1} /\ boxes' <= MaxBoxes
      /\ Registered' = Registered \cup {a}
      /\ \A x \in Registered : x # a => agents'[x] = agents[x]
  <2>1. UNCHANGED <<stage, sent, active, handed, rest>>
    BY DEF Register, sendVars, mailVars
  <2>2. boxes \in Nat /\ MaxBoxes \in Nat /\ boxes <= MaxBoxes
    BY BusConstants DEF TypeOK
  <2>3. CASE a \in Registered /\ MergeRegistration(a, r.handler, r.capabilities, r.useMailbox)
    BY <2>1, <2>2, <2>3 DEF MergeRegistration, Registered
  <2>4. CASE RegisterNew(a, r.handler, r.capabilities, r.useMailbox)
    BY <2>1, <2>2, <2>4 DEF RegisterNew, Registered
  <2> QED
    BY <2>3, <2>4 DEF Register
<1>2. \/ BoxOf(a)' = None
      \/ BoxOf(a)' = boxes + 1 /\ boxes' = boxes + 1
      \/ a \in Registered /\ BoxOf(a)' = BoxOf(a)
  BY BusConstants DEF Register, RegisterNew, MergeRegistration, BoxOf, Registered
<1>3. SendsIssued' /\ AtMostOnce'
  BY <1>1 DEF OnceInv, SendsIssued, AtMostOnce
<1>4. \A x \in Registered : x # a => BoxOf(x)' = BoxOf(x)
  BY <1>1 DEF BoxOf
<1>5. \A x \in Registered : BoxOf(x) \in Boxes \cup {None}
  BY DEF TypeOK, Registrations, BoxOf
<1>6. BoxesOwned'
  <2>1. \A b \in Boxes : b > boxes' => handed'[b] = <<>>
    BY <1>1, BusConstants DEF OnceInv, BoxesOwned, Boxes
  <2>2. \A x \in Registered' : BoxOf(x)' # None => BoxOf(x)' <= boxes'
    BY <1>1, <1>2, <1>4, <1>5, BusConstants DEF OnceInv, BoxesOwned, Boxes
  <2>3. \A x \in Registered : BoxOf(x) # boxes + 1
    BY <1>1, <1>5, BusConstants DEF OnceInv, BoxesOwned, Boxes
  <2>4. \A x, y \in Registered' : BoxOf(x)' = BoxOf(y)' /\ BoxOf(x)' # None => x = y
    BY <1>1, <1>2, <1>4, <2>3 DEF OnceInv, BoxesOwned
  <2> QED
    BY <2>1, <2>2, <2>4 DEF BoxesOwned
<1>7. VisitedOnce'
  <2> SUFFICES ASSUME NEW x \in Registered', BoxOf(x)' # None,
                      NEW i \in DOMAIN handed[BoxOf(x)']
               PROVE  x \notin rest[handed[BoxOf(x)'][i]]
    BY <1>1 DEF VisitedOnce
  <2>1. CASE x \in Registered /\ BoxOf(x)' = BoxOf(x)
    BY <2>1 DEF OnceInv, VisitedOnce
  <2>2. CASE BoxOf(x)' = boxes + 1 /\ boxes' = boxes + 1
    <3>1. boxes + 1 \in Boxes
      BY <1>1, <2>2, BusConstants DEF Boxes
    <3>2. handed[boxes + 1] = <<>>
      BY <1>1, <3>1 DEF OnceInv, BoxesOwned, Boxes
    <3> QED
      BY <2>2, <3>2
  <2> QED
    BY <1>1, <1>2, <1>4, <2>1, <2>2
<1> QED
  BY <1>3, <1>6, <1>7 DEF OnceInv

LEMMA UnregisterKeepsOnce ==
  ASSUME OnceInv, NEW a \in Agents, Unregister(a)
  PROVE  OnceInv'
<1>1. /\ UNCHANGED <<stage, sent, active, handed, rest, boxes>>
      /\ Registered' \subseteq Registered
      /\ \A x \in Registered' : BoxOf(x)' = BoxOf(x)
  BY DEF Unregister, Registered, BoxOf, sendVars, mailVars
<1>2. SendsIssued' /\ AtMostOnce'
  BY <1>1 DEF OnceInv, SendsIssued, AtMostOnce
<1>3. BoxesOwned' /\ VisitedOnce'
  BY <1>1 DEF OnceInv, BoxesOwned, VisitedOnce
<1> QED
  BY <1>2, <1>3 DEF OnceInv

\* A new message has a number no mailbox holds yet.
LEMMA SendKeepsOnce ==
  ASSUME TypeOK, OnceInv, NEW m, NEW st, Issue(m, st),
         UNCHANGED <<registryVars, mailVars>>,
         active' \in {active, sent + 1}, \A s \in 1..sent : rest'[s] = rest[s]
  PROVE  OnceInv'
<1>1. /\ sent \in Nat /\ sent' = sent + 1 /\ sent + 1 \in Sends
      /\ \A s \in Sends : s # sent + 1 => stage'[s] = stage[s]
      /\ Sends \subseteq Nat
  BY BusConstants DEF Issue, TypeOK, Sends
<1>2. \A b \in Boxes : \A i \in DOMAIN handed[b] : handed[b][i] \in Sends
  BY DEF TypeOK
<1>3. SendsIssued'
  <2>1. \A s \in Sends : stage'[s] # "new" => s <= sent'
    BY <1>1 DEF OnceInv, SendsIssued
  <2>2. active' # None => active' <= sent'
    BY <1>1 DEF OnceInv, SendsIssued, TypeOK
  <2>3. \A b \in Boxes : \A i \in DOMAIN handed'[b] : handed'[b][i] <= sent'
    <3>1. handed' = handed
      BY DEF mailVars
    <3>2. \A b \in Boxes : \A i \in DOMAIN handed[b] : handed[b][i] <= sent /\ handed[b][i] \in Nat
      BY <1>1, <1>2 DEF OnceInv, SendsIssued
    <3> QED
      BY <1>1, <3>1, <3>2
  <2> QED
    BY <2>1, <2>2, <2>3 DEF SendsIssued
<1>4. BoxesOwned' /\ AtMostOnce'
  BY DEF OnceInv, BoxesOwned, AtMostOnce, BoxOf, Registered, registryVars, mailVars
<1>5. VisitedOnce'
  <2> SUFFICES ASSUME NEW x \in Registered, BoxOf(x) # None, NEW i \in DOMAIN handed[BoxOf(x)]
               PROVE  x \notin rest'[handed[BoxOf(x)][i]]
    BY DEF VisitedOnce, BoxOf, Registered, registryVars, mailVars
  <2>1. BoxOf(x) \in Boxes
    BY DEF TypeOK, Registrations, BoxOf
  <2>2. handed[BoxOf(x)][i] \in 1..sent
    BY <1>1, <1>2, <2>1 DEF OnceInv, SendsIssued, Sends
  <2> QED
    BY <2>2 DEF OnceInv, VisitedOnce
<1> QED
  BY <1>3, <1>4, <1>5 DEF OnceInv

LEMMA DeliverKeepsOnce ==
  ASSUME TypeOK, OnceInv, NEW s \in Sends, NEW a \in Agents, DeliverTo(s, a)
  PROVE  OnceInv'
<1> DEFINE b == BoxOf(a)
<1>1. /\ UNCHANGED registryVars /\ sent' = sent /\ s <= sent /\ a \in rest[s]
      /\ rest' = [rest EXCEPT ![s] = @ \ {a}]
      /\ active' \in {active, None}
      /\ \A x \in Sends : stage'[x] # "new" => stage[x] # "new" \/ x = s
      /\ \A x \in Sends : rest'[x] \subseteq rest[x]
  BY BusConstants DEF DeliverTo, OnceInv, SendsIssued, Least, TypeOK, Sends
<1>3. CASE handed' = handed
  <2>1. SendsIssued' /\ AtMostOnce'
    BY <1>1, <1>3 DEF OnceInv, SendsIssued, AtMostOnce
  <2>2. BoxesOwned'
    BY <1>1, <1>3 DEF OnceInv, BoxesOwned, BoxOf, Registered, registryVars
  <2>3. VisitedOnce'
    <3>1. \A x \in Registered : BoxOf(x) \in Boxes \cup {None}
      BY DEF TypeOK, Registrations, BoxOf
    <3>2. \A c \in Boxes : \A i \in DOMAIN handed[c] : handed[c][i] \in Sends
      BY DEF TypeOK
    <3> QED
      BY <1>1, <1>3, <3>1, <3>2 DEF OnceInv, VisitedOnce, BoxOf, Registered, registryVars
  <2> QED
    BY <2>1, <2>2, <2>3 DEF OnceInv
<1>4. CASE a \in Registered /\ b \in Boxes /\ handed' = [handed EXCEPT ![b] = Append(@, s)]
  <2> DEFINE n == Len(handed[b])
  <2>1. /\ handed[b] \in Seq(Sends) /\ n \in Nat /\ DOMAIN handed[b] = 1..n
        /\ DOMAIN handed'[b] = 1..(n + 1) /\ handed'[b][n + 1] = s
        /\ \A i \in 1..n : handed'[b][i] = handed[b][i] /\ handed[b][i] \in Sends
    BY <1>4 DEF TypeOK
  <2>2. \A c \in Boxes : c # b => handed'[c] = handed[c]
    BY <1>4 DEF TypeOK
  <2>3. \A i \in 1..n : handed[b][i] # s
    BY <1>1, <1>4, <2>1, BusConstants DEF OnceInv, VisitedOnce, Boxes
  <2>4. SendsIssued'
    <3>1. \A i \in DOMAIN handed'[b] : handed'[b][i] <= sent
      BY <1>1, <1>4, <2>1 DEF OnceInv, SendsIssued
    <3>2. \A c \in Boxes : \A i \in DOMAIN handed'[c] : handed'[c][i] <= sent
      BY <2>2, <3>1 DEF OnceInv, SendsIssued
    <3> QED
      BY <1>1, <3>2 DEF OnceInv, SendsIssued
  <2>5. AtMostOnce'
    <3>1. \A i, j \in DOMAIN handed'[b] : handed'[b][i] = handed'[b][j] => i = j
      <4> SUFFICES ASSUME NEW i \in 1..(n + 1), NEW j \in 1..(n + 1),
                          handed'[b][i] = handed'[b][j]
                   PROVE  i = j
        BY <2>1
      <4>1. CASE i \in 1..n /\ j \in 1..n
        BY <1>4, <2>1, <4>1 DEF OnceInv, AtMostOnce
      <4> QED
        BY <2>1, <2>3, <4>1
    <3> QED
      BY <2>2, <3>1 DEF OnceInv, AtMostOnce
  <2>6. UNCHANGED <<agents, boxes>> /\ Registered' = Registered
        /\ \A x \in Registered : BoxOf(x)' = BoxOf(x)
    BY <1>1 DEF registryVars, Registered, BoxOf
  <2>7. BoxesOwned'
    <3>1. b <= boxes /\ b \in Nat /\ boxes \in Nat
      BY <1>4, BusConstants DEF OnceInv, BoxesOwned, TypeOK, Boxes
    <3> QED
      BY <2>2, <2>6, <3>1 DEF OnceInv, BoxesOwned, Boxes
  <2>8. VisitedOnce'
    <3> SUFFICES ASSUME NEW x \in Registered, BoxOf(x) # None, NEW i \in DOMAIN handed'[BoxOf(x)]
                 PROVE  x \notin rest'[handed'[BoxOf(x)][i]]
      BY <2>6 DEF VisitedOnce
    <3>1. BoxOf(x) \in Boxes
      BY DEF TypeOK, Registrations, BoxOf
    <3>2. CASE BoxOf(x) # b
      <4>1. handed[BoxOf(x)][i] \in Sends /\ handed'[BoxOf(x)] = handed[BoxOf(x)]
        BY <2>2, <3>1, <3>2 DEF TypeOK
      <4> QED
        BY <1>1, <4>1 DEF OnceInv, VisitedOnce
    <3>3. CASE BoxOf(x) = b /\ i = n + 1
      <4>1. x = a
        BY <1>4, <3>3 DEF OnceInv, BoxesOwned
      <4>2. rest'[s] = rest[s] \ {a}
        BY <1>1 DEF TypeOK
      <4> QED
        BY <2>1, <3>3, <4>1, <4>2
    <3>4. CASE BoxOf(x) = b /\ i \in 1..n
      BY SMTT(30), <1>1, <2>1, <3>4 DEF OnceInv, VisitedOnce
    <3> QED
      BY <2>1, <3>2, <3>3, <3>4
  <2> QED
    BY <2>4, <2>5, <2>7, <2>8 DEF OnceInv
<1>5. \/ handed' = handed
      \/ a \in Registered /\ b \in Boxes /\ handed' = [handed EXCEPT ![b] = Append(@, s)]
  <2>1. a \in Registered => agents[a].mailbox \in Boxes \cup {None}
    BY DEF TypeOK, Registrations
  <2> QED
    BY <2>1 DEF DeliverTo, ToMailbox, HandOver, BoxOf
<1> QED
  BY <1>3, <1>4, <1>5

LEMMA InitOnceInv == Init => OnceInv
BY DEF Init, OnceInv, SendsIssued, BoxesOwned, VisitedOnce, AtMostOnce, Registered

LEMMA NextOnceInv == TypeOK /\ OnceInv /\ [Next]_vars => OnceInv'
<1> SUFFICES ASSUME TypeOK, OnceInv, [Next]_vars PROVE OnceInv'
  OBVIOUS
<1>1. CASE /\ UNCHANGED <<registryVars, sent, rest, handed>>
           /\ active' = None \/ active' = active
           /\ \A s \in Sends : stage'[s] # "new" => stage[s] # "new"
  BY <1>1 DEF OnceInv, SendsIssued, BoxesOwned, VisitedOnce, AtMostOnce, BoxOf, Registered,
              registryVars
<1>2. ASSUME NEW m, Send(m) \/ SendRefused(m, FALSE) \/ ReplayTraceMessage(m)
      PROVE  OnceInv'
  <2>1. /\ \E st : Issue(m, st)
        /\ UNCHANGED <<registryVars, mailVars>>
        /\ active' \in {active, sent + 1}
    BY <1>2 DEF Send, SendRefused, SendUnroutable, SendRouted, ReplayTraceMessage
  <2>2. \A s \in 1..sent : rest'[s] = rest[s]
    <3>1. \A s \in 1..sent : s \in Sends /\ s # sent + 1
      BY BusConstants DEF TypeOK, Sends
    <3>2. rest' = rest \/ rest' = [rest EXCEPT ![sent + 1] = Recipients(m)]
      BY <1>2 DEF Send, SendRefused, SendUnroutable, SendRouted, ReplayTraceMessage
    <3> QED
      BY <3>1, <3>2 DEF TypeOK
  <2> QED
    BY <2>1, <2>2, SendKeepsOnce
<1>3. ASSUME NEW s \in Sends, NEW succeeds \in BOOLEAN, HandlerEnd(s, succeeds)
      PROVE  OnceInv'
  <2>1. /\ UNCHANGED <<registryVars, sent, rest, handed>> /\ active' = s /\ s <= sent
        /\ \A x \in Sends : stage'[x] # "new" => stage[x] # "new"
    BY <1>3 DEF HandlerEnd, mailVars, OnceInv, SendsIssued, TypeOK
  <2> QED
    BY <2>1 DEF OnceInv, SendsIssued, BoxesOwned, VisitedOnce, AtMostOnce, BoxOf, Registered,
                registryVars
<1>4. ASSUME NEW s \in Sends, Conclude(s)
      PROVE  OnceInv'
  <2>1. s <= sent /\ stage' = [stage EXCEPT ![s] = IF delivered[s] THEN "ok" ELSE "failed"]
    BY <1>4, BusConstants DEF Conclude, OnceInv, SendsIssued, Sends
  <2>2. \A x \in Sends : stage'[x] # "new" => x <= sent
    BY <2>1 DEF OnceInv, SendsIssued, TypeOK
  <2>3. UNCHANGED <<registryVars, sent, rest, handed>> /\ active' = None
    BY <1>4 DEF Conclude, mailVars
  <2> QED
    BY <2>2, <2>3 DEF OnceInv, SendsIssued, BoxesOwned, VisitedOnce, AtMostOnce, BoxOf,
                      Registered, registryVars
<1>5. CASE UNCHANGED <<registryVars, sendVars, handed>>
  BY <1>1, <1>5 DEF sendVars
<1>6. \/ UNCHANGED <<registryVars, sendVars, handed>>
      \/ \E r \in RegisterCalls :
           Register(r.agent, r.handler, r.capabilities, r.useMailbox, r.replace)
      \/ \E a \in Agents : Unregister(a)
      \/ \E m : Send(m) \/ SendRefused(m, FALSE) \/ ReplayTraceMessage(m)
      \/ \E s \in Sends, a \in Agents : DeliverTo(s, a)
      \/ \E s \in Sends, succeeds \in BOOLEAN : HandlerEnd(s, succeeds)
      \/ \E s \in Sends : Conclude(s)
  BY DEF Next, vars, registryVars, sendVars, mailVars, WaitForMessage, WaitTimeout, SetOpen
<1> QED
  BY <1>2, <1>3, <1>4, <1>5, <1>6, RegisterKeepsOnce, UnregisterKeepsOnce, DeliverKeepsOnce

\* No mailbox gets a message twice, in every reachable state.
THEOREM DeliveredAtMostOnce == Spec => []AtMostOnce
BY InitOnceInv, NextOnceInv, TypeCorrect, PTL DEF Spec, OnceInv

-------------------------------------------------------------------------------
(* The traces.  Ids grow, so the message that is pushed is the newest one.  *)

RecordedIssued ==
  /\ \A s \in recorded : s <= sent
  /\ \A t \in Traces : \A i \in DOMAIN traces[t] : traces[t][i] <= sent

TraceInv == RecordedIssued /\ TraceKeepsNewest

\* What push and shift make of a sequence that is no longer than the limit.
Pushed(q, n) == IF Len(Append(q, n)) > TraceLimit THEN Tail(Append(q, n)) ELSE Append(q, n)

\* r is q with n at its end, one longer than q or without its head.
IsPushed(q, n, r) ==
  \/ /\ Len(q) < TraceLimit
     /\ r \in Seq(Sends) /\ Len(r) = Len(q) + 1
     /\ \A i \in 1..Len(r) : r[i] = IF i = Len(r) THEN n ELSE q[i]
  \/ /\ Len(q) = TraceLimit
     /\ r \in Seq(Sends) /\ Len(r) = Len(q)
     /\ \A i \in 1..Len(r) : r[i] = IF i = Len(r) THEN n ELSE q[i + 1]

LEMMA PushAndShift ==
  ASSUME NEW q \in Seq(Sends), NEW n \in Sends, Len(q) <= TraceLimit
  PROVE  IsPushed(q, n, Pushed(q, n))
<1>r. PICK r : r = Pushed(q, n)
  OBVIOUS
<1>limit. TraceLimit \in Nat \ {0}
  BY BusConstants
<1>1. PICK all : all = Append(q, n)
  OBVIOUS
<1>2. /\ all \in Seq(Sends) /\ Len(all) = Len(q) + 1 /\ Len(q) \in Nat
      /\ \A i \in 1..Len(all) : all[i] = IF i = Len(all) THEN n ELSE q[i]
  BY <1>1
<1>3. r = IF Len(all) > TraceLimit THEN Tail(all) ELSE all
  BY <1>r, <1>1 DEF Pushed
<1>4. CASE Len(q) < TraceLimit
  <2>1. r = all
    BY <1>limit, <1>2, <1>3, <1>4
  <2> QED
    BY <1>r, <1>2, <1>4, <2>1 DEF IsPushed
<1>5. CASE Len(q) = TraceLimit
  <2>1. r = Tail(all) /\ all # <<>>
    BY <1>limit, <1>2, <1>3, <1>5
  <2>2. r \in Seq(Sends) /\ Len(r) = Len(q) /\ \A i \in 1..Len(r) : r[i] = all[i + 1]
    BY <1>2, <2>1
  <2>3. \A i \in 1..Len(r) : i + 1 \in 1..Len(all) /\ (i + 1 = Len(all) <=> i = Len(r))
    BY <1>2, <2>2
  <2>4. \A i \in 1..Len(r) : r[i] = IF i = Len(r) THEN n ELSE q[i + 1]
    BY <1>2, <2>2, <2>3
  <2> QED
    BY <1>r, <1>5, <2>2, <2>4 DEF IsPushed
<1> QED
  BY <1>limit, <1>2, <1>4, <1>5

LEMMA RecordKeepsNewest ==
  ASSUME TypeOK, TraceInv, NEW m \in Messages, NEW st, st # "refused",
         Issue(m, st), RecordMessage(m, sent + 1)
  PROVE  TraceInv'
<1> DEFINE n == sent + 1
<1>1. n \in Sends /\ sent \in Nat /\ sent' = n
  BY BusConstants DEF Issue, Sends, TypeOK
<1>2. /\ \A s \in recorded : s \in Nat /\ s < n
      /\ \A t \in Traces : \A i \in DOMAIN traces[t] : traces[t][i] \in Nat /\ traces[t][i] < n
  <2>1. \A s \in Sends : s \in Nat
    BY BusConstants DEF Sends
  <2>2. \A t \in Traces : traces[t] \in Seq(Sends)
    BY DEF TypeOK
  <2>3. \A t \in Traces : \A i \in DOMAIN traces[t] : traces[t][i] \in Sends
    BY <2>2
  <2> QED
    BY <1>1, <2>1, <2>3 DEF TraceInv, RecordedIssued, TypeOK
<1>3. message'[n] = m /\ \A s \in recorded : message'[s] = message[s]
  BY <1>1, <1>2 DEF Issue, TypeOK
<1>4. /\ recorded' = recorded \cup {n}
      /\ \A t \in Traces : traces'[t] = IF t = m.trace THEN Record(t, n) ELSE traces[t]
      /\ m.trace \in Traces
  BY DEF RecordMessage, TypeOK, Messages
<1>5. SUFFICES ASSUME NEW t \in Traces
               PROVE  /\ \A i \in DOMAIN traces'[t] : traces'[t][i] <= n
                      /\ Len(traces'[t]) <= TraceLimit
                      /\ \A i, j \in DOMAIN traces'[t] : i < j => traces'[t][i] < traces'[t][j]
                      /\ \A s \in recorded' :
                           \/ message'[s].trace # t
                           \/ \E i \in DOMAIN traces'[t] : traces'[t][i] = s
                           \/ Len(traces'[t]) = TraceLimit /\ s < traces'[t][1]
  BY <1>1, <1>2, <1>4 DEF TraceInv, RecordedIssued, TraceKeepsNewest
<1>6. CASE t # m.trace
  BY <1>1, <1>2, <1>3, <1>4, <1>6 DEF TraceInv, TraceKeepsNewest
<1>7. CASE t = m.trace
  <2> DEFINE q == traces[t]
             r == traces'[t]
  <2>1. r = Pushed(q, n) /\ Len(q) <= TraceLimit
    BY <1>4, <1>7 DEF Record, Pushed, TraceInv, TraceKeepsNewest
  <2>2. /\ q \in Seq(Sends) /\ DOMAIN q = 1..Len(q) /\ Len(q) \in Nat
        /\ TraceLimit \in Nat \ {0}
    BY BusConstants DEF TypeOK
  <2>3. /\ \A i \in 1..Len(q) : q[i] \in Nat /\ q[i] < n
        /\ \A i, j \in 1..Len(q) : i < j => q[i] < q[j]
        /\ \A s \in recorded : \/ message[s].trace # t
                               \/ \E i \in 1..Len(q) : q[i] = s
                               \/ Len(q) = TraceLimit /\ s < q[1]
    <3>1. \A i \in 1..Len(q) : q[i] \in Nat /\ q[i] < n
      BY <1>2, <2>2
    <3>2. /\ \A i, j \in DOMAIN q : i < j => q[i] < q[j]
          /\ \A s \in recorded : \/ message[s].trace # t
                                 \/ \E i \in DOMAIN q : q[i] = s
                                 \/ Len(q) = TraceLimit /\ s < q[1]
      BY DEF TraceInv, TraceKeepsNewest
    <3> QED
      BY <2>2, <3>1, <3>2
  <2>4. CASE /\ Len(q) < TraceLimit
             /\ r \in Seq(Sends) /\ Len(r) = Len(q) + 1
             /\ \A i \in 1..Len(r) : r[i] = IF i = Len(r) THEN n ELSE q[i]
    <3>1. DOMAIN r = 1..Len(r) /\ Len(r) <= TraceLimit
      BY <2>2, <2>4
    <3>2. /\ \A i \in 1..Len(r) : r[i] <= n
          /\ \A i, j \in 1..Len(r) : i < j => r[i] < r[j]
      <4>1. \A i \in 1..Len(r) : i # Len(r) => i \in 1..Len(q) /\ r[i] = q[i]
        BY <2>2, <2>4
      <4>2. \A i \in 1..Len(r) : IF i = Len(r) THEN r[i] = n ELSE r[i] \in Nat /\ r[i] < n
        BY <2>3, <2>4, <4>1
      <4>3. ASSUME NEW i \in 1..Len(r), NEW j \in 1..Len(r), i < j
            PROVE  r[i] < r[j]
        <5>1. i # Len(r) /\ Len(r) \in Nat
          BY <2>2, <2>4, <4>3
        <5>2. CASE j = Len(r)
          BY <4>2, <5>1, <5>2
        <5>3. CASE j # Len(r)
          BY <2>3, <4>1, <4>3, <5>1, <5>3
        <5> QED
          BY <5>2, <5>3
      <4> QED
        BY <1>1, <4>2, <4>3
    <3>3. \E i \in 1..Len(r) : r[i] = n
      <4>1. Len(r) \in 1..Len(r) /\ r[Len(r)] = n
        BY <2>2, <2>4
      <4> QED
        BY <4>1
    <3>4. ASSUME NEW s \in recorded, message[s].trace = t
          PROVE  \E i \in 1..Len(r) : r[i] = s
      <4>1. Len(q) # TraceLimit
        BY <2>2, <2>4
      <4>2. PICK i \in 1..Len(q) : q[i] = s
        BY <2>3, <3>4, <4>1
      <4>3. i \in 1..Len(r) /\ r[i] = s
        BY <2>2, <2>4, <4>2
      <4> QED
        BY <4>3
    <3> QED
      BY <1>3, <1>4, <3>1, <3>2, <3>3, <3>4 DEF r
  <2>5. CASE /\ Len(q) = TraceLimit
             /\ r \in Seq(Sends) /\ Len(r) = Len(q)
             /\ \A i \in 1..Len(r) : r[i] = IF i = Len(r) THEN n ELSE q[i + 1]
    <3>1. DOMAIN r = 1..Len(r) /\ Len(r) = TraceLimit
      BY <2>2, <2>5
    <3>2. /\ \A i \in 1..Len(r) : r[i] <= n
          /\ \A i, j \in 1..Len(r) : i < j => r[i] < r[j]
      <4>1. \A i \in 1..Len(r) : i # Len(r) => i + 1 \in 1..Len(q) /\ r[i] = q[i + 1]
        BY <2>2, <2>5
      <4>2. \A i \in 1..Len(r) : IF i = Len(r) THEN r[i] = n ELSE r[i] \in Nat /\ r[i] < n
        BY <2>3, <2>5, <4>1
      <4>3. ASSUME NEW i \in 1..Len(r), NEW j \in 1..Len(r), i < j
            PROVE  r[i] < r[j]
        <5>1. i # Len(r) /\ Len(r) \in Nat
          BY <2>2, <2>5, <4>3
        <5>2. CASE j = Len(r)
          BY <4>2, <5>1, <5>2
        <5>3. CASE j # Len(r)
          BY <2>3, <4>1, <4>3, <5>1, <5>3
        <5> QED
          BY <5>2, <5>3
      <4> QED
        BY <1>1, <4>2, <4>3
    <3>3. \E i \in 1..Len(r) : r[i] = n
      <4>1. Len(r) \in 1..Len(r) /\ r[Len(r)] = n
        BY <2>2, <2>5
      <4> QED
        BY <4>1
    <3>4. q[1] \in Nat /\ q[1] < r[1] /\ r[1] \in Nat
      <4>1. CASE Len(q) = 1
        BY <1>1, <2>2, <2>3, <2>5, <4>1
      <4>2. CASE Len(q) > 1
        <5>1. 1 \in 1..Len(q) /\ 2 \in 1..Len(q) /\ r[1] = q[2]
          BY <2>2, <2>5, <4>2
        <5> QED
          BY <2>3, <5>1
      <4> QED
        BY <2>2, <2>5, <4>1, <4>2
    <3>5. ASSUME NEW s \in recorded, message[s].trace = t
          PROVE  (\E i \in 1..Len(r) : r[i] = s) \/ s < r[1]
      <4>1. CASE s < q[1]
        BY <1>2, <3>4, <4>1
      <4>2. ASSUME NEW i \in 1..Len(q), q[i] = s
            PROVE  (\E j \in 1..Len(r) : r[j] = s) \/ s < r[1]
        <5>1. CASE i = 1
          BY <3>4, <4>2, <5>1
        <5>2. CASE i # 1
          <6>1. i - 1 \in 1..Len(r) /\ i - 1 # Len(r) /\ (i - 1) + 1 = i
            BY <2>2, <2>5, <5>2
          <6>2. r[i - 1] = s
            BY <2>5, <4>2, <6>1
          <6> QED
            BY <6>1, <6>2
        <5> QED
          BY <5>1, <5>2
      <4> QED
        BY <2>3, <3>5, <4>1, <4>2
    <3> QED
      BY <1>3, <1>4, <2>2, <3>1, <3>2, <3>3, <3>5 DEF r
  <2>6. IsPushed(q, n, r)
    BY <1>1, <2>1, <2>2, PushAndShift
  <2> QED
    BY <2>4, <2>5, <2>6 DEF IsPushed
<1> QED
  BY <1>6, <1>7

\* The ring of a trace holds its newest messages in order, and the index all of them, for any
\* messages, agents and limit.
THEOREM NewestAreKept == Spec => []TraceKeepsNewest
<1>1. Init => TraceInv
  BY BusConstants DEF Init, TraceInv, RecordedIssued, TraceKeepsNewest
<1>2. TypeOK /\ TraceInv /\ [Next]_vars => TraceInv'
  <2> SUFFICES ASSUME TypeOK, TraceInv, [Next]_vars PROVE TraceInv'
    OBVIOUS
  <2>1. CASE UNCHANGED <<traceVars, message, sent>>
    BY <2>1 DEF TraceInv, RecordedIssued, TraceKeepsNewest, traceVars
  <2>2. ASSUME NEW m \in Messages, Issue(m, "refused"), UNCHANGED traceVars
        PROVE  TraceInv'
    <3>1. sent \in Nat /\ sent' = sent + 1 /\ message' = message
      BY <2>2 DEF Issue, TypeOK
    <3>2. \A t \in Traces : \A i \in DOMAIN traces[t] : traces[t][i] \in Nat
      <4>1. \A t \in Traces : traces[t] \in Seq(Sends)
        BY DEF TypeOK
      <4>2. \A t \in Traces : \A i \in DOMAIN traces[t] : traces[t][i] \in Sends
        BY <4>1
      <4> QED
        BY <4>2, BusConstants DEF Sends
    <3>3. \A s \in recorded : s \in Nat
      BY BusConstants DEF TypeOK, Sends
    <3> QED
      BY <2>2, <3>1, <3>2, <3>3 DEF TraceInv, RecordedIssued, TraceKeepsNewest, traceVars
  <2>3. ASSUME NEW m \in Messages, NEW st \in {"unroutable", "delivering", "replayed"},
               Issue(m, st), RecordMessage(m, sent + 1)
        PROVE  TraceInv'
    BY <2>3, RecordKeepsNewest
  <2>4. ASSUME NEW m \in Messages, Send(m) \/ SendRefused(m, FALSE) \/ ReplayTraceMessage(m)
        PROVE  TraceInv'
    BY <2>2, <2>3, <2>4 DEF Send, SendRefused, SendUnroutable, SendRouted, ReplayTraceMessage
  <2>5. \/ UNCHANGED <<traceVars, message, sent>>
        \/ \E m \in Messages : Send(m) \/ SendRefused(m, FALSE) \/ ReplayTraceMessage(m)
    BY BusInputs DEF Next, vars, traceVars, sendVars, Sendable, Register, Unregister, DeliverTo,
                     HandlerEnd, Conclude, WaitForMessage, WaitTimeout, SetOpen
  <2> QED
    BY <2>1, <2>4, <2>5
<1> QED
  BY <1>1, <1>2, TypeCorrect, PTL DEF Spec, TraceInv
-------------------------------------------------------------------------------
(* Agent runtimes are clients of the bus.  AgentRuntime builds its steps     *)
(* from the operations of a bus whose handlers are the runtimes; what is     *)
(* said above of any clients is true of them if each of their steps is one   *)
(* that a client may take.                                                   *)
CONSTANTS UriOf, CapabilitiesOf, AutoHandle, TaskCalls      \* of AgentRuntime
VARIABLES state, pending, promise, result, caller, parent, act, by, reply

Runtime == INSTANCE AgentRuntime WITH Runtimes <- Handlers

\* The messages and the registrations of the bus are those of the runtimes.
RuntimesOnly ==
  /\ Inputs = {Runtime!Task(c) : c \in TaskCalls}
                \cup {Runtime!Response(r, s) : r \in Handlers, s \in 1..MaxSends}
  /\ RegisterCalls = {Runtime!StartCall(r) : r \in Handlers}

\* What the runtimes are assumed to be makes their messages and registrations ones that a
\* bus is assumed to get.
LEMMA RuntimeInputs ==
  ASSUME UriOf \in [Handlers -> Agents], CapabilitiesOf \in [Handlers -> SUBSET Capabilities],
         TaskCalls \subseteq [runtime : Handlers, to : Agents \cup {None},
                              capability : Capabilities, wait : BOOLEAN]
  PROVE  /\ \A c \in TaskCalls : Runtime!Task(c) \in Messages /\ Runtime!Task(c).type = "request"
                                 /\ Runtime!Task(c).reply = None
         /\ \A r \in Handlers, s \in 1..MaxSends :
              /\ Runtime!Response(r, s) \in Messages
              /\ Runtime!Response(r, s).type = "response" /\ Runtime!Response(r, s).reply # None
         /\ \A r \in Handlers :
              Runtime!StartCall(r) \in
                [agent : Agents, handler : Handlers \cup {None}, useMailbox : BOOLEAN,
                 capabilities : (SUBSET Capabilities) \cup {None}, replace : BOOLEAN]
<1>1. (CHOOSE t \in Traces : TRUE) \in Traces
  BY BusConstants
<1>2. ASSUME NEW c \in TaskCalls
      PROVE  Runtime!Task(c) \in Messages /\ Runtime!Task(c).type = "request"
             /\ Runtime!Task(c).reply = None
  BY <1>1, <1>2 DEF Runtime!Task, Messages
<1>3. ASSUME NEW r \in Handlers, NEW s \in 1..MaxSends
      PROVE  /\ Runtime!Response(r, s) \in Messages
             /\ Runtime!Response(r, s).type = "response" /\ Runtime!Response(r, s).reply # None
  <2>1. s \in 0..MaxSends /\ s # None
    BY BusConstants
  <2> QED BY <1>1, <1>3, <2>1 DEF Runtime!Response, Messages
<1>4. ASSUME NEW r \in Handlers
      PROVE  Runtime!StartCall(r) \in
               [agent : Agents, handler : Handlers \cup {None}, useMailbox : BOOLEAN,
                capabilities : (SUBSET Capabilities) \cup {None}, replace : BOOLEAN]
  BY <1>4 DEF Runtime!StartCall
<1> QED BY <1>2, <1>3, <1>4

\* The operations of the runtimes' bus are those of the bus.
LEMMA SameOperations ==
  /\ \A a, h, c, u, p : Runtime!Bus!Register(a, h, c, u, p) <=> Register(a, h, c, u, p)
  /\ \A a : Runtime!Bus!Unregister(a) <=> Unregister(a)
  /\ \A m : Runtime!Bus!Send(m) <=> Send(m)
  /\ \A s, a : Runtime!Bus!DeliverTo(s, a) <=> DeliverTo(s, a)
  /\ \A s, ok : Runtime!Bus!HandlerEnd(s, ok) <=> HandlerEnd(s, ok)
  /\ \A s : Runtime!Bus!Conclude(s) <=> Conclude(s)
  /\ \A a : Runtime!Bus!WaitForMessage(a) <=> WaitForMessage(a)
  /\ \A w : Runtime!Bus!WaitTimeout(w) <=> WaitTimeout(w)
  /\ \A value : Runtime!Bus!SetOpen(value) <=> SetOpen(value)
<1>1. \A a, h, c, u, p : Runtime!Bus!Register(a, h, c, u, p) <=> Register(a, h, c, u, p)
  BY DEF Register, MergeRegistration, RegisterNew, Idle, Registered, Reindex, traceVars, sendVars,
         mailVars, Runtime!Bus!Register, Runtime!Bus!MergeRegistration, Runtime!Bus!RegisterNew,
         Runtime!Bus!Idle, Runtime!Bus!Registered, Runtime!Bus!Reindex, Runtime!Bus!traceVars,
         Runtime!Bus!sendVars, Runtime!Bus!mailVars
<1>2. \A a : Runtime!Bus!Unregister(a) <=> Unregister(a)
  BY DEF Unregister, Idle, Registered, Reindex, traceVars, sendVars, mailVars,
         Runtime!Bus!Unregister, Runtime!Bus!Idle, Runtime!Bus!Registered, Runtime!Bus!Reindex,
         Runtime!Bus!traceVars, Runtime!Bus!sendVars, Runtime!Bus!mailVars
<1>3. \A m : Runtime!Bus!Recipients(m) = Recipients(m)
  BY DEF Recipients, ReplyRecipient, QueryRecipients, TaskRecipients, ByCapability, Least,
         Registered, Runtime!Bus!Recipients, Runtime!Bus!ReplyRecipient,
         Runtime!Bus!QueryRecipients, Runtime!Bus!TaskRecipients, Runtime!Bus!ByCapability,
         Runtime!Bus!Least, Runtime!Bus!Registered
<1>4. \A m, st : Runtime!Bus!Issue(m, st) <=> Issue(m, st)
  BY DEF Issue, Idle, Runtime!Bus!Issue, Runtime!Bus!Idle
<1>5. \A m, s : Runtime!Bus!RecordMessage(m, s) <=> RecordMessage(m, s)
  BY DEF RecordMessage, Record, Runtime!Bus!RecordMessage, Runtime!Bus!Record
<1>6. \A m : Runtime!Bus!Send(m) <=> Send(m)
  BY <1>3, <1>4, <1>5 DEF Send, SendRefused, SendUnroutable, SendRouted, registryVars, traceVars,
     mailVars, Runtime!Bus!Send, Runtime!Bus!SendRefused, Runtime!Bus!SendUnroutable,
     Runtime!Bus!SendRouted, Runtime!Bus!registryVars, Runtime!Bus!traceVars,
     Runtime!Bus!mailVars
<1>7. \A s, a : Runtime!Bus!DeliverTo(s, a) <=> DeliverTo(s, a)
  BY DEF DeliverTo, ToMailbox, HandOver, Least, Registered, registryVars, traceVars,
         Runtime!Bus!DeliverTo, Runtime!Bus!ToMailbox, Runtime!Bus!HandOver, Runtime!Bus!Least,
         Runtime!Bus!Registered, Runtime!Bus!registryVars, Runtime!Bus!traceVars
<1>8. \A s, ok : Runtime!Bus!HandlerEnd(s, ok) <=> HandlerEnd(s, ok)
  BY DEF HandlerEnd, Idle, registryVars, traceVars, mailVars, Runtime!Bus!HandlerEnd,
         Runtime!Bus!Idle, Runtime!Bus!registryVars, Runtime!Bus!traceVars, Runtime!Bus!mailVars
<1>9. \A s : Runtime!Bus!Conclude(s) <=> Conclude(s)
  BY DEF Conclude, registryVars, traceVars, mailVars, Runtime!Bus!Conclude,
         Runtime!Bus!registryVars, Runtime!Bus!traceVars, Runtime!Bus!mailVars
<1>10. \A a : Runtime!Bus!WaitForMessage(a) <=> WaitForMessage(a)
  BY DEF WaitForMessage, Idle, Registered, registryVars, traceVars, sendVars,
         Runtime!Bus!WaitForMessage, Runtime!Bus!Idle, Runtime!Bus!Registered,
         Runtime!Bus!registryVars, Runtime!Bus!traceVars, Runtime!Bus!sendVars
<1>11. \A w : Runtime!Bus!WaitTimeout(w) <=> WaitTimeout(w)
  BY DEF WaitTimeout, Idle, registryVars, traceVars, sendVars, Runtime!Bus!WaitTimeout,
         Runtime!Bus!Idle, Runtime!Bus!registryVars, Runtime!Bus!traceVars, Runtime!Bus!sendVars
<1>12. \A value : Runtime!Bus!SetOpen(value) <=> SetOpen(value)
  BY DEF SetOpen, Idle, registryVars, traceVars, sendVars, mailVars, Runtime!Bus!SetOpen,
         Runtime!Bus!Idle, Runtime!Bus!registryVars, Runtime!Bus!traceVars,
         Runtime!Bus!sendVars, Runtime!Bus!mailVars
<1> QED
  BY <1>1, <1>2, <1>6, <1>7, <1>8, <1>9, <1>10, <1>11, <1>12

\* Who is registered on the bus is a runtime, and what a runtime handles has been sent.
ActsIssued ==
  /\ act \in [Sends -> {"none", "running", "responding", "returned", "rejected"}]
  /\ by \in [Sends -> Handlers \cup {None}]
  /\ \A a \in Registered : agents[a].handler \in Handlers
  /\ \A s \in Sends : act[s] # "none" => s <= sent /\ by[s] \in Handlers

\* Whoever may reply to a message has got it from the bus, so that it exists.
LEMMA HeldIssued ==
  ASSUME TypeOK, MailInv, OnceInv, ActsIssued,
         NEW r \in Handlers, NEW s \in Sends, Runtime!Holds(r, s)
  PROVE  s <= sent
<1>1. CASE act[s] = "running"
  BY <1>1 DEF ActsIssued
<1>2. ASSUME NEW a \in Registered, NEW i, agents[a].mailbox # None,
             i \in DOMAIN received[agents[a].mailbox], received[agents[a].mailbox][i] = s
      PROVE  s <= sent
  <2> DEFINE b == agents[a].mailbox
  <2>1. b \in Boxes
    BY <1>2 DEF TypeOK, Registrations
  <2>2. received[b] \in Seq(Sends) /\ queue[b] \in Seq(Sends) /\ handed[b] = received[b] \o queue[b]
    BY <2>1 DEF TypeOK, MailInv, MailboxExact
  <2>3. \A p, q \in Seq(Sends) : i \in DOMAIN p => i \in DOMAIN (p \o q) /\ (p \o q)[i] = p[i]
    OBVIOUS
  <2>4. i \in DOMAIN handed[b] /\ handed[b][i] = s
    <3> HIDE DEF b
    <3> QED BY <1>2, <2>2, <2>3 DEF b
  <2> QED BY <2>1, <2>4 DEF OnceInv, SendsIssued
<1> QED
  BY <1>1, <1>2 DEF Runtime!Holds, Runtime!Bus!Registered, Registered

\* Every step of the runtimes is a step of their bus or leaves it alone.
LEMMA RuntimeStep ==
  ASSUME RuntimesOnly, TypeOK, MailInv, OnceInv, ActsIssued, [Runtime!Next]_(Runtime!vars)
  PROVE  [Next]_vars
<1>1. ASSUME Runtime!busVars' = Runtime!busVars PROVE UNCHANGED vars
  BY <1>1 DEF Runtime!busVars, vars
<1>2. ASSUME NEW m \in Inputs, m.reply # None => m.reply <= sent, Send(m) PROVE Next
  BY <1>2 DEF Next, Sendable
<1>3. ASSUME NEW r \in Handlers, Runtime!Start(r) PROVE Next
  <2>1. /\ Runtime!StartCall(r) \in RegisterCalls
        /\ Register(UriOf[r], r, CapabilitiesOf[r], r \notin AutoHandle, FALSE)
    BY <1>3, SameOperations DEF Runtime!Start, RuntimesOnly
  <2> DEFINE k == Runtime!StartCall(r)
  <2>2. Register(k.agent, k.handler, k.capabilities, k.useMailbox, k.replace)
    BY <2>1 DEF Runtime!StartCall
  <2> QED BY <2>1, <2>2 DEF Next
<1>4. ASSUME NEW r \in Handlers, Runtime!Stop(r) PROVE Next \/ UNCHANGED vars
  <2>1. CASE Unregister(UriOf[r])
    BY <2>1 DEF Unregister, TypeOK, Next
  <2> QED BY <1>1, <1>4, <2>1, SameOperations DEF Runtime!Stop
<1>5. ASSUME NEW c \in TaskCalls, NEW outer, Runtime!SendTask(c, outer) PROVE Next
  BY <1>2, <1>5, SameOperations DEF Runtime!SendTask, RuntimesOnly, Runtime!Task
<1>6. ASSUME NEW r \in Handlers, NEW s \in Sends, s <= sent, Send(Runtime!Response(r, s))
      PROVE  Next
  BY <1>2, <1>6 DEF RuntimesOnly, Runtime!Response, Sends
<1>7. ASSUME NEW r \in Handlers, NEW s \in Sends, Runtime!Respond(r, s) PROVE Next
  BY <1>6, <1>7, HeldIssued, SameOperations DEF Runtime!Respond
<1>8. ASSUME NEW s \in Sends, Runtime!HandlerResponds(s) PROVE Next
  <2>1. s <= sent /\ by[s] \in Handlers
    BY <1>8 DEF Runtime!HandlerResponds, Runtime!Settled, ActsIssued
  <2> QED BY <1>6, <1>8, <2>1, SameOperations DEF Runtime!HandlerResponds
<1>9. ASSUME NEW s \in Sends, NEW a \in Agents, Runtime!Deliver(s, a) PROVE Next
  BY <1>9, SameOperations DEF Runtime!Deliver, Next
<1>10. ASSUME NEW s \in Sends, Runtime!HandlerRejects(s) \/ Runtime!HandlerReturns(s) PROVE Next
  BY <1>10, SameOperations DEF Runtime!HandlerRejects, Runtime!HandlerReturns, Next
<1>11. ASSUME NEW s \in Sends, Runtime!Conclude(s) PROVE Next
  BY <1>11, SameOperations DEF Runtime!Conclude, Next
<1>12. ASSUME NEW r \in Handlers, Runtime!ReceiveTask(r) PROVE Next
  <2>1. WaitForMessage(UriOf[r]) /\ UriOf[r] \in Agents
    BY <1>12, SameOperations DEF Runtime!ReceiveTask, WaitForMessage, TypeOK
  <2> QED BY <2>1 DEF Next
<1>13. ASSUME NEW w \in Waits, Runtime!ReceiveTimeout(w) PROVE Next
  BY <1>13, SameOperations DEF Runtime!ReceiveTimeout, Next
<1>14. ASSUME Runtime!CloseBus PROVE Next
  BY <1>14, SameOperations DEF Runtime!CloseBus, Next
<1>15. ASSUME NEW s \in Sends,
              Runtime!ResponseTimeout(s) \/ Runtime!SendTaskFails(s) \/ Runtime!SendTaskReturns(s)
       PROVE  UNCHANGED vars
  BY <1>1, <1>15 DEF Runtime!ResponseTimeout, Runtime!SendTaskFails, Runtime!SendTaskReturns
<1>16. CASE UNCHANGED Runtime!vars
  BY <1>1, <1>16 DEF Runtime!vars
<1> QED
  BY <1>3, <1>4, <1>5, <1>7, <1>8, <1>9, <1>10, <1>11, <1>12, <1>13, <1>14, <1>15, <1>16
  DEF Runtime!Next, Runtime!Sends, Sends, Waits

\* A handler begins with a message that the loop delivers, and ends with one it has begun with.
LEMMA NextActsIssued ==
  ASSUME TypeOK, OnceInv, ActsIssued, [Next]_vars, [Runtime!Next]_(Runtime!vars)
  PROVE  ActsIssued'
<1>1. sent <= sent' /\ sent \in Nat /\ sent' \in Nat
  <2>1. sent' = sent \/ sent' = sent + 1
    BY DEF Next, vars, Register, Unregister, Send, SendRefused, SendUnroutable, SendRouted,
           ReplayTraceMessage, Issue, DeliverTo, HandlerEnd, Conclude, WaitForMessage, WaitTimeout,
           SetOpen, sendVars
  <2> QED BY <2>1, BusConstants DEF TypeOK
<1>2. \A s \in Sends : s \in Nat
  BY BusConstants DEF Sends
<1>3. (\A a \in Registered : agents[a].handler \in Handlers)'
  <2>1. CASE agents' = agents
    BY <2>1 DEF ActsIssued, Registered
  <2>2. ASSUME NEW r \in Handlers, Runtime!Start(r)
        PROVE  \A a \in DOMAIN agents' : agents'[a].handler \in Handlers
    <3>1. Register(UriOf[r], r, CapabilitiesOf[r], r \notin AutoHandle, FALSE) /\ r # None
      BY <2>2, SameOperations, BusConstants DEF Runtime!Start
    <3>2. ASSUME MergeRegistration(UriOf[r], r, CapabilitiesOf[r], r \notin AutoHandle),
                 UriOf[r] \in Registered
          PROVE  \A a \in DOMAIN agents' : agents'[a].handler \in Handlers
      BY <3>1, <3>2 DEF MergeRegistration, ActsIssued, Registered
    <3>3. ASSUME RegisterNew(UriOf[r], r, CapabilitiesOf[r], r \notin AutoHandle)
          PROVE  \A a \in DOMAIN agents' : agents'[a].handler \in Handlers
      BY <3>3 DEF RegisterNew, ActsIssued, Registered
    <3> QED BY <3>1, <3>2, <3>3 DEF Register
  <2>3. ASSUME NEW a, Unregister(a)
        PROVE  \A x \in DOMAIN agents' : agents'[x].handler \in Handlers
    BY <2>3 DEF Unregister, ActsIssued, Registered
  <2>4. \/ agents' = agents
        \/ \E r \in Handlers : Runtime!Start(r)
        \/ \E a : Unregister(a)
    <3>1. ASSUME NEW m, Send(m) PROVE agents' = agents
      BY <3>1 DEF Send, SendRefused, SendUnroutable, SendRouted, registryVars
    <3>2. ASSUME NEW s, NEW a, DeliverTo(s, a) PROVE agents' = agents
      BY <3>2 DEF DeliverTo, registryVars
    <3>3. ASSUME NEW s, NEW ok, HandlerEnd(s, ok) PROVE agents' = agents
      BY <3>3 DEF HandlerEnd, registryVars
    <3> QED
      BY <3>1, <3>2, <3>3, SameOperations
      DEF Runtime!Next, Runtime!vars, Runtime!busVars, Runtime!Stop, Runtime!SendTask,
          Runtime!ResponseTimeout, Runtime!SendTaskFails, Runtime!SendTaskReturns,
          Runtime!Deliver, Runtime!Respond, Runtime!HandlerResponds, Runtime!HandlerRejects,
          Runtime!HandlerReturns, Runtime!Conclude, Runtime!ReceiveTask, Runtime!ReceiveTimeout,
          Runtime!CloseBus, Conclude, WaitForMessage, WaitTimeout, SetOpen, registryVars
  <2> QED BY <2>1, <2>2, <2>3, <2>4 DEF Registered
<1>4. ASSUME act' = act, by' = by PROVE ActsIssued'
  BY <1>1, <1>2, <1>3, <1>4 DEF ActsIssued
<1>5. ASSUME NEW s \in Sends, s <= sent, NEW r \in Handlers, by' = [by EXCEPT ![s] = r],
             NEW e \in {"running", "responding", "returned", "rejected"}, act' = [act EXCEPT ![s] = e]
      PROVE  ActsIssued'
  BY <1>1, <1>2, <1>3, <1>5 DEF ActsIssued
<1>6. ASSUME NEW s \in Sends, NEW a \in Agents, Runtime!Deliver(s, a) PROVE ActsIssued'
  <2>1. s <= sent
    <3>1. active = s
      BY <1>6, SameOperations DEF Runtime!Deliver, DeliverTo
    <3> QED BY <1>2, <3>1, BusConstants DEF OnceInv, SendsIssued
  <2>2. \/ act' = act /\ by' = by
        \/ /\ a \in Registered /\ by' = [by EXCEPT ![s] = agents[a].handler]
           /\ \E e \in {"running", "returned"} : act' = [act EXCEPT ![s] = e]
    BY <1>6 DEF Runtime!Deliver, Runtime!HandleIncoming, Runtime!actVars, Runtime!Bus!Registered,
       Registered
  <2>3. a \in Registered => agents[a].handler \in Handlers
    BY DEF ActsIssued
  <2> QED BY <1>4, <1>5, <2>1, <2>2, <2>3
<1>7. ASSUME NEW s \in Sends,
             Runtime!HandlerResponds(s) \/ Runtime!HandlerRejects(s) \/ Runtime!HandlerReturns(s)
      PROVE  ActsIssued'
  <2>1. /\ act[s] # "none" /\ by' = by
        /\ \E e \in {"responding", "rejected", "returned"} : act' = [act EXCEPT ![s] = e]
    BY <1>7 DEF Runtime!HandlerResponds, Runtime!HandlerRejects, Runtime!HandlerReturns,
                Runtime!Settled
  <2>2. s <= sent /\ by[s] \in Handlers /\ by' = [by EXCEPT ![s] = by[s]]
    BY <2>1 DEF ActsIssued
  <2> QED BY <1>5, <2>1, <2>2
<1>8. ASSUME \/ UNCHANGED Runtime!vars
             \/ \E r \in Handlers : Runtime!Start(r) \/ Runtime!Stop(r) \/ Runtime!ReceiveTask(r)
             \/ \E c \in TaskCalls, outer \in Sends \cup {None} : Runtime!SendTask(c, outer)
             \/ \E s \in Sends : \/ Runtime!ResponseTimeout(s) \/ Runtime!SendTaskFails(s)
                                 \/ Runtime!SendTaskReturns(s) \/ Runtime!Conclude(s)
                                 \/ \E r \in Handlers : Runtime!Respond(r, s)
             \/ \E w \in Waits : Runtime!ReceiveTimeout(w)
             \/ Runtime!CloseBus
      PROVE  ActsIssued'
  BY <1>4, <1>8 DEF Runtime!vars, Runtime!Start, Runtime!Stop, Runtime!ReceiveTask,
     Runtime!SendTask, Runtime!ResponseTimeout, Runtime!SendTaskFails, Runtime!SendTaskReturns,
     Runtime!Conclude, Runtime!Respond, Runtime!ReceiveTimeout, Runtime!CloseBus, Runtime!actVars
<1> QED
  BY <1>6, <1>7, <1>8 DEF Runtime!Next, Runtime!Sends, Sends, Waits

\* However agent runtimes start, stop, call one another, respond and time out, all they do to
\* their bus is what a client may do: they implement the bus, for any runtimes and calls.
THEOREM RuntimesUseTheBus == RuntimesOnly /\ Runtime!Spec => Spec
<1> DEFINE BusInv == TypeOK /\ MailInv /\ OnceInv /\ ActsIssued
<1>1. Runtime!Init => Init
  BY DEF Runtime!Init, Runtime!Bus!Init, Runtime!Bus!NoMessage, Runtime!Bus!Sends,
         Runtime!Bus!Boxes, Runtime!Bus!Waits, Init, NoMessage, Sends, Boxes, Waits
<1>2. Runtime!Init => BusInv
  <2>1. Runtime!Init => ActsIssued
    BY DEF Runtime!Init, Runtime!Bus!Init, Runtime!Sends, ActsIssued, Sends, Registered
  <2> QED BY <1>1, <2>1, InitTypeOK, InitMailInv, InitOnceInv
<1>3. RuntimesOnly /\ BusInv /\ [Runtime!Next]_(Runtime!vars) => [Next]_vars /\ BusInv'
  BY RuntimeStep, NextActsIssued, NextTypeOK, NextMailInv, NextOnceInv
<1>4. RuntimesOnly => RuntimesOnly'
  BY DEF RuntimesOnly, Runtime!Task, Runtime!Response, Runtime!StartCall
<1> QED
  BY <1>1, <1>2, <1>3, <1>4, PTL DEF Runtime!Spec, Spec

\* So what holds of every bus holds of the one the runtimes share: its index is exact, its
\* mailboxes lose, repeat and reorder nothing, nothing is delivered to one twice, and its
\* traces keep the newest messages.
THEOREM RuntimesBusCorrect ==
  RuntimesOnly /\ Runtime!Spec =>
    [](IndexMatchesAgents /\ MailboxExact /\ NoWaiterBesideMessage /\ AtMostOnce /\ TraceKeepsNewest)
BY RuntimesUseTheBus, IndexCorrect, MailboxCorrect, DeliveredAtMostOnce, NewestAreKept, PTL
===============================================================================
