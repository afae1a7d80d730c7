----------------------------- MODULE ServerProofs -----------------------------
(*****************************************************************************)
(* Proofs about what a server keeps in memory, the registry with the agents  *)
(* on the bus (Registry) and the event stream: its connections, its rings    *)
(* and what its clients get of them (EventStream), for any agents, workers,  *)
(* capabilities, clients, servers and bounds.                                *)
(*****************************************************************************)
EXTENDS Registry, EventStream, SequenceLemmas

-------------------------------------------------------------------------------
(* The registry.                                                             *)
\* What is registered, in the registry or declared to the bus, is under its own id.
Registered(f) ==
  /\ DOMAIN f \subseteq Uris
  /\ \A a \in DOMAIN f :
       f[a] \in [id : Uris, skills : SUBSET Skills, valid : BOOLEAN] /\ f[a].id = a

\* The types.
AgentsTypeOK ==
  /\ process \in {"off", "on", "failed"} /\ mode \in {"first", "all"}
  /\ Registered(registry) /\ Registered(table) /\ Registered(declared)
  /\ listed \in [Skills -> SUBSET Uris]
  /\ DOMAIN enrolled \subseteq Uris
  /\ worker \in [DOMAIN Workers -> {"created", "running", "stopped"}]

\* The capability index lists who declares the capability in the registry.
Indexed == \A c \in Skills : listed[c] = {a \in DOMAIN registry : c \in registry[a].skills}

\* Handlers are those of running workers, and whoever has none has a mailbox.
Reachable ==
  \A a \in DOMAIN enrolled :
    /\ enrolled[a].handler => a \in DOMAIN Workers /\ worker[a] = "running"
    /\ enrolled[a].handler \/ enrolled[a].mailbox

\* Without a process nothing runs.
AtRest == process # "on" => routed = {} /\ \A w \in DOMAIN Workers : worker[w] = "created"

\* The inductive invariant of the registry.
AgentsInv ==
  /\ AgentsTypeOK /\ Indexed /\ Reachable /\ AtRest
  /\ RoutedAsRegistered /\ HandlerKept /\ RegistrationsKept

\* A registration replaces the one under its id.
LEMMA PutRegistered ==
  ASSUME NEW f, Registered(f), NEW i \in [id : Uris, skills : SUBSET Skills, valid : BOOLEAN]
  PROVE  Registered(Put(f, i.id, i))
<1> DEFINE g == Put(f, i.id, i)
<1>1. DOMAIN g = DOMAIN f \cup {i.id} /\ g[i.id] = i /\ \A x \in DOMAIN f : x # i.id => g[x] = f[x]
  BY DEF Put
<1> HIDE DEF g
<1> QED BY <1>1 DEF Registered, g

\* The first of a set of agents is in front of everybody in it.
LEMMA FirstLeads ==
  ASSUME NEW S, S \subseteq Nat, NEW a \in S, NEW n \in Nat \ {0}
  PROVE  \E b \in First(n, S) : b <= a
<1>1. PICK b \in S : \A y \in S : b <= y
  BY LeastNat
<1>2. {y \in S : y < b} = {}
  <2>1. ASSUME NEW y \in S PROVE ~(y < b)
    <3>1. y \in Nat /\ b \in Nat /\ b <= y
      BY <1>1
    <3> QED BY <3>1
  <2> QED BY <2>1
<1>3. b \in First(n, S)
  BY <1>2, FS_EmptySet DEF First
<1> QED BY <1>1, <1>3

\* Before the first start nothing is registered and nothing runs.
LEMMA RegistryInitInv == RegistryInit => AgentsInv
  BY RegistryConstants
  DEF RegistryInit, AgentsInv, AgentsTypeOK, Registered, Indexed, Reachable, AtRest, Nobody,
      RoutedAsRegistered, HandlerKept, RegistrationsKept

-------------------------------------------------------------------------------
(* Routing.                                                                 *)

\* What is enrolled before a task is routed are the agents found; the others are left as they are.
LEMMA EnrolFoundEffect ==
  ASSUME AgentsInv, NEW c \in Skills
  PROVE  /\ DOMAIN EnrolFound(c) = DOMAIN enrolled \cup FindByCapability(c)
         /\ FindByCapability(c) \subseteq DOMAIN registry
         /\ \A a \in FindByCapability(c) :
              /\ EnrolFound(c)[a].skills = registry[a].skills
              /\ EnrolFound(c)[a].handler <=> a \in DOMAIN enrolled /\ enrolled[a].handler
              /\ EnrolFound(c)[a].mailbox
         /\ \A a \in DOMAIN enrolled :
              a \notin FindByCapability(c) => EnrolFound(c)[a] = enrolled[a]
<1>1. FindByCapability(c) \subseteq DOMAIN registry
  BY DEF FindByCapability, First, AgentsInv, Indexed
<1> QED BY <1>1 DEF EnrolFound, Enrol, Put

\* A task routed by a capability reaches the agents that declare it in the registry: they
\* were found, enrolled and asked, and the bus routes by what it knows of them.
LEMMA SendByCapabilityInv ==
  ASSUME AgentsInv, NEW c \in Skills, SendByCapability(c)
  PROVE  AgentsInv'
<1> DEFINE found == FindByCapability(c)
           known == {a \in DOMAIN registry : c \in registry[a].skills}
           declaring == {a \in DOMAIN enrolled' : c \in enrolled'[a].skills}
           to == IF mode = "all" THEN declaring ELSE First(1, declaring)
<1>1. /\ UNCHANGED <<process, mode, registry, listed, worker, table, hydrations, declared>>
      /\ process = "on" /\ enrolled' = EnrolFound(c)
      /\ routed' = {[skill |-> c, to |-> to, known |-> known]}
  BY DEF SendByCapability
<1>2. /\ DOMAIN enrolled' = DOMAIN enrolled \cup found /\ found \subseteq DOMAIN registry
      /\ \A a \in found : enrolled'[a].skills = registry[a].skills
      /\ \A a \in DOMAIN enrolled : a \notin found => enrolled'[a] = enrolled[a]
  BY <1>1, EnrolFoundEffect
<1>h. \A a \in found :
        /\ enrolled'[a].handler <=> a \in DOMAIN enrolled /\ enrolled[a].handler
        /\ enrolled'[a].mailbox
  BY <1>1, EnrolFoundEffect
<1>w. UNCHANGED worker
  BY <1>1
<1>3. found = First(MaxFound, known)
  BY DEF FindByCapability, AgentsInv, Indexed
<1>4. known \subseteq Nat /\ First(MaxFound, known) \subseteq known
  BY RegistryConstants DEF AgentsInv, AgentsTypeOK, Registered, First
<1>5. found \subseteq declaring
  <2>1. \A a \in found : enrolled'[a].skills = registry[a].skills /\ a \in known
    BY <1>2, <1>3, <1>4
  <2> QED BY <1>2, <2>1
<1> HIDE DEF found
<1>6. AgentsTypeOK'
  <2>1. DOMAIN enrolled' \subseteq Uris
    BY <1>2 DEF AgentsInv, AgentsTypeOK, Registered
  <2> QED BY <1>1, <2>1 DEF AgentsInv, AgentsTypeOK, Registered
<1>7. Reachable'
  <2>1. ASSUME NEW a \in DOMAIN enrolled'
        PROVE  /\ enrolled'[a].handler => a \in DOMAIN Workers /\ worker'[a] = "running"
               /\ enrolled'[a].handler \/ enrolled'[a].mailbox
    <3>1. CASE a \in found
      BY <1>h, <1>w, <3>1, Zenon DEF AgentsInv, Reachable
    <3>2. CASE a \notin found
      <4>1. a \in DOMAIN enrolled /\ enrolled'[a] = enrolled[a]
        BY <1>2, <3>2
      <4> QED BY <1>w, <4>1, Zenon DEF AgentsInv, Reachable
    <3> QED BY <3>1, <3>2
  <2> QED BY <2>1 DEF Reachable
<1>8. RoutedAsRegistered'
  <2>1. declaring \subseteq Nat
    BY <1>6, RegistryConstants DEF AgentsTypeOK
  <2> HIDE DEF known, declaring
  <2>2. ASSUME NEW a \in known PROVE \E b \in to : b <= a
    <3>1. PICK b \in found : b <= a
      BY <1>3, <1>4, FirstLeads, RegistryConstants
    <3>2. b \in declaring /\ b \in Nat /\ a \in Nat
      BY <1>4, <1>5, <2>1
    <3>3. PICK d \in First(1, declaring) : d <= b
      <4>1. 1 \in Nat \ {0}
        OBVIOUS
      <4> QED BY <2>1, <3>2, <4>1, FirstLeads
    <3>4. d \in Nat
      BY <2>1 DEF First
    <3>5. d <= a
      BY <3>1, <3>2, <3>3, <3>4
    <3> QED BY <3>1, <3>2, <3>3, <3>5
  <2>3. to \subseteq declaring
    BY DEF First
  <2>4. \A a \in to : enrolled'[a].mailbox \/ (enrolled'[a].handler /\ worker'[a] = "running")
    BY <1>7, <2>3 DEF Reachable, declaring
  <2>5. mode' = "all" => First(MaxFound, known) \subseteq to
    BY <1>1, <1>3, <1>5
  <2> QED BY <1>1, <2>2, <2>4, <2>5 DEF RoutedAsRegistered
<1>9. HandlerKept'
  <2>1. ASSUME NEW w \in DOMAIN Workers
        PROVE  worker'[w] = "running" <=> w \in DOMAIN enrolled' /\ enrolled'[w].handler
    <3>1. worker[w] = "running" <=> w \in DOMAIN enrolled /\ enrolled[w].handler
      BY DEF AgentsInv, HandlerKept
    <3>2. CASE w \in found
      <4>1. w \in DOMAIN enrolled'
        BY <1>2, <3>2
      <4> QED BY <1>h, <1>w, <3>1, <3>2, <4>1, Zenon
    <3>3. CASE w \notin found
      <4>1. w \in DOMAIN enrolled' <=> w \in DOMAIN enrolled
        BY <1>2, <3>3
      <4>2. w \in DOMAIN enrolled => enrolled'[w] = enrolled[w]
        BY <1>2, <3>3
      <4> QED BY <1>w, <3>1, <4>1, <4>2, Zenon
    <3> QED BY <3>2, <3>3
  <2> QED BY <2>1 DEF HandlerKept
<1>10. Indexed' /\ AtRest' /\ RegistrationsKept'
  BY <1>1 DEF AgentsInv, Indexed, AtRest, RegistrationsKept, WorkerIdentity
<1> QED BY <1>6, <1>7, <1>8, <1>9, <1>10 DEF AgentsInv

-------------------------------------------------------------------------------
(* Registration.                                                            *)

\* What identifies an agent to the registry and to the bus.
Identity == [id : Uris, skills : SUBSET Skills, valid : BOOLEAN]

\* What is registered is indexed, and only that of the agent that registers changes.
LEMMA InRegistryOK ==
  ASSUME AgentsInv, NEW i \in Identity, InRegistry(i)
  PROVE  /\ Registered(registry)' /\ (listed \in [Skills -> SUBSET Uris])' /\ Indexed'
         /\ DOMAIN registry' = DOMAIN registry \cup {i.id} /\ registry'[i.id] = i
         /\ \A a \in DOMAIN registry : a # i.id => registry'[a] = registry[a]
<1>1. Registered(registry')
  BY PutRegistered DEF AgentsInv, AgentsTypeOK, InRegistry, Identity
<1>2. /\ DOMAIN registry' = DOMAIN registry \cup {i.id} /\ registry'[i.id] = i
      /\ \A a \in DOMAIN registry : a # i.id => registry'[a] = registry[a]
  BY DEF InRegistry, Put
<1>3. /\ listed' = [c \in Skills |-> IF c \in i.skills THEN listed[c] \cup {i.id} ELSE listed[c] \ {i.id}]
  BY DEF InRegistry, Relisted
<1>4. listed' \in [Skills -> SUBSET Uris]
  BY <1>3 DEF AgentsInv, AgentsTypeOK, Identity
<1>5. ASSUME NEW c \in Skills PROVE listed'[c] = {a \in DOMAIN registry' : c \in registry'[a].skills}
  <2>1. listed[c] = {a \in DOMAIN registry : c \in registry[a].skills}
    BY DEF AgentsInv, Indexed
  <2>2. listed'[c] = IF c \in i.skills THEN listed[c] \cup {i.id} ELSE listed[c] \ {i.id}
    BY <1>3
  <2> QED BY <1>2, <2>1, <2>2
<1> QED BY <1>1, <1>2, <1>4, <1>5 DEF Registered, Indexed

\* An enrolment keeps the handlers and leaves a mailbox.
LEMMA EnrolOK ==
  ASSUME AgentsInv, NEW a \in Uris, NEW skills,
         enrolled' = Enrol(enrolled, a, skills), UNCHANGED worker
  PROVE  DOMAIN enrolled' \subseteq Uris /\ Reachable' /\ HandlerKept'
<1>1. /\ DOMAIN enrolled' = DOMAIN enrolled \cup {a}
      /\ \A x \in DOMAIN enrolled : x # a => enrolled'[x] = enrolled[x]
  BY DEF Enrol, Put
<1>2. /\ enrolled'[a].handler <=> a \in DOMAIN enrolled /\ enrolled[a].handler
      /\ enrolled'[a].mailbox
  BY DEF Enrol, Put
<1>3. DOMAIN enrolled' \subseteq Uris
  BY <1>1 DEF AgentsInv, AgentsTypeOK
<1>4. ASSUME NEW x \in DOMAIN enrolled'
      PROVE  /\ enrolled'[x].handler => x \in DOMAIN Workers /\ worker'[x] = "running"
             /\ enrolled'[x].handler \/ enrolled'[x].mailbox
  <2>1. CASE x = a
    BY <1>2, <2>1, Zenon DEF AgentsInv, Reachable
  <2>2. CASE x # a
    <3>1. x \in DOMAIN enrolled /\ enrolled'[x] = enrolled[x]
      BY <1>1, <2>2
    <3> QED BY <3>1, Zenon DEF AgentsInv, Reachable
  <2> QED BY <2>1, <2>2
<1>5. ASSUME NEW w \in DOMAIN Workers
      PROVE  worker'[w] = "running" <=> w \in DOMAIN enrolled' /\ enrolled'[w].handler
  <2>1. worker[w] = "running" <=> w \in DOMAIN enrolled /\ enrolled[w].handler
    BY DEF AgentsInv, HandlerKept
  <2>2. CASE w = a
    <3>1. w \in DOMAIN enrolled'
      BY <1>1, <2>2
    <3> QED BY <1>2, <2>1, <2>2, <3>1, Zenon
  <2>3. CASE w # a
    <3>1. w \in DOMAIN enrolled' <=> w \in DOMAIN enrolled
      BY <1>1, <2>3
    <3>2. w \in DOMAIN enrolled => enrolled'[w] = enrolled[w]
      BY <1>1, <2>3
    <3> QED BY <2>1, <3>1, <3>2, Zenon
  <2> QED BY <2>2, <2>3
<1> QED BY <1>3, <1>4, <1>5, Zenon DEF Reachable, HandlerKept

\* A client's registration: in the registry, in the table and on the bus.
LEMMA RegistrationInv ==
  ASSUME AgentsInv, NEW i \in Identity, process = "on",
         InRegistry(i), table' = Put(table, i.id, i), declared' = Put(declared, i.id, i),
         enrolled' = Enrol(enrolled, i.id, i.skills), routed' = {},
         UNCHANGED <<process, mode, worker>>
  PROVE  AgentsInv'
<1>1. /\ Registered(registry)' /\ (listed \in [Skills -> SUBSET Uris])' /\ Indexed'
      /\ DOMAIN registry' = DOMAIN registry \cup {i.id} /\ registry'[i.id] = i
      /\ \A a \in DOMAIN registry : a # i.id => registry'[a] = registry[a]
  BY InRegistryOK
<1>2. DOMAIN enrolled' \subseteq Uris /\ Reachable' /\ HandlerKept'
  BY EnrolOK DEF Identity
<1>3. Registered(table)' /\ Registered(declared)'
  BY PutRegistered DEF AgentsInv, AgentsTypeOK, Identity
<1>4. AgentsTypeOK'
  BY <1>1, <1>2, <1>3 DEF AgentsInv, AgentsTypeOK, Registered
<1>5. AtRest' /\ RoutedAsRegistered'
  BY DEF AtRest, RoutedAsRegistered
<1>6. RegistrationsKept'
  <2>1. /\ DOMAIN declared' = DOMAIN declared \cup {i.id} /\ declared'[i.id] = i
        /\ \A a \in DOMAIN declared : a # i.id => declared'[a] = declared[a]
        /\ DOMAIN table' = DOMAIN table \cup {i.id} /\ table'[i.id] = i
        /\ \A a \in DOMAIN table : a # i.id => table'[a] = table[a]
    BY DEF Put
  <2>2. ASSUME NEW a \in DOMAIN declared'
        PROVE  /\ a \in DOMAIN table'
               /\ table'[a].valid => table'[a] = declared'[a]
               /\ a \in DOMAIN registry'
               /\ \/ registry'[a] = declared'[a]
                  \/ a \in DOMAIN Workers /\ registry'[a] = WorkerIdentity(a)
    <3>1. CASE a = i.id
      BY <1>1, <2>1, <3>1
    <3>2. CASE a # i.id
      BY <1>1, <2>1, <3>2 DEF AgentsInv, RegistrationsKept
    <3> QED BY <3>1, <3>2
  <2> QED BY <2>2 DEF RegistrationsKept, WorkerIdentity
<1> QED BY <1>1, <1>2, <1>4, <1>5, <1>6 DEF AgentsInv

\* The other steps, one by one.
LEMMA PostAgentInv ==
  ASSUME AgentsInv, NEW i \in Identities, NEW replace, PostAgent(i, replace)
  PROVE  AgentsInv'
<1>1. i \in Identity
  BY RegistryConstants DEF Identity
<1> QED BY <1>1, RegistrationInv DEF PostAgent

\* An invalid identity takes the row of its agent in the table and nothing else.
LEMMA ImportAgentInv ==
  ASSUME AgentsInv, NEW i \in Identities, ImportAgent(i)
  PROVE  AgentsInv'
<1>1. i \in Identity
  BY RegistryConstants DEF Identity
<1>2. CASE i.valid
  BY <1>1, <1>2, RegistrationInv DEF ImportAgent
<1>3. CASE ~i.valid
  <2>1. /\ UNCHANGED <<process, mode, worker, registry, listed, enrolled, declared>>
        /\ routed' = {} /\ table' = Put(table, i.id, i) /\ process = "on"
    BY <1>3 DEF ImportAgent
  <2>2. Registered(table')
    BY <1>1, <2>1, PutRegistered DEF AgentsInv, AgentsTypeOK, Identity
  <2>3. AgentsTypeOK'
    BY <2>1, <2>2 DEF AgentsInv, AgentsTypeOK, Registered
  <2>4. Indexed' /\ Reachable' /\ AtRest' /\ RoutedAsRegistered' /\ HandlerKept'
    BY <2>1 DEF AgentsInv, Indexed, Reachable, AtRest, RoutedAsRegistered, HandlerKept
  <2>5. /\ DOMAIN table' = DOMAIN table \cup {i.id} /\ table'[i.id] = i
        /\ \A a \in DOMAIN table : a # i.id => table'[a] = table[a]
    BY <2>1 DEF Put
  <2>6. RegistrationsKept'
    BY <1>3, <2>1, <2>5 DEF AgentsInv, RegistrationsKept, WorkerIdentity
  <2> QED BY <2>3, <2>4, <2>6 DEF AgentsInv
<1> QED BY <1>2, <1>3

-------------------------------------------------------------------------------
(* Workers.                                                                 *)

\* A worker that starts attaches its handler, to what is there or to a new registration.
LEMMA AttachOK ==
  ASSUME AgentsInv, NEW w \in DOMAIN Workers, worker' = [worker EXCEPT ![w] = "running"],
         NEW f, enrolled' = Attach(f, w), DOMAIN f \subseteq DOMAIN enrolled \cup {w},
         \A x \in DOMAIN enrolled : x # w => x \in DOMAIN f /\ f[x] = enrolled[x]
  PROVE  DOMAIN enrolled' \subseteq Uris /\ Reachable' /\ HandlerKept'
<1>1. /\ DOMAIN enrolled' = DOMAIN enrolled \cup {w}
      /\ \A x \in DOMAIN enrolled : x # w => enrolled'[x] = enrolled[x]
  BY DEF Attach, Put
<1>2. enrolled'[w].handler
  BY DEF Attach, Put
<1>3. DOMAIN enrolled' \subseteq Uris
  BY <1>1, RegistryConstants DEF AgentsInv, AgentsTypeOK
<1>4. worker'[w] = "running" /\ \A x \in DOMAIN Workers : x # w => worker'[x] = worker[x]
  BY DEF AgentsInv, AgentsTypeOK
<1>5. ASSUME NEW x \in DOMAIN enrolled'
      PROVE  /\ enrolled'[x].handler => x \in DOMAIN Workers /\ worker'[x] = "running"
             /\ enrolled'[x].handler \/ enrolled'[x].mailbox
  <2>1. CASE x = w
    BY <1>2, <1>4, <2>1, Zenon
  <2>2. CASE x # w
    <3>1. x \in DOMAIN enrolled /\ enrolled'[x] = enrolled[x]
      BY <1>1, <2>2
    <3> QED BY <1>4, <2>2, <3>1, Zenon DEF AgentsInv, Reachable
  <2> QED BY <2>1, <2>2
<1>6. ASSUME NEW v \in DOMAIN Workers
      PROVE  worker'[v] = "running" <=> v \in DOMAIN enrolled' /\ enrolled'[v].handler
  <2>1. worker[v] = "running" <=> v \in DOMAIN enrolled /\ enrolled[v].handler
    BY DEF AgentsInv, HandlerKept
  <2>2. CASE v = w
    <3>1. v \in DOMAIN enrolled'
      BY <1>1, <2>2
    <3> QED BY <1>2, <1>4, <2>2, <3>1, Zenon
  <2>3. CASE v # w
    <3>1. v \in DOMAIN enrolled' <=> v \in DOMAIN enrolled
      BY <1>1, <2>3
    <3>2. v \in DOMAIN enrolled => enrolled'[v] = enrolled[v]
      BY <1>1, <2>3
    <3>3. worker'[v] = worker[v]
      BY <1>4, <2>3
    <3> QED BY <2>1, <3>1, <3>2, <3>3, Zenon
  <2> QED BY <2>2, <2>3
<1> QED BY <1>3, <1>5, <1>6, Zenon DEF Reachable, HandlerKept

LEMMA StartWorkerInv ==
  ASSUME AgentsInv, NEW w \in DOMAIN Workers, StartWorker(w)
  PROVE  AgentsInv'
<1>1. DOMAIN enrolled' \subseteq Uris /\ Reachable' /\ HandlerKept'
  BY AttachOK DEF StartWorker
<1>2. AgentsTypeOK'
  BY <1>1 DEF StartWorker, AgentsInv, AgentsTypeOK, Registered
<1>3. Indexed' /\ AtRest' /\ RoutedAsRegistered'
  BY DEF StartWorker, AgentsInv, Indexed, AtRest, RoutedAsRegistered
<1>4. RegistrationsKept'
  BY DEF StartWorker, AgentsInv, RegistrationsKept, WorkerIdentity
<1> QED BY <1>1, <1>2, <1>3, <1>4 DEF AgentsInv

LEMMA BootstrapWorkerInv ==
  ASSUME AgentsInv, NEW w \in DOMAIN Workers, BootstrapWorker(w)
  PROVE  AgentsInv'
<1> DEFINE i == WorkerIdentity(w)
           f == Enrol(enrolled, w, Workers[w])
<1>1. i \in Identity /\ i.id = w
  BY RegistryConstants DEF Identity, WorkerIdentity
<1>2. /\ process = "on" /\ InRegistry(i) /\ enrolled' = Attach(f, w)
      /\ worker' = [worker EXCEPT ![w] = "running"] /\ routed' = {}
      /\ UNCHANGED <<process, mode, table, hydrations, declared>>
  BY DEF BootstrapWorker
<1>3. DOMAIN f = DOMAIN enrolled \cup {w} /\ \A x \in DOMAIN enrolled : x # w => f[x] = enrolled[x]
  BY DEF Enrol, Put
<1> HIDE DEF f, i
<1>4. DOMAIN enrolled' \subseteq Uris /\ Reachable' /\ HandlerKept'
  BY <1>2, <1>3, AttachOK
<1>5. /\ Registered(registry)' /\ (listed \in [Skills -> SUBSET Uris])' /\ Indexed'
      /\ DOMAIN registry' = DOMAIN registry \cup {w} /\ registry'[w] = i
      /\ \A a \in DOMAIN registry : a # w => registry'[a] = registry[a]
  BY <1>1, <1>2, InRegistryOK
<1>6. AgentsTypeOK'
  BY <1>2, <1>4, <1>5 DEF AgentsInv, AgentsTypeOK, Registered
<1>7. AtRest' /\ RoutedAsRegistered'
  BY <1>2 DEF AtRest, RoutedAsRegistered
<1>8. RegistrationsKept'
  BY <1>2, <1>5 DEF AgentsInv, RegistrationsKept, WorkerIdentity, i
<1> QED BY <1>4, <1>5, <1>6, <1>7, <1>8 DEF AgentsInv

LEMMA StopWorkerInv ==
  ASSUME AgentsInv, NEW w \in DOMAIN Workers, StopWorker(w)
  PROVE  AgentsInv'
<1>1. /\ DOMAIN enrolled' = DOMAIN enrolled \ {w}
      /\ \A x \in DOMAIN enrolled' : enrolled'[x] = enrolled[x]
  BY DEF StopWorker
<1>2. worker'[w] = "stopped" /\ \A x \in DOMAIN Workers : x # w => worker'[x] = worker[x]
  BY DEF StopWorker, AgentsInv, AgentsTypeOK
<1>3. AgentsTypeOK'
  BY <1>1 DEF StopWorker, AgentsInv, AgentsTypeOK, Registered
<1>4. ASSUME NEW x \in DOMAIN enrolled'
      PROVE  /\ enrolled'[x].handler => x \in DOMAIN Workers /\ worker'[x] = "running"
             /\ enrolled'[x].handler \/ enrolled'[x].mailbox
  <2>1. x # w /\ x \in DOMAIN enrolled /\ enrolled'[x] = enrolled[x]
    BY <1>1
  <2> QED BY <1>2, <2>1, Zenon DEF AgentsInv, Reachable
<1>5. ASSUME NEW v \in DOMAIN Workers
      PROVE  worker'[v] = "running" <=> v \in DOMAIN enrolled' /\ enrolled'[v].handler
  <2>1. worker[v] = "running" <=> v \in DOMAIN enrolled /\ enrolled[v].handler
    BY DEF AgentsInv, HandlerKept
  <2>2. CASE v = w
    BY <1>1, <1>2, <2>2
  <2>3. CASE v # w
    <3>1. v \in DOMAIN enrolled' <=> v \in DOMAIN enrolled
      BY <1>1, <2>3
    <3>2. v \in DOMAIN enrolled => enrolled'[v] = enrolled[v]
      BY <1>1, <2>3
    <3>3. worker'[v] = worker[v]
      BY <1>2, <2>3
    <3> QED BY <2>1, <3>1, <3>2, <3>3, Zenon
  <2> QED BY <2>2, <2>3
<1>6. Indexed' /\ AtRest' /\ RoutedAsRegistered'
  BY DEF StopWorker, AgentsInv, Indexed, AtRest, RoutedAsRegistered
<1>7. RegistrationsKept'
  BY DEF StopWorker, AgentsInv, RegistrationsKept, WorkerIdentity
<1> QED BY <1>3, <1>4, <1>5, <1>6, <1>7, Zenon DEF AgentsInv, Reachable, HandlerKept

-------------------------------------------------------------------------------
(* The process.                                                             *)

LEMMA HydrateInv ==
  ASSUME AgentsInv, Hydrate
  PROVE  AgentsInv'
<1>1. /\ UNCHANGED <<mode, worker, table, declared, routed>> /\ process = "off"
  BY DEF Hydrate
<1>2. routed = {} /\ \A w \in DOMAIN Workers : worker[w] = "created"
  BY <1>1 DEF AgentsInv, AtRest
<1>3. RoutedAsRegistered' /\ AtRest'
  BY <1>1, <1>2 DEF RoutedAsRegistered, AtRest
<1>4. CASE \A a \in DOMAIN table : table[a].valid
  <2>1. /\ process' = "on" /\ registry' = table
        /\ listed' = [c \in Skills |-> {a \in DOMAIN table : c \in table[a].skills}]
        /\ enrolled' = [a \in DOMAIN table |->
                          [skills |-> table[a].skills, handler |-> FALSE, mailbox |-> TRUE]]
    BY <1>4 DEF Hydrate
  <2>2. AgentsTypeOK'
    BY <1>1, <2>1 DEF AgentsInv, AgentsTypeOK, Registered
  <2>3. Indexed'
    BY <2>1 DEF Indexed
  <2>4. Reachable'
    BY <2>1 DEF Reachable
  <2>5. HandlerKept'
    BY <1>1, <1>2, <2>1 DEF HandlerKept
  <2>6. RegistrationsKept'
    BY <1>1, <1>4, <2>1 DEF AgentsInv, RegistrationsKept, WorkerIdentity
  <2> QED BY <1>3, <2>2, <2>3, <2>4, <2>5, <2>6 DEF AgentsInv
<1>5. CASE ~ \A a \in DOMAIN table : table[a].valid
  <2>1. process' = "failed" /\ UNCHANGED <<registry, listed, enrolled>>
    BY <1>5 DEF Hydrate
  <2>2. AgentsTypeOK'
    BY <1>1, <2>1 DEF AgentsInv, AgentsTypeOK, Registered
  <2>3. Indexed' /\ Reachable' /\ HandlerKept'
    BY <1>1, <2>1 DEF AgentsInv, Indexed, Reachable, HandlerKept
  <2>4. RegistrationsKept'
    BY <1>1, <2>1 DEF AgentsInv, RegistrationsKept
  <2> QED BY <1>3, <2>2, <2>3, <2>4 DEF AgentsInv
<1> QED BY <1>4, <1>5

LEMMA EndProcessInv ==
  ASSUME AgentsInv, EndProcess
  PROVE  AgentsInv'
<1>1. AgentsTypeOK'
  BY DEF EndProcess, AgentsInv, AgentsTypeOK, Registered, Nobody
<1>2. Indexed' /\ Reachable' /\ AtRest' /\ RoutedAsRegistered' /\ HandlerKept'
  BY DEF EndProcess, Nobody, Indexed, Reachable, AtRest, RoutedAsRegistered, HandlerKept
<1>3. RegistrationsKept'
  BY DEF EndProcess, AgentsInv, RegistrationsKept
<1> QED BY <1>1, <1>2, <1>3 DEF AgentsInv

\* The invariant holds throughout.
LEMMA AgentsInvariant == RegistrySpec => []AgentsInv
<1>1. AgentsInv /\ [RegistryNext]_agentVars => AgentsInv'
  <2> SUFFICES ASSUME AgentsInv, [RegistryNext]_agentVars PROVE AgentsInv'
    OBVIOUS
  <2>1. CASE UNCHANGED agentVars
    BY <2>1 DEF agentVars, AgentsInv, AgentsTypeOK, Registered, Indexed, Reachable, AtRest,
                RoutedAsRegistered, HandlerKept, RegistrationsKept, WorkerIdentity
  <2> QED BY <2>1, SendByCapabilityInv, PostAgentInv, ImportAgentInv, StartWorkerInv,
             BootstrapWorkerInv, StopWorkerInv, HydrateInv, EndProcessInv DEF RegistryNext
<1> QED BY <1>1, RegistryInitInv, PTL DEF RegistrySpec

\* A task sent by a capability goes to agents that declare it in the registry, to the first of
\* them or to all as the mode says, and enrolling them replaces no handler of a running worker:
\* findByCapability(), ensureCapabilityAgentsOnBus() and the bus agree, whatever was
\* registered, imported, started, stopped or restarted before.
THEOREM RoutesAreExact == RegistrySpec => []RoutesExact
<1>1. AgentsInv => RoutesExact
  BY DEF AgentsInv, RoutesExact
<1> QED BY <1>1, AgentsInvariant, PTL

\* Whoever was told that an agent is registered finds it in the registry while the process is
\* up, and in the store across restarts: POST /agents stores what it registers.
THEOREM RegistrationsAreKept == RegistrySpec => []RegistrationsKept
<1>1. AgentsInv => RegistrationsKept
  BY DEF AgentsInv
<1> QED BY <1>1, AgentsInvariant, PTL

-------------------------------------------------------------------------------
(* The connections to the event stream.                                      *)
Connections(s) == {c \in Clients : connected[c] /\ at[c] = s}

\* The inductive invariant of the slots.
StreamInv ==
  /\ tracker \in [Servers -> Nat] /\ halfOpen \in [Servers -> Nat]
  /\ at \in [Clients -> Servers \cup {Absent}] /\ connected \in [Clients -> BOOLEAN]
  /\ \A c \in Clients : connected[c] => at[c] \in Servers
  /\ SlotsKept

-------------------------------------------------------------------------------
LEMMA Counted == \A s : IsFiniteSet(Connections(s)) /\ Cardinality(Connections(s)) \in Nat
<1>1. \A s : Connections(s) \subseteq Clients
  BY DEF Connections
<1> QED BY <1>1, StreamSizes, FS_Subset, FS_CardinalityType

LEMMA SlotsCounted ==
  SlotsKept <=> \A s \in Servers : tracker[s] <= Cardinality(Connections(s)) + halfOpen[s]
  BY DEF SlotsKept, Connections

LEMMA SlotsCountedNext ==
  SlotsKept' <=> \A s \in Servers : tracker'[s] <= Cardinality(Connections(s)') + halfOpen'[s]
  BY DEF SlotsKept, Connections

LEMMA ConnectInv ==
  ASSUME StreamInv, NEW c \in Clients, NEW s \in Servers, Connect(c, s)
  PROVE  StreamInv'
<1>1. /\ ~connected[c]
      /\ tracker' = [tracker EXCEPT ![s] = @ + 1] /\ halfOpen' = halfOpen
      /\ at' = [at EXCEPT ![c] = s] /\ connected' = [connected EXCEPT ![c] = TRUE]
  BY DEF Connect
<1>2. c \notin Connections(s) /\ Connections(s)' = Connections(s) \cup {c}
  BY <1>1 DEF Connections, StreamInv
<1>3. \A t \in Servers \ {s} : Connections(t)' = Connections(t)
  BY <1>1 DEF Connections, StreamInv
<1>4. Cardinality(Connections(s)') = Cardinality(Connections(s)) + 1
  BY <1>2, Counted, FS_AddElement
<1>5. SlotsKept'
  <2> SUFFICES ASSUME NEW t \in Servers
               PROVE  tracker'[t] <= Cardinality(Connections(t)') + halfOpen'[t]
    BY SlotsCountedNext
  <2>1. /\ tracker[t] \in Nat /\ halfOpen[t] \in Nat /\ Cardinality(Connections(t)) \in Nat
        /\ tracker[t] <= Cardinality(Connections(t)) + halfOpen[t]
    BY Counted, SlotsCounted DEF StreamInv
  <2>2. CASE t = s
    BY <1>1, <1>4, <2>1, <2>2 DEF StreamInv
  <2>3. CASE t # s
    BY <1>1, <1>3, <2>1, <2>3 DEF StreamInv
  <2> QED BY <2>2, <2>3
<1> QED BY <1>1, <1>5 DEF StreamInv

LEMMA DisconnectInv ==
  ASSUME StreamInv, NEW c \in Clients, Disconnect(c)
  PROVE  StreamInv'
<1>0. PICK s \in Servers : s = at[c]
  BY DEF Disconnect, StreamInv
<1>1. /\ connected[c]
      /\ halfOpen' = [halfOpen EXCEPT ![s] = @ + 1] /\ tracker' = tracker
      /\ connected' = [connected EXCEPT ![c] = FALSE]
      /\ at' \in [Clients -> Servers \cup {Absent}]
      /\ \A d \in Clients \ {c} : at'[d] = at[d]
  BY <1>0 DEF Disconnect, StreamInv
<1>2. c \in Connections(s) /\ Connections(s)' = Connections(s) \ {c}
  BY <1>0, <1>1 DEF Connections, StreamInv
<1>3. ASSUME NEW t \in Servers \ {s} PROVE Connections(t)' = Connections(t)
  <2>1. ASSUME NEW d \in Clients
        PROVE  (connected[d] /\ at[d] = t) <=> (connected'[d] /\ at'[d] = t)
    BY <1>0, <1>1 DEF StreamInv
  <2> QED BY <2>1 DEF Connections
<1>4. Cardinality(Connections(s)') = Cardinality(Connections(s)) - 1
  BY <1>2, Counted, FS_RemoveElement
<1>5. SlotsKept'
  <2> SUFFICES ASSUME NEW t \in Servers
               PROVE  tracker'[t] <= Cardinality(Connections(t)') + halfOpen'[t]
    BY SlotsCountedNext
  <2>1. /\ tracker[t] \in Nat /\ halfOpen[t] \in Nat /\ Cardinality(Connections(t)) \in Nat
        /\ tracker[t] <= Cardinality(Connections(t)) + halfOpen[t]
    BY Counted, SlotsCounted DEF StreamInv
  <2>2. CASE t = s
    <3>1. halfOpen'[s] = halfOpen[s] + 1 /\ tracker'[s] = tracker[s]
      BY <1>1 DEF StreamInv
    <3> QED BY <1>4, <2>1, <2>2, <3>1
  <2>3. CASE t # s
    BY <1>1, <1>3, <2>1, <2>3 DEF StreamInv
  <2> QED BY <2>2, <2>3
<1> QED BY <1>1, <1>5 DEF StreamInv

LEMMA CleanupInv ==
  ASSUME StreamInv, NEW s \in Servers, NEW error \in BOOLEAN, Cleanup(s, error)
  PROVE  StreamInv'
<1>1. PICK freed \in {1, 2} :
        /\ halfOpen[s] > 0
        /\ halfOpen' = [halfOpen EXCEPT ![s] = @ - 1]
        /\ tracker' = [tracker EXCEPT ![s] = IF @ < freed THEN 0 ELSE @ - freed]
  BY DEF Cleanup
<1>2. UNCHANGED <<at, connected>>
  BY DEF Cleanup, clientVars
<1>3. \A t : Connections(t)' = Connections(t)
  BY <1>2 DEF Connections
<1>4. SlotsKept'
  <2> SUFFICES ASSUME NEW t \in Servers
               PROVE  tracker'[t] <= Cardinality(Connections(t)') + halfOpen'[t]
    BY SlotsCountedNext
  <2>1. /\ tracker[t] \in Nat /\ halfOpen[t] \in Nat /\ Cardinality(Connections(t)) \in Nat
        /\ tracker[t] <= Cardinality(Connections(t)) + halfOpen[t]
    BY Counted, SlotsCounted DEF StreamInv
  <2> QED BY <1>1, <1>3, <2>1 DEF StreamInv
<1>5. tracker' \in [Servers -> Nat] /\ halfOpen' \in [Servers -> Nat]
  BY <1>1 DEF StreamInv
<1> QED BY <1>2, <1>4, <1>5 DEF StreamInv

LEMMA RestartInv ==
  ASSUME StreamInv, NEW s \in Servers, Restart(s)
  PROVE  StreamInv'
<1>1. /\ \A c \in Clients : at[c] = s => ~connected[c]
      /\ tracker' = [tracker EXCEPT ![s] = 0] /\ halfOpen' = [halfOpen EXCEPT ![s] = 0]
      /\ at' = [c \in Clients |-> IF at[c] = s THEN Absent ELSE at[c]]
      /\ connected' = connected
  BY DEF Restart
<1>2. \A t \in Servers : Connections(t)' = Connections(t)
  BY <1>1, StreamSizes DEF Connections, StreamInv
<1>3. SlotsKept'
  <2> SUFFICES ASSUME NEW t \in Servers
               PROVE  tracker'[t] <= Cardinality(Connections(t)') + halfOpen'[t]
    BY SlotsCountedNext
  <2>1. /\ tracker[t] \in Nat /\ halfOpen[t] \in Nat /\ Cardinality(Connections(t)) \in Nat
        /\ tracker[t] <= Cardinality(Connections(t)) + halfOpen[t]
    BY Counted, SlotsCounted DEF StreamInv
  <2> QED BY <1>1, <1>2, <2>1 DEF StreamInv
<1> QED BY <1>1, <1>3 DEF StreamInv

\* They hold at first and are kept by every step.
LEMMA StreamInitInv == StreamInit => StreamInv
<1> SUFFICES ASSUME StreamInit PROVE StreamInv
  OBVIOUS
<1>1. SlotsKept
  BY Counted, SlotsCounted DEF StreamInit
<1> QED BY <1>1 DEF StreamInit, StreamInv

LEMMA StreamNextInv == StreamInv /\ [StreamNext]_eventVars => StreamInv'
<1> SUFFICES ASSUME StreamInv, [StreamNext]_eventVars PROVE StreamInv'
  OBVIOUS
<1>1. ASSUME UNCHANGED <<at, connected, tracker, halfOpen>> PROVE StreamInv'
  BY <1>1 DEF StreamInv, SlotsKept
<1>2. ASSUME NEW s \in Servers, NEW trace, Publish(s, trace) \/ RecordEvent(s, trace)
      PROVE  StreamInv'
  BY <1>1, <1>2 DEF Publish, RecordEvent, clientVars, slotVars
<1>3. ASSUME NEW s \in Servers, IngestExternal(s) PROVE StreamInv'
  BY <1>1, <1>3 DEF IngestExternal, clientVars, slotVars
<1>4. CASE UNCHANGED eventVars
  BY <1>1, <1>4 DEF eventVars, clientVars, slotVars
<1> QED BY <1>2, <1>3, <1>4, ConnectInv, DisconnectInv, CleanupInv, RestartInv DEF StreamNext

\* No slot is lost: an address is never counted for more connections than it has, for any
\* processes and clients, however often connections break and processes start again.
THEOREM SlotsAreKept == StreamSpec => []SlotsKept
<1>1. StreamInv => SlotsKept
  BY DEF StreamInv
<1> QED BY <1>1, StreamInitInv, StreamNextInv, PTL DEF StreamSpec

-------------------------------------------------------------------------------
(* The ring.                                                                 *)
\* The newest events are the old ones without the first d, and the new one.
LEMMA TrimmedOK ==
  ASSUME NEW q, IsSeq(q), NEW e
  PROVE  \E d \in 0..Len(q) :
           /\ IsSeq(Trimmed(q, e)) /\ Len(Trimmed(q, e)) = Len(q) + 1 - d
           /\ \A i \in 1..Len(q) - d : Trimmed(q, e)[i] = q[i + d]
           /\ Trimmed(q, e)[Len(q) + 1 - d] = e
<1> DEFINE all == Append(q, e)
           n == Len(q)
           d == IF n + 1 > MaxEvents THEN n + 1 - MaxEvents ELSE 0
           r == SubSeq(all, d + 1, n + 1)
<1>1. n \in Nat /\ MaxEvents \in Nat \ {0}
  BY SeqFacts, StreamSizes
<1>2. IsSeq(all) /\ Len(all) = n + 1 /\ all[n + 1] = e /\ \A i \in 1..n : all[i] = q[i]
  BY AppendFacts
<1> HIDE DEF all, n
<1>3. d \in 0..n
  BY <1>1
<1>4. Trimmed(q, e) = r
  <2> DEFINE from == IF Len(all) > MaxEvents THEN Len(all) - MaxEvents + 1 ELSE 1
             to == Len(all)
  <2>1. Trimmed(q, e) = SubSeq(all, from, to)
    BY Zenon DEF Trimmed, all
  <2>2. from = d + 1 /\ to = n + 1
    BY <1>1, <1>2
  <2> HIDE DEF from, to
  <2> QED BY <2>1, <2>2
<1> HIDE DEF d
<1>5. PICK S : all \in Seq(S)
  BY <1>2 DEF IsSeq
<1>6. /\ r \in Seq(S) /\ Len(r) = n + 1 - d
      /\ \A i \in 1..n + 1 - d : r[i] = all[i + d]
  <2>1. d + 1 \in 1..Len(all) + 1 /\ n + 1 \in d..Len(all)
    BY <1>1, <1>2, <1>3
  <2>2. /\ r \in Seq(S)
        /\ Len(r) = IF d + 1 <= n + 1 THEN n + 1 - (d + 1) + 1 ELSE 0
        /\ \A i \in 1..n + 1 - (d + 1) + 1 : r[i] = all[d + 1 + i - 1]
    BY <1>1, <1>2, <1>3, <1>5, <2>1, SubSeqProperties
  <2> HIDE DEF r
  <2>3. n + 1 - (d + 1) + 1 = n + 1 - d /\ d + 1 <= n + 1
    BY <1>1, <1>3
  <2>4. \A i \in 1..n + 1 - d : d + 1 + i - 1 = i + d
    BY <1>1, <1>3
  <2> QED BY <2>2, <2>3, <2>4
<1> HIDE DEF r
<1>7. \A i \in 1..n - d : r[i] = q[i + d]
  <2> SUFFICES ASSUME NEW i \in 1..n - d PROVE r[i] = q[i + d]
    OBVIOUS
  <2>1. i \in 1..n + 1 - d /\ i + d \in 1..n
    BY <1>1, <1>3
  <2> QED BY <1>2, <1>6, <2>1
<1>8. r[n + 1 - d] = e
  <2>1. n + 1 - d \in 1..n + 1 - d /\ n + 1 - d + d = n + 1
    BY <1>1, <1>3
  <2> QED BY <1>2, <1>6, <2>1
<1> QED BY <1>3, <1>4, <1>6, <1>7, <1>8 DEF n, IsSeq

\* An event is in a ring or on its way to one.
Held == UNION {Listed(events[s]) \cup Listed(channel[s]) : s \in Servers}

SameEvent(x, y) == x.id = y.id /\ x.body = y.body

\* The inductive invariant of the rings: who has the body has the id.
RingsInv ==
  /\ made \in Nat
  /\ DOMAIN events = Servers /\ DOMAIN channel = Servers /\ DOMAIN log = Servers
  /\ \A s \in Servers : IsSeq(events[s]) /\ IsSeq(channel[s])
  /\ \A x, y \in Held : x.body = y.body => x.id = y.id
  /\ \A x \in Held : x.body \in 1..made
  /\ EchoDropped

LEMMA HeldMoves ==
  ASSUME RingsInv, made' \in Nat, made <= made', NEW e,
         DOMAIN events' = Servers, DOMAIN channel' = Servers, DOMAIN log' = Servers,
         \A s \in Servers : IsSeq(events'[s]) /\ IsSeq(channel'[s]),
         \A x \in Held' : (\E y \in Held : SameEvent(x, y)) \/ SameEvent(x, e),
         \/ e.body \in 1..made' /\ e.body > made
         \/ e \in Held,
         EchoDropped'
  PROVE  RingsInv'
<1>1. \A x \in Held' : x.body \in 1..made'
  BY DEF RingsInv, SameEvent
<1>2. \A x, y \in Held : x.body = y.body => x.id = y.id
  BY DEF RingsInv
<1>3. \A x \in Held : x.body = e.body => x.id = e.id
  BY <1>2 DEF RingsInv
<1>4. \A x, y \in Held' : x.body = y.body => x.id = y.id
  BY <1>2, <1>3 DEF SameEvent
<1> QED BY <1>1, <1>4 DEF RingsInv

LEMMA StoreRings ==
  ASSUME RingsInv, NEW s \in Servers, NEW e, NEW notify, NEW pending,
         StoreEvent(s, e, notify, pending),
         DOMAIN pending = Servers,
         \A t \in Servers : IsSeq(pending[t]) /\ Listed(pending[t]) \subseteq Listed(channel[t]),
         (~HasEvent(s, e.id) /\ e \in Held) \/ \A x \in Held : x.body # e.body
  PROVE  /\ DOMAIN events' = Servers /\ DOMAIN channel' = Servers /\ DOMAIN log' = Servers
         /\ \A t \in Servers : IsSeq(events'[t]) /\ IsSeq(channel'[t])
         /\ \A x \in Held' : (\E y \in Held : SameEvent(x, y)) \/ SameEvent(x, e)
         /\ EchoDropped'
<1> DEFINE q == events[s]
           r == Trimmed(q, Numbered(s, e))
<1>1. /\ DOMAIN events = Servers /\ DOMAIN channel = Servers /\ DOMAIN log = Servers
      /\ \A t \in Servers : IsSeq(events[t]) /\ IsSeq(channel[t])
  BY DEF RingsInv
<1>2. /\ DOMAIN events' = Servers /\ DOMAIN log' = Servers
      /\ events'[s] = r /\ \A t \in Servers \ {s} : events'[t] = events[t]
  BY <1>1 DEF StoreEvent
<1>3. SameEvent(Numbered(s, e), e)
  BY DEF SameEvent, Numbered
<1>4. PICK d \in 0..Len(q) :
        /\ IsSeq(r) /\ Len(r) = Len(q) + 1 - d
        /\ \A i \in 1..Len(q) - d : r[i] = q[i + d]
        /\ r[Len(q) + 1 - d] = Numbered(s, e)
  <2> DEFINE x == Numbered(s, e)
  <2>1. IsSeq(q)
    BY <1>1
  <2> HIDE DEF q, x
  <2>2. \E d \in 0..Len(q) :
          /\ IsSeq(Trimmed(q, x)) /\ Len(Trimmed(q, x)) = Len(q) + 1 - d
          /\ \A i \in 1..Len(q) - d : Trimmed(q, x)[i] = q[i + d]
          /\ Trimmed(q, x)[Len(q) + 1 - d] = x
    BY SMTT(30), <2>1, TrimmedOK
  <2> QED BY <2>2 DEF x
<1> HIDE DEF r
<1>5. /\ Len(q) \in Nat /\ DOMAIN q = 1..Len(q) /\ DOMAIN r = 1..Len(r)
      /\ \A i \in DOMAIN r : \/ i \in 1..Len(q) - d /\ i + d \in DOMAIN q /\ r[i] = q[i + d]
                             \/ i = Len(q) + 1 - d /\ r[i] = Numbered(s, e)
  <2>1. Len(q) \in Nat /\ DOMAIN q = 1..Len(q) /\ DOMAIN r = 1..Len(r)
    BY <1>1, <1>4, SeqFacts
  <2>2. \A i \in 1..Len(r) : \/ i \in 1..Len(q) - d /\ i + d \in 1..Len(q)
                             \/ i = Len(q) + 1 - d
    BY <1>4, <2>1
  <2> QED BY <1>4, <2>1, <2>2
<1>6. /\ DOMAIN channel' = Servers
      /\ \A t \in Servers : /\ IsSeq(channel'[t])
                            /\ \A x \in Listed(channel'[t]) : x \in Listed(channel[t]) \/ x = e
  <2>1. CASE channel' = pending
    BY <2>1
  <2>2. CASE channel' = FannedOut(s, e, pending)
    <3>1. /\ DOMAIN channel' = Servers
          /\ \A t \in Servers : channel'[t] \in {pending[t], Append(pending[t], e)}
      BY <2>2 DEF FannedOut
    <3>2. ASSUME NEW t \in Servers
          PROVE  /\ IsSeq(channel'[t])
                 /\ \A x \in Listed(channel'[t]) : x \in Listed(channel[t]) \/ x = e
      <4>1. CASE channel'[t] = pending[t]
        BY <4>1
      <4>2. CASE channel'[t] = Append(pending[t], e)
        <5>1. /\ IsSeq(channel'[t]) /\ Len(channel'[t]) = Len(pending[t]) + 1
              /\ channel'[t][Len(pending[t]) + 1] = e
              /\ \A i \in 1..Len(pending[t]) : channel'[t][i] = pending[t][i]
          BY <4>2, AppendFacts
        <5>2. /\ Len(pending[t]) \in Nat /\ DOMAIN pending[t] = 1..Len(pending[t])
              /\ DOMAIN channel'[t] = 1..Len(channel'[t])
          BY <5>1, SeqFacts
        <5>3. \A i \in DOMAIN channel'[t] : i \in DOMAIN pending[t] \/ i = Len(pending[t]) + 1
          BY <5>1, <5>2
        <5> QED BY <5>1, <5>2, <5>3 DEF Listed
      <4> QED BY <3>1, <4>1, <4>2
    <3> QED BY <3>1, <3>2
  <2> QED BY <2>1, <2>2 DEF StoreEvent
<1>7. \A x \in Listed(r) : x \in Listed(q) \/ x = Numbered(s, e)
  BY <1>5 DEF Listed
<1>8. \A x \in Held' : (\E y \in Held : SameEvent(x, y)) \/ SameEvent(x, e)
  <2> SUFFICES ASSUME NEW t \in Servers, NEW x \in Listed(events'[t]) \cup Listed(channel'[t])
               PROVE  (\E y \in Held : SameEvent(x, y)) \/ SameEvent(x, e)
    BY DEF Held
  <2>1. \/ x \in Listed(events[t]) \cup Listed(channel[t])
        \/ x = e \/ x = Numbered(s, e)
    BY <1>2, <1>6, <1>7
  <2>2. x \in Listed(events[t]) \cup Listed(channel[t]) => x \in Held
    BY DEF Held
  <2> QED BY <1>3, <2>1, <2>2 DEF SameEvent
<1>9. \A x \in Listed(q) : x.body # e.body
  <2>1. \A x \in Listed(q) : x \in Held
    BY DEF Held
  <2>2. CASE \A x \in Held : x.body # e.body
    BY <2>1, <2>2
  <2>3. CASE ~HasEvent(s, e.id) /\ e \in Held
    <3>1. \A x \in Listed(q) : x.id # e.id
      BY <2>3 DEF HasEvent
    <3>2. \A x, y \in Held : x.body = y.body => x.id = y.id
      BY DEF RingsInv
    <3> HIDE DEF q
    <3> QED BY <2>1, <2>3, <3>1, <3>2
  <2> QED BY <2>2, <2>3
<1>10. EchoDropped'
  <2> SUFFICES ASSUME NEW t \in Servers, NEW i \in DOMAIN events'[t], NEW j \in DOMAIN events'[t],
                      events'[t][i].body = events'[t][j].body
               PROVE  i = j
    BY DEF EchoDropped
  <2>1. CASE t # s
    BY <1>2, <2>1 DEF RingsInv, EchoDropped
  <2>2. CASE t = s
    <3>1. Numbered(s, e).body = e.body
      BY DEF Numbered
    <3>2. /\ i \in DOMAIN r /\ j \in DOMAIN r /\ r[i].body = r[j].body
      BY <1>2, <2>2
    <3>3. \A k, l \in DOMAIN q : q[k].body = q[l].body => k = l
      BY DEF RingsInv, EchoDropped
    <3>4. \A k \in DOMAIN q : q[k].body # e.body
      BY <1>9 DEF Listed
    <3>5. d \in Nat /\ i \in Nat /\ j \in Nat
      BY <1>4, <1>5, <3>2
    <3> HIDE DEF q
    <3> QED BY <1>5, <3>1, <3>2, <3>3, <3>4, <3>5
  <2> QED BY <2>1, <2>2
<1>11. \A t \in Servers : IsSeq(events'[t]) /\ IsSeq(channel'[t])
  BY <1>1, <1>2, <1>4, <1>6
<1> QED BY <1>2, <1>6, <1>8, <1>10, <1>11

\* Events that leave the rings and the channels leave the invariant.
LEMMA RingsShrink ==
  ASSUME RingsInv, made' = made,
         DOMAIN events' = Servers, DOMAIN channel' = Servers, DOMAIN log' = Servers,
         \A t \in Servers : /\ events'[t] \in {events[t], <<>>}
                            /\ IsSeq(channel'[t]) /\ Listed(channel'[t]) \subseteq Listed(channel[t])
  PROVE  RingsInv'
<1>1. IsSeq(<<>>) /\ Listed(<<>>) = {} /\ DOMAIN <<>> = {}
  <2>1. <<>> \in Seq({})
    OBVIOUS
  <2> QED BY <2>1 DEF IsSeq, Listed
<1>2. \A t \in Servers : IsSeq(events'[t]) /\ Listed(events'[t]) \subseteq Listed(events[t])
  BY <1>1 DEF RingsInv
<1>3. Held' \subseteq Held
  <2> SUFFICES ASSUME NEW t \in Servers, NEW x \in Listed(events'[t]) \cup Listed(channel'[t])
               PROVE  x \in Held
    BY DEF Held
  <2>1. x \in Listed(events[t]) \cup Listed(channel[t])
    BY <1>2
  <2> QED BY <2>1 DEF Held
<1>4. EchoDropped'
  <2>1. \A t \in Servers : \A i, j \in DOMAIN events'[t] :
          events'[t][i].body = events'[t][j].body => i = j
    BY <1>1 DEF RingsInv, EchoDropped
  <2> QED BY <2>1 DEF EchoDropped
<1> QED BY <1>2, <1>3, <1>4 DEF RingsInv

\* An event that this process makes.
LEMMA MadeRings ==
  ASSUME RingsInv, NEW s \in Servers, NEW kind, NEW trace, NEW notify, Count(s),
         StoreEvent(s, New(s, kind, trace), notify, channel)
  PROVE  RingsInv'
<1> DEFINE e == New(s, kind, trace)
<1>1. e.body = made + 1
  BY DEF New
<1>2. made \in Nat /\ made' = made + 1
  BY DEF RingsInv, Count
<1>3. \A x \in Held : x.body # e.body
  <2>1. \A x \in Held : x.body \in 1..made
    BY DEF RingsInv
  <2> HIDE DEF e
  <2> QED BY <1>1, <1>2, <2>1
<1>4. /\ DOMAIN channel = Servers
      /\ \A t \in Servers : IsSeq(channel[t]) /\ Listed(channel[t]) \subseteq Listed(channel[t])
  BY DEF RingsInv
<1> HIDE DEF e
<1>5. StoreEvent(s, e, notify, channel)
  BY DEF e
<1>6. /\ DOMAIN events' = Servers /\ DOMAIN channel' = Servers /\ DOMAIN log' = Servers
      /\ \A t \in Servers : IsSeq(events'[t]) /\ IsSeq(channel'[t])
      /\ \A x \in Held' : (\E y \in Held : SameEvent(x, y)) \/ SameEvent(x, e)
      /\ EchoDropped'
  BY <1>3, <1>4, <1>5, StoreRings
<1>7. made' \in Nat /\ made <= made' /\ e.body \in 1..made' /\ e.body > made
  BY <1>1, <1>2
<1> QED BY <1>6, <1>7, HeldMoves

\* An event that came through Redis.
LEMMA IngestRings ==
  ASSUME RingsInv, NEW s \in Servers, IngestExternal(s)
  PROVE  RingsInv'
<1> DEFINE e == Head(channel[s])
           pending == [channel EXCEPT ![s] = Tail(@)]
<1>1. /\ DOMAIN channel = Servers /\ \A t \in Servers : IsSeq(channel[t])
      /\ DOMAIN events = Servers /\ DOMAIN log = Servers /\ made \in Nat
  BY DEF RingsInv
<1>2. PICK S : channel[s] \in Seq(S)
  BY <1>1 DEF IsSeq
<1>3. channel[s] # <<>> /\ made' = made
  BY DEF IngestExternal
<1>4. e \in Listed(channel[s]) /\ IsSeq(Tail(channel[s]))
      /\ Listed(Tail(channel[s])) \subseteq Listed(channel[s])
  <2>1. /\ Head(channel[s]) \in S /\ Tail(channel[s]) \in Seq(S)
        /\ ToSet(channel[s]) = ToSet(Tail(channel[s])) \cup {Head(channel[s])}
    BY <1>2, <1>3, ToSetTail
  <2> QED BY <2>1 DEF ToSet, Listed, IsSeq
<1>5. e \in Held
  BY <1>4 DEF Held
<1>6. /\ DOMAIN pending = Servers
      /\ \A t \in Servers : IsSeq(pending[t]) /\ Listed(pending[t]) \subseteq Listed(channel[t])
  <2>1. /\ DOMAIN pending = Servers /\ pending[s] = Tail(channel[s])
        /\ \A t \in Servers \ {s} : pending[t] = channel[t]
    BY <1>1
  <2> HIDE DEF pending
  <2> QED BY <1>1, <1>4, <2>1
<1>7. \/ channel' = pending /\ UNCHANGED <<events, log>>
      \/ ~HasEvent(s, e.id) /\ StoreEvent(s, e, TRUE, pending)
  BY DEF IngestExternal
<1> HIDE DEF e, pending
<1>8. CASE channel' = pending /\ UNCHANGED <<events, log>>
  BY <1>1, <1>3, <1>6, <1>8, RingsShrink
<1>9. CASE ~HasEvent(s, e.id) /\ StoreEvent(s, e, TRUE, pending)
  <2>1. /\ DOMAIN events' = Servers /\ DOMAIN channel' = Servers /\ DOMAIN log' = Servers
        /\ \A t \in Servers : IsSeq(events'[t]) /\ IsSeq(channel'[t])
        /\ \A x \in Held' : (\E y \in Held : SameEvent(x, y)) \/ SameEvent(x, e)
        /\ EchoDropped'
    BY <1>5, <1>6, <1>9, StoreRings
  <2>2. made' \in Nat /\ made <= made'
    BY <1>1, <1>3
  <2> QED BY <1>5, <2>1, <2>2, HeldMoves
<1> QED BY <1>7, <1>8, <1>9

\* Every step keeps the rings.
LEMMA RingsNext == RingsInv /\ [StreamNext]_eventVars => RingsInv'
<1> SUFFICES ASSUME RingsInv, [StreamNext]_eventVars PROVE RingsInv'
  OBVIOUS
<1>1. ASSUME UNCHANGED streamVars PROVE RingsInv'
  BY <1>1 DEF streamVars, RingsInv, Held, EchoDropped
<1>2. ASSUME NEW s \in Servers, NEW trace, Publish(s, trace) PROVE RingsInv'
  BY <1>2, MadeRings DEF Publish
<1>3. ASSUME NEW s \in Servers, NEW trace, RecordEvent(s, trace) PROVE RingsInv'
  BY <1>3, MadeRings DEF RecordEvent
<1>4. ASSUME NEW s \in Servers, NEW c \in Clients, Connect(c, s) PROVE RingsInv'
  <2>1. CASE Resumes(c, s)
    BY <1>1, <2>1 DEF Resumes
  <2>2. CASE IsLost(c, s)
    BY <2>2, MadeRings DEF IsLost
  <2> QED BY <1>4, <2>1, <2>2 DEF Connect
<1>5. ASSUME NEW c \in Clients, Disconnect(c) PROVE RingsInv'
  BY <1>1, <1>5 DEF Disconnect
<1>6. ASSUME NEW s \in Servers, NEW error, Cleanup(s, error) PROVE RingsInv'
  BY <1>1, <1>6 DEF Cleanup
<1>7. ASSUME NEW s \in Servers, Restart(s) PROVE RingsInv'
  <2>1. /\ DOMAIN events = Servers /\ DOMAIN channel = Servers /\ DOMAIN log = Servers
        /\ \A t \in Servers : IsSeq(channel[t])
    BY DEF RingsInv
  <2>2. /\ made' = made /\ events' = [events EXCEPT ![s] = <<>>]
        /\ channel' = [channel EXCEPT ![s] = <<>>] /\ log' = [log EXCEPT ![s] = <<>>]
    BY <1>7 DEF Restart
  <2>3. IsSeq(<<>>) /\ Listed(<<>>) = {}
    <3>1. <<>> \in Seq({})
      OBVIOUS
    <3> QED BY <3>1 DEF IsSeq, Listed
  <2>4. \A t \in Servers : events'[t] \in {events[t], <<>>} /\ channel'[t] \in {channel[t], <<>>}
    BY <2>1, <2>2
  <2>5. \A t \in Servers : IsSeq(channel'[t]) /\ Listed(channel'[t]) \subseteq Listed(channel[t])
    BY <2>1, <2>3, <2>4
  <2> QED BY <2>1, <2>2, <2>4, <2>5, RingsShrink
<1> QED BY <1>1, <1>2, <1>3, <1>4, <1>5, <1>6, <1>7, IngestRings DEF StreamNext, eventVars

-------------------------------------------------------------------------------
(* What a client has of a log.                                              *)
\* A ring has the newest of what is logged, under its numbers.
Ring(q, L) ==
  /\ IsSeq(q) /\ IsSeq(L) /\ Len(q) <= Len(L)
  /\ \A i \in 1..Len(q) : /\ q[i].number = Len(L) - Len(q) + i
                          /\ q[i].trace = L[Len(L) - Len(q) + i].trace
                          /\ q[i].kind = L[Len(L) - Len(q) + i].kind

Written(w) == IsSeq(w) /\ \A i \in DOMAIN w : w[i].number \in Nat

\* StreamExact, of a client that is here or not, has seen these numbers of the log L and gets
\* what is written, w, after the number from.
Exact(L, follows, here, seen, from, w) ==
  LET stream == seen \cup Numbers(w, Len(w))
  IN /\ \A i \in DOMAIN w : w[i].number > 0 =>
          /\ \A n \in seen : n < w[i].number
          /\ \A j \in DOMAIN w : i < j => w[i].number < w[j].number
     /\ \A n \in DOMAIN L :
          /\ n > from /\ (here \/ \E m \in stream : n <= m)
          /\ L[n].live /\ MatchesTraceFilter(L[n], follows)
          => n \in stream
     /\ \A n \in stream : n \in DOMAIN L /\ MatchesTraceFilter(L[n], follows)

LEMMA Empty == IsSeq(<<>>) /\ Len(<<>>) = 0 /\ DOMAIN <<>> = {} /\ Written(<<>>)
<1>1. <<>> \in Seq({})
  OBVIOUS
<1> QED BY <1>1 DEF IsSeq, Written

\* An event is stored at the end of the ring and the log.
LEMMA RingStored ==
  ASSUME NEW q, NEW L, Ring(q, L), NEW e, NEW x,
         e.number = Len(L) + 1, e.trace = x.trace, e.kind = x.kind
  PROVE  Ring(Trimmed(q, e), Append(L, x))
<1> DEFINE r == Trimmed(q, e)
           K == Append(L, x)
           n == Len(L)
           m == Len(q)
<1>1. IsSeq(q) /\ IsSeq(L) /\ n \in Nat /\ m \in Nat /\ m <= n
  BY SeqFacts DEF Ring
<1>2. IsSeq(K) /\ Len(K) = n + 1 /\ K[n + 1] = x /\ \A i \in 1..n : K[i] = L[i]
  BY <1>1, AppendFacts
<1>3. PICK d \in 0..m :
        /\ IsSeq(r) /\ Len(r) = m + 1 - d
        /\ \A i \in 1..m - d : r[i] = q[i + d]
        /\ r[m + 1 - d] = e
  BY <1>1, TrimmedOK
<1>4. \A i \in 1..m : q[i].number = n - m + i /\ q[i].trace = L[n - m + i].trace
                      /\ q[i].kind = L[n - m + i].kind
  BY DEF Ring
<1> HIDE DEF r, K, m, n
<1>5. Len(r) <= Len(K)
  BY <1>1, <1>2, <1>3
<1>6. ASSUME NEW i \in 1..Len(r)
      PROVE  /\ r[i].number = Len(K) - Len(r) + i
             /\ r[i].trace = K[Len(K) - Len(r) + i].trace
             /\ r[i].kind = K[Len(K) - Len(r) + i].kind
  <2>1. i \in 1..m + 1 - d /\ Len(K) - Len(r) + i = n - m + d + i
    BY <1>1, <1>2, <1>3
  <2>2. CASE i = m + 1 - d
    <3>1. n - m + d + i = n + 1
      BY <1>1, <1>3, <2>2
    <3> QED BY <1>2, <1>3, <2>1, <2>2, <3>1 DEF n
  <2>3. CASE i # m + 1 - d
    <3>1. i \in 1..m - d /\ i + d \in 1..m /\ n - m + (i + d) = n - m + d + i
          /\ n - m + d + i \in 1..n
      <4>1. n \in Nat /\ m \in Nat /\ m <= n /\ d \in Nat /\ d <= m
        BY <1>1
      <4>2. i \in Nat /\ 1 <= i /\ i <= m - d
        BY <2>1, <2>3, <4>1
      <4> QED BY <4>1, <4>2
    <3>2. r[i] = q[i + d] /\ K[n - m + d + i] = L[n - m + d + i]
      BY <1>2, <1>3, <3>1
    <3>3. /\ q[i + d].number = n - m + d + i
          /\ q[i + d].trace = L[n - m + d + i].trace
          /\ q[i + d].kind = L[n - m + d + i].kind
      BY <1>4, <3>1
    <3> QED BY <2>1, <3>2, <3>3
  <2> QED BY <2>2, <2>3
<1> QED BY <1>2, <1>3, <1>5, <1>6 DEF Ring, r, K

\* Something is logged that the client need not get.
LEMMA LoggedUnseen ==
  ASSUME NEW L, IsSeq(L), NEW x, NEW follows, NEW here \in BOOLEAN, NEW seen, NEW from, NEW w,
         Written(w), seen \subseteq Nat,
         Exact(L, follows, here, seen, from, w),
         here => ~(x.live /\ MatchesTraceFilter(x, follows))
  PROVE  Exact(Append(L, x), follows, here, seen, from, w)
<1> DEFINE K == Append(L, x)
           n == Len(L)
           stream == seen \cup Numbers(w, Len(w))
<1>1. n \in Nat /\ DOMAIN L = 1..n
  BY SeqFacts
<1>2. DOMAIN K = 1..n + 1 /\ K[n + 1] = x /\ \A i \in 1..n : K[i] = L[i]
  BY AppendFacts, SeqFacts
<1>3. /\ \A i \in DOMAIN w : w[i].number > 0 =>
            /\ \A m \in seen : m < w[i].number
            /\ \A j \in DOMAIN w : i < j => w[i].number < w[j].number
      /\ \A m \in 1..n :
            /\ m > from /\ (here \/ \E k \in stream : m <= k)
            /\ L[m].live /\ MatchesTraceFilter(L[m], follows)
            => m \in stream
      /\ \A m \in stream : m \in 1..n /\ MatchesTraceFilter(L[m], follows)
  BY <1>1 DEF Exact
<1> HIDE DEF K, stream
<1>4. ~ \E k \in stream : n + 1 <= k
  BY <1>1, <1>3
<1>5. \A m \in stream : m \in DOMAIN K /\ MatchesTraceFilter(K[m], follows)
  BY <1>1, <1>2, <1>3
<1>6. ASSUME NEW m \in DOMAIN K, m > from, here \/ \E k \in stream : m <= k,
             K[m].live, MatchesTraceFilter(K[m], follows)
      PROVE  m \in stream
  <2>1. m \in 1..n \/ m = n + 1
    BY <1>1, <1>2
  <2>2. m # n + 1
    BY <1>2, <1>4, <1>6
  <2>3. m \in 1..n /\ K[m] = L[m]
    BY <1>2, <2>1, <2>2
  <2> QED BY <1>3, <1>6, <2>3
<1> QED BY <1>3, <1>5, <1>6 DEF Exact, K, stream

\* It is logged and written to the connection.
LEMMA LoggedWritten ==
  ASSUME NEW L, IsSeq(L), NEW x, NEW e, NEW follows, NEW seen, NEW from, NEW w,
         Written(w), seen \subseteq Nat,
         Exact(L, follows, TRUE, seen, from, w),
         e.number = Len(L) + 1, MatchesTraceFilter(x, follows)
  PROVE  Exact(Append(L, x), follows, TRUE, seen, from, Append(w, e))
<1> DEFINE K == Append(L, x)
           v == Append(w, e)
           n == Len(L)
           stream == seen \cup Numbers(w, Len(w))
           more == seen \cup Numbers(v, Len(v))
<1>1. n \in Nat /\ DOMAIN L = 1..n
  BY SeqFacts
<1>2. DOMAIN K = 1..n + 1 /\ K[n + 1] = x /\ \A i \in 1..n : K[i] = L[i]
  BY AppendFacts, SeqFacts
<1>3. /\ Len(w) \in Nat /\ DOMAIN w = 1..Len(w)
      /\ Len(v) = Len(w) + 1 /\ DOMAIN v = 1..Len(w) + 1
      /\ v[Len(w) + 1] = e /\ \A i \in 1..Len(w) : v[i] = w[i]
  BY AppendFacts, SeqFacts DEF Written
<1>4. /\ \A i \in DOMAIN w : w[i].number > 0 =>
            /\ \A m \in seen : m < w[i].number
            /\ \A j \in DOMAIN w : i < j => w[i].number < w[j].number
      /\ \A m \in 1..n : m > from /\ L[m].live /\ MatchesTraceFilter(L[m], follows) => m \in stream
      /\ \A m \in stream : m \in 1..n /\ MatchesTraceFilter(L[m], follows)
  BY <1>1 DEF Exact
<1>5. \A i \in DOMAIN w : w[i].number \in Nat
  BY DEF Written
<1> HIDE DEF K, v
<1>6. more = stream \cup {n + 1}
  <2>1. \A i \in 1..Len(w) + 1 : i \in 1..Len(w) \/ i = Len(w) + 1
    BY <1>3
  <2>2. n + 1 # 0 /\ \A i \in 1..Len(w) : i \in 1..Len(w) + 1
    BY <1>1, <1>3
  <2>3. Len(w) + 1 \in 1..Len(w) + 1
    BY <1>3
  <2> QED BY <1>3, <2>1, <2>2, <2>3 DEF Numbers
<1>7. \A i \in DOMAIN w : w[i].number > 0 => w[i].number \in stream
  <2>1. \A i \in DOMAIN w : w[i].number > 0 => w[i].number # 0
    BY <1>5
  <2> QED BY <1>3, <2>1 DEF Numbers
<1> HIDE DEF stream, more
<1>8. ASSUME NEW i \in DOMAIN v, v[i].number > 0
      PROVE  /\ \A m \in seen : m < v[i].number
             /\ \A j \in DOMAIN v : i < j => v[i].number < v[j].number
  <2>1. CASE i \in DOMAIN w
    <3>1. /\ \A m \in seen : m < v[i].number
          /\ v[i].number = w[i].number /\ w[i].number <= n
      BY <1>1, <1>3, <1>4, <1>7, <1>8, <2>1
    <3>2. ASSUME NEW j \in DOMAIN v, i < j PROVE v[i].number < v[j].number
      <4>1. CASE j \in DOMAIN w
        BY <1>3, <1>4, <1>8, <2>1, <3>1, <3>2, <4>1
      <4>2. CASE j = Len(w) + 1
        BY <1>1, <1>3, <1>5, <2>1, <3>1, <4>2
      <4> QED BY <1>3, <4>1, <4>2
    <3> QED BY <3>1, <3>2
  <2>2. CASE i = Len(w) + 1
    <3>1. \A m \in seen : m \in 1..n
      BY <1>4 DEF stream
    <3>2. \A m \in seen : m < n + 1
      BY <1>1, <3>1
    <3>3. \A j \in DOMAIN v : ~(i < j)
      BY <1>3, <2>2
    <3> QED BY <1>3, <2>2, <3>2, <3>3
  <2> QED BY <1>3, <2>1, <2>2
<1>9. ASSUME NEW m \in DOMAIN K, m > from, K[m].live, MatchesTraceFilter(K[m], follows)
      PROVE  m \in more
  <2>1. m \in 1..n \/ m = n + 1
    BY <1>1, <1>2
  <2> QED BY <1>2, <1>4, <1>6, <1>9, <2>1
<1>10. \A m \in more : m \in DOMAIN K /\ MatchesTraceFilter(K[m], follows)
  <2>1. \A m \in 1..n : m \in 1..n + 1
    BY <1>1
  <2>2. n + 1 \in 1..n + 1
    BY <1>1
  <2> QED BY <1>2, <1>4, <1>6, <2>1, <2>2
<1> QED BY <1>8, <1>9, <1>10 DEF Exact, K, v, more

\* What is sent again from a ring: the matching events after an index, in their order.
LEMMA ReplayOK ==
  ASSUME NEW q, NEW L, Ring(q, L), NEW follows, NEW index \in 0..Len(q)
  PROVE  LET w == AtPlaces(q, {i \in index + 1..Len(q) : MatchesTraceFilter(q[i], follows)})
             newest == Len(L) - Len(q) + index
         IN /\ Written(w)
            /\ \A k \in DOMAIN w : /\ w[k].number \in DOMAIN L /\ w[k].number > newest
                                   /\ MatchesTraceFilter(L[w[k].number], follows)
            /\ \A k, l \in DOMAIN w : k < l => w[k].number < w[l].number
            /\ \A n \in DOMAIN L : n > newest /\ MatchesTraceFilter(L[n], follows)
                 => n \in Numbers(w, Len(w))
<1> DEFINE places == {i \in index + 1..Len(q) : MatchesTraceFilter(q[i], follows)}
           w == AtPlaces(q, places)
           base == Len(L) - Len(q)
<1>1. /\ IsSeq(q) /\ Len(q) \in Nat /\ DOMAIN q = 1..Len(q)
      /\ Len(L) \in Nat /\ DOMAIN L = 1..Len(L) /\ Len(q) <= Len(L)
  BY SeqFacts DEF Ring
<1>2. base \in Nat
  BY <1>1
<1>3. \A i \in 1..Len(q) : /\ q[i].number = base + i /\ base + i \in DOMAIN L
                           /\ MatchesTraceFilter(q[i], follows)
                                <=> MatchesTraceFilter(L[base + i], follows)
  <2>1. \A i \in 1..Len(q) : /\ q[i].number = base + i
                             /\ q[i].trace = L[base + i].trace /\ q[i].kind = L[base + i].kind
    BY DEF Ring
  <2>2. \A i \in 1..Len(q) : base + i \in 1..Len(L)
    BY <1>1
  <2> QED BY <1>1, <2>1, <2>2 DEF MatchesTraceFilter
<1> HIDE DEF base
<1>4. PICK S : q \in Seq(S)
  BY <1>1 DEF IsSeq
<1>5. places \subseteq DOMAIN q
  BY <1>1
<1>6. \A i \in places : /\ i \in 1..Len(q) /\ i > index
                        /\ q[i].number = base + i /\ base + i \in DOMAIN L
                        /\ MatchesTraceFilter(L[base + i], follows)
  BY <1>1, <1>3
<1>7. \A i \in index + 1..Len(q) : MatchesTraceFilter(q[i], follows) => i \in places
  OBVIOUS
<1> HIDE DEF places
<1>8. /\ w \in Seq(S)
      /\ \A i \in places : \E k \in DOMAIN w : w[k] = q[i]
      /\ \A k \in DOMAIN w : \E i \in places : w[k] = q[i]
      /\ \A k, l \in DOMAIN w : k < l => \E i, j \in places : i < j /\ w[k] = q[i] /\ w[l] = q[j]
  BY <1>4, <1>5, AtPlacesOK
<1> HIDE DEF w
<1>9. DOMAIN w = 1..Len(w)
  BY <1>8
<1>10. \A k \in DOMAIN w : /\ w[k].number \in DOMAIN L /\ w[k].number > base + index
                           /\ MatchesTraceFilter(L[w[k].number], follows)
  <2> SUFFICES ASSUME NEW k \in DOMAIN w
               PROVE  /\ w[k].number \in DOMAIN L /\ w[k].number > base + index
                      /\ MatchesTraceFilter(L[w[k].number], follows)
    OBVIOUS
  <2>1. PICK i \in places : w[k] = q[i]
    BY <1>8
  <2>2. base + i > base + index
    BY <1>1, <1>2, <1>6
  <2> QED BY <1>6, <2>1, <2>2
<1>11. \A k, l \in DOMAIN w : k < l => w[k].number < w[l].number
  <2> SUFFICES ASSUME NEW k \in DOMAIN w, NEW l \in DOMAIN w, k < l
               PROVE  w[k].number < w[l].number
    OBVIOUS
  <2>1. PICK i \in places, j \in places : i < j /\ w[k] = q[i] /\ w[l] = q[j]
    BY <1>8
  <2>2. base + i < base + j
    BY <1>1, <1>2, <1>6, <2>1
  <2> QED BY <1>6, <2>1, <2>2
<1>12. ASSUME NEW n \in DOMAIN L, n > base + index, MatchesTraceFilter(L[n], follows)
       PROVE  n \in Numbers(w, Len(w))
  <2>1. n - base \in index + 1..Len(q) /\ base + (n - base) = n /\ n # 0
    BY <1>1, <1>2, <1>12 DEF base
  <2>2. n - base \in 1..Len(q)
    BY <1>1, <2>1
  <2>3. n - base \in places /\ q[n - base].number = n
    BY <1>3, <1>7, <1>12, <2>1, <2>2
  <2>4. PICK k \in DOMAIN w : w[k] = q[n - base]
    BY <1>8, <2>3
  <2> QED BY <1>9, <2>1, <2>3, <2>4 DEF Numbers
<1>13. Written(w)
  <2>1. \A k \in DOMAIN w : w[k].number \in Nat
    BY <1>1, <1>10
  <2> QED BY <1>8, <2>1 DEF Written, IsSeq
<1> QED BY <1>10, <1>11, <1>12, <1>13 DEF w, base, places

\* A client that has seen all up to the index is served by that.
LEMMA Resumed ==
  ASSUME NEW q, NEW L, Ring(q, L), NEW follows, NEW index \in 0..Len(q), NEW seen, NEW from,
         \A n \in seen : /\ n \in DOMAIN L /\ n <= Len(L) - Len(q) + index
                         /\ MatchesTraceFilter(L[n], follows),
         \A n \in DOMAIN L : n > from /\ n <= Len(L) - Len(q) + index
                             /\ L[n].live /\ MatchesTraceFilter(L[n], follows) => n \in seen
  PROVE  LET w == AtPlaces(q, {i \in index + 1..Len(q) : MatchesTraceFilter(q[i], follows)})
         IN Written(w) /\ Exact(L, follows, TRUE, seen, from, w)
<1> DEFINE w == AtPlaces(q, {i \in index + 1..Len(q) : MatchesTraceFilter(q[i], follows)})
           newest == Len(L) - Len(q) + index
<1>1. /\ Written(w)
      /\ \A k \in DOMAIN w : /\ w[k].number \in DOMAIN L /\ w[k].number > newest
                             /\ MatchesTraceFilter(L[w[k].number], follows)
      /\ \A k, l \in DOMAIN w : k < l => w[k].number < w[l].number
      /\ \A n \in DOMAIN L : n > newest /\ MatchesTraceFilter(L[n], follows)
           => n \in Numbers(w, Len(w))
  BY ReplayOK
<1>2. newest \in Nat /\ DOMAIN L = 1..Len(L) /\ Len(L) \in Nat
  BY SeqFacts DEF Ring
<1>3. /\ \A n \in seen : n \in DOMAIN L /\ n <= newest /\ MatchesTraceFilter(L[n], follows)
      /\ \A n \in DOMAIN L : n > from /\ n <= newest
                             /\ L[n].live /\ MatchesTraceFilter(L[n], follows) => n \in seen
  OBVIOUS
<1> HIDE DEF w, newest
<1>4. DOMAIN w = 1..Len(w)
  BY <1>1, SeqFacts DEF Written
<1>5. \A n \in Numbers(w, Len(w)) : \E k \in DOMAIN w : n = w[k].number
  BY <1>4 DEF Numbers
<1>6. \A k \in DOMAIN w : \A n \in seen : n < w[k].number
  BY <1>1, <1>2, <1>3
<1>7. \A n \in DOMAIN L : n > from /\ L[n].live /\ MatchesTraceFilter(L[n], follows)
        => n \in seen \cup Numbers(w, Len(w))
  <2>1. \A n \in DOMAIN L : n <= newest \/ n > newest
    BY <1>2
  <2> QED BY <1>1, <1>3, <2>1
<1>8. \A n \in seen \cup Numbers(w, Len(w)) : n \in DOMAIN L /\ MatchesTraceFilter(L[n], follows)
  BY <1>1, <1>3, <1>5
<1>9. Exact(L, follows, TRUE, seen, from, w)
  BY <1>1, <1>6, <1>7, <1>8 DEF Exact
<1> QED BY <1>1, <1>9 DEF w

\* The first k events of a connection are received before it breaks.
LEMMA CutOff ==
  ASSUME NEW L, NEW follows, NEW seen, NEW from, NEW w, IsSeq(L), Written(w), NEW k \in 0..Len(w),
         Exact(L, follows, TRUE, seen, from, w)
  PROVE  Exact(L, follows, FALSE, seen \cup Numbers(w, k), from, <<>>)
<1> DEFINE stream == seen \cup Numbers(w, Len(w))
           now == seen \cup Numbers(w, k)
<1>1. /\ Len(w) \in Nat /\ DOMAIN w = 1..Len(w)
      /\ Len(L) \in Nat /\ DOMAIN L = 1..Len(L)
  BY SeqFacts DEF Written
<1>2. /\ \A i \in DOMAIN w : w[i].number > 0 =>
            /\ \A n \in seen : n < w[i].number
            /\ \A j \in DOMAIN w : i < j => w[i].number < w[j].number
      /\ \A n \in DOMAIN L : n > from /\ L[n].live /\ MatchesTraceFilter(L[n], follows)
           => n \in stream
      /\ \A n \in stream : n \in DOMAIN L /\ MatchesTraceFilter(L[n], follows)
  BY DEF Exact
<1>3. now \subseteq stream
  <2>1. \A i \in 1..k : i \in 1..Len(w)
    BY <1>1
  <2> QED BY <2>1 DEF Numbers
<1>4. ASSUME NEW n \in DOMAIN L, n > from, NEW m \in now, n <= m,
             L[n].live, MatchesTraceFilter(L[n], follows)
      PROVE  n \in now
  <2>1. n \in stream
    BY <1>2, <1>4
  <2>2. n \in Nat /\ n > 0 /\ m \in Nat /\ m > 0
    <3>1. m \in DOMAIN L
      BY <1>2, <1>3
    <3> QED BY <1>1, <3>1
  <2> SUFFICES ASSUME n \notin now PROVE FALSE
    OBVIOUS
  <2>3. PICK j \in 1..Len(w) : n = w[j].number
    BY <2>1 DEF Numbers
  <2>4. ~(j \in 1..k)
    BY <2>2, <2>3 DEF Numbers
  <2>5. CASE m \in seen
    BY <1>1, <1>2, <1>4, <2>2, <2>3, <2>5
  <2>6. CASE m \in Numbers(w, k)
    <3>1. PICK i \in 1..k : m = w[i].number
      BY <2>6 DEF Numbers
    <3>2. i \in DOMAIN w /\ i < j
      BY <1>1, <2>4
    <3>3. m < n
      BY <1>1, <1>2, <2>2, <2>3, <3>1, <3>2
    <3> QED BY <1>4, <2>2, <3>3
  <2> QED BY <2>5, <2>6
<1>5. Numbers(<<>>, Len(<<>>)) = {}
  <2>1. Len(<<>>) = 0
    BY Empty
  <2> QED BY <2>1 DEF Numbers
<1>6. now \cup Numbers(<<>>, Len(<<>>)) = now
  BY <1>5
<1>7. \A n \in now : n \in DOMAIN L /\ MatchesTraceFilter(L[n], follows)
  BY <1>2, <1>3
<1> HIDE DEF now, stream
<1>8. DOMAIN <<>> = {}
  BY Empty
<1> QED BY <1>4, <1>6, <1>7, <1>8 DEF Exact, now

-------------------------------------------------------------------------------
(* The clients.                                                             *)
ClientInv(c) ==
  /\ Written(socket[c]) /\ got[c] \subseteq Nat
  /\ ~connected[c] => socket[c] = <<>>
  /\ sound[c] =>
       /\ at[c] \in Servers
       /\ Exact(log[at[c]], Follows[c], connected[c], got[c], begun[c], socket[c])

\* The inductive invariant of the streams.
ClientsInv ==
  /\ DOMAIN socket = Clients /\ DOMAIN got = Clients /\ DOMAIN begun = Clients
  /\ DOMAIN sound = Clients /\ DOMAIN messages = Servers
  /\ \A s \in Servers : Ring(events[s], log[s]) /\ IsSeq(messages[s])
  /\ \A c \in Clients : ClientInv(c)

FeedInv == RingsInv /\ StreamInv /\ ClientsInv

LEMMA FeedTypes ==
  ASSUME FeedInv
  PROVE  /\ DOMAIN events = Servers /\ DOMAIN log = Servers /\ DOMAIN at = Clients
         /\ DOMAIN connected = Clients /\ connected \in [Clients -> BOOLEAN]
         /\ DOMAIN socket = Clients /\ DOMAIN got = Clients /\ DOMAIN begun = Clients
         /\ DOMAIN sound = Clients /\ DOMAIN messages = Servers
         /\ \A s \in Servers : Ring(events[s], log[s]) /\ IsSeq(log[s]) /\ IsSeq(messages[s])
         /\ \A c \in Clients : ClientInv(c)
         /\ \A c \in Clients : connected[c] => at[c] \in Servers
  BY DEF FeedInv, RingsInv, StreamInv, ClientsInv, Ring

\* A client whose log is left alone.
LEMMA LeftAlone ==
  ASSUME NEW c \in Clients, ClientInv(c),
         socket'[c] = socket[c], got'[c] = got[c], begun'[c] = begun[c], sound'[c] <=> sound[c],
         connected'[c] <=> connected[c], at'[c] = at[c],
         at[c] \in Servers => log'[at[c]] = log[at[c]]
  PROVE  ClientInv(c)'
<1>1. /\ Written(socket'[c]) /\ got'[c] \subseteq Nat
      /\ ~connected'[c] => socket'[c] = <<>>
  BY DEF ClientInv
<1>2. ASSUME sound'[c]
      PROVE  /\ at'[c] \in Servers
             /\ Exact(log'[at'[c]], Follows[c], connected'[c], got'[c], begun'[c], socket'[c])
  <2>1. /\ at[c] \in Servers
        /\ Exact(log[at[c]], Follows[c], connected[c], got[c], begun[c], socket[c])
    BY <1>2 DEF ClientInv
  <2>2. log'[at'[c]] = log[at[c]] /\ at'[c] \in Servers
    BY <2>1
  <2>3. Exact(log[at[c]], Follows[c], connected'[c], got[c], begun[c], socket[c])
    BY <2>1 DEF Exact
  <2> QED BY <2>2, <2>3
<1> QED BY <1>1, <1>2 DEF ClientInv

\* An event is stored by a process and, if its subscribers are notified, written to the
\* connections: so every client goes on, but for one that connects.
LEMMA StoredFor ==
  ASSUME FeedInv, NEW s \in Servers, NEW e, NEW notify \in BOOLEAN, NEW pending,
         StoreEvent(s, e, notify, pending),
         NEW c \in Clients,
         socket'[c] = IF notify THEN Notified(s, e)[c] ELSE socket[c],
         got'[c] = got[c], begun'[c] = begun[c], sound'[c] <=> sound[c],
         connected'[c] <=> connected[c], at'[c] = at[c]
  PROVE  ClientInv(c)'
<1> DEFINE x == [trace |-> e.trace, kind |-> e.kind, live |-> notify]
           L == log[s]
           n == Numbered(s, e)
<1>1. /\ log'[s] = Append(L, x) /\ \A t \in Servers \ {s} : log'[t] = log[t]
  BY FeedTypes DEF StoreEvent
<1>2. ClientInv(c) /\ IsSeq(L)
  BY FeedTypes
<1>3. n.number = Len(L) + 1 /\ n.trace = e.trace /\ n.kind = e.kind
  BY DEF Numbered
<1>4. x.live = notify /\ (MatchesTraceFilter(x, Follows[c]) <=> MatchesTraceFilter(e, Follows[c]))
  BY DEF MatchesTraceFilter
<1>5. Notified(s, e)[c] = IF connected[c] /\ at[c] = s /\ MatchesTraceFilter(e, Follows[c])
                          THEN Append(socket[c], n) ELSE socket[c]
  BY DEF Notified
<1>6. Written(socket[c]) /\ got[c] \subseteq Nat
  BY <1>2 DEF ClientInv
<1> HIDE DEF x, L, n
<1>7. CASE notify /\ connected[c] /\ at[c] = s /\ MatchesTraceFilter(e, Follows[c])
  <2>1. socket'[c] = Append(socket[c], n)
    BY <1>5, <1>7
  <2>2. Written(socket'[c])
    <3>1. IsSeq(socket[c]) /\ \A i \in DOMAIN socket[c] : socket[c][i].number \in Nat
      BY <1>6 DEF Written
    <3>2. /\ IsSeq(socket'[c]) /\ Len(socket'[c]) = Len(socket[c]) + 1
          /\ socket'[c][Len(socket[c]) + 1] = n
          /\ \A i \in 1..Len(socket[c]) : socket'[c][i] = socket[c][i]
      <4>1. /\ IsSeq(Append(socket[c], n)) /\ Len(Append(socket[c], n)) = Len(socket[c]) + 1
            /\ Append(socket[c], n)[Len(socket[c]) + 1] = n
            /\ \A i \in 1..Len(socket[c]) : Append(socket[c], n)[i] = socket[c][i]
        BY <3>1, AppendFacts
      <4> QED BY <2>1, <4>1
    <3>3. /\ Len(socket[c]) \in Nat /\ DOMAIN socket[c] = 1..Len(socket[c])
          /\ DOMAIN socket'[c] = 1..Len(socket'[c]) /\ Len(L) \in Nat
      BY <1>2, <3>1, <3>2, SeqFacts
    <3>4. \A i \in DOMAIN socket'[c] : i \in DOMAIN socket[c] \/ i = Len(socket[c]) + 1
      BY <3>2, <3>3
    <3>5. n.number \in Nat
      BY <1>3, <3>3
    <3> QED BY <3>1, <3>2, <3>3, <3>4, <3>5 DEF Written
  <2>3. ASSUME sound'[c]
        PROVE  Exact(log'[at'[c]], Follows[c], connected'[c], got'[c], begun'[c], socket'[c])
    <3>1. Exact(L, Follows[c], connected[c], got[c], begun[c], socket[c])
      BY <1>2, <1>7, <2>3 DEF ClientInv, L
    <3>2. Exact(L, Follows[c], TRUE, got[c], begun[c], socket[c])
      BY <1>7, <3>1 DEF Exact
    <3>3. Exact(Append(L, x), Follows[c], TRUE, got[c], begun[c], Append(socket[c], n))
      BY <1>2, <1>3, <1>4, <1>6, <1>7, <3>2, LoggedWritten
    <3>4. Exact(Append(L, x), Follows[c], connected'[c], got[c], begun[c], Append(socket[c], n))
      BY <1>7, <3>3 DEF Exact
    <3> QED BY <1>1, <1>7, <2>1, <3>4
  <2> QED BY <1>6, <1>7, <2>2, <2>3 DEF ClientInv
<1>8. CASE ~(notify /\ connected[c] /\ at[c] = s /\ MatchesTraceFilter(e, Follows[c]))
  <2>1. socket'[c] = socket[c]
    BY <1>5, <1>8
  <2>2. CASE at[c] # s
    BY <1>1, <1>2, <2>1, <2>2, LeftAlone
  <2>3. CASE at[c] = s
    <3>1. ASSUME sound'[c]
          PROVE  Exact(log'[at'[c]], Follows[c], connected'[c], got'[c], begun'[c], socket'[c])
      <4>1. Exact(L, Follows[c], connected[c], got[c], begun[c], socket[c])
        BY <1>2, <2>3, <3>1 DEF ClientInv, L
      <4>2. connected[c] => ~(x.live /\ MatchesTraceFilter(x, Follows[c]))
        BY <1>4, <1>8, <2>3
      <4>3. connected[c] \in BOOLEAN
        BY FeedTypes
      <4>4. Exact(Append(L, x), Follows[c], connected[c], got[c], begun[c], socket[c])
        BY <1>2, <1>6, <4>1, <4>2, <4>3, LoggedUnseen
      <4>5. Exact(Append(L, x), Follows[c], connected'[c], got[c], begun[c], socket[c])
        BY <4>4 DEF Exact
      <4> QED BY <1>1, <2>1, <2>3, <4>5
    <3> QED BY <1>2, <2>1, <2>3, <3>1 DEF ClientInv
  <2> QED BY <2>2, <2>3
<1> QED BY <1>7, <1>8

\* The ring of that process too.
LEMMA StoredRing ==
  ASSUME FeedInv, NEW s \in Servers, NEW e, NEW notify, NEW pending,
         StoreEvent(s, e, notify, pending)
  PROVE  \A t \in Servers : Ring(events[t], log[t])'
<1> DEFINE x == [trace |-> e.trace, kind |-> e.kind, live |-> notify]
           n == Numbered(s, e)
           L == log[s]
           q == events[s]
<1>1. /\ log'[s] = Append(L, x) /\ events'[s] = Trimmed(q, n)
      /\ \A t \in Servers \ {s} : log'[t] = log[t] /\ events'[t] = events[t]
  BY FeedTypes DEF StoreEvent
<1>2. \A t \in Servers : Ring(events[t], log[t])
  BY FeedTypes
<1>3. n.number = Len(L) + 1 /\ n.trace = x.trace /\ n.kind = x.kind
  BY DEF Numbered
<1>4. Ring(q, L)
  BY <1>2
<1> HIDE DEF x, n, L, q
<1>5. Ring(Trimmed(q, n), Append(L, x))
  BY <1>3, <1>4, RingStored
<1> QED BY <1>1, <1>2, <1>5

\* The place of a cursor that the ring has.
Place(q, id) == CHOOSE i \in DOMAIN q : q[i].id = id /\ \A j \in 1..i - 1 : q[j].id # id

LEMMA CursorFound ==
  ASSUME NEW q, IsSeq(q), NEW id, \E i \in DOMAIN q : q[i].id = id
  PROVE  Place(q, id) \in 1..Len(q) /\ q[Place(q, id)].id = id
<1> DEFINE places == {i \in DOMAIN q : q[i].id = id}
<1>1. Len(q) \in Nat /\ DOMAIN q = 1..Len(q)
  BY SeqFacts
<1>2. PICK i \in places : \A j \in places : i <= j
  <2>1. places \subseteq Nat /\ places # {}
    BY <1>1
  <2> HIDE DEF places
  <2> QED BY <2>1, LeastNat
<1>3. \A j \in 1..i - 1 : q[j].id # id
  <2>1. \A j \in 1..i - 1 : j \in DOMAIN q /\ ~(i <= j)
    BY <1>1
  <2> QED BY <1>2, <2>1
<1>4. \E k \in DOMAIN q : q[k].id = id /\ \A j \in 1..k - 1 : q[j].id # id
  BY <1>2, <1>3
<1> QED BY <1>1, <1>4 DEF Place

\* A client connects with a cursor that is found, or with none.
LEMMA ResumesFeed ==
  ASSUME FeedInv, NEW c \in Clients, NEW s \in Servers, Connect(c, s), Resumes(c, s)
  PROVE  ClientInv(c)'
<1> DEFINE q == events[s]
           L == log[s]
           new == cursor[c] = Absent
           found == Place(q, cursor[c])
           index == IF new THEN 0 ELSE found
           w == AtPlaces(q, {i \in index + 1..Len(q) : MatchesTraceFilter(q[i], Follows[c])})
           newest == Len(L) - Len(q) + index
<1>1. /\ ~connected[c] /\ connected'[c] /\ at'[c] = s /\ log' = log
      /\ socket'[c] = Replay(s, cursor[c], Follows[c])
      /\ new \/ \E i \in DOMAIN q : q[i].id = cursor[c]
  BY FeedTypes DEF Connect, Resumes, streamVars, HasEvent, Listed
<1>2. sound'[c] <=>
        \/ new
        \/ /\ sound[c] /\ at[c] = s /\ got[c] # {}
           /\ \A i \in DOMAIN q : q[i].id = cursor[c] <=> IsLast(q[i].number, got[c])
  BY FeedTypes DEF Resumes
<1>3. /\ got'[c] = IF new \/ ~sound'[c] THEN {} ELSE got[c]
      /\ begun'[c] = IF new THEN Len(L) - Len(q) ELSE IF sound'[c] THEN begun[c] ELSE 0
  BY FeedTypes DEF Resumes
<1>4. Ring(q, L) /\ ClientInv(c)
  BY FeedTypes
<1>5. /\ IsSeq(q) /\ Len(q) \in Nat /\ DOMAIN q = 1..Len(q)
      /\ Len(L) \in Nat /\ DOMAIN L = 1..Len(L) /\ Len(q) <= Len(L)
  BY <1>4, SeqFacts DEF Ring
<1>6. index \in 0..Len(q) /\ (~new => index \in 1..Len(q) /\ q[index].id = cursor[c])
  <2>1. ASSUME ~new PROVE found \in 1..Len(q) /\ q[found].id = cursor[c]
    <3>1. \E i \in DOMAIN q : q[i].id = cursor[c]
      BY <1>1, <2>1
    <3> HIDE DEF q
    <3> QED BY <1>5, <3>1, CursorFound
  <2> HIDE DEF q, found
  <2> QED BY <1>5, <2>1
<1>7. socket'[c] = w
  BY <1>1, Zenon DEF Replay, Place
<1> HIDE DEF q, L, found
<1>8. newest \in Nat /\ (new => newest = Len(L) - Len(q))
  BY <1>5, <1>6
<1> HIDE DEF index
<1>9. CASE new
  <2>1. got'[c] = {} /\ begun'[c] = newest
    BY <1>3, <1>8, <1>9
  <2>2. \A n \in DOMAIN L : ~(n > newest /\ n <= newest)
    BY <1>5, <1>8
  <2>3. Written(w) /\ Exact(L, Follows[c], TRUE, {}, newest, w)
    <3> DEFINE nothing == {}
    <3>1. \A n \in nothing : /\ n \in DOMAIN L /\ n <= newest
                             /\ MatchesTraceFilter(L[n], Follows[c])
      OBVIOUS
    <3> HIDE DEF nothing
    <3>2. Written(w) /\ Exact(L, Follows[c], TRUE, nothing, newest, w)
      BY <1>4, <1>6, <2>2, <3>1, Resumed
    <3> QED BY <3>2 DEF nothing
  <2> HIDE DEF w, newest
  <2>4. Exact(log'[at'[c]], Follows[c], connected'[c], got'[c], begun'[c], socket'[c])
    <3>1. Exact(L, Follows[c], connected'[c], {}, newest, w)
      BY <1>1, <2>3 DEF Exact
    <3> QED BY <1>1, <1>7, <2>1, <3>1 DEF L
  <2> QED BY <1>1, <1>7, <2>1, <2>3, <2>4 DEF ClientInv
<1>10. CASE ~new /\ sound'[c]
  <2>1. /\ sound[c] /\ at[c] = s /\ got'[c] = got[c] /\ begun'[c] = begun[c]
        /\ IsLast(q[index].number, got[c]) /\ got[c] \subseteq Nat
    BY <1>2, <1>3, <1>4, <1>5, <1>6, <1>10 DEF ClientInv
  <2>2. q[index].number = newest
    BY <1>4, <1>6, <1>10 DEF Ring
  <2>3. Exact(L, Follows[c], connected[c], got[c], begun[c], socket[c]) /\ socket[c] = <<>>
    BY <1>1, <1>4, <2>1 DEF ClientInv, L
  <2>4. Exact(L, Follows[c], FALSE, got[c], begun[c], <<>>)
    BY <1>1, <2>3 DEF Exact
  <2>5. got[c] \cup Numbers(<<>>, Len(<<>>)) = got[c]
    BY Empty DEF Numbers
  <2>6. newest \in got[c] /\ \A n \in got[c] : n <= newest
    BY <2>1, <2>2 DEF IsLast
  <2> HIDE DEF w, newest
  <2>7. \A n \in got[c] : n \in DOMAIN L /\ n <= newest /\ MatchesTraceFilter(L[n], Follows[c])
    BY <2>4, <2>5, <2>6 DEF Exact
  <2>8. \A n \in DOMAIN L : n > begun[c] /\ n <= newest
                             /\ L[n].live /\ MatchesTraceFilter(L[n], Follows[c]) => n \in got[c]
    BY <2>4, <2>5, <2>6 DEF Exact
  <2>9. Written(w) /\ Exact(L, Follows[c], TRUE, got[c], begun[c], w)
    BY <1>4, <1>6, <2>7, <2>8, Resumed DEF w, newest
  <2>10. Exact(log'[at'[c]], Follows[c], connected'[c], got'[c], begun'[c], socket'[c])
    <3>1. Exact(L, Follows[c], connected'[c], got[c], begun[c], w)
      BY <1>1, <2>9 DEF Exact
    <3> QED BY <1>1, <1>7, <2>1, <3>1 DEF L
  <2> QED BY <1>1, <1>7, <2>1, <2>9, <2>10 DEF ClientInv
<1>11. CASE ~new /\ ~sound'[c]
  <2>1. got'[c] = {}
    BY <1>3, <1>11
  <2>2. Written(w)
    BY <1>4, <1>6, ReplayOK
  <2> QED BY <1>1, <1>7, <1>11, <2>1, <2>2 DEF ClientInv
<1> QED BY <1>9, <1>10, <1>11

\* One whose cursor is not found is told, after what is made again from the messages.
LEMMA BackfillOK ==
  ASSUME NEW s, IsSeq(messages[s]), NEW after, NEW trace
  PROVE  LET w == Backfill(s, after, trace)
         IN Written(w) /\ \A i \in DOMAIN w : w[i].number = 0
<1> DEFINE w == Backfill(s, after, trace)
           mine == {i \in DOMAIN messages[s] : messages[s][i] = trace}
           e == [id |-> Text, kind |-> "event", trace |-> trace, body |-> 0, number |-> 0]
           n == Cardinality(mine)
<1>1. n \in Nat
  <2>1. IsFiniteSet(DOMAIN messages[s])
    BY SeqFacts, FS_Interval
  <2> QED BY <2>1, FS_Subset, FS_CardinalityType
<1>2. w = <<>> \/ w = [i \in 1..n |-> e]
  BY DEF Backfill
<1>3. e.number = 0
  OBVIOUS
<1> HIDE DEF w, n, e
<1>4. CASE w = <<>>
  <2>1. Written(w) /\ DOMAIN w = {}
    BY <1>4, Empty
  <2> QED BY <2>1 DEF w
<1>5. CASE w = [i \in 1..n |-> e]
  <2>1. w \in Seq({e})
    BY <1>1, <1>5
  <2>2. \A i \in DOMAIN w : w[i] = e
    BY <1>5
  <2>3. Written(w) /\ \A i \in DOMAIN w : w[i].number = 0
    BY <1>3, <2>1, <2>2 DEF Written, IsSeq
  <2> QED BY <2>3 DEF w
<1> QED BY <1>2, <1>4, <1>5

\* The client that is told.
LEMMA IsLostFeed ==
  ASSUME FeedInv, NEW c \in Clients, NEW s \in Servers, Connect(c, s), IsLost(c, s)
  PROVE  ClientInv(c)'
<1> DEFINE L == log[s]
           K == log'[s]
           w == Backfill(s, cursor[c], Follows[c])
           nothing == {}
<1>1. /\ connected'[c] /\ at'[c] = s /\ got'[c] = nothing /\ begun'[c] = Len(K)
  BY FeedTypes DEF Connect, IsLost
<1>2. socket'[c] = w
  BY DEF IsLost, Notified
<1>3. PICK x : K = Append(L, x)
  BY FeedTypes DEF IsLost, StoreEvent
<1>4. IsSeq(L) /\ IsSeq(messages[s])
  BY FeedTypes
<1>5. Written(w) /\ \A i \in DOMAIN w : w[i].number = 0
  BY <1>4, BackfillOK
<1> HIDE DEF L, w
<1>6. IsSeq(Append(L, x))
  BY <1>4, AppendFacts
<1> HIDE DEF K
<1>7. IsSeq(K)
  BY <1>3, <1>6
<1>8. Len(K) \in Nat /\ DOMAIN K = 1..Len(K) /\ DOMAIN w = 1..Len(w)
  BY <1>5, <1>7, SeqFacts DEF Written
<1>9. nothing \cup Numbers(w, Len(w)) = {}
  BY <1>5, <1>8 DEF Numbers
<1>10. \A n \in DOMAIN K : ~(n > Len(K))
  BY <1>8
<1>11. \A i \in DOMAIN w : ~(w[i].number > 0)
  BY <1>5
<1>12. Exact(K, Follows[c], connected'[c], nothing, Len(K), w)
  BY <1>9, <1>10, <1>11, Zenon DEF Exact
<1>13. Exact(log'[at'[c]], Follows[c], connected'[c], got'[c], begun'[c], socket'[c])
  BY <1>1, <1>2, <1>12 DEF K
<1> QED BY <1>1, <1>2, <1>5, <1>13 DEF ClientInv

LEMMA ConnectFeed ==
  ASSUME FeedInv, NEW c \in Clients, NEW s \in Servers, Connect(c, s)
  PROVE  ClientsInv'
<1>1. ASSUME NEW d \in Clients, d # c
      PROVE  at'[d] = at[d] /\ connected'[d] = connected[d]
  BY <1>1, FeedTypes DEF Connect
<1>2. CASE Resumes(c, s)
  <2>1. /\ UNCHANGED streamVars
        /\ DOMAIN socket' = Clients /\ DOMAIN got' = Clients /\ DOMAIN begun' = Clients
        /\ DOMAIN sound' = Clients
    BY <1>2, FeedTypes DEF Resumes
  <2>2. ASSUME NEW d \in Clients PROVE ClientInv(d)'
    <3>1. CASE d = c
      BY <1>2, <3>1, ResumesFeed
    <3>2. CASE d # c
      <4>1. /\ socket'[d] = socket[d] /\ got'[d] = got[d] /\ begun'[d] = begun[d]
            /\ sound'[d] = sound[d] /\ log' = log /\ ClientInv(d)
        BY <1>2, <3>2, FeedTypes DEF Resumes, streamVars
      <4> QED BY <1>1, <3>2, <4>1, LeftAlone
    <3> QED BY <3>1, <3>2
  <2> QED BY <2>1, <2>2, FeedTypes DEF ClientsInv, streamVars
<1>3. CASE IsLost(c, s)
  <2>1. /\ DOMAIN socket' = Clients /\ DOMAIN got' = Clients /\ DOMAIN begun' = Clients
        /\ DOMAIN sound' = Clients /\ messages' = messages
    BY <1>3, FeedTypes DEF IsLost, Notified
  <2>2. StoreEvent(s, New(s, "resync", Follows[c]), TRUE, channel)
    BY <1>3 DEF IsLost
  <2>3. ASSUME NEW d \in Clients PROVE ClientInv(d)'
    <3>1. CASE d = c
      BY <1>3, <3>1, IsLostFeed
    <3>2. CASE d # c
      <4>1. /\ socket'[d] = Notified(s, New(s, "resync", Follows[c]))[d]
            /\ got'[d] = got[d] /\ begun'[d] = begun[d] /\ sound'[d] = sound[d]
        BY <1>3, <3>2, FeedTypes DEF IsLost, Notified
      <4> QED BY <1>1, <2>2, <3>2, <4>1, StoredFor
    <3> QED BY <3>1, <3>2
  <2>4. \A t \in Servers : Ring(events[t], log[t])'
    BY <2>2, StoredRing
  <2> QED BY <2>1, <2>3, <2>4, FeedTypes DEF ClientsInv
<1> QED BY <1>2, <1>3 DEF Connect

LEMMA DisconnectFeed ==
  ASSUME FeedInv, NEW c \in Clients, Disconnect(c)
  PROVE  ClientsInv'
<1>1. /\ UNCHANGED <<streamVars, begun, sound>>
      /\ connected' = [connected EXCEPT ![c] = FALSE] /\ socket' = [socket EXCEPT ![c] = <<>>]
      /\ at' = [at EXCEPT ![c] = IF sound[c] THEN @ ELSE Absent]
  BY DEF Disconnect
<1>2. PICK k \in 0..Len(socket[c]) :
        got' = [got EXCEPT ![c] = IF sound[c] THEN @ \cup Numbers(socket[c], k) ELSE {}]
  BY DEF Disconnect
<1>3. ClientInv(c) /\ connected[c]
  BY FeedTypes DEF Disconnect
<1>4. /\ ~connected'[c] /\ socket'[c] = <<>>
      /\ at'[c] = IF sound[c] THEN at[c] ELSE Absent
      /\ got'[c] = IF sound[c] THEN got[c] \cup Numbers(socket[c], k) ELSE {}
  BY <1>1, <1>2, FeedTypes
<1>5. ASSUME NEW d \in Clients, d # c PROVE ClientInv(d)'
  <2>1. /\ socket'[d] = socket[d] /\ got'[d] = got[d] /\ begun'[d] = begun[d]
        /\ sound'[d] = sound[d] /\ log' = log /\ ClientInv(d)
        /\ at'[d] = at[d] /\ connected'[d] = connected[d]
    BY <1>1, <1>2, <1>5, FeedTypes DEF streamVars
  <2> QED BY <2>1, LeftAlone
<1>6. ClientInv(c)'
  <2>1. Numbers(socket[c], k) \subseteq Nat
    <3>1. /\ IsSeq(socket[c]) /\ \A i \in DOMAIN socket[c] : socket[c][i].number \in Nat
      BY <1>3 DEF ClientInv, Written
    <3>2. \A i \in 1..k : i \in DOMAIN socket[c]
      BY <3>1, SeqFacts
    <3> QED BY <3>1, <3>2 DEF Numbers
  <2>2. Written(socket'[c]) /\ got'[c] \subseteq Nat
    BY <1>3, <1>4, <2>1, Empty DEF ClientInv
  <2>3. ASSUME sound'[c]
        PROVE  /\ at'[c] \in Servers
               /\ Exact(log'[at'[c]], Follows[c], connected'[c], got'[c], begun'[c], socket'[c])
    <3>1. sound[c] /\ at'[c] = at[c] /\ at[c] \in Servers /\ log' = log /\ begun' = begun
          /\ got'[c] = got[c] \cup Numbers(socket[c], k)
      BY <1>1, <1>3, <1>4, <2>3 DEF ClientInv, streamVars
    <3>2. Exact(log[at[c]], Follows[c], connected[c], got[c], begun[c], socket[c])
      BY <1>3, <3>1 DEF ClientInv
    <3>3. Exact(log[at[c]], Follows[c], TRUE, got[c], begun[c], socket[c])
      BY <1>3, <3>2 DEF Exact
    <3>4. IsSeq(log[at[c]]) /\ Written(socket[c])
      BY <1>3, <3>1, FeedTypes DEF ClientInv
    <3>5. Exact(log[at[c]], Follows[c], FALSE, got[c] \cup Numbers(socket[c], k), begun[c], <<>>)
      BY <3>3, <3>4, CutOff
    <3>6. Exact(log[at[c]], Follows[c], connected'[c], got[c] \cup Numbers(socket[c], k), begun[c], <<>>)
      BY <1>4, <3>5 DEF Exact
    <3> QED BY <1>4, <3>1, <3>6
  <2> QED BY <1>4, <2>2, <2>3 DEF ClientInv
<1>7. /\ DOMAIN socket' = Clients /\ DOMAIN got' = Clients /\ DOMAIN begun' = Clients
      /\ DOMAIN sound' = Clients
  BY <1>1, <1>2, FeedTypes
<1> QED BY <1>1, <1>5, <1>6, <1>7, FeedTypes DEF ClientsInv, streamVars

LEMMA RestartFeed ==
  ASSUME FeedInv, NEW s \in Servers, Restart(s)
  PROVE  ClientsInv'
<1>1. /\ \A c \in Clients : at[c] = s => ~connected[c]
      /\ events' = [events EXCEPT ![s] = <<>>] /\ log' = [log EXCEPT ![s] = <<>>]
      /\ got' = [c \in Clients |-> IF at[c] = s THEN {} ELSE got[c]]
      /\ begun' = [c \in Clients |-> IF at[c] = s THEN 0 ELSE begun[c]]
      /\ sound' = [c \in Clients |-> sound[c] /\ at[c] # s]
      /\ at' = [c \in Clients |-> IF at[c] = s THEN Absent ELSE at[c]]
      /\ UNCHANGED <<connected, socket>>
  BY DEF Restart
<1>2. DOMAIN messages' = Servers /\ \A t \in Servers : IsSeq(messages'[t])
  <2>1. PICK kept \in {<<>>, messages[s]} : messages' = [messages EXCEPT ![s] = kept]
    BY DEF Restart
  <2> QED BY <2>1, FeedTypes, Empty
<1>3. \A t \in Servers : Ring(events'[t], log'[t])
  <2>1. Ring(<<>>, <<>>)
    BY Empty DEF Ring
  <2>2. /\ events'[s] = <<>> /\ log'[s] = <<>>
        /\ \A t \in Servers \ {s} : events'[t] = events[t] /\ log'[t] = log[t]
    BY <1>1, FeedTypes
  <2> QED BY <2>1, <2>2, FeedTypes
<1>4. ASSUME NEW c \in Clients PROVE ClientInv(c)'
  <2>1. ClientInv(c)
    BY FeedTypes
  <2>2. CASE at[c] = s
    <3>1. got'[c] = {} /\ ~sound'[c]
      BY <1>1, <2>2
    <3> QED BY <1>1, <2>1, <3>1 DEF ClientInv
  <2>3. CASE at[c] # s
    <3>1. /\ got'[c] = got[c] /\ begun'[c] = begun[c] /\ (sound'[c] <=> sound[c])
          /\ at'[c] = at[c] /\ socket' = socket /\ connected' = connected
          /\ (at[c] \in Servers => log'[at[c]] = log[at[c]])
      BY <1>1, <2>3, FeedTypes
    <3> QED BY <2>1, <3>1, LeftAlone
  <2> QED BY <2>2, <2>3
<1>5. /\ DOMAIN socket' = Clients /\ DOMAIN got' = Clients /\ DOMAIN begun' = Clients
      /\ DOMAIN sound' = Clients
  BY <1>1, FeedTypes
<1> QED BY <1>2, <1>3, <1>4, <1>5 DEF ClientsInv

\* An event of this process or another that is stored.
LEMMA StoreFeed ==
  ASSUME FeedInv, NEW s \in Servers, NEW e, NEW notify \in BOOLEAN, NEW pending,
         StoreEvent(s, e, notify, pending),
         socket' = IF notify THEN Notified(s, e) ELSE socket,
         UNCHANGED clientVars,
         DOMAIN messages' = Servers, \A t \in Servers : IsSeq(messages'[t])
  PROVE  ClientsInv'
<1>1. \A t \in Servers : Ring(events[t], log[t])'
  BY StoredRing
<1>2. ASSUME NEW c \in Clients PROVE ClientInv(c)'
  <2>1. /\ got'[c] = got[c] /\ begun'[c] = begun[c] /\ (sound'[c] <=> sound[c])
        /\ (connected'[c] <=> connected[c]) /\ at'[c] = at[c]
    BY DEF clientVars
  <2>2. socket'[c] = IF notify THEN Notified(s, e)[c] ELSE socket[c]
    OBVIOUS
  <2> QED BY <2>1, <2>2, StoredFor
<1>3. DOMAIN socket' = Clients
  BY FeedTypes DEF Notified
<1> QED BY <1>1, <1>2, <1>3, FeedTypes DEF ClientsInv, clientVars

LEMMA OnBusOK ==
  ASSUME FeedInv, NEW s \in Servers, NEW trace, messages' = OnBus(s, trace)
  PROVE  DOMAIN messages' = Servers /\ \A t \in Servers : IsSeq(messages'[t])
<1>1. DOMAIN messages = Servers /\ \A t \in Servers : IsSeq(messages[t])
  BY FeedTypes
<1>2. IsSeq(Append(messages[s], trace))
  BY <1>1, AppendFacts
<1>3. /\ DOMAIN messages' = Servers
      /\ messages'[s] \in {messages[s], Append(messages[s], trace)}
      /\ \A t \in Servers \ {s} : messages'[t] = messages[t]
  BY <1>1 DEF OnBus
<1> QED BY <1>1, <1>2, <1>3

\* Every step keeps what clients have of the logs.
LEMMA FeedNext == FeedInv /\ [StreamNext]_eventVars => FeedInv'
<1> SUFFICES ASSUME FeedInv, [StreamNext]_eventVars PROVE ClientsInv'
  BY RingsNext, StreamNextInv DEF FeedInv
<1>1. ASSUME UNCHANGED <<events, log, messages, clientVars, socket>> PROVE ClientsInv'
  <2>1. ASSUME NEW c \in Clients PROVE ClientInv(c)'
    BY <1>1, FeedTypes, LeftAlone DEF clientVars
  <2> QED BY <1>1, <2>1, FeedTypes DEF ClientsInv, clientVars
<1>2. ASSUME NEW s \in Servers, NEW trace, Publish(s, trace) PROVE ClientsInv'
  BY <1>2, OnBusOK, StoreFeed DEF Publish
<1>3. ASSUME NEW s \in Servers, NEW trace, RecordEvent(s, trace) PROVE ClientsInv'
  BY <1>3, OnBusOK, StoreFeed DEF RecordEvent
<1>4. ASSUME NEW s \in Servers, IngestExternal(s) PROVE ClientsInv'
  <2>1. \/ UNCHANGED <<events, log, messages, clientVars, socket>>
        \/ \E pending : /\ StoreEvent(s, Head(channel[s]), TRUE, pending)
                        /\ socket' = Notified(s, Head(channel[s]))
                        /\ UNCHANGED <<messages, clientVars>>
    BY <1>4 DEF IngestExternal
  <2> QED BY <1>1, <2>1, FeedTypes, StoreFeed
<1>5. ASSUME NEW s \in Servers, NEW error, Cleanup(s, error) PROVE ClientsInv'
  BY <1>1, <1>5 DEF Cleanup, streamVars
<1>6. CASE UNCHANGED eventVars
  BY <1>1, <1>6 DEF eventVars, streamVars
<1> QED BY <1>2, <1>3, <1>4, <1>5, <1>6, ConnectFeed, DisconnectFeed, RestartFeed DEF StreamNext

LEMMA FeedInit == StreamInit => FeedInv
<1> SUFFICES ASSUME StreamInit PROVE FeedInv
  OBVIOUS
<1>1. Ring(<<>>, <<>>)
  BY Empty DEF Ring
<1>2. ClientsInv
  BY <1>1, Empty DEF StreamInit, ClientsInv, ClientInv
<1>3. Held = {} /\ EchoDropped
  BY Empty DEF StreamInit, Held, Listed, EchoDropped
<1>4. RingsInv
  BY <1>3, Empty DEF StreamInit, RingsInv
<1> QED BY <1>2, <1>4, StreamInitInv DEF FeedInv

\* A client that follows a trace gets every event of it once and in the order of the process, as
\* long as its cursor has named what it had received last, over all the connections it has lost
\* and whatever the ring has dropped; and no event is twice in a ring, however often Redis
\* brings it: publish(), replay(), the subscribers of GET /events and ingestExternal() agree, for
\* any processes, clients, traces and sizes.
THEOREM EventsAreExact == StreamSpec => []EventsExact
<1>1. FeedInv => EventsExact
  <2> SUFFICES ASSUME FeedInv PROVE StreamExact /\ EchoDropped
    BY DEF EventsExact
  <2>1. EchoDropped
    BY DEF FeedInv, RingsInv
  <2>2. ASSUME NEW c \in Clients, sound[c]
        PROVE  Exact(log[at[c]], Follows[c], connected[c], got[c], begun[c], socket[c])
    BY <2>2, FeedTypes DEF ClientInv
  <2>3. StreamExact
    BY <2>2, Zenon DEF StreamExact, Exact
  <2> QED BY <2>1, <2>3
<1> QED BY <1>1, FeedInit, FeedNext, PTL DEF StreamSpec

===============================================================================
