------------------------------- MODULE Registry --------------------------------
(***************************************************************************)
(* Who is discovered and who is reached: the agent registry with its       *)
(* capability index (agent-registry.ts), the capability router that enrols *)
(* what the registry lists on the bus (capability-router.ts), the routes   *)
(* and imports that register agents, the workers of the server's own       *)
(* process, and the table of agents that a start hydrates both from.       *)
(*                                                                         *)
(* Everything here runs between two turns of the event loop.  Of the bus   *)
(* only its registrations are kept; that its index lists what they declare *)
(* is theorem IndexCorrect of MessageBusProofs.  A worker's runtime has a  *)
(* URI of its own.                                                         *)
(***************************************************************************)
EXTENDS Naturals, FiniteSets

CONSTANTS
  Uris,          \* agent URIs, numbered in the order of localeCompare
  Skills,        \* capability ids
  Workers,       \* for the URI of each worker, the capabilities it declares
  Identities,    \* what clients POST and import: [id, skills, valid]
  MaxFound,      \* MAX_FIND_LIMIT
  MaxHydrations  \* bound: starts of the process

ASSUME RegistryConstants ==
  /\ Uris \subseteq Nat
  /\ DOMAIN Workers \subseteq Uris
  /\ \A w \in DOMAIN Workers : Workers[w] \subseteq Skills
  /\ Identities \subseteq [id : Uris, skills : SUBSET Skills, valid : BOOLEAN]
  /\ MaxFound \in Nat \ {0} /\ MaxHydrations \in Nat

VARIABLES
  process,     \* "off", "on", or "failed": createApp() has thrown
  mode,        \* capabilityRoutingMode
  registry,    \* AgentRegistry.agents, a partial function of Uris to identities
  listed,      \* AgentRegistry.capabilityIndex
  enrolled,    \* the registrations of the bus, a partial function of Uris
  worker,      \* the state of each worker's runtime
  table,       \* the stored identities, a partial function of Uris
  hydrations,
  \* What the properties are about:
  declared,    \* the identity that a client last registered for each agent
  routed       \* the last task routed by capability, and where it went

agentVars ==
  <<process, mode, registry, listed, enrolled, worker, table, hydrations, declared, routed>>

Nobody == [a \in {} |-> 0]

Put(f, a, value) == [x \in DOMAIN f \cup {a} |-> IF x = a THEN value ELSE f[x]]

First(n, S) == {x \in S : Cardinality({y \in S : y < x}) < n}

WorkerIdentity(w) == [id |-> w, skills |-> Workers[w], valid |-> TRUE]

RegistryInit ==
  /\ process = "off"
  /\ mode \in {"first", "all"}
  /\ registry = Nobody
  /\ listed = [c \in Skills |-> {}]
  /\ enrolled = Nobody
  /\ worker = [w \in DOMAIN Workers |-> "created"]
  /\ table = Nobody
  /\ hydrations = 0
  /\ declared = Nobody
  /\ routed = {}

-------------------------------------------------------------------------------
(* The registry.                                                            *)

\* unindexAgent() of the identity that is replaced, then indexAgent() of the new one.
Relisted(identity) ==
  [c \in Skills |->
     IF c \in identity.skills THEN listed[c] \cup {identity.id} ELSE listed[c] \ {identity.id}]

\* register() of an identity that passes validation.
InRegistry(identity) ==
  /\ registry' = Put(registry, identity.id, identity)
  /\ listed' = Relisted(identity)

\* findByCapability() with the highest limit.
FindByCapability(c) == First(MaxFound, listed[c])

-------------------------------------------------------------------------------
(* Enrolment on the bus.                                                    *)

\* Mutant: the registration is replaced, not merged.
EnrolReplacing(f, a, skills) ==
  Put(f, a, [skills |-> skills, handler |-> FALSE, mailbox |-> TRUE])

\* bus.register() without a handler and with a mailbox: merged with what is there.
Enrol(f, a, skills) ==
  Put(f, a, [skills |-> skills, handler |-> a \in DOMAIN f /\ f[a].handler, mailbox |-> TRUE])

\* Mutant: an agent that is on the bus is taken to be up to date.
EnrolFoundOnce(c) ==
  [a \in DOMAIN enrolled \cup FindByCapability(c) |->
     IF a \in DOMAIN enrolled THEN enrolled[a] ELSE Enrol(enrolled, a, registry[a].skills)[a]]

\* prepareCapabilityRouting(): every agent that is found is enrolled with what the registry
\* has it declare.
EnrolFound(c) ==
  [a \in DOMAIN enrolled \cup FindByCapability(c) |->
     IF a \in FindByCapability(c) THEN Enrol(enrolled, a, registry[a].skills)[a] ELSE enrolled[a]]

\* POST /send-message of a task without `to`: prepared, then routed by the bus.
SendByCapability(c) ==
  /\ process = "on"
  /\ enrolled' = EnrolFound(c)
  /\ LET declaring == {a \in DOMAIN enrolled' : c \in enrolled'[a].skills}
     IN routed' = {[skill |-> c,
                    to |-> IF mode = "all" THEN declaring ELSE First(1, declaring),
                    known |-> {a \in DOMAIN registry : c \in registry[a].skills}]}
  /\ UNCHANGED <<process, mode, registry, listed, worker, table, hydrations, declared>>

-------------------------------------------------------------------------------
(* Registration by clients.                                                 *)

\* Mutant: the identity is stored before the registry has accepted it.
PostAgentStoresFirst(identity, replace) ==
  /\ process = "on" /\ identity.valid
  /\ table' = Put(table, identity.id, identity)
  /\ IF replace \/ identity.id \notin DOMAIN registry
     THEN /\ InRegistry(identity)
          /\ enrolled' = Enrol(enrolled, identity.id, identity.skills)
          /\ declared' = Put(declared, identity.id, identity)
     ELSE UNCHANGED <<registry, listed, enrolled, declared>>
  /\ routed' = {}
  /\ UNCHANGED <<process, mode, worker, hydrations>>

\* POST /agents.  An invalid identity, or a known one without `replace` (409), changes
\* nothing.
PostAgent(identity, replace) ==
  /\ process = "on" /\ identity.valid
  /\ replace \/ identity.id \notin DOMAIN registry
  /\ InRegistry(identity)
  /\ table' = Put(table, identity.id, identity)
  /\ enrolled' = Enrol(enrolled, identity.id, identity.skills)
  /\ declared' = Put(declared, identity.id, identity)
  /\ routed' = {}
  /\ UNCHANGED <<process, mode, worker, hydrations>>

\* One agent of importObservabilityTrace(): stored first, validated by the registry after.
ImportAgent(identity) ==
  /\ process = "on"
  /\ table' = Put(table, identity.id, identity)
  /\ IF identity.valid
     THEN /\ InRegistry(identity)
          /\ enrolled' = Enrol(enrolled, identity.id, identity.skills)
          /\ declared' = Put(declared, identity.id, identity)
     ELSE UNCHANGED <<registry, listed, enrolled, declared>>
  /\ routed' = {}
  /\ UNCHANGED <<process, mode, worker, hydrations>>

-------------------------------------------------------------------------------
(* Workers in the server's process.                                         *)

\* start() of a runtime: its handler and its capabilities are merged in.
Attach(f, w) ==
  Put(f, w, [skills |-> Workers[w], handler |-> TRUE,
             mailbox |-> w \in DOMAIN f /\ f[w].mailbox])

\* A runtime that an embedding program starts is on the bus and not in the registry.
StartWorker(w) ==
  /\ process = "on" /\ worker[w] = "created"
  /\ enrolled' = Attach(enrolled, w)
  /\ worker' = [worker EXCEPT ![w] = "running"]
  /\ routed' = {}
  /\ UNCHANGED <<process, mode, registry, listed, table, hydrations, declared>>

\* registerWorker(), registerStartupWorker(): registered, enrolled, started; not stored.
BootstrapWorker(w) ==
  /\ process = "on" /\ worker[w] = "created"
  /\ InRegistry(WorkerIdentity(w))
  /\ enrolled' = Attach(Enrol(enrolled, w, Workers[w]), w)
  /\ worker' = [worker EXCEPT ![w] = "running"]
  /\ routed' = {}
  /\ UNCHANGED <<process, mode, table, hydrations, declared>>

\* stop(): the registration is dropped with its mailbox; the registry still lists the agent.
StopWorker(w) ==
  /\ process = "on" /\ worker[w] = "running"
  /\ enrolled' = [a \in DOMAIN enrolled \ {w} |-> enrolled[a]]
  /\ worker' = [worker EXCEPT ![w] = "stopped"]
  /\ routed' = {}
  /\ UNCHANGED <<process, mode, registry, listed, table, hydrations, declared>>

-------------------------------------------------------------------------------
(* The process.                                                             *)

\* hydrateObservabilityFromPersistence(): listAgents() parses every row before the first is
\* registered, outside the try.
Hydrate ==
  /\ process = "off" /\ hydrations < MaxHydrations
  /\ hydrations' = hydrations + 1
  /\ IF \A a \in DOMAIN table : table[a].valid
     THEN /\ process' = "on"
          /\ registry' = table
          /\ listed' = [c \in Skills |-> {a \in DOMAIN table : c \in table[a].skills}]
          /\ enrolled' = [a \in DOMAIN table |->
                            [skills |-> table[a].skills, handler |-> FALSE, mailbox |-> TRUE]]
     ELSE process' = "failed" /\ UNCHANGED <<registry, listed, enrolled>>
  /\ UNCHANGED <<mode, worker, table, declared, routed>>

\* The process ends, at any time: all that remains is the table.
EndProcess ==
  /\ process = "on"
  /\ process' = "off"
  /\ registry' = Nobody
  /\ listed' = [c \in Skills |-> {}]
  /\ enrolled' = Nobody
  /\ worker' = [w \in DOMAIN Workers |-> "created"]
  /\ routed' = {}
  /\ UNCHANGED <<mode, table, hydrations, declared>>

RegistryNext ==
  \/ \E c \in Skills : SendByCapability(c)
  \/ \E i \in Identities, replace \in BOOLEAN : PostAgent(i, replace)
  \/ \E i \in Identities : ImportAgent(i)
  \/ \E w \in DOMAIN Workers : StartWorker(w) \/ BootstrapWorker(w) \/ StopWorker(w)
  \/ Hydrate \/ EndProcess

RegistrySpec == RegistryInit /\ [][RegistryNext]_agentVars

-------------------------------------------------------------------------------
(* Properties.                                                              *)

\* A task that is sent to a capability reaches whom the registry has declare it, in the
\* default mode the first of them or somebody before, and in mode "all" every one that the
\* search returns, also after a worker of theirs was stopped or declared something else on
\* the bus; and whoever it is sent to can take it: a running runtime or a mailbox.
RoutedAsRegistered ==
  \A r \in routed :
    /\ mode = "all" => First(MaxFound, r.known) \subseteq r.to
    /\ \A a \in r.known : \E b \in r.to : b <= a
    /\ \A a \in r.to : enrolled[a].mailbox \/ (enrolled[a].handler /\ worker[a] = "running")

\* Nothing that clients register, import or send takes the handler from a running worker,
\* and no handler outlives its worker: the registrations of the bus have exactly the
\* handlers of the runtimes that run.
HandlerKept ==
  \A w \in DOMAIN Workers :
    worker[w] = "running" <=> w \in DOMAIN enrolled /\ enrolled[w].handler

\* The bus leads a task to whom the registry has for it, and finds the handler there.
RoutesExact == RoutedAsRegistered /\ HandlerKept

\* What a client has registered is stored as it was registered last, unless an import of an
\* invalid identity has taken its row, and is found as long as a process runs, also after a
\* restart: with the identity it was given, or the one a worker of that URI brought.
RegistrationsKept ==
  \A a \in DOMAIN declared :
    /\ a \in DOMAIN table
    /\ table[a].valid => table[a] = declared[a]
    /\ process = "on" =>
         /\ a \in DOMAIN registry
         /\ \/ registry[a] = declared[a]
            \/ a \in DOMAIN Workers /\ registry[a] = WorkerIdentity(a)

\* A start hydrates from the database ("Hydrate in-memory bus + registry from SQLite on
\* startup"), and what is wrong with a stored identity does not keep it from that
\* ("Registry conflicts should not block startup hydration.").
HydrationCompletes == process # "failed"

===============================================================================
