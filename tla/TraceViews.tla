------------------------------ MODULE TraceViews ------------------------------
(***************************************************************************)
(* The delegation graph of one trace, from the messages that are recorded  *)
(* to the views that are served (core/src/memory/, server/src/             *)
(* observability/trace-graph.ts): the recorder's graph in memory, the      *)
(* entries of the memory store, the graph rebuilt from them after a        *)
(* restart, the queries on a graph, and the agent depths of the Ops view.  *)
(*                                                                         *)
(* The server process may restart once: the recorder's graph is lost, the  *)
(* memory store (SQLite) is not.                                           *)
(***************************************************************************)
EXTENDS Integers, FiniteSets, Sequences, SequencesExt, Ordered

CONSTANTS
  Traces,      \* what a trace may hold: a set of functions from ids to messages
  None,        \* an absent id
  MemoryLimit, \* how many entries a graph is rebuilt from at most: 1000
  MaxRecords,  \* bound: calls of the recorders
  MaxDepth     \* bound: the depth the search of the agent view is followed to

IsMessage(m) ==
  /\ m.type \in {"task_request", "delegation", "task_response"}
  /\ m.type # "task_request" => m.parent # None

ASSUME TracesAssumption == \A t \in Traces : \A id \in DOMAIN t : IsMessage(t[id])
ASSUME ViewBounds == MemoryLimit \in Nat /\ MaxRecords \in Nat /\ MaxDepth \in Nat

VARIABLES
  messages,  \* the messages of the trace; parent of a request is its graphOptions
  graph,     \* InMemoryDelegationGraphStore.traces.get(traceId)
  entries,   \* MemoryStore, by created_at
  live,      \* ghost: the facts recorded into graph since the server started
  stored,    \* ghost: the facts the memory store took, in their order
  records,   \* calls so far
  restarted,
  view       \* computeAgentDepths(): its links, queue, best depths, or None

viewVars == <<messages, graph, entries, live, stored, records, restarted, view>>

-------------------------------------------------------------------------------
(* The graph builder.                                                       *)

WorkKinds == {"task_request", "delegation"}
ParentKinds == {"delegates", "subtask"}

EdgeKind ==
  [task_request |-> "subtask", delegation |-> "delegates", task_response |-> "responds_to"]

NoGraph == [nodes |-> <<>>, edges |-> <<>>]

Given(new, old) == IF new # None THEN new ELSE old

\* A repeated message keeps its place and its sender, and what it does not say again.
Upsert(nodes, n) ==
  IF \E i \in DOMAIN nodes : nodes[i].id = n.id
  THEN [i \in DOMAIN nodes |->
          IF nodes[i].id # n.id THEN nodes[i]
          ELSE [nodes[i] EXCEPT !.kind = n.kind, !.to = Given(n.to, @),
                                !.parent = Given(n.parent, @)]]
  ELSE Append(nodes, n)

AddEdge(edges, e) ==
  IF \E i \in DOMAIN edges :
       edges[i].from = e.from /\ edges[i].to = e.to /\ edges[i].kind = e.kind
  THEN edges ELSE Append(edges, e)

AgentForMessage(nodes, id, default) ==
  IF \E i \in DOMAIN nodes : nodes[i].id = id
  THEN nodes[CHOOSE i \in DOMAIN nodes : nodes[i].id = id].agent ELSE default

\* applyTaskRequest(), applyDelegation() and applyTaskResponse(); parent is the option of
\* the first and a field of the message in the others.
ApplyMessage(g, id, m, parent) ==
  LET to    == IF m.type = "task_response" THEN None ELSE m.to
      nodes == Upsert(g.nodes, [id |-> id, agent |-> m.from, kind |-> m.type, to |-> to,
                                parent |-> parent])
      edge  == [from |-> parent, to |-> id, kind |-> EdgeKind[m.type],
                fromAgent |-> AgentForMessage(nodes, parent, m.from),
                toAgent |-> IF m.type = "task_response" THEN m.from ELSE m.to]
  IN [nodes |-> nodes, edges |-> IF parent = None THEN g.edges ELSE AddEdge(g.edges, edge)]

\* Mutant: a sub-task is stored as any other request.
EntryWithoutParent(id, m, parent) ==
  [message_id |-> id, agent_id |-> m.from, kind |-> m.type, to |-> m.to,
   parent |-> IF m.type = "task_request" THEN None ELSE parent]

\* What TaskMemoryRecorder stores of a message (a response's kind is "output" or
\* "task_response", which are read back alike).
EntryOf(id, m, parent) ==
  [message_id |-> id, agent_id |-> m.from, kind |-> m.type, to |-> m.to, parent |-> parent]

\* applyMemoryEntryToDelegationGraph().
ApplyEntry(g, e) ==
  IF e.kind # "task_request" /\ e.parent = None THEN g
  ELSE ApplyMessage(g, e.message_id, [type |-> e.kind, from |-> e.agent_id, to |-> e.to],
                    e.parent)

\* Mutant: the query stops one entry before its limit.
QueriedBelow == IF Len(entries) < MemoryLimit THEN Len(entries) ELSE MemoryLimit - 1

\* memoryStore.query() with its limit: so many entries, the oldest first.
Queried == IF Len(entries) < MemoryLimit THEN Len(entries) ELSE MemoryLimit

\* buildDelegationGraphFromMemoryEntries(): entry by entry.
Rebuilt ==
  LET upTo[n \in 0..Queried] ==
        IF n = 0 THEN NoGraph ELSE ApplyEntry(upTo[n - 1], entries[n])
  IN upTo[Queried]

\* resolveTraceBundle(): the recorder's graph, or else the one rebuilt from memory.
Served == IF graph.nodes # <<>> THEN graph ELSE Rebuilt

-------------------------------------------------------------------------------
(* The queries on a graph.                                                  *)

IdsOf(nodes) == {nodes[i].id : i \in DOMAIN nodes}
WorkIds(g) == {n.id : n \in {x \in ToSet(g.nodes) : x.kind \in WorkKinds}}
ParentEdges(g) ==
  AtPlaces(g.edges, {i \in DOMAIN g.edges : g.edges[i].kind \in ParentKinds})

\* children.get(id), in the order of the edges.
Children(edges, id) ==
  LET of == AtPlaces(edges, {i \in DOMAIN edges : edges[i].from = id})
  IN [i \in DOMAIN of |-> of[i].to]

Roots(g) == WorkIds(g) \ {e.to : e \in ToSet(ParentEdges(g))}
Leaves(g) == WorkIds(g) \ {e.from : e \in ToSet(ParentEdges(g))}

\* Mutant: the last branch counts.
Later(a, b) == b

\* Math.max().
Larger(a, b) == IF a > b THEN a ELSE b

\* One turn of depthFrom(), of which calls holds the calls under way, each with the greatest
\* depth below it so far: a call for the next child that was not visited (one that was
\* counts 0), or a return.
CallOrReturn(edges, s) ==
  LET k     == Len(s.calls)
      kids  == Children(edges, s.calls[k].id)
      new   == {i \in DOMAIN kids : kids[i] \notin s.visited}
      next  == kids[CHOOSE i \in new : \A j \in new : i <= j]
      value == 1 + s.calls[k].below
      above == [i \in 1..k - 1 |-> [id |-> s.calls[i].id,
                                    below |-> IF i = k - 1 THEN Larger(s.calls[i].below, value)
                                              ELSE s.calls[i].below]]
  IN IF k = 0 THEN s
     ELSE IF new # {}
     THEN [calls |-> Append(s.calls, [id |-> next, below |-> 0]),
           visited |-> s.visited \cup {next}, depth |-> s.depth]
     ELSE [calls |-> above, visited |-> s.visited, depth |-> value]

\* Every call returns, and there is one for each message visited.
DepthFrom(edges, id) ==
  LET turns == 2 * Len(edges) + 1
      turn[n \in 0..turns] ==
        IF n = 0 THEN [calls |-> <<[id |-> id, below |-> 0]>>, visited |-> {id}, depth |-> 0]
        ELSE CallOrReturn(edges, turn[n - 1])
  IN turn[turns].depth

LongestOf(D) == CHOOSE d \in D \cup {0} : \A e \in D : d >= e

\* computeDelegationDepth(): from each root with a visited set of its own.
Depth(g) == LongestOf({DepthFrom(ParentEdges(g), r) : r \in Roots(g)})

\* One turn of getDelegationAncestors(): up the first edge to the message, unless that leads
\* back.
WalkUp(edges, at) ==
  LET to    == {i \in DOMAIN edges : edges[i].to = at.id}
      first == CHOOSE i \in to : \A j \in to : i <= j
  IN IF to = {} \/ edges[first].from \in at.visited THEN at
     ELSE [id |-> edges[first].from, visited |-> at.visited \cup {edges[first].from}]

\* A turn that goes on takes an edge whose start was not visited yet.
Ancestors(g, id) ==
  LET edges == ParentEdges(g)
      up[n \in 0..Len(edges)] ==
        IF n = 0 THEN [id |-> id, visited |-> {}] ELSE WalkUp(edges, up[n - 1])
  IN up[Len(edges)].visited \cap IdsOf(g.nodes)

\* Mutant: the messages next below only.
ChildrenOnly(g, id) ==
  {e.to : e \in {x \in ToSet(ParentEdges(g)) : x.from = id}} \cap IdsOf(g.nodes)

\* getDelegationDescendants(): breadth first, from a visited set that holds the start. The
\* model takes the messages of one distance in one turn.
WalkDown(edges, visited) ==
  visited \cup {e.to : e \in {x \in ToSet(edges) : x.from \in visited}}

Descendants(g, id) ==
  LET edges == ParentEdges(g)
      down[n \in 0..Len(edges)] == IF n = 0 THEN {id} ELSE WalkDown(edges, down[n - 1])
  IN (down[Len(edges)] \ {id}) \cap IdsOf(g.nodes)

\* The order of the nodes map, without the responses.
WorkSeq(g) ==
  LET work == AtPlaces(g.nodes, {i \in DOMAIN g.nodes : g.nodes[i].kind \in WorkKinds})
  IN [i \in DOMAIN work |-> work[i].id]

\* Mutant: the nodes, as they were recorded.
OrderOfArrival(g) == WorkSeq(g)

\* What of a sequence of ids is in S, in its order.
AmongIds(q, S) == AtPlaces(q, {i \in DOMAIN q : q[i] \in S})

\* The edges of the parents that are tasks of the graph.
WorkEdges(g) ==
  LET edges == ParentEdges(g)
  IN AtPlaces(edges, {i \in DOMAIN edges : {edges[i].from, edges[i].to} \subseteq WorkIds(g)})

\* One turn of the loop over the queue of the topological order, of which n - 1 were taken.
\* (A node has one parent edge, so that its degree is 0 as soon as its parent is taken.)
TakeNext(edges, taken, n) ==
  IF n > Len(taken) THEN taken ELSE taken \o Children(edges, taken[n])

\* delegationTopologicalOrder(): from the roots; what is below no root comes last.
TopologicalOrder(g) ==
  LET taken[n \in 0..Len(g.nodes)] ==
        IF n = 0 THEN AmongIds(WorkSeq(g), Roots(g)) ELSE TakeNext(WorkEdges(g), taken[n - 1], n)
      order == taken[Len(g.nodes)]
  IN order \o AmongIds(WorkSeq(g), WorkIds(g) \ ToSet(order))

-------------------------------------------------------------------------------
(* Recording.                                                               *)

ViewsInit ==
  /\ messages \in Traces
  /\ graph = NoGraph
  /\ entries = <<>>
  /\ live = {}
  /\ stored = <<>>
  /\ records = 0
  /\ restarted = FALSE
  /\ view = None

Record(id, parent) ==
  /\ view = None
  /\ records < MaxRecords
  /\ records' = records + 1
  /\ graph' = ApplyMessage(graph, id, messages[id], parent)
  /\ live' = live \cup {<<id, parent>>}
  /\ UNCHANGED <<messages, restarted, view>>

\* handleIncoming() of the agent that receives a task: the graph only, and without the
\* parent that the sender's graphOptions name.
ReceiveTask(id) ==
  /\ messages[id].type \in WorkKinds
  /\ Record(id, IF messages[id].type = "task_request" THEN None ELSE messages[id].parent)
  /\ UNCHANGED <<entries, stored>>

\* persistMessage() of the sender, after bus.send(): the entry, which may fail on its own,
\* then the graph.
PersistMessage(id) ==
  /\ Record(id, messages[id].parent)
  /\ \/ /\ entries' = Append(entries, EntryOf(id, messages[id], messages[id].parent))
        /\ stored' = Append(stored, <<id, messages[id].parent>>)
     \/ UNCHANGED <<entries, stored>>

\* The process is replaced: the graph is gone.
RestartServer ==
  /\ view = None /\ ~restarted /\ records > 0
  /\ restarted' = TRUE
  /\ graph' = NoGraph
  /\ live' = {}
  /\ UNCHANGED <<messages, entries, stored, records, view>>

-------------------------------------------------------------------------------
(* The agents of the Ops view: buildTraceGraphView(), and the depths the    *)
(* console computes from what it is served.                                 *)

\* The messages of the bundle's timeline, which the bus or its database still holds.
Timeline == {f[1] : f \in live \cup ToSet(stored)}

TraceAgents ==
  UNION {{messages[id].from, messages[id].to} : id \in Timeline} \ {None}

\* resolveTraceAgentLinks(): the links between distinct agents of the graph's edges, or else
\* of the timeline's tasks.
AgentLinks(g) ==
  LET ofEdges == {[from |-> e.fromAgent, to |-> e.toAgent, kind |-> e.kind] :
                   e \in {x \in ToSet(g.edges) : x.toAgent \notin {None, x.fromAgent}}}
      ofTasks == {[from |-> m.from, to |-> m.to, kind |-> EdgeKind[m.type]] :
                   m \in {x \in {messages[id] : id \in Timeline} :
                           x.type \in WorkKinds /\ x.to \notin {None, x.from}}}
  IN IF ofEdges # {} THEN ofEdges ELSE ofTasks

\* The pairs of the links that count, and where a search starts.
Adjacency(links) == {<<l.from, l.to>> : l \in {x \in links : x.kind \in ParentKinds}}
Starts(agents, adjacency) ==
  LET roots == agents \ {p[2] : p \in adjacency}
  IN IF roots # {} THEN roots ELSE agents

Search(by, agents, adjacency) ==
  LET starts == Starts(agents, adjacency)
  IN [by |-> by, agents |-> agents, adjacency |-> adjacency,
      queue |-> SetToSeq([agent : starts, depth : {0}]),
      best |-> [a \in starts |-> 0]]

OpenAgentView ==
  /\ view = None /\ Served.nodes # <<>>
  /\ view' = Search("server", TraceAgents, Adjacency(AgentLinks(Served)))
  /\ UNCHANGED <<messages, graph, entries, live, stored, records, restarted>>

\* computeAgentDepths() goes on from an agent it finds deeper than before,
\* computeOpsGraphAgentDepths() from one it finds nearer.
Improves(by, depth, old) == IF by = "server" THEN depth > old ELSE depth < old

\* Mutant: an agent is visited once.
VisitAgentOnce ==
  /\ view # None /\ view.queue # <<>>
  /\ LET head  == Head(view.queue)
         depth == head.depth + 1
         next  == {a \in view.agents : <<head.agent, a>> \in view.adjacency
                                     /\ a \notin DOMAIN view.best}
     IN /\ depth <= MaxDepth
        /\ view' = [view EXCEPT
             !.queue = Tail(@) \o SetToSeq([agent : next, depth : {depth}]),
             !.best = [a \in DOMAIN @ \cup next |-> IF a \in next THEN depth ELSE @[a]]]
  /\ UNCHANGED <<messages, graph, entries, live, stored, records, restarted>>

\* One turn of the loop over the queue.
VisitAgent ==
  /\ view # None /\ view.queue # <<>>
  /\ LET head  == Head(view.queue)
         depth == head.depth + 1
         next  == {a \in view.agents :
                    /\ <<head.agent, a>> \in view.adjacency
                    /\ a \in DOMAIN view.best => Improves(view.by, depth, view.best[a])}
     IN /\ depth <= MaxDepth
        /\ view' = [view EXCEPT
             !.queue = Tail(@) \o SetToSeq([agent : next, depth : {depth}]),
             !.best = [a \in DOMAIN @ \cup next |-> IF a \in next THEN depth ELSE @[a]]]
  /\ UNCHANGED <<messages, graph, entries, live, stored, records, restarted>>

Searched(by) == view # None /\ view.by = by /\ view.queue = <<>>

\* The console lays the graph out from the edges it was served.
LayOut ==
  /\ Searched("server")
  /\ view' = Search("console", view.agents, view.adjacency)
  /\ UNCHANGED <<messages, graph, entries, live, stored, records, restarted>>

ViewsNext ==
  \/ \E id \in DOMAIN messages : ReceiveTask(id) \/ PersistMessage(id)
  \/ RestartServer \/ OpenAgentView \/ VisitAgent \/ LayOut

ViewsSpec == ViewsInit /\ [][ViewsNext]_viewVars

-------------------------------------------------------------------------------
(* Properties.                                                              *)

\* What follows n in the relation R: in every closed set that holds n's successors.
Below(R, n) ==
  LET closed == {S \in SUBSET {p[2] : p \in R} :
                  \A p \in R : p[1] \in S \cup {n} => p[2] \in S}
  IN {m \in {p[2] : p \in R} : \A S \in closed : m \in S}

\* The facts the served graph is made of: those since the start of the process, or else the
\* oldest ones stored, up to the limit of the query.
Facts == IF live # {} THEN live ELSE {stored[i] : i \in {k \in DOMAIN stored : k <= MemoryLimit}}

ParentOf == {<<f[2], f[1]>> : f \in {x \in Facts : x[2] # None}}
WorkParentOf == {p \in ParentOf : messages[p[2]].type \in WorkKinds}

\* The served graph says what was recorded, whatever the order, the repetitions and the
\* path (incremental, or rebuilt after a restart from the oldest MemoryLimit entries): every
\* message once with its sender, recipient and parent, every relation once, the roots and the
\* leaves (docs/delegation-graph.md).
ServedExact ==
  LET g    == Served
      ids  == {f[1] : f \in Facts}
      work == {id \in ids : messages[id].type \in WorkKinds}
      node(id) == CHOOSE n \in ToSet(g.nodes) : n.id = id
  IN /\ IdsOf(g.nodes) = ids
     /\ Len(g.nodes) = Cardinality(ids)
     /\ \A id \in ids :
          /\ node(id).agent = messages[id].from
          /\ id \in work => node(id).to = messages[id].to
          /\ node(id).parent # None <=> \E p \in ParentOf : p[2] = id
     /\ {<<e.from, e.to>> : e \in ToSet(g.edges)} = ParentOf
     /\ Len(g.edges) = Cardinality(ParentOf)
     /\ Roots(g) = {id \in work : \A p \in WorkParentOf : p[2] # id}
     /\ Leaves(g) = {id \in work : \A p \in WorkParentOf : p[1] # id}

\* The two walks agree with each other and with what was recorded: a message is an ancestor
\* of another, and that one its descendant, exactly if work was handed down from the first to
\* the second, cycles and lost parents included.
WalksExact ==
  LET g == Served
  IN \A a, d \in IdsOf(g.nodes) : a # d =>
       /\ d \in Below(WorkParentOf, a) <=> a \in Ancestors(g, d)
       /\ d \in Below(WorkParentOf, a) <=> d \in Descendants(g, a)

\* The topological order lists every task once, and a task that hangs on a root after its
\* parent.
OrderExact ==
  LET g     == Served
      work  == WorkIds(g)
      hung  == {p \in WorkParentOf : p[1] \in work /\ p[2] \in work}
      order == TopologicalOrder(g)
      place(id) == CHOOSE i \in DOMAIN order : order[i] = id
  IN /\ ToSet(order) = work /\ Len(order) = Cardinality(work)
     /\ \A r \in Roots(g) : \A p \in hung :
          p[2] \in Below(hung, r) => place(p[1]) < place(p[2])

\* The depth is the length of the longest chain below a root (docs/delegation-graph.md).
DepthExact ==
  LET g     == Served
      roots == Roots(g)
      chain(r, id) == 1 + Cardinality({m \in Below(WorkParentOf, r) :
                                        m = id \/ id \in Below(WorkParentOf, m)})
  IN Depth(g) = LongestOf({1 : r \in roots} \cup UNION {
       {chain(r, id) : id \in Below(WorkParentOf, r)} : r \in roots})

\* The served graph and every query of it are exact: nothing of what was recorded since the
\* start is left out, and after a restart nothing but the entries beyond the limit.
GraphExact == ServedExact /\ WalksExact /\ OrderExact /\ DepthExact

\* When the server's search ends, an agent is one level below the deepest of those that
\* hand it work, which is possible only if no agent's work comes back to it; the search
\* that goes deeper than there are agents, and never ends, is on a cycle. The console's
\* search ends with the least depths.
AgentDepthsExact ==
  view # None =>
    LET before(a) == {view.best[p[1]] + 1 :
                       p \in {x \in view.adjacency : x[2] = a /\ x[1] \in DOMAIN view.best}}
        starts == Starts(view.agents, view.adjacency)
    IN /\ Searched("server") => \A a \in DOMAIN view.best : view.best[a] = LongestOf(before(a))
       /\ Searched("console") => \A a \in DOMAIN view.best :
            IF a \in starts THEN view.best[a] = 0
            ELSE view.best[a] \in before(a) /\ \A d \in before(a) : view.best[a] <= d
       /\ (\E i \in DOMAIN view.queue : view.queue[i].depth >= Cardinality(view.agents)) =>
            \E a \in view.agents : a \in Below(view.adjacency, a)

===============================================================================
