------------------------------- MODULE Selection -------------------------------
(***************************************************************************)
(* What the user of the console has selected, and its copy in the address  *)
(* of the page (apps/console: selection-store, selection-url; trace-url of *)
(* the observability client): the trace, the agent, the graph and its      *)
(* presentation.  useConsoleSnapshot shows the snapshot it keeps for the   *)
(* selected trace, and its effects correct the selection by it.            *)
(*                                                                         *)
(* An action is a handler; the effects of React run after it, in passes,   *)
(* before the next one.  Left out: fetches that fail, snapshots dropped    *)
(* five minutes after they were last shown, the period of the cycle, and   *)
(* the scope of the agent list.                                            *)
(***************************************************************************)
EXTENDS Naturals, Sequences, SequencesExt, Ordered

CONSTANTS
  TraceNames,
  AgentNames,
  Links,         \* the addresses the console is opened with
  Limits,        \* how many traces a snapshot may list
  Unset,         \* undefined, or a parameter that is absent
  MaxInputs,     \* bound: what the user does
  MaxHappenings  \* bound: what happens on the server

Modes == {"legacy", "ops", "showcase"}
Looks == {"default", "other"}

ASSUME SelectionConstants ==
  /\ Unset \notin TraceNames \cup AgentNames \cup Modes \cup Looks
  /\ Links \subseteq [trace : TraceNames \cup {Unset}, agent : AgentNames \cup {Unset},
                      mode : Modes \cup {Unset}, look : Looks \cup {Unset},
                      presentation : BOOLEAN, cycle : BOOLEAN]
  /\ Limits \subseteq Nat \ {0} /\ MaxInputs \in Nat /\ MaxHappenings \in Nat

VARIABLES
  listing,     \* the traces of the server, the most recent one first
  known,       \* its agents
  limit,       \* of the traces that it lists
  happenings,
  address,     \* the parameters of the address
  earlier,     \* the entries of the browser's history before it
  selection,   \* the selection store
  hadUrlTraceOnMount,
  inputs,
  snapshots,   \* the snapshot kept for each trace, and for none
  outdated,    \* those that were invalidated
  asked,       \* whether the one of the selected trace is being fetched
  lastShown,   \* the last one shown that was not a placeholder
  clicked      \* what a property is about: the trace the user clicked on last, if it was
               \* not fetched since

serverSide == <<listing, known, limit, happenings>>
pageSide == <<address, earlier, selection, hadUrlTraceOnMount, inputs>>
snapshotSide == <<snapshots, outdated, asked, lastShown>>
selectionVars == <<serverSide, pageSide, snapshotSide, clicked>>

-------------------------------------------------------------------------------
(* The address.                                                             *)

\* A graph that is not named is the showcase, and a presentation shows no legacy graph.
GraphMode(a) ==
  IF a.mode = Unset \/ (a.mode = "legacy" /\ a.presentation) THEN "showcase" ELSE a.mode

\* What hydrateFromUrl() and the initial state read from it.
Read(a) ==
  [trace |-> a.trace, agent |-> a.agent, detail |-> a.agent, mode |-> GraphMode(a),
   look |-> IF a.look = Unset THEN "default" ELSE a.look,
   presentation |-> a.presentation, cycle |-> a.cycle, auto |-> FALSE]

\* replaceConsoleSelectionUrl(): layout, bloom and fleet, here the look, are of the showcase,
\* and the cycle is of a presentation.
Written(s) ==
  [trace |-> s.trace, agent |-> s.agent, mode |-> s.mode,
   look |-> IF s.mode = "showcase" THEN s.look ELSE Unset,
   presentation |-> s.presentation, cycle |-> s.presentation /\ s.cycle]

\* The store is set, and the address replaced: pushUrl().
Push(s) == selection' = s /\ address' = Written(s)

-------------------------------------------------------------------------------
(* The snapshot.                                                            *)

\* buildObservabilitySnapshot()
SnapshotOf(t) ==
  [traces |-> SubSeq(listing, 1, IF Len(listing) < limit THEN Len(listing) ELSE limit),
   active |-> IF t \in ToSet(listing) THEN t ELSE Unset,
   agents |-> known]

\* While the first one of a trace is fetched, the last one that was shown takes its place.
Shown ==
  IF snapshots[selection.trace] # Unset THEN snapshots[selection.trace]
  ELSE IF lastShown # {} THEN snapshots[CHOOSE t \in lastShown : TRUE] ELSE Unset

Rows == IF Shown = Unset THEN {} ELSE ToSet(Shown.traces)
Cards == IF Shown = Unset THEN {} ELSE Shown.agents

\* The observer turns to the snapshot of another trace: it is fetched when there is none, or
\* an invalidated one, and the fetch of the other one is cancelled.
Observe(t) ==
  /\ asked' = IF t = selection.trace THEN asked ELSE snapshots[t] = Unset \/ t \in outdated
  /\ lastShown' = IF snapshots[t] = Unset THEN lastShown ELSE {t}
  /\ UNCHANGED <<snapshots, outdated>>

-------------------------------------------------------------------------------
(* The effects, each of what one render has shown.                          *)

\* A snapshot has a trace when it lists it, or holds it as the active one.
Has(snapshot, t) == t \in ToSet(snapshot.traces) \/ snapshot.active = t

\* The first trace of the list is selected once, unless the address named one.
AutoSelect(s) ==
  IF hadUrlTraceOnMount \/ selection.auto \/ Shown = Unset \/ Rows = {} THEN s
  ELSE [s EXCEPT !.auto = TRUE, !.trace = Head(Shown.traces)]

\* Mutant: only the list counts.
FallBackIfUnlisted(s) ==
  IF Shown = Unset \/ selection.trace = Unset \/ selection.trace \in Rows THEN s
  ELSE [s EXCEPT !.trace = IF Rows = {} THEN Unset ELSE Head(Shown.traces)]

\* A trace that is gone gives way to the first one of the list.
FallBack(s) ==
  IF Shown = Unset \/ selection.trace = Unset THEN s
  ELSE IF Has(Shown, selection.trace) THEN s
  ELSE [s EXCEPT !.trace = IF Rows = {} THEN Unset ELSE Head(Shown.traces)]

ClearAgent(s) ==
  IF Shown = Unset \/ selection.agent \in Cards \cup {Unset} THEN s
  ELSE [s EXCEPT !.agent = Unset, !.detail = Unset]

CloseDetail(s) ==
  IF Shown = Unset \/ selection.detail \in Cards \cup {Unset} THEN s
  ELSE [s EXCEPT !.detail = Unset]

Corrected == CloseDetail(ClearAgent(FallBack(AutoSelect(selection))))

\* There is nothing to correct.
Quiet == Corrected = selection

\* One pass.  Closing the drawer leaves the address alone.
RunEffects ==
  /\ ~Quiet
  /\ IF Corrected.trace = selection.trace /\ Corrected.agent = selection.agent
     THEN selection' = Corrected /\ UNCHANGED address
     ELSE Push(Corrected)
  /\ Observe(Corrected.trace)
  /\ UNCHANGED <<serverSide, earlier, hadUrlTraceOnMount, inputs, clicked>>

-------------------------------------------------------------------------------
(* The server.                                                              *)

Happen == happenings < MaxHappenings /\ Quiet /\ happenings' = happenings + 1

\* A message of a trace makes it the most recent one.
NoteActivity(t) ==
  /\ Happen
  /\ listing' = <<t>> \o AtPlaces(listing, {i \in DOMAIN listing : listing[i] # t})
  /\ UNCHANGED <<known, limit, pageSide, snapshotSide, clicked>>

NoteAgent(a) ==
  /\ Happen /\ a \notin known
  /\ known' = known \cup {a}
  /\ UNCHANGED <<listing, limit, pageSide, snapshotSide, clicked>>

\* It starts again, without a store of its traces.
Forget ==
  /\ Happen
  /\ listing' = <<>> /\ known' = {}
  /\ UNCHANGED <<limit, pageSide, snapshotSide, clicked>>

\* A fetch is answered, and what it says is shown.
Fetched ==
  /\ asked /\ Quiet
  /\ asked' = FALSE
  /\ snapshots' = [snapshots EXCEPT ![selection.trace] = SnapshotOf(selection.trace)]
  /\ outdated' = outdated \ {selection.trace}
  /\ lastShown' = {selection.trace}
  /\ clicked' = IF clicked = selection.trace THEN Unset ELSE clicked
  /\ UNCHANGED <<serverSide, pageSide>>

\* The poll of a running trace, or the button.
FetchAgain ==
  /\ ~asked /\ Quiet
  /\ asked' = TRUE
  /\ UNCHANGED <<snapshots, outdated, lastShown, serverSide, pageSide, clicked>>

\* The resync of the bridge: invalidateQueries().
InvalidateAll ==
  /\ Quiet
  /\ outdated' = {t \in DOMAIN snapshots : snapshots[t] # Unset}
  /\ asked' = TRUE
  /\ UNCHANGED <<snapshots, lastShown, serverSide, pageSide, clicked>>

-------------------------------------------------------------------------------
(* The user.                                                                *)

\* The panels are hidden in a presentation.
Input == inputs < MaxInputs /\ Quiet /\ inputs' = inputs + 1
PanelInput == ~selection.presentation /\ Input
ShowcaseInput == selection.mode = "showcase" /\ PanelInput

\* selectTrace()
Select(t) ==
  /\ Push([selection EXCEPT !.trace = t, !.auto = TRUE])
  /\ Observe(t)
  /\ UNCHANGED <<serverSide, earlier, hadUrlTraceOnMount>>

\* A row of the trace rail, or of the agent's drawer.
ClickTrace(t) ==
  /\ PanelInput /\ t \in Rows
  /\ Select(t)
  /\ clicked' = IF t = selection.trace THEN clicked ELSE t

\* The timer of usePresentationTraceCycle().
CycleTraces ==
  /\ Input
  /\ selection.presentation /\ selection.cycle
  /\ Shown # Unset /\ Len(Shown.traces) > 1
  /\ LET at == IF selection.trace \in Rows
               THEN CHOOSE i \in DOMAIN Shown.traces : Shown.traces[i] = selection.trace ELSE 1
     IN Select(Shown.traces[(at % Len(Shown.traces)) + 1])
  /\ clicked' = Unset

\* What changes no trace.
Keep == Observe(selection.trace) /\ UNCHANGED <<serverSide, earlier, hadUrlTraceOnMount, clicked>>

Toggled(a) == [selection EXCEPT !.agent = IF @ = a THEN Unset ELSE a]

\* handleAgentCardClick()
ClickAgent(a) ==
  /\ PanelInput /\ a \in Cards
  /\ Push([Toggled(a) EXCEPT !.detail = IF selection.agent = a THEN Unset ELSE a])
  /\ Keep

\* A node of the graph, which may stand for an agent that is not registered.
FocusAgent(a) ==
  /\ Input
  /\ selection.mode = "ops" \/ (selection.mode = "showcase" /\ ~selection.presentation)
  /\ Push(Toggled(a)) /\ Keep

\* The links of a card to the feed and to the graph.
LinkAgent(a) ==
  /\ PanelInput /\ a \in Cards /\ a # selection.agent
  /\ Push([selection EXCEPT !.agent = a])
  /\ Keep

ClearSelection == PanelInput /\ Push([selection EXCEPT !.agent = Unset, !.detail = Unset]) /\ Keep

CloseDrawer ==
  /\ PanelInput /\ selection.detail # Unset
  /\ selection' = [selection EXCEPT !.detail = Unset] /\ UNCHANGED address
  /\ Keep

SetMode(m) ==
  /\ PanelInput /\ (selection.mode = "showcase" /\ selection.trace # Unset => Shown # Unset)
  /\ {m, selection.mode} = {"ops", "showcase"}
  /\ Push([selection EXCEPT !.mode = m])
  /\ Keep

SetLook(l) ==
  /\ ShowcaseInput /\ l # selection.look
  /\ Push([selection EXCEPT !.look = l])
  /\ Keep

SetCycle ==
  /\ ShowcaseInput /\ selection.trace # Unset
  /\ Push([selection EXCEPT !.cycle = ~@])
  /\ Keep

\* Mutant: the address is that of the agent still selected.
PresentWithAgent ==
  /\ ShowcaseInput /\ selection.trace # Unset
  /\ selection' = [selection EXCEPT !.presentation = TRUE, !.agent = Unset, !.detail = Unset]
  /\ address' = Written([selection EXCEPT !.presentation = TRUE])
  /\ Keep

\* setPresentationMode(true): nothing distracts from the graph.
Present ==
  /\ ShowcaseInput /\ selection.trace # Unset
  /\ Push([selection EXCEPT !.presentation = TRUE, !.agent = Unset, !.detail = Unset])
  /\ Keep

Escape ==
  /\ Input /\ selection.presentation
  /\ Push([selection EXCEPT !.presentation = FALSE])
  /\ Keep

\* The popstate listener.
HydrateFromUrl(a) ==
  /\ selection' = [Read(a) EXCEPT !.auto = a.trace # Unset]
  /\ Observe(a.trace)
  /\ UNCHANGED <<serverSide, hadUrlTraceOnMount>>

\* Another fragment of the page makes an entry of its own, and is a popstate like the way back.
GoToFragment ==
  /\ Input /\ earlier = <<>>
  /\ earlier' = Append(earlier, address)
  /\ UNCHANGED <<address, clicked>>
  /\ HydrateFromUrl(address)

GoBack ==
  /\ Input /\ earlier # <<>>
  /\ address' = Last(earlier) /\ earlier' = Front(earlier)
  /\ HydrateFromUrl(address')
  /\ clicked' = Unset

\* The page is loaded: nothing is left of the store and of the snapshots.
LoadPage(a) ==
  /\ address' = a
  /\ selection' = Read(a)
  /\ hadUrlTraceOnMount' = (a.trace # Unset)
  /\ snapshots' = [t \in TraceNames \cup {Unset} |-> Unset]
  /\ outdated' = {} /\ asked' = TRUE /\ lastShown' = {}
  /\ clicked' = Unset

Reload == Input /\ LoadPage(address) /\ UNCHANGED <<serverSide, earlier>>

-------------------------------------------------------------------------------
SelectionInit ==
  /\ listing = <<>> /\ known = {} /\ limit \in Limits
  /\ happenings = 0 /\ inputs = 0
  /\ address \in Links /\ earlier = <<>>
  /\ selection = Read(address)
  /\ hadUrlTraceOnMount = (address.trace # Unset)
  /\ snapshots = [t \in TraceNames \cup {Unset} |-> Unset]
  /\ outdated = {} /\ asked = TRUE /\ lastShown = {}
  /\ clicked = Unset

SelectionNext ==
  \/ RunEffects \/ Fetched \/ FetchAgain \/ InvalidateAll \/ Forget
  \/ \E t \in TraceNames : NoteActivity(t) \/ ClickTrace(t)
  \/ \E a \in AgentNames : NoteAgent(a) \/ ClickAgent(a) \/ FocusAgent(a) \/ LinkAgent(a)
  \/ \E m \in {"ops", "showcase"} : SetMode(m)
  \/ \E l \in Looks : SetLook(l)
  \/ CycleTraces \/ ClearSelection \/ CloseDrawer \/ SetCycle \/ Present \/ Escape
  \/ GoToFragment \/ GoBack \/ Reload

SelectionSpec == SelectionInit /\ [][SelectionNext]_selectionVars

-------------------------------------------------------------------------------
(* Properties.                                                              *)

\* The address is shareable at any time: whoever opens it gets the selected trace and agent,
\* the graph with its look, and the presentation with its cycle.
UrlRestores ==
  LET read == Read(address)
  IN /\ read.trace = selection.trace /\ read.agent = selection.agent
     /\ read.mode = selection.mode /\ read.presentation = selection.presentation
     /\ selection.mode = "showcase" => read.look = selection.look
     /\ selection.presentation => read.cycle = selection.cycle

\* Whatever is shown in its place, and however far it is down the list: a trace that the user
\* has clicked on is left for another one only if a snapshot of its own lacks it.
SelectionKept ==
  [][clicked # Unset /\ selection.trace = clicked /\ selection'.trace # clicked /\ ~Quiet
       => snapshots[clicked] # Unset /\ ~Has(snapshots[clicked], clicked)]_selectionVars

===============================================================================
