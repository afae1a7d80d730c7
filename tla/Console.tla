-------------------------------- MODULE Console --------------------------------
(***************************************************************************)
(* What the console shows of the messages of a trace (apps/console): the   *)
(* snapshot that it polls and keeps per trace (useConsoleSnapshot,         *)
(* useSnapshot), the SSE bridge that feeds it live messages and has the    *)
(* snapshot fetched again (useObservabilitySseBridge), and the message     *)
(* feed that merges both (useIncrementalMessageFeed).                      *)
(*                                                                         *)
(* An action is a callback or a timer with the effects that React runs     *)
(* after it.  Left out: the agent filter and the replay, feeds longer than *)
(* their tail limit, traces that are not listed, and events of messages    *)
(* older than two minutes or from before the console was opened.           *)
(***************************************************************************)
EXTENDS Naturals, FiniteSets, Sequences, SequencesExt, Functions

CONSTANTS
  TraceOf,    \* for each message, its trace
  Responses,  \* those that are task_responses
  Begun,      \* for each trace, the messages it has when the console is opened
  Undefined,
  MaxNotices, \* bound: events that are not messages
  MaxClicks,  \* bound: what the user does
  MaxFaults   \* bound: connections lost and fetches failed

Traces == DOMAIN Begun
Messages == DOMAIN TraceOf

ASSUME ConsoleConstants ==
  /\ TraceOf \in [Messages -> Traces] /\ Responses \subseteq Messages
  /\ Begun \in [Traces -> Seq(Messages)]
  /\ \A t \in Traces : Begun[t] \in Seq({m \in Messages : TraceOf[m] = t}) /\ Begun[t] # <<>>
  /\ Undefined \notin Traces
  /\ MaxNotices \in Nat /\ MaxClicks \in Nat /\ MaxFaults \in Nat

VARIABLES
  timeline,    \* the messages of each trace on the server
  published,   \* the events of the server since the console was opened
  notices, clicks, faults,
  selected,    \* selectedTraceId
  liveEnabled,
  paused,      \* feedPaused or feedHovered
  link,        \* the EventSource: "closed", "connecting" or "open"
  next,        \* the number of the next event it delivers
  replayBurst, \* replayBurstActiveRef, the opposite of replaySettledRef
  catchUp,     \* catchUpBurstActiveRef
  resyncTimer, \* whether debouncedResyncTimerRef is set
  cache,       \* the snapshot of each trace, as the lengths of all timelines, or Undefined
  invalidated, \* the traces whose snapshot is
  failed,      \* the traces whose last fetch failed
  lastShown,   \* the trace of the last snapshot that was not a placeholder
  fetching,    \* the fetch of the selected trace: "no", "asked" or "answered"
  answer,      \* the lengths of all timelines when it was answered
  rows,        \* the feed
  buffer,      \* pauseBufferRef
  taken        \* what the properties are about: the messages the feed was given since the
               \* trace was selected or the feed was last cleared

serverVars == <<timeline, published, notices>>
userVars == <<selected, liveEnabled, paused, clicks>>
linkVars == <<link, next, replayBurst, catchUp>>
queryVars == <<cache, invalidated, failed, lastShown, fetching, answer>>
feedVars == <<rows, buffer, taken>>
consoleVars == <<serverVars, faults, userVars, linkVars, resyncTimer, queryVars, feedVars>>

ConsoleInit ==
  /\ timeline = Begun
  /\ published = <<>>
  /\ notices = 0 /\ clicks = 0 /\ faults = 0
  /\ selected \in Traces
  /\ liveEnabled = TRUE /\ paused = FALSE
  /\ link = "closed" /\ next = 1
  /\ replayBurst = FALSE /\ catchUp = FALSE
  /\ resyncTimer = FALSE
  /\ cache = [t \in Traces |-> Undefined]
  /\ invalidated = {} /\ failed = {} /\ lastShown = Undefined
  /\ fetching = "no" /\ answer = Undefined
  /\ rows = <<>> /\ buffer = <<>> /\ taken = {}

-------------------------------------------------------------------------------
(* The feed.                                                                *)

\* query.data: the snapshot of the selected trace or, while it is first fetched, the one
\* that was shown before (placeholderData: keepPreviousData).
Data ==
  IF cache[selected] # Undefined THEN [of |-> selected, seen |-> cache[selected]]
  ELSE IF selected \in failed \/ lastShown = Undefined THEN Undefined
  ELSE [of |-> lastShown, seen |-> cache[lastShown]]

\* The timeline of its active trace.
Incoming == IF Data = Undefined THEN <<>> ELSE SubSeq(timeline[Data.of], 1, Data.seen[Data.of])

\* feedUpdatesPaused
Held == liveEnabled /\ paused

\* What is new, except what is held already or was seen elsewhere.
AppendUnseen(held, seen, new) ==
  LET upTo[n \in 0..Len(new)] ==
        IF n = 0 THEN held
        ELSE IF new[n] \in seen \cup ToSet(upTo[n - 1]) THEN upTo[n - 1]
        ELSE Append(upTo[n - 1], new[n])
  IN upTo[Len(new)]

\* mergeTimelineEventsAppendOnly()
Merge(existing, new) == AppendUnseen(existing, {}, new)

\* appendToMessageFeedPauseBuffer()
Buffered(waiting, shown, new) == AppendUnseen(waiting, ToSet(shown), new)

\* Offline there is no timeline: the feed is cleared when this begins and, as the effect
\* runs again only when something it is given changes, with another trace, live or a pause.
ClearOffline ==
  IF selected \in failed /\ UNCHANGED <<selected, liveEnabled, Held>>
  THEN UNCHANGED feedVars
  ELSE rows' = <<>> /\ buffer' = <<>> /\ taken' = {}

\* Mutant: the feed is resumed from the snapshot.
RenderFromSnapshot ==
  IF selected' \in failed'
  THEN ClearOffline
  ELSE LET stays == selected' = selected
           current == IF stays THEN rows ELSE <<>>
       IN /\ IF Held'
             THEN rows' = current /\ buffer' = Buffered(buffer, current, Incoming')
             ELSE rows' = Merge(current, Incoming') /\ buffer' = <<>>
          /\ taken' = (IF stays THEN taken ELSE {}) \cup ToSet(Incoming')

\* The effects of the feed after a change of what it is given: another trace starts it anew,
\* and a pause holds back what comes in.
Render ==
  IF selected' \in failed'
  THEN ClearOffline
  ELSE LET stays == selected' = selected
           current == IF stays THEN rows ELSE <<>>
           waiting == IF stays THEN buffer ELSE <<>>
       IN /\ IF Held'
             THEN rows' = current /\ buffer' = Buffered(waiting, current, Incoming')
             ELSE rows' = Merge(Merge(current, Incoming'), waiting) /\ buffer' = <<>>
          /\ taken' = (IF stays THEN taken ELSE {}) \cup ToSet(Incoming')

\* The listener of the append bus.
AppendLive(m) ==
  /\ IF Held
     THEN buffer' = Buffered(buffer, rows, <<m>>) /\ UNCHANGED rows
     ELSE rows' = Merge(rows, <<m>>) /\ UNCHANGED buffer
  /\ taken' = taken \cup {m}

-------------------------------------------------------------------------------
(* The server.                                                              *)

RecordTraced(m) ==
  /\ m \notin ToSet(timeline[TraceOf[m]])
  /\ timeline' = [timeline EXCEPT ![TraceOf[m]] = Append(@, m)]
  /\ UNCHANGED <<published, notices, faults, userVars, linkVars, resyncTimer, queryVars,
                 feedVars>>

\* A message is published after it is recorded, in an order of its own (Emission).
PublishTraced(m) ==
  /\ m \in ToSet(timeline[TraceOf[m]]) \ ToSet(Begun[TraceOf[m]])
  /\ m \notin ToSet(published)
  /\ published' = Append(published, m)
  /\ UNCHANGED <<timeline, notices, faults, userVars, linkVars, resyncTimer, queryVars,
                 feedVars>>

\* Three agents are registered within half a second, or another client's cursor is lost.
PublishNotice(type) ==
  /\ notices < MaxNotices
  /\ notices' = notices + 1
  /\ published' = Append(published, type)
  /\ UNCHANGED <<timeline, faults, userVars, linkVars, resyncTimer, queryVars, feedVars>>

-------------------------------------------------------------------------------
(* The bridge.                                                              *)

\* The connection is opened: beginReplayBurst().
Connect ==
  /\ link = "connecting"
  /\ link' = "open"
  /\ replayBurst' = TRUE
  /\ UNCHANGED <<next, catchUp, serverVars, faults, userVars, resyncTimer, queryVars, feedVars>>

\* EventSource comes back with the id of the last event it was given.
Disconnect ==
  /\ link = "open" /\ faults < MaxFaults
  /\ faults' = faults + 1
  /\ link' = "connecting"
  /\ UNCHANGED <<next, replayBurst, catchUp, serverVars, userVars, resyncTimer>>
  /\ UNCHANGED <<queryVars, feedVars>>

\* finishReplayBurst(): no event for 800 ms, or ten seconds after the connection was opened.
FinishReplayBurst ==
  /\ replayBurst
  /\ replayBurst' = FALSE
  /\ UNCHANGED <<link, next, catchUp, serverVars, faults, userVars, resyncTimer>>
  /\ UNCHANGED <<queryVars, feedVars>>

FinishCatchUp ==
  /\ catchUp
  /\ catchUp' = FALSE
  /\ UNCHANGED <<link, next, replayBurst, serverVars, faults, userVars, resyncTimer, queryVars,
                 feedVars>>

Delivered == published[next]

TakeEvent ==
  /\ link = "open" /\ next <= Len(published)
  /\ next' = next + 1
  /\ UNCHANGED <<link, replayBurst, serverVars, faults, userVars, queryVars>>

\* message.appended: ignored when it is of another trace or comes in a burst, else fed, with
\* scheduleDebouncedResync().
OnMessage ==
  /\ TakeEvent
  /\ Delivered \in Messages
  /\ IF TraceOf[Delivered] = selected /\ ~replayBurst /\ ~catchUp
     THEN AppendLive(Delivered) /\ resyncTimer' = TRUE
     ELSE UNCHANGED <<feedVars, resyncTimer>>
  /\ UNCHANGED catchUp

\* noteCatchUpAgentRegistered(): the third one begins a catch-up burst, which clears the
\* pending resync.
OnAgents ==
  /\ TakeEvent
  /\ Delivered = "agents"
  /\ IF replayBurst \/ catchUp
     THEN UNCHANGED <<catchUp, resyncTimer>>
     ELSE catchUp' = TRUE /\ resyncTimer' = FALSE
  /\ UNCHANGED feedVars

OnResync ==
  /\ TakeEvent
  /\ Delivered = "resync"
  /\ resyncTimer' = IF replayBurst THEN resyncTimer ELSE ~catchUp
  /\ UNCHANGED <<catchUp, feedVars>>

-------------------------------------------------------------------------------
(* The snapshot.                                                            *)

\* A fetch under way is cancelled, except the first one of a trace.  After a failed first
\* one the query is pending once more, and shows what it did before.
Refetch ==
  /\ fetching' = IF cache[selected] = Undefined /\ fetching # "no" THEN fetching ELSE "asked"
  /\ failed' = IF cache[selected] = Undefined THEN failed \ {selected} ELSE failed
  /\ answer' = IF fetching' = fetching THEN answer ELSE Undefined
  /\ UNCHANGED <<cache, lastShown>>

\* invalidateQueries()
ResyncFires ==
  /\ resyncTimer
  /\ resyncTimer' = FALSE
  /\ invalidated' = {t \in Traces : cache[t] # Undefined}
  /\ Refetch
  /\ UNCHANGED <<serverVars, faults, userVars, linkVars>>
  /\ Render

\* The status of a trace: completed or failed when its last message is a task_response.
Finished(t, length) == timeline[t][length] \in Responses

\* resolveConsoleSnapshotPollIntervalMs(): only a running trace is polled.
Polls ==
  /\ liveEnabled /\ Data # Undefined
  /\ ~Finished(selected, Data.seen[selected])

\* Mutant: no polls while the stream is open.
PollWithoutStream ==
  /\ Polls /\ fetching = "no" /\ link # "open"
  /\ fetching' = "asked"
  /\ UNCHANGED <<cache, invalidated, failed, lastShown, answer, serverVars, faults, userVars,
                 linkVars, resyncTimer, feedVars>>

PollSnapshot ==
  /\ Polls /\ fetching = "no"
  /\ fetching' = "asked"
  /\ UNCHANGED <<cache, invalidated, failed, lastShown, answer, serverVars, faults, userVars,
                 linkVars, resyncTimer, feedVars>>

\* buildObservabilitySnapshot()
ServeSnapshot ==
  /\ fetching = "asked"
  /\ fetching' = "answered"
  /\ answer' = [t \in Traces |-> Len(timeline[t])]
  /\ UNCHANGED <<cache, invalidated, failed, lastShown, serverVars, faults, userVars, linkVars,
                 resyncTimer, feedVars>>

ReceiveSnapshot ==
  /\ fetching = "answered"
  /\ fetching' = "no" /\ answer' = Undefined
  /\ cache' = [cache EXCEPT ![selected] = answer]
  /\ invalidated' = invalidated \ {selected}
  /\ failed' = failed \ {selected}
  /\ lastShown' = selected
  /\ UNCHANGED <<serverVars, faults, userVars, linkVars, resyncTimer>>
  /\ Render

\* It is not tried again (retry: false), and the query counts as invalidated.
FetchFails ==
  /\ fetching # "no" /\ faults < MaxFaults
  /\ faults' = faults + 1
  /\ fetching' = "no" /\ answer' = Undefined
  /\ failed' = failed \cup {selected}
  /\ invalidated' = invalidated \cup {t \in {selected} : cache[t] # Undefined}
  /\ UNCHANGED <<cache, lastShown, serverVars, userVars, linkVars, resyncTimer>>
  /\ Render

-------------------------------------------------------------------------------
(* The user.                                                                *)

Mounted == link # "closed" \/ ~liveEnabled

\* The effects of the first render: the stream is opened, and the snapshot is fetched.
Mount ==
  /\ ~Mounted
  /\ link' = "connecting"
  /\ fetching' = "asked"
  /\ UNCHANGED <<next, replayBurst, catchUp, cache, invalidated, failed, lastShown, answer,
                 serverVars, faults, userVars, resyncTimer, feedVars>>

Click == Mounted /\ clicks < MaxClicks /\ clicks' = clicks + 1

\* Another trace: its snapshot is fetched when there is none or it is invalidated, and only
\* then (staleTime); the fetch of the other one is cancelled.  The panel resumes the feed.
SelectTrace(t) ==
  /\ Click /\ t # selected
  /\ selected' = t
  /\ paused' = FALSE
  /\ fetching' = IF cache[t] = Undefined \/ t \in invalidated THEN "asked" ELSE "no"
  /\ answer' = Undefined
  /\ failed' = IF cache[t] = Undefined THEN failed \ {t} ELSE failed
  /\ lastShown' = IF cache[t] = Undefined THEN lastShown ELSE t
  /\ UNCHANGED <<liveEnabled, cache, invalidated, serverVars, faults, linkVars, resyncTimer>>
  /\ Render

\* Live off closes the stream; on opens a new one, without a cursor.
ToggleLive ==
  /\ Click
  /\ liveEnabled' = ~liveEnabled
  /\ link' = IF liveEnabled THEN "closed" ELSE "connecting"
  /\ next' = 1
  /\ replayBurst' = (replayBurst /\ ~liveEnabled)
  /\ UNCHANGED <<selected, paused, catchUp, serverVars, faults, resyncTimer, queryVars>>
  /\ Render

TogglePause ==
  /\ Click
  /\ paused' = ~paused
  /\ UNCHANGED <<selected, liveEnabled, serverVars, faults, linkVars, resyncTimer, queryVars>>
  /\ Render

Refresh ==
  /\ Click
  /\ Refetch
  /\ UNCHANGED <<selected, liveEnabled, paused, invalidated, serverVars, faults, linkVars,
                 resyncTimer>>
  /\ Render

-------------------------------------------------------------------------------
ConsoleNext ==
  \/ \E m \in Messages : RecordTraced(m) \/ PublishTraced(m)
  \/ \E type \in {"agents", "resync"} : PublishNotice(type)
  \/ Mount \/ Connect \/ Disconnect \/ FinishReplayBurst \/ FinishCatchUp
  \/ OnMessage \/ OnAgents \/ OnResync \/ ResyncFires
  \/ PollSnapshot \/ ServeSnapshot \/ ReceiveSnapshot \/ FetchFails
  \/ \E t \in Traces : SelectTrace(t)
  \/ ToggleLive \/ TogglePause \/ Refresh

\* The poll timer fires, and a fetch is answered: one of the three is due at a time.
ConsoleFairness == WF_consoleVars(PollSnapshot \/ ServeSnapshot \/ ReceiveSnapshot)

ConsoleSpec == ConsoleInit /\ [][ConsoleNext]_consoleVars /\ ConsoleFairness

-------------------------------------------------------------------------------
(* Properties.                                                              *)

\* Whatever the order of polls, live messages, pauses and failures: the feed shows or holds
\* back each message once, and everything it was given since the trace was selected or the
\* console was offline, all of the snapshot included; it holds nothing back unless paused.
\* (It may show more: FeedOfSelectedTrace.)
FeedExact ==
  /\ \A i, j \in DOMAIN (rows \o buffer) : (rows \o buffer)[i] = (rows \o buffer)[j] => i = j
  /\ taken \subseteq ToSet(rows \o buffer)
  /\ selected \notin failed => ToSet(Incoming) \subseteq ToSet(rows \o buffer)
  /\ buffer # <<>> => Held

\* The messages of the selected trace that the bursts have swallowed, or that were lost with
\* the stream, are shown after all, as long as the console polls.
Behind == ~(ToSet(timeline[selected]) \subseteq ToSet(rows \o buffer))

CaughtUp == Polls /\ Behind ~> ~Behind \/ ~Polls

\* The feed shows messages of the selected trace only.
FeedOfSelectedTrace == \A m \in ToSet(rows \o buffer) : TraceOf[m] = selected

===============================================================================
