------------------------------ MODULE RemoteCalls ------------------------------
(***************************************************************************)
(* sendTask() of the remote clients (sdk/typescript AgentClient, sdk/python *)
(* AgentClient) by one agent that has a mailbox on the server: the POST of *)
(* the task with its retries, and the polls of the mailbox until an answer *)
(* to the task or the deadline, over a network that delays and loses       *)
(* requests and answers; with the two routes they use.                     *)
(*                                                                         *)
(* A request or an answer that is never taken from the network is lost; a  *)
(* client gives an attempt up when its timer fires or the connection       *)
(* breaks, at any time, whatever happens to the attempt on the server: the *)
(* route that waits for a message does not notice that its client is gone. *)
(***************************************************************************)
EXTENDS Naturals, FiniteSets, Sequences, SequencesExt, Functions

CONSTANTS
  Calls,       \* the calls of sendTask(), each with a message id of its own
  Attempts,    \* for each call, the attempts of an HTTP request: maxAttempts,
               \* 1 with retryPolicy false, max_retries + 1 in Python
  RetriesHttp, \* the calls whose client retries a status of 500 and above
  NoMessage,   \* no message: HTTP 204
  MaxPolls     \* bound: for each call, its polls

ASSUME RemoteConstants ==
  /\ Attempts \in [Calls -> Nat \ {0}]
  /\ RetriesHttp \subseteq Calls
  /\ NoMessage \notin Calls /\ (Calls \cup {NoMessage}) \cap {"ok", "404", "5xx"} = {}
  /\ MaxPolls \in [Calls -> Nat \ {0}]

VARIABLES
  stage,     \* "new", "posting", "polling", "waiting" for a poll, and how the call ended:
             \* "answered", "timed out", "failed"
  attempt,   \* number of the attempt of the current request
  request,   \* number of HTTP requests the call has made
  polls,     \* number of polls
  expired,   \* whether the deadline has passed
  upstream,  \* requests on their way to the server
  answers,   \* HTTP answers on their way back
  mailbox,   \* the queue of the agent's mailbox: the calls that the messages answer
  waiters,   \* the requests that wait on it
  routed,    \* copies of the task the server has routed
  responses, \* task_responses the server has routed back
  missed     \* messages read by a call that they do not answer

remoteVars == <<stage, attempt, request, polls, expired, upstream, answers, mailbox, waiters,
                routed, responses, missed>>

RemoteInit ==
  /\ stage = [c \in Calls |-> "new"]
  /\ attempt = [c \in Calls |-> 0]
  /\ request = [c \in Calls |-> 0]
  /\ polls = [c \in Calls |-> 0]
  /\ expired = [c \in Calls |-> FALSE]
  /\ upstream = {}
  /\ answers = {}
  /\ mailbox = <<>>
  /\ waiters = <<>>
  /\ routed = [c \in Calls |-> 0]
  /\ responses = [c \in Calls |-> 0]
  /\ missed = [c \in Calls |-> 0]

Over == {"answered", "timed out", "failed"}

\* fetch() of attempt n.
Fetch(c, n) ==
  /\ attempt' = [attempt EXCEPT ![c] = n]
  /\ request' = [request EXCEPT ![c] = @ + 1]
  /\ upstream' = upstream \cup {[call |-> c, n |-> request[c] + 1, poll |-> stage'[c] = "waiting"]}

NoFetch == UNCHANGED <<attempt, request, upstream>>

\* sendTask(): buildTaskRequest() and send().
SendTask(c) ==
  /\ stage[c] = "new"
  /\ stage' = [stage EXCEPT ![c] = "posting"]
  /\ Fetch(c, 1)
  /\ UNCHANGED <<polls, expired, answers, mailbox, waiters, routed, responses, missed>>

\* Mutant: one attempt more than the policy says.
RetryOnceMore(c, retryable) ==
  IF retryable /\ attempt[c] <= Attempts[c]
  THEN UNCHANGED stage /\ Fetch(c, attempt[c] + 1)
  ELSE stage' = [stage EXCEPT ![c] = "failed"] /\ NoFetch

\* executeWithRetry() after a failed attempt: again, with the same body, or the error is
\* thrown to the caller.
RetryOrFail(c, retryable) ==
  IF retryable /\ attempt[c] < Attempts[c]
  THEN UNCHANGED stage /\ Fetch(c, attempt[c] + 1)
  ELSE stage' = [stage EXCEPT ![c] = "failed"] /\ NoFetch

\* Mutant: the request of a poll has no timer.
PostAttemptFails(c) ==
  /\ stage[c] = "posting"
  /\ RetryOrFail(c, TRUE)
  /\ UNCHANGED <<polls, expired, answers, mailbox, waiters, routed, responses, missed>>

\* The timer of the attempt fires or the connection breaks: TIMEOUT, NETWORK_ERROR.
AttemptFails(c) ==
  /\ stage[c] \in {"posting", "waiting"}
  /\ RetryOrFail(c, TRUE)
  /\ UNCHANGED <<polls, expired, answers, mailbox, waiters, routed, responses, missed>>

-------------------------------------------------------------------------------
(* The server.                                                              *)

Answered(r, body) == answers \cup {[call |-> r.call, n |-> r.n, body |-> body]}

\* POST /send-message routes a task to an agent's handler or mailbox.
RouteTask(r) ==
  /\ ~r.poll
  /\ upstream' = upstream \ {r}
  /\ routed' = [routed EXCEPT ![r.call] = @ + 1]
  /\ answers' = Answered(r, "ok")
  /\ UNCHANGED <<stage, attempt, request, polls, expired, mailbox, waiters, responses, missed>>

\* It refuses one: no recipient (404), or a closed bus or a failed delivery (503, 502).
RefuseTask(r, status) ==
  /\ ~r.poll
  /\ upstream' = upstream \ {r}
  /\ answers' = Answered(r, status)
  /\ UNCHANGED <<stage, attempt, request, polls, expired, mailbox, waiters, routed, responses,
                 missed>>

\* A worker answers a copy of a task: deliverToMailbox() hands the message to the waiter
\* that has waited longest, or queues it.
Respond(c) ==
  /\ responses[c] < routed[c]
  /\ responses' = [responses EXCEPT ![c] = @ + 1]
  /\ IF waiters # <<>>
     THEN /\ answers' = Answered(Head(waiters), c)
          /\ waiters' = Tail(waiters)
          /\ UNCHANGED mailbox
     ELSE /\ mailbox' = Append(mailbox, c)
          /\ UNCHANGED <<answers, waiters>>
  /\ UNCHANGED <<stage, attempt, request, polls, expired, upstream, routed, missed>>

\* Mutant: waitForMessage() leaves what it returns in the queue.
ServePollPeek(r) ==
  /\ r.poll
  /\ upstream' = upstream \ {r}
  /\ IF mailbox # <<>>
     THEN answers' = Answered(r, Head(mailbox)) /\ UNCHANGED <<mailbox, waiters>>
     ELSE waiters' = Append(waiters, r) /\ UNCHANGED <<answers, mailbox>>
  /\ UNCHANGED <<stage, attempt, request, polls, expired, routed, responses, missed>>

\* GET /agent/:id/messages: waitForMessage().
ServePoll(r) ==
  /\ r.poll
  /\ upstream' = upstream \ {r}
  /\ IF mailbox # <<>>
     THEN answers' = Answered(r, Head(mailbox)) /\ mailbox' = Tail(mailbox) /\ UNCHANGED waiters
     ELSE waiters' = Append(waiters, r) /\ UNCHANGED <<answers, mailbox>>
  /\ UNCHANGED <<stage, attempt, request, polls, expired, routed, responses, missed>>

\* The timer of waitForMessage(): 204.
WaitEnds(i) ==
  /\ answers' = Answered(waiters[i], NoMessage)
  /\ waiters' = RemoveAt(waiters, i)
  /\ UNCHANGED <<stage, attempt, request, polls, expired, upstream, mailbox, routed, responses,
                 missed>>

-------------------------------------------------------------------------------
(* The answers.                                                             *)

\* The connection of an earlier attempt is closed: its answer is not read.
Read(a) == a.n = request[a.call] /\ stage[a.call] \in {"posting", "waiting"}

\* The answer to the POST: a status of 500 and above is retried by TypeScript's client only,
\* the other refusals by none.
PostAnswered(a) ==
  /\ Read(a) /\ stage[a.call] = "posting"
  /\ answers' = answers \ {a}
  /\ IF a.body = "ok"
     THEN stage' = [stage EXCEPT ![a.call] = "polling"] /\ NoFetch
     ELSE RetryOrFail(a.call, a.body = "5xx" /\ a.call \in RetriesHttp)
  /\ UNCHANGED <<polls, expired, mailbox, waiters, routed, responses, missed>>

\* The deadline of waitForTaskResponse() passes.
Expire(c) ==
  /\ stage[c] \in {"polling", "waiting"} /\ ~expired[c]
  /\ expired' = [expired EXCEPT ![c] = TRUE]
  /\ UNCHANGED <<stage, attempt, request, polls, upstream, answers, mailbox, waiters, routed,
                 responses, missed>>

\* The head of its loop: receiveMessage(), or RESPONSE_TIMEOUT.
Poll(c) ==
  /\ stage[c] = "polling" /\ ~expired[c] /\ polls[c] < MaxPolls[c]
  /\ stage' = [stage EXCEPT ![c] = "waiting"]
  /\ polls' = [polls EXCEPT ![c] = @ + 1]
  /\ Fetch(c, 1)
  /\ UNCHANGED <<expired, answers, mailbox, waiters, routed, responses, missed>>

TimeOut(c) ==
  /\ stage[c] = "polling" /\ expired[c]
  /\ stage' = [stage EXCEPT ![c] = "timed out"]
  /\ UNCHANGED <<attempt, request, polls, expired, upstream, answers, mailbox, waiters, routed,
                 responses, missed>>

\* The answer to a poll: a message that does not answer this call is dropped.
PollAnswered(a) ==
  /\ Read(a) /\ stage[a.call] = "waiting"
  /\ answers' = answers \ {a}
  /\ stage' = [stage EXCEPT ![a.call] = IF a.body = a.call THEN "answered" ELSE "polling"]
  /\ missed' = IF a.body \in {a.call, NoMessage} THEN missed
               ELSE [missed EXCEPT ![a.body] = @ + 1]
  /\ NoFetch
  /\ UNCHANGED <<polls, expired, mailbox, waiters, routed, responses>>

Timers(c) == AttemptFails(c) \/ Expire(c) \/ TimeOut(c)

RemoteNext ==
  \/ \E c \in Calls : SendTask(c) \/ Respond(c) \/ Poll(c) \/ Timers(c)
  \/ \E r \in upstream : RouteTask(r) \/ ServePoll(r)
  \/ \E r \in upstream, status \in {"404", "5xx"} : RefuseTask(r, status)
  \/ \E i \in DOMAIN waiters : WaitEnds(i)
  \/ \E a \in answers : PostAnswered(a) \/ PollAnswered(a)

\* The timers of a client fire; nothing is assumed of the network, the server or a worker.
RemoteFairness ==
  \A c \in Calls : /\ WF_remoteVars(AttemptFails(c))
                   /\ WF_remoteVars(Expire(c))
                   /\ WF_remoteVars(TimeOut(c))

RemoteSpec == RemoteInit /\ [][RemoteNext]_remoteVars /\ RemoteFairness

-------------------------------------------------------------------------------
(* Properties.                                                              *)

\* deliveryGuarantee: without retries a task is routed at most once; in any case at most
\* once per attempt; and it has been routed when send() resolves, or an answer arrives.
GuaranteeKept ==
  \A c \in Calls :
    /\ routed[c] <= Attempts[c]
    /\ stage[c] \in {"polling", "waiting", "answered", "timed out"} => routed[c] >= 1

\* No task_response is lost on the server or returned twice: each is in the mailbox, or in
\* an answer on its way or whose client had given that request up, or was read and dropped
\* by another call of the agent, or has answered its own call. So that is where the answer
\* of a call that timed out has gone.
ResponsesAccounted ==
  \A c \in Calls :
    responses[c] =
      Cardinality({i \in DOMAIN mailbox : mailbox[i] = c})
        + Cardinality({a \in answers : a.body = c})
        + missed[c] + (IF stage[c] = "answered" THEN 1 ELSE 0)

\* Whatever the network, the server and the workers do, sendTask() returns or throws: in the
\* end no call that was begun is still open.
CallsReturn == <>[](\A c \in Calls : stage[c] \in Over \cup {"new"})

===============================================================================
