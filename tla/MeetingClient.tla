---------------------------- MODULE MeetingClient ----------------------------
(***************************************************************************)
(* The browser's side of the gateway's WebSocket: the client of            *)
(* src/frontend/src/lib/wsClient.ts, its React hook useWebSocket.ts, and   *)
(* the agent requests of hooks/useMeeting.ts.                              *)
(*                                                                         *)
(* JavaScript runs one callback at a time, so a user's call, a timer and   *)
(* an event of a socket are one step each.  Sockets are numbered in the    *)
(* order in which connect() makes them; sockets[k] is the readyState as    *)
(* the browser reports it, and a socket's close event is the step that     *)
(* makes it "closed".  Requests are numbered too.  Only agent prompts,     *)
(* their replies and errors are messages here: meeting control is the      *)
(* subject of Gateway.                                                     *)
(*                                                                         *)
(* A definition marked (mutant) is a plausible bug that a property must    *)
(* catch; no specification uses it.                                        *)
(***************************************************************************)
EXTENDS Naturals, Sequences, FiniteSets

CONSTANTS
    MaxSockets,   \* bound on connect() calls that make a socket
    MaxRequests,  \* bound on prompts
    MaxCalls,     \* bound on prepare(), start() and stop()
    MaxFailures   \* bound on sockets that fail or are dropped, and on error messages

ASSUME ClientAssumption ==
    MaxSockets \in Nat /\ MaxRequests \in Nat /\ MaxCalls \in Nat /\ MaxFailures \in Nat

VARIABLES
    ws,           \* the variable ws: number of a socket, or Null
    sockets,      \* readyState of every socket made so far
    status,       \* currentStatus
    intentional,  \* intentionalClose
    timers,       \* reconnect timers that are armed
    tracked,      \* reconnectTimer refers to one of them
    up, down,     \* messages on their way to and from the server, by socket
    pending,      \* pendingAgentRequests: new ones go to its end, so it is in their order
    rendered,     \* pendingAgentRequests and isConnected as of the last render
    delayed,      \* requests whose send() waits for its 400 ms timer
    stopTimers,   \* stop() calls whose 300 ms timer is armed
    prompts,      \* how many prompts the user has sent
    calls,        \* how often the user has done something else
    failures,     \* how often something has failed
    answered,     \* agentChat: requests for which a reply or an error is shown
    lost,         \* history: requests whose message or reply was thrown away
    mishaps       \* history: what went wrong, see the properties

clientVars == <<ws, sockets, status, intentional, timers, tracked, up, down, pending,
                rendered, delayed, stopTimers, prompts, calls, failures, answered, lost, mishaps>>
counts == <<calls, failures>>
socketVars == <<ws, sockets, status, intentional, timers, tracked>>
requestVars == <<pending, rendered, delayed, prompts, answered>>

\* Messages other than a prompt and its reply have the number 0, as have no socket
\* and no request.
Null == 0
Handshake == 0
LaneError == 0
Requests == 1..MaxRequests
Sockets == 1..MaxSockets
Live == {k \in DOMAIN sockets : sockets[k] \in {"connecting", "open"}}

UserCalls == calls < MaxCalls /\ calls' = calls + 1
Fails == failures < MaxFailures /\ failures' = failures + 1

Mishap == {"lateClose", "twoTimers"}

ClientTypeOK ==
    /\ ws \in {Null} \union DOMAIN sockets
    /\ sockets \in Seq({"connecting", "open", "closing", "closed"})
    /\ status \in {"disconnected", "connecting", "connected"}
    /\ intentional \in BOOLEAN /\ tracked \in BOOLEAN
    /\ timers \in Nat /\ stopTimers \in Nat
    /\ tracked => timers > 0
    /\ up \in [Sockets -> Seq({Handshake} \union Requests)]
    /\ down \in [Sockets -> Seq({LaneError} \union Requests)]
    /\ pending \subseteq Requests
    /\ rendered \in [pending : SUBSET Requests, connected : BOOLEAN]
    /\ delayed \subseteq Requests
    /\ prompts \in 0..MaxRequests /\ calls \in 0..MaxCalls /\ failures \in 0..MaxFailures
    /\ answered \subseteq Requests
    /\ lost \subseteq Requests /\ mishaps \subseteq Mishap

\* The page has been loaded: createWSClient() and the initial state of the hook.
ClientInit ==
    /\ ws = Null /\ sockets = <<>> /\ status = "disconnected"
    /\ intentional = FALSE /\ timers = 0 /\ tracked = FALSE
    /\ up = [k \in Sockets |-> <<>>] /\ down = [k \in Sockets |-> <<>>]
    /\ pending = {} /\ rendered = [pending |-> {}, connected |-> FALSE]
    /\ delayed = {} /\ stopTimers = 0
    /\ prompts = 0 /\ calls = 0 /\ failures = 0 /\ answered = {}
    /\ lost = {} /\ mishaps = {}
-----------------------------------------------------------------------------
\* The early return of connect().
HasSocket == ws # Null /\ sockets[ws] \in {"connecting", "open"}

\* connect(): clears intentionalClose in any case.
ConnectCall ==
    /\ intentional' = FALSE
    /\ IF HasSocket THEN UNCHANGED <<ws, sockets, status>>
       ELSE /\ Len(sockets) < MaxSockets
            /\ sockets' = Append(sockets, "connecting")
            /\ ws' = Len(sockets) + 1
            /\ status' = "connecting"

\* send(): dropped unless the current socket is open.
CanSend == ws # Null /\ sockets[ws] = "open"

SendCall(r) ==
    IF CanSend THEN up' = [up EXCEPT ![ws] = Append(@, r)] /\ lost' = lost
    ELSE lost' = lost \union {r} /\ up' = up

\* prepare() and start() connect at once; what they send later is not a prompt.
Open ==
    /\ UserCalls
    /\ ConnectCall
    /\ UNCHANGED <<timers, tracked, up, down, requestVars, stopTimers, failures, lost, mishaps>>

\* sendAgentPrompt(): sends at once if the rendered status is "connected",
\* else connects and sends 400 ms later, whatever has become of the socket.
Prompt ==
    LET r == prompts + 1
    IN  /\ r \in Requests
        /\ prompts' = r
        /\ pending' = pending \union {r}
        /\ IF rendered.connected
           THEN SendCall(r) /\ UNCHANGED <<ws, sockets, status, intentional, delayed>>
           ELSE /\ ConnectCall
                /\ delayed' = delayed \union {r}
                /\ UNCHANGED <<up, lost>>
        /\ UNCHANGED <<timers, tracked, down, rendered, stopTimers, counts, answered, mishaps>>

SendLater(r) ==
    /\ r \in delayed
    /\ delayed' = delayed \ {r}
    /\ SendCall(r)
    /\ UNCHANGED <<socketVars, down, pending, rendered, stopTimers, prompts, counts, answered, mishaps>>

\* stop() disconnects 300 ms later.
Stop ==
    /\ UserCalls
    /\ stopTimers' = stopTimers + 1
    /\ UNCHANGED <<socketVars, up, down, requestVars, failures, lost, mishaps>>

TimersKept == timers  \* (mutant) clearTimeout is missing

\* clearTimeout(reconnectTimer): the newest timer, if it is still armed.
TimersCleared == IF tracked THEN timers - 1 ELSE timers

\* disconnect().  What the server has sent is no longer delivered.
Disconnect ==
    /\ stopTimers > 0
    /\ stopTimers' = stopTimers - 1
    /\ intentional' = TRUE
    /\ timers' = TimersCleared /\ tracked' = FALSE
    /\ ws' = Null /\ status' = "disconnected"
    /\ sockets' = IF ws # Null THEN [sockets EXCEPT ![ws] = "closing"] ELSE sockets
    /\ UNCHANGED <<up, down, requestVars, counts, lost, mishaps>>
-----------------------------------------------------------------------------
\* onopen: the handshake goes to whatever socket ws refers to now.
SocketOpens(k) ==
    /\ k \in DOMAIN sockets
    /\ sockets[k] = "connecting"
    /\ sockets' = [sockets EXCEPT ![k] = "open"]
    /\ status' = "connected"
    /\ up' = IF ws # Null /\ sockets'[ws] = "open"
             THEN [up EXCEPT ![ws] = Append(@, Handshake)] ELSE up
    /\ UNCHANGED <<ws, intentional, timers, tracked, down, requestVars, stopTimers, counts,
                   lost, mishaps>>

SchedulesOnceOpen ==  \* (mutant) only a connection that was made is made again
    ~intentional /\ status = "connected"

\* The early return of scheduleReconnect().
Schedules == ~intentional

\* onclose, of a socket that fails to open, is dropped, or was closed by
\* disconnect(): ws is reset even if it refers to a newer socket by now.
SocketCloses(k) ==
    /\ k \in DOMAIN sockets
    /\ sockets[k] # "closed"
    /\ IF sockets[k] = "closing" THEN UNCHANGED failures ELSE Fails
    /\ sockets' = [sockets EXCEPT ![k] = "closed"]
    /\ ws' = Null /\ status' = "disconnected"
    /\ IF Schedules THEN timers' = timers + 1 /\ tracked' = TRUE
       ELSE UNCHANGED <<timers, tracked>>
    /\ lost' = lost \union {r \in Requests : \E i \in DOMAIN down[k] : down[k][i] = r}
    /\ down' = [down EXCEPT ![k] = <<>>]
    /\ mishaps' = mishaps
           \union (IF ws # Null /\ ws # k THEN {"lateClose"} ELSE {})
           \union (IF Schedules /\ timers > 0 THEN {"twoTimers"} ELSE {})
    /\ UNCHANGED <<intentional, up, requestVars, stopTimers, calls>>

\* The reconnect timer.  Which of several fires makes no difference, except that
\* reconnectTimer refers to the newest.
ReconnectFires ==
    /\ timers > 0
    /\ timers' = timers - 1
    /\ tracked' \in {t \in BOOLEAN : t => tracked /\ timers > 1}
    /\ ConnectCall
    /\ UNCHANGED <<up, down, requestVars, stopTimers, counts, lost, mishaps>>
-----------------------------------------------------------------------------
PendingKept(r) == pending  \* (mutant) the request is not filtered out

\* setPendingAgentRequests(filter).
Settled(r) == pending \ {r}

\* The handler of agent.reply.
ReplyArrives(k, r) ==
    /\ answered' = answered \union {r}
    /\ pending' = Settled(r)

\* The handler of error blames the first request of the list it closes over, the
\* one of the last render.
ErrorArrives ==
    IF rendered.pending = {} THEN UNCHANGED <<answered, pending>>
    ELSE \E r \in rendered.pending :
           /\ \A q \in rendered.pending : r <= q
           /\ answered' = answered \union {r}
           /\ pending' = pending \ {r}

\* onmessage: only an open socket delivers, also one that ws has forgotten.
Deliver(k) ==
    /\ k \in DOMAIN sockets
    /\ sockets[k] = "open" /\ down[k] # <<>>
    /\ IF Head(down[k]) = LaneError THEN ErrorArrives ELSE ReplyArrives(k, Head(down[k]))
    /\ down' = [down EXCEPT ![k] = Tail(@)]
    /\ UNCHANGED <<socketVars, up, rendered, delayed, stopTimers, prompts, counts, lost, mishaps>>

\* React renders and runs its effects: the handlers are subscribed anew.
Render ==
    /\ rendered # [pending |-> pending, connected |-> status = "connected"]
    /\ rendered' = [pending |-> pending, connected |-> status = "connected"]
    /\ UNCHANGED <<socketVars, up, down, pending, delayed, stopTimers, prompts, counts, answered,
                   lost, mishaps>>

ClientTimers ==
    \/ \E r \in Requests : SendLater(r)
    \/ Disconnect
    \/ ReconnectFires
    \/ Render

UserActs == Open \/ Prompt \/ Stop
=============================================================================
