------------------------------ MODULE PromptPath ------------------------------
(***************************************************************************)
(* An agent prompt on its whole way: from the meeting page (MeetingClient) *)
(* through the connection loop of src/src/gateway/server.py and the        *)
(* handler of src/src/gateway/router.py to a sub-agent (Orchestrator) and  *)
(* back.                                                                   *)
(*                                                                         *)
(* The loop of a connection awaits each dispatch, so a connection answers  *)
(* its messages one after the other, and goes on with a prompt of a client *)
(* that has left; the cap on sub-agents is shared by all connections.      *)
(***************************************************************************)
EXTENDS MeetingClient, Orchestrator

CONSTANT Prompts  \* what a prompt may ask for: the agent it names, its words' topics

ASSUME PromptPathAssumption ==
    /\ Sockets \subseteq Callers
    /\ Prompts \subseteq [agent : AgentTarget, topics : SUBSET Topics]

VARIABLE conns  \* the handler of each connection

vars == <<clientVars, orchestratorVars, conns>>

Conn == [phase : {"none", "receiving", "routing", "gone"}, bound : BOOLEAN,
         request : {Null} \union Requests]

TypeOK ==
    /\ ClientTypeOK
    /\ OrchestratorTypeOK
    /\ conns \in [Sockets -> Conn]

Init ==
    /\ ClientInit
    /\ OrchestratorInit
    /\ conns = [k \in Sockets |-> [phase |-> "none", bound |-> FALSE, request |-> Null]]
-----------------------------------------------------------------------------
Page(A) == A /\ UNCHANGED <<orchestratorVars, conns>>

\* The handshake of the socket succeeds on both sides: websocket_endpoint begins.
Accept(k) ==
    /\ SocketOpens(k)
    /\ conns' = [conns EXCEPT ![k].phase = "receiving"]
    /\ UNCHANGED orchestratorVars

\* send_json: what a socket that the browser has closed is sent is thrown away.
SendToClient(k, m) ==
    IF sockets[k] = "open" THEN down' = [down EXCEPT ![k] = Append(@, m)] /\ lost' = lost
    ELSE down' = down /\ lost' = lost \union ({m} \intersect Requests)

Received(k) == up' = [up EXCEPT ![k] = Tail(@)]

Receiving(k) == conns[k].phase = "receiving" /\ up[k] # <<>>

pageVars == <<socketVars, requestVars, stopTimers, calls, mishaps>>

\* _handle_connect: the connection is bound to a new session.
ReceiveConnect(k) ==
    /\ Receiving(k) /\ Head(up[k]) = Handshake
    /\ Received(k)
    /\ conns' = [conns EXCEPT ![k].bound = TRUE]
    /\ UNCHANGED <<pageVars, failures, down, lost, orchestratorVars>>

\* _handle_agent_prompt for a prompt that a sub-agent takes on: the loop waits.
ReceivePrompt(k, agent, hints) ==
    /\ Receiving(k) /\ Head(up[k]) # Handshake /\ conns[k].bound
    /\ Received(k)
    /\ Delegate(k, agent, hints)
    /\ conns' = [conns EXCEPT ![k].phase = "routing", ![k].request = Head(up[k])]
    /\ UNCHANGED <<pageVars, failures, down, lost>>

\* route_to_agent refuses, or cannot build the sub-agent: its reason is the reply.
RefusePrompt(k, agent) ==
    /\ Receiving(k) /\ Head(up[k]) # Handshake /\ conns[k].bound
    /\ \/ Refused(agent) /\ UNCHANGED orchestratorVars
       \/ DelegationFails(k, agent)
    /\ Received(k)
    /\ SendToClient(k, Head(up[k]))
    /\ UNCHANGED <<pageVars, failures, conns>>

\* The sub-agent of a connection works; the connection waits.
SubagentWorks(k) == SubagentActs(k) /\ UNCHANGED <<clientVars, conns>>

\* route_to_agent returns, and the reply is sent.
Reply(k, outcome) ==
    /\ conns[k].phase = "routing"
    /\ SubagentEnds(k, outcome)
    /\ SendToClient(k, conns[k].request)
    /\ conns' = [conns EXCEPT ![k].phase = "receiving", ![k].request = Null]
    /\ UNCHANGED <<pageVars, failures, up>>

\* _send_agent_output of a run of the connection's lane that failed: it may come
\* at any time, also while a prompt is being answered.
LaneFails(k) ==
    /\ Fails
    /\ conns[k].bound /\ conns[k].phase # "gone" /\ sockets[k] = "open"
    /\ SendToClient(k, LaneError)
    /\ UNCHANGED <<pageVars, up, orchestratorVars, conns>>

\* receive_json (or a send) raises once the client has closed the socket or is gone.
HangUp(k) ==
    /\ conns[k].phase = "receiving"
    /\ sockets[k] \in {"closing", "closed"}
    /\ conns' = [conns EXCEPT ![k].phase = "gone"]
    /\ up' = [up EXCEPT ![k] = <<>>]
    /\ lost' = lost \union {r \in Requests : \E i \in DOMAIN up[k] : up[k][i] = r}
    /\ UNCHANGED <<pageVars, failures, down, orchestratorVars>>

\* The agent and the skills are chosen as soon as the prompt is dispatched.
DispatchPrompt(k) ==
    \E p \in Prompts :
        LET agent == ResolvedAgent(p.agent, p.topics, "software-engineer")
        IN  ReceivePrompt(k, agent, ResolvedSkills(agent, p.topics)) \/ RefusePrompt(k, agent)

ServerActs(k) ==
    \/ ReceiveConnect(k)
    \/ DispatchPrompt(k)
    \/ SubagentWorks(k)
    \/ \E outcome \in Outcomes : Reply(k, outcome)
    \/ HangUp(k)

\* Nobody has anything left to do, whatever the bounds: the page is at rest.
Rest ==
    /\ timers = 0 /\ stopTimers = 0 /\ delayed = {}
    /\ \A k \in DOMAIN sockets : sockets[k] \in {"open", "closed"}
    /\ \A k \in Sockets : conns[k].phase # "routing" /\ up[k] = <<>> /\ down[k] = <<>>
    /\ UNCHANGED vars

Next ==
    \/ Page(UserActs)
    \/ Page(ClientTimers)
    \/ \E k \in Sockets : Accept(k)
    \/ \E k \in Sockets : Page(SocketCloses(k)) \/ Page(Deliver(k))
    \/ \E k \in Sockets : ServerActs(k) \/ LaneFails(k)
    \/ Rest

Spec == Init /\ [][Next]_vars

\* The page's event loop runs its timers and delivers the events of its sockets, of
\* which one that connects opens or fails, and one that is being closed is closed.
PageGoesOn ==
    \/ Page(ClientTimers)
    \/ \E k \in Sockets :
         \/ Accept(k)
         \/ Page(Deliver(k))
         \/ Page(SocketCloses(k) /\ sockets[k] # "open")

\* The server runs the task of each connection on, and a sub-agent's run ends.
LoopGoesOn(k) ==
    HangUp(k) \/ ReceiveConnect(k) \/ DispatchPrompt(k) \/ \E outcome \in Outcomes : Reply(k, outcome)

Fairness == WF_vars(PageGoesOn) /\ \A k \in Sockets : WF_vars(LoopGoesOn(k))

FairSpec == Spec /\ Fairness
-----------------------------------------------------------------------------
OnTheWay(r, channel) == \E k \in Sockets : \E i \in DOMAIN channel[k] : channel[k][i] = r
AtServer(r) == \E k \in Sockets : conns[k].request = r
Pending(r) == r \in pending

(* RequestsAccounted: a request that the page shows as waiting is delayed,   *)
(* on its way to a connection, with a sub-agent, on its way back, or thrown  *)
(* away with a closed socket; one that is no longer waiting has something to *)
(* show.  It spans the page, sockets that come and go, and the server, where *)
(* the slots taken are those of the sub-agents that exist, at most           *)
(* MaxSubagents, whichever way route_to_agent is left.                       *)
RequestsAccounted ==
    /\ \A r \in 1..prompts :
         IF Pending(r)
         THEN r \in delayed \/ OnTheWay(r, up) \/ AtServer(r) \/ OnTheWay(r, down) \/ r \in lost
         ELSE r \in answered
    /\ activeRuns = {c \in Callers : subagents[c] # NoSubagent}
    /\ Cardinality(activeRuns) <= MaxSubagents

(* OneSocket: no socket is live that the client has forgotten ("a single     *)
(* connection per meeting", wsClient.ts:4), unless the close event of an     *)
(* older socket came after a newer one was made.  After disconnect() nothing *)
(* is armed that would connect again, unless two reconnect timers were armed *)
(* at once: reconnectTimer refers to the newest only.  And no prompt reaches *)
(* a connection before its "connect", though onopen sends the handshake to   *)
(* whichever socket ws refers to.                                            *)
OneSocket ==
    /\ "lateClose" \notin mishaps => \A k \in Live : k = ws
    /\ intentional /\ "twoTimers" \notin mishaps => timers = 0
    /\ \A k \in Sockets : \A i \in DOMAIN up[k] :
         up[k][i] # Handshake =>
             conns[k].bound \/ \E j \in 1..(i - 1) : up[k][j] = Handshake

(* Reconnects: in the end a page that has connected and has not been told to *)
(* disconnect is connected, through failed and dropped sockets and late      *)
(* close events.  (Calls and failures are bounded, so there is an end.)      *)
Reconnects == <>[](sockets = <<>> \/ intentional \/ CanSend)

(* RequestsSettle: in the end no request waits but one that a socket, or its *)
(* reply, took along: a connection gets to every prompt, every sub-agent     *)
(* ends, and a reply settles its request whatever else is pending.           *)
RequestsSettle == <>[](\A r \in Requests : Pending(r) => r \in lost)
=============================================================================
