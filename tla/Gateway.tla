------------------------------- MODULE Gateway -------------------------------
(***************************************************************************)
(* The gateway: WebSocket connections (src/src/gateway/server.py), the     *)
(* message router (router.py), sessions (session.py), the registry of      *)
(* agents (src/src/engine/registry.py), and the part of the runner that    *)
(* joins them to agent runs: which agent a run gets and which listeners    *)
(* its output reaches (src/src/engine/runner.py).                          *)
(*                                                                         *)
(* Sessions are numbered as they are created, and session n has agent n    *)
(* and a lane of its own.  The digest hook enqueues on another lane, which *)
(* names the session and an agent "software-engineer" that nobody          *)
(* registers.  The cron jobs of a persona have a lane too; their first run *)
(* registers the agent "cron-<persona>", here the persona itself.          *)
(*                                                                         *)
(* Of the command queue only this is kept: a run takes messages that wait  *)
(* on one lane, the oldest first, and how many is left open.  Nothing      *)
(* keeps the runs of a lane apart: while permits are short, one can start  *)
(* before another is over (CommandQueue shows when).                       *)
(*                                                                         *)
(* The loop of a connection handles one message at a time; it waits while  *)
(* it sends a reply, and a send to a client that has gone raises.  Agent   *)
(* output is text, and text is the run that it comes from.  Messages that  *)
(* change no state (interim transcripts, memory queries, term feedback and *)
(* prompts, whose sub-agents live apart) are left out.                     *)
(*                                                                         *)
(* A definition marked (mutant) is a plausible bug that a property must    *)
(* catch; no specification uses it.                                        *)
(***************************************************************************)
EXTENDS Naturals, Sequences, FiniteSets

CONSTANTS
    Conns,         \* WebSocket connections
    Personas,      \* personas that have cron jobs
    MaxSessions,   \* bound on the sessions created
    MaxMessages,   \* bound on the messages enqueued
    ClientActions  \* what clients of the instance may do

ASSUME GatewayAssumption ==
    /\ MaxSessions \in Nat /\ MaxMessages \in Nat
    /\ \A p \in Personas : p \notin Nat
    /\ ClientActions \subseteq {"reconnect", "persona", "pause", "stop", "leave"}

VARIABLES
    conns,      \* connection -> the local state of websocket_endpoint
    status,     \* _sessions: the status of each session created
    laned,      \* sessions with an entry in _lane_keys
    agents,     \* AgentRegistry._agents, in order of creation
    listeners,  \* _output_listeners: lane -> connections
    enqueued,   \* messages enqueued so far
    waiting,    \* messages that wait for a run, each with its lane
    runs,       \* every agent run, in order of its start
    cards       \* history: cards sent to a client

vars == <<conns, status, laned, agents, listeners, enqueued, waiting, runs, cards>>

NoSession == 0
NoAgent == 0
Sessions == 1..MaxSessions
Status == {"active", "paused", "ended"}
Lane == [kind : {"own", "digest"}, of : Sessions] \union [kind : {"cron"}, of : Personas]
OwnLane(n) == [kind |-> "own", of |-> n]
DigestLane(n) == [kind |-> "digest", of |-> n]
CronLane(p) == [kind |-> "cron", of |-> p]
Message == [number : 1..MaxMessages, lane : Lane]

Conn == [state : {"new", "open", "replying", "gone"},
         session : Sessions \union {NoSession},    \* session_id
         lane : Sessions \union {NoSession},       \* the session of lane_key
         reply : Sessions \union {NoSession},      \* session of a pending reply
         made : SUBSET Sessions,                   \* history: sessions it created
         buffer : SUBSET (1..MaxMessages)]         \* current_text_buffer

Run == [lane : Lane, agent : Sessions \union Personas \union {NoAgent},
        phase : {"running", "sending", "end", "error"}]

TypeOK ==
    /\ conns \in [Conns -> Conn]
    /\ status \in Seq(Status)
    /\ laned \subseteq DOMAIN status
    /\ agents \in Seq(DOMAIN status \union Personas)
    /\ listeners \in [Lane -> SUBSET Conns]
    /\ enqueued \in 0..MaxMessages
    /\ waiting \subseteq Message
    /\ runs \in Seq(Run)
    /\ cards \subseteq [run : DOMAIN runs, text : SUBSET DOMAIN runs, to : Conns]

Init ==
    /\ conns = [c \in Conns |-> [state |-> "new", session |-> NoSession, lane |-> NoSession,
                                 reply |-> NoSession, made |-> {}, buffer |-> {}]]
    /\ status = <<>> /\ laned = {} /\ agents = <<>>
    /\ listeners = [l \in Lane |-> {}]
    /\ enqueued = 0 /\ waiting = {}
    /\ runs = <<>> /\ cards = {}

\* The loop of connection c waits for a message of its client.
Ready(c) == conns[c].state = "open"

\* The session of c, if the router knows it.
Bound(c) == Ready(c) /\ conns[c].session # NoSession

-----------------------------------------------------------------------------
Unrecorded ==  \* (mutant) the state is not stored in _sessions
    /\ Len(status) < MaxSessions
    /\ status' = status
    /\ agents' = Append(agents, Len(status) + 1)
    /\ laned' = laned \union {Len(status) + 1}

\* SessionManager.create_session: the session, its agent and its lane.
CreateSession ==
    /\ Len(status) < MaxSessions
    /\ status' = Append(status, "active")
    /\ agents' = Append(agents, Len(status) + 1)
    /\ laned' = laned \union {Len(status) + 1}

AgentStays(n, registered) == registered  \* (mutant) the agent is not removed

\* AgentRegistry.remove: the agent's entry leaves the dict, whose other entries
\* keep their order.
AgentRemoved(n, registered) ==
    IF \E i \in DOMAIN registered : registered[i] = n
    THEN LET at == CHOOSE i \in DOMAIN registered : registered[i] = n
         IN  SubSeq(registered, 1, at - 1) \o SubSeq(registered, at + 1, Len(registered))
    ELSE registered

\* SessionManager.end_session, also of a session that has ended before.
EndSession(n) ==
    /\ status' = [status EXCEPT ![n] = "ended"]
    /\ agents' = AgentRemoved(n, agents)
    /\ laned' = laned \ {n}

\* The client connects: ws.accept().
Accept(c) ==
    /\ conns[c].state = "new"
    /\ conns' = [conns EXCEPT ![c].state = "open"]
    /\ UNCHANGED <<status, laned, agents, listeners, enqueued, waiting, runs, cards>>

\* A connect message: the session is created, and the reply is being sent.
Connect(c) ==
    /\ Ready(c)
    /\ conns[c].session = NoSession \/ "reconnect" \in ClientActions
    /\ CreateSession
    /\ conns' = [conns EXCEPT ![c].state = "replying",
                              ![c].reply = Len(status'),
                              ![c].made = @ \union {Len(status')}]
    /\ UNCHANGED <<listeners, enqueued, waiting, runs, cards>>

\* on_output(lane_key): the lane whose output the connection gets.
ListensTo(n) == {OwnLane(n)}

\* The reply was sent: the connection is bound to the new session.
Bind(c) ==
    LET n == conns[c].reply
    IN  /\ conns[c].state = "replying"
        /\ conns' = [conns EXCEPT ![c].state = "open", ![c].reply = NoSession,
                                  ![c].session = n, ![c].lane = n]
        /\ listeners' = [l \in Lane |-> listeners[l] \union IF l \in ListensTo(n) THEN {c} ELSE {}]
        /\ UNCHANGED <<status, laned, agents, enqueued, waiting, runs, cards>>

\* CommandQueue.enqueue on a lane.
Enqueue(l) ==
    /\ enqueued < MaxMessages
    /\ enqueued' = enqueued + 1
    /\ waiting' = waiting \union {[number |-> enqueued + 1, lane |-> l]}

\* _handle_transcript and _handle_meeting_prepare: "if not lane_key".
HasLane(n) == n \in laned

\* A final transcript chunk, or a request to prepare the meeting.
Transcript(c) ==
    LET n == conns[c].session
    IN  /\ Bound(c)
        /\ HasLane(n)
        /\ Enqueue(OwnLane(n))
        /\ UNCHANGED <<conns, status, laned, agents, listeners, runs, cards>>

\* resume_session and pause_session.
Resumed(s) == IF s = "paused" THEN "active" ELSE s
Paused(s) == IF s = "active" THEN "paused" ELSE s

\* meeting.control "start" and "pause"; the hooks of both only log.
StartOrPause(c) ==
    /\ Bound(c) /\ "pause" \in ClientActions
    /\ \/ status' = [status EXCEPT ![conns[c].session] = Resumed(@)]
       \/ status' = [status EXCEPT ![conns[c].session] = Paused(@)]
    /\ UNCHANGED <<conns, laned, agents, listeners, enqueued, waiting, runs, cards>>

\* meeting.control "stop": end_session, then the hook enqueues the digest.
StopMeeting(c) ==
    /\ Bound(c) /\ "stop" \in ClientActions
    /\ EndSession(conns[c].session)
    /\ Enqueue(DigestLane(conns[c].session))
    /\ UNCHANGED <<conns, listeners, runs, cards>>

\* persona.select: the session is ended and a new one created, to which the
\* connection is not bound: only the reply to a connect message binds it.
SelectPersona(c) ==
    LET n == conns[c].session
    IN  /\ Bound(c) /\ "persona" \in ClientActions
        /\ Len(status) < MaxSessions
        /\ status' = Append([status EXCEPT ![n] = "ended"], "active")
        /\ agents' = Append(AgentRemoved(n, agents), Len(status) + 1)
        /\ laned' = (laned \ {n}) \union {Len(status) + 1}
        /\ conns' = [conns EXCEPT ![c].made = @ \union {Len(status) + 1}]
        /\ UNCHANGED <<listeners, enqueued, waiting, runs, cards>>

\* remove_output_listeners(lane_key): all listeners of the lane.
Silenced(l) == {}

\* receive_json or a send raises: the finally block of websocket_endpoint.  When
\* create_session raises (no model for the persona), in a connect message or after
\* a persona switch has ended the session, the connection ends here, too.
Disconnect(c) ==
    LET n == conns[c].session
    IN  /\ conns[c].state \in {"open", "replying"} /\ "leave" \in ClientActions
        /\ conns' = [conns EXCEPT ![c].state = "gone"]
        /\ IF n = NoSession
           THEN UNCHANGED <<status, laned, agents, listeners>>
           ELSE /\ EndSession(n)
                /\ listeners' = [listeners EXCEPT ![OwnLane(conns[c].lane)] = Silenced(OwnLane(conns[c].lane))]
        /\ UNCHANGED <<enqueued, waiting, runs, cards>>

\* _cron_enqueue: a cron job of persona p is due, or was triggered.
CronJob(p) ==
    /\ Enqueue(CronLane(p))
    /\ UNCHANGED <<conns, status, laned, agents, listeners, runs, cards>>

-----------------------------------------------------------------------------
HasAgent(a) == \E i \in DOMAIN agents : agents[i] = a

FirstAgent(l) ==  \* (mutant) the lookup by the lane's agent is missing
    IF agents # <<>> THEN Head(agents) ELSE NoAgent

\* _resolve_agent: the agent that the lane names, else the first one there is.
\* A cron lane has its agent created when there is none.
Resolved(l) ==
    IF l.kind = "cron" \/ (l.kind = "own" /\ HasAgent(l.of)) THEN l.of
    ELSE IF agents # <<>> THEN Head(agents) ELSE NoAgent

\* The registry after _resolve_agent.
Registered(l) ==
    IF l.kind = "cron" /\ ~HasAgent(l.of) THEN Append(agents, l.of) ELSE agents

RunOf(l, agent) ==
    [lane |-> l, agent |-> agent, phase |-> IF agent = NoAgent THEN "error" ELSE "running"]

\* A run takes messages of one lane, w the last of them.  Without an agent it
\* emits an error and is over; it also is when the creation of a cron agent raises.
StartRun(w) ==
    LET l == w.lane
    IN  /\ waiting' = waiting \ {v \in waiting : v.lane = l /\ v.number <= w.number}
        /\ \/ /\ agents' = Registered(l)
              /\ runs' = Append(runs, RunOf(l, Resolved(l)))
           \/ /\ l.kind = "cron" /\ ~HasAgent(l.of)
              /\ agents' = agents
              /\ runs' = Append(runs, RunOf(l, NoAgent))
        /\ UNCHANGED <<conns, status, laned, listeners, enqueued, cards>>

Hearers(r) == listeners[runs[r].lane]

\* A text_delta: every listener adds it to its buffer.
EmitText(r) ==
    /\ runs[r].phase = "running"
    /\ conns' = [c \in Conns |->
                    IF c \in Hearers(r) THEN [conns[c] EXCEPT !.buffer = @ \union {r}] ELSE conns[c]]
    /\ UNCHANGED <<status, laned, agents, listeners, enqueued, waiting, runs, cards>>

\* done: each listener splits its buffer into cards and sends them, unless its
\* client has gone (then the send raises and the buffer is not cleared).
EmitDone(r) ==
    /\ runs[r].phase = "running"
    /\ runs' = [runs EXCEPT ![r].phase = "sending"]
    /\ cards' = cards \union {[run |-> r, text |-> conns[c].buffer, to |-> c] :
                                 c \in {d \in Hearers(r) : conns[d].state # "gone"}}
    /\ UNCHANGED <<conns, status, laned, agents, listeners, enqueued, waiting>>

KeptText(c) == conns[c].buffer  \* (mutant) the buffer is not cleared

\* current_text_buffer[0] = "".
Cleared(c) == {}

\* The cards have been sent.
CardsSent(r) ==
    /\ runs[r].phase = "sending"
    /\ runs' = [runs EXCEPT ![r].phase = "end"]
    /\ conns' = [c \in Conns |->
                    IF c \in Hearers(r) /\ conns[c].state # "gone"
                    THEN [conns[c] EXCEPT !.buffer = Cleared(c)] ELSE conns[c]]
    /\ UNCHANGED <<status, laned, agents, listeners, enqueued, waiting, cards>>

\* The run fails: handle_run emits an error, on which the listener sends an
\* error message and leaves its buffer as it is.
EmitError(r) ==
    /\ runs[r].phase = "running"
    /\ runs' = [runs EXCEPT ![r].phase = "error"]
    /\ UNCHANGED <<conns, status, laned, agents, listeners, enqueued, waiting, cards>>

\* No client has anything left to say and every run is over.
Quiet ==
    /\ \A c \in Conns : conns[c].state \in {"open", "gone"}
    /\ waiting = {}
    /\ \A r \in DOMAIN runs : runs[r].phase \in {"end", "error"}
    /\ UNCHANGED vars

Next ==
    \/ \E c \in Conns : \/ Accept(c) \/ Connect(c) \/ Bind(c) \/ Transcript(c)
                        \/ StartOrPause(c) \/ StopMeeting(c) \/ SelectPersona(c)
                        \/ Disconnect(c)
    \/ \E p \in Personas : CronJob(p)
    \/ \E w \in waiting : StartRun(w)
    \/ \E r \in DOMAIN runs : EmitText(r) \/ EmitDone(r) \/ CardsSent(r) \/ EmitError(r)
    \/ Quiet

Spec == Init /\ [][Next]_vars
-----------------------------------------------------------------------------
(* AgentsMatchSessions: the registry has the agents of the sessions that     *)
(* have not ended and those that cron runs created, which stay, each once;   *)
(* and the sessions that have not ended are those with lanes: no order of    *)
(* connects, stops, persona switches, cron jobs and disconnects leaks a      *)
(* session's agent or takes one from a live session.  When a connection has  *)
(* ended, the session that it was bound to has ended and no listener of its  *)
(* lane is left, also when it went during a run, after a stop, or while a    *)
(* reply was sent.  A session that it made and was not yet, or no longer,    *)
(* bound to is exempted: it stays alive, with its agent, in the code, too.   *)
AgentsMatchSessions ==
    LET live == {n \in DOMAIN status : status[n] # "ended"}
        served == {r \in DOMAIN runs : runs[r].lane.kind = "cron" /\ runs[r].agent # NoAgent}
        registered == {agents[i] : i \in DOMAIN agents}
    IN  /\ registered = live \union {runs[r].lane.of : r \in served}
        /\ Len(agents) = Cardinality(registered)
        /\ laned = live
        /\ \A c \in Conns : conns[c].state = "gone" /\ conns[c].session # NoSession =>
             /\ status[conns[c].session] = "ended"
             /\ listeners[OwnLane(conns[c].lane)] = {}

\* Every card, and every text in a buffer, comes from a run on the own lane of a
\* session that the connection created.
AtHome ==
    /\ \A card \in cards : \E n \in conns[card.to].made : runs[card.run].lane = OwnLane(n)
    /\ \A c \in Conns : \A r \in conns[c].buffer : \E n \in conns[c].made : runs[r].lane = OwnLane(n)

\* A new card holds no text of another run that is over with success.
NothingShownAgain ==
    \A card \in cards' \ cards : \A r \in card.text \ {card.run} : runs[r].phase # "end"

(* OutputStaysHome: a card goes only to the connection that created the      *)
(* session on whose own lane the run was, and any text in a buffer is of     *)
(* such a run: suggestions of one meeting never show up in another client,   *)
(* and output of digests and cron jobs in none.  A card may hold text of     *)
(* other runs of the same client, for all share one buffer: of a run that    *)
(* failed, whose text stays there, and of a run that still executes, on      *)
(* another lane of the client or overlapping on this one.  But never is it   *)
(* text of a run that is over with success: that was shown, and cleared.     *)
OutputStaysHome == []AtHome /\ [][NothingShownAgain]_vars

(* LiveRunOnOwnAgent: a run that starts on the lane of a session that has    *)
(* not ended executes on that session's agent, however many agents there are.*)
LiveRunOnOwnAgent ==
    [][\A r \in DOMAIN runs' \ DOMAIN runs :
         LET l == runs'[r].lane
         IN  l.kind = "own" /\ status[l.of] # "ended" => runs'[r].agent = l.of]_vars

(* DigestByOwnAgent: the digest of a meeting runs on the meeting's own agent,*)
(* which has its transcript ("processes the transcript and extracts          *)
(* decisions", hooks/builtin.py:91).                                         *)
DigestByOwnAgent ==
    \A r \in DOMAIN runs :
        runs[r].lane.kind = "digest" => runs[r].agent = runs[r].lane.of

=============================================================================
