--------------------------- MODULE PromptPathProofs ---------------------------
(***************************************************************************)
(* Theorems about PromptPath, for any number of sockets, prompts, failures *)
(* and sub-agents: types, where each request is, what sockets and timers   *)
(* there are, and the cap on sub-agents.                                   *)
(*                                                                         *)
(* Three parts of the state keep an invariant each: the client's sockets   *)
(* and timers (SocketInv), the slots of the orchestrator (SlotInv), and    *)
(* the messages between them (PathInv), which needs that a connection has  *)
(* no request unless it waits for a sub-agent.  GreetInv is about the      *)
(* first message of a connection.                                          *)
(***************************************************************************)
EXTENDS PromptPath, SequenceTheorems, FiniteSetTheorems, TLAPS

-----------------------------------------------------------------------------
(* Sockets and timers of the client.                                       *)

ReadyState == {"connecting", "open", "closing", "closed"}

SocketTypes ==
    /\ sockets \in Seq(ReadyState) /\ Len(sockets) <= MaxSockets
    /\ ws \in {Null} \union DOMAIN sockets
    /\ status \in {"disconnected", "connecting", "connected"}
    /\ mishaps \subseteq Mishap

OneLive == "lateClose" \notin mishaps => \A k \in Live : k = ws

TimerTypes ==
    /\ intentional \in BOOLEAN /\ tracked \in BOOLEAN
    /\ timers \in Nat /\ (tracked => timers > 0)

\* Of one timer reconnectTimer knows; none is armed after disconnect().
TimersKnown ==
    "twoTimers" \notin mishaps =>
        /\ timers = 0 \/ (timers = 1 /\ tracked)
        /\ intentional => timers = 0

SocketInv == SocketTypes /\ OneLive /\ TimerTypes /\ TimersKnown

\* connect() makes a socket only when there is no live one.
LEMMA Connects ==
    ASSUME SocketTypes, OneLive, ConnectCall, mishaps' = mishaps
    PROVE  SocketTypes' /\ OneLive' /\ intentional' = FALSE /\ (CanSend' => CanSend /\ ws' = ws)
<1>1. CASE HasSocket
  <2>1. UNCHANGED <<ws, sockets, status>> /\ intentional' = FALSE
    BY <1>1 DEF ConnectCall
  <2> QED BY <2>1 DEF SocketTypes, OneLive, Live, CanSend
<1>2. CASE ~HasSocket
  <2>1. PICK n \in Nat : n = Len(sockets)
    BY DEF SocketTypes
  <2>2. /\ intentional' = FALSE /\ n < MaxSockets
        /\ sockets' = Append(sockets, "connecting")
        /\ ws' = n + 1 /\ status' = "connecting"
    BY <1>2, <2>1 DEF ConnectCall
  <2>3. sockets \in Seq(ReadyState) /\ "connecting" \in ReadyState /\ MaxSockets \in Nat
    BY ClientAssumption DEF SocketTypes, ReadyState
  <2>4. /\ sockets' \in Seq(ReadyState) /\ Len(sockets') = n + 1 /\ DOMAIN sockets' = 1..(n + 1)
        /\ DOMAIN sockets = 1..n
        /\ \A i \in 1..n : sockets'[i] = sockets[i]
        /\ sockets'[n + 1] = "connecting"
    BY <2>1, <2>2, <2>3
  <2>5. SocketTypes'
    BY <2>1, <2>2, <2>3, <2>4 DEF SocketTypes
  <2>6. OneLive'
    <3> SUFFICES ASSUME "lateClose" \notin mishaps,
                        NEW k \in 1..(n + 1), sockets'[k] \in {"connecting", "open"}
                 PROVE  k = n + 1
      BY <2>2, <2>4 DEF OneLive, Live
    <3>1. ASSUME k \in 1..n
          PROVE  FALSE
      <4>1. k \in Live /\ k # Null
        BY <2>1, <2>4, <3>1 DEF Live, Null
      <4>2. k = ws
        BY <4>1 DEF OneLive
      <4>3. sockets[ws] \in {"connecting", "open"} /\ ws # Null
        BY <4>1, <4>2 DEF Live
      <4> QED BY <1>2, <4>3 DEF HasSocket
    <3> QED BY <2>1, <3>1
  <2>7. ~CanSend'
    BY <2>2, <2>4 DEF CanSend
  <2> QED BY <2>2, <2>5, <2>6, <2>7
<1> QED BY <1>1, <1>2

LEMMA InitSockets == Init => SocketInv
<1> SUFFICES ASSUME Init
             PROVE  SocketInv
  OBVIOUS
<1>1. /\ ws = Null /\ sockets = <<>> /\ status = "disconnected"
      /\ intentional = FALSE /\ timers = 0 /\ tracked = FALSE /\ mishaps = {}
  BY DEF Init, ClientInit
<1>2. <<>> \in Seq(ReadyState) /\ Len(<<>>) = 0 /\ DOMAIN <<>> = {}
  OBVIOUS
<1>3. SocketTypes
  BY <1>1, <1>2, ClientAssumption DEF SocketTypes
<1>4. OneLive
  BY <1>1, <1>2 DEF OneLive, Live
<1> QED BY <1>1, <1>3, <1>4 DEF SocketInv, TimerTypes, TimersKnown

LEMMA OpenSocket ==
    ASSUME SocketInv, NEW k, SocketOpens(k)
    PROVE  SocketInv'
<1>1. /\ k \in DOMAIN sockets /\ sockets[k] = "connecting"
      /\ sockets' = [sockets EXCEPT ![k] = "open"] /\ status' = "connected"
      /\ UNCHANGED <<ws, intentional, timers, tracked, mishaps>>
  BY DEF SocketOpens
<1>2. sockets \in Seq(ReadyState) /\ "open" \in ReadyState
  BY DEF SocketInv, SocketTypes, ReadyState
<1>3. /\ sockets' \in Seq(ReadyState) /\ Len(sockets') = Len(sockets)
      /\ DOMAIN sockets' = DOMAIN sockets
      /\ \A j \in DOMAIN sockets : j # k => sockets'[j] = sockets[j]
  BY <1>1, <1>2
<1>4. SocketTypes'
  BY <1>1, <1>3 DEF SocketInv, SocketTypes
<1>5. \A j : j \in Live' => j \in Live
  BY <1>1, <1>3 DEF Live
<1>6. OneLive'
  BY <1>1, <1>5 DEF SocketInv, OneLive
<1> QED BY <1>1, <1>4, <1>6 DEF SocketInv, TimerTypes, TimersKnown

\* A close event resets ws.  If that was not its socket, it came late.
LEMMA CloseSocket ==
    ASSUME SocketInv, NEW k, SocketCloses(k)
    PROVE  SocketInv'
<1>1. /\ k \in DOMAIN sockets
      /\ sockets' = [sockets EXCEPT ![k] = "closed"] /\ status' = "disconnected" /\ ws' = Null
      /\ intentional' = intentional /\ intentional \in BOOLEAN /\ timers \in Nat
  BY DEF SocketCloses, SocketInv, TimerTypes
<1>2. sockets \in Seq(ReadyState) /\ "closed" \in ReadyState
  BY DEF SocketInv, SocketTypes, ReadyState
<1>7. /\ mishaps' \subseteq mishaps \union Mishap
      /\ "lateClose" \notin mishaps' => "lateClose" \notin mishaps /\ (ws = Null \/ ws = k)
      /\ "twoTimers" \notin mishaps' =>
           "twoTimers" \notin mishaps /\ (~intentional => ~(timers > 0))
  BY DEF SocketCloses, Schedules, Mishap
<1>3. /\ sockets' \in Seq(ReadyState) /\ Len(sockets') = Len(sockets)
      /\ DOMAIN sockets' = DOMAIN sockets /\ sockets'[k] = "closed"
      /\ \A j \in DOMAIN sockets : j # k => sockets'[j] = sockets[j]
  BY <1>1, <1>2
<1>4. SocketTypes'
  BY <1>1, <1>3, <1>7 DEF SocketInv, SocketTypes
<1>5. OneLive'
  <2> SUFFICES ASSUME "lateClose" \notin mishaps', NEW j \in Live'
               PROVE  FALSE
    BY DEF OneLive
  <2>1. j \in DOMAIN sockets /\ j # k /\ j \in Live
    BY <1>3 DEF Live
  <2>2. "lateClose" \notin mishaps /\ (ws = Null \/ ws = k)
    BY <1>7
  <2>3. j = ws
    BY <2>1, <2>2 DEF SocketInv, OneLive
  <2>4. j # Null
    <3>1. PICK n \in Nat : n = Len(sockets)
      BY <1>2
    <3>2. j \in 1..n
      BY <1>2, <2>1, <3>1
    <3> QED BY <3>2 DEF Null
  <2> QED BY <2>1, <2>2, <2>3, <2>4
<1>6. TimerTypes' /\ TimersKnown'
  <2>1. CASE Schedules
    <3>1. timers' = timers + 1 /\ tracked' = TRUE /\ intentional = FALSE
      BY <1>1, <2>1 DEF SocketCloses, Schedules
    <3>2. "twoTimers" \notin mishaps' => timers = 0
      BY <1>1, <1>7, <3>1
    <3> QED BY <1>1, <3>1, <3>2 DEF TimerTypes, TimersKnown
  <2>2. CASE ~Schedules
    <3>1. UNCHANGED <<timers, tracked>>
      BY <2>2 DEF SocketCloses
    <3>2. "twoTimers" \notin mishaps' => "twoTimers" \notin mishaps
      BY <1>7
    <3> QED BY <1>1, <3>1, <3>2 DEF SocketInv, TimerTypes, TimersKnown
  <2> QED BY <2>1, <2>2
<1> QED BY <1>4, <1>5, <1>6 DEF SocketInv

LEMMA DisconnectSocket ==
    ASSUME SocketInv, Disconnect
    PROVE  SocketInv'
<1>1. /\ intentional' = TRUE /\ timers' = TimersCleared /\ tracked' = FALSE
      /\ ws' = Null /\ status' = "disconnected"
      /\ sockets' = IF ws # Null THEN [sockets EXCEPT ![ws] = "closing"] ELSE sockets
      /\ mishaps' = mishaps
  BY DEF Disconnect
<1>2. sockets \in Seq(ReadyState) /\ "closing" \in ReadyState
  BY DEF SocketInv, SocketTypes, ReadyState
<1>3. /\ sockets' \in Seq(ReadyState) /\ Len(sockets') = Len(sockets)
      /\ DOMAIN sockets' = DOMAIN sockets
      /\ \A j \in DOMAIN sockets : j # ws => sockets'[j] = sockets[j]
      /\ ws # Null => sockets'[ws] = "closing"
  BY <1>1, <1>2 DEF SocketInv, SocketTypes
<1>4. SocketTypes'
  BY <1>1, <1>3 DEF SocketInv, SocketTypes
<1>5. OneLive'
  <2> SUFFICES ASSUME "lateClose" \notin mishaps, NEW j \in Live'
               PROVE  FALSE
    BY <1>1 DEF OneLive
  <2>1. j \in DOMAIN sockets /\ j # Null
    <3>1. PICK n \in Nat : n = Len(sockets)
      BY <1>2
    <3>2. j \in DOMAIN sockets /\ DOMAIN sockets = 1..n
      BY <1>2, <1>3, <3>1 DEF Live
    <3> QED BY <3>2 DEF Null
  <2>2. CASE j # ws
    <3>1. j \in Live
      BY <1>3, <2>1, <2>2 DEF Live
    <3> QED BY <2>2, <3>1 DEF SocketInv, OneLive
  <2>3. CASE j = ws
    BY <1>3, <2>1, <2>3 DEF Live
  <2> QED BY <2>2, <2>3
<1>6. TimerTypes' /\ TimersKnown'
  <2>1. timers \in Nat /\ tracked \in BOOLEAN /\ (tracked => timers > 0)
    BY DEF SocketInv, TimerTypes
  <2>2. timers' = (IF tracked THEN timers - 1 ELSE timers) /\ timers' \in Nat
    BY <1>1, <2>1 DEF TimersCleared
  <2>3. TimerTypes'
    BY <1>1, <2>2 DEF TimerTypes
  <2>4. "twoTimers" \notin mishaps => timers' = 0
    BY <2>1, <2>2 DEF SocketInv, TimersKnown
  <2> QED BY <1>1, <2>3, <2>4 DEF TimersKnown
<1> QED BY <1>4, <1>5, <1>6 DEF SocketInv

LEMMA ReconnectSocket ==
    ASSUME SocketInv, ReconnectFires
    PROVE  SocketInv'
<1>1. /\ timers > 0 /\ timers' = timers - 1 /\ ConnectCall /\ mishaps' = mishaps
      /\ tracked' \in {t \in BOOLEAN : t => tracked /\ timers > 1}
  BY DEF ReconnectFires
<1>2. SocketTypes' /\ OneLive' /\ intentional' = FALSE
  BY <1>1, Connects DEF SocketInv
<1>3. timers \in Nat /\ tracked' \in BOOLEAN /\ (tracked' => timers > 1)
  BY <1>1 DEF SocketInv, TimerTypes
<1>4. TimerTypes'
  <2>1. timers' \in Nat /\ (timers > 1 => timers' > 0)
    BY <1>1, <1>3
  <2> QED BY <1>2, <1>3, <2>1 DEF TimerTypes
<1>5. TimersKnown'
  BY <1>1, <1>2, <1>3 DEF SocketInv, TimersKnown
<1> QED BY <1>2, <1>4, <1>5 DEF SocketInv

\* The other calls of the page connect or leave the sockets alone.
LEMMA QuietSocket ==
    ASSUME SocketInv, mishaps' = mishaps, UNCHANGED <<timers, tracked>>,
           ConnectCall \/ UNCHANGED <<ws, sockets, status, intentional>>
    PROVE  SocketInv'
<1>1. CASE ConnectCall
  <2>1. SocketTypes' /\ OneLive' /\ intentional' = FALSE
    BY <1>1, Connects DEF SocketInv
  <2> QED BY <2>1 DEF SocketInv, TimerTypes, TimersKnown
<1>2. CASE UNCHANGED <<ws, sockets, status, intentional>>
  BY <1>2 DEF SocketInv, SocketTypes, OneLive, Live, TimerTypes, TimersKnown
<1> QED BY <1>1, <1>2

\* ws refers to a socket that there is.
LEMMA CurrentSocket ==
    ASSUME SocketTypes, ws # Null
    PROVE  ws \in DOMAIN sockets /\ ws \in Sockets
<1>1. PICK n \in Nat : n = Len(sockets)
  BY DEF SocketTypes
<1>2. ws \in DOMAIN sockets /\ DOMAIN sockets = 1..n /\ n <= MaxSockets /\ MaxSockets \in Nat
  BY <1>1, ClientAssumption DEF SocketTypes
<1> QED BY <1>2 DEF Sockets

-----------------------------------------------------------------------------
(* The steps, one by one.                                                  *)

PageStep ==
    \/ Page(Open) \/ Page(Prompt) \/ Page(Stop)
    \/ (\E r \in Requests : Page(SendLater(r)))
    \/ Page(Disconnect) \/ Page(ReconnectFires) \/ Page(Render)

ChannelStep(k) == Accept(k) \/ Page(SocketCloses(k)) \/ Page(Deliver(k))

PromptStep(k) ==
    \/ \E agent, hints : ReceivePrompt(k, agent, hints)
    \/ \E agent : RefusePrompt(k, agent)

ServerStep(k) ==
    \/ ReceiveConnect(k) \/ SubagentWorks(k) \/ HangUp(k) \/ LaneFails(k)
    \/ (\E outcome : Reply(k, outcome))

LEMMA EachStep ==
    ASSUME [Next]_vars
    PROVE  \/ PageStep
           \/ \E k \in Sockets : ChannelStep(k) \/ PromptStep(k) \/ ServerStep(k)
           \/ UNCHANGED vars
<1>1. ASSUME Page(UserActs) \/ Page(ClientTimers)
      PROVE  PageStep
  BY <1>1 DEF Page, UserActs, ClientTimers, PageStep
<1>2. ASSUME NEW k \in Sockets, DispatchPrompt(k)
      PROVE  PromptStep(k)
  <2>1. PICK agent, hints : ReceivePrompt(k, agent, hints) \/ RefusePrompt(k, agent)
    BY <1>2 DEF DispatchPrompt
  <2> QED BY <2>1 DEF PromptStep
<1>3. ASSUME NEW k \in Sockets, ServerActs(k) \/ LaneFails(k)
      PROVE  PromptStep(k) \/ ServerStep(k)
  BY <1>2, <1>3 DEF ServerActs, ServerStep
<1> QED BY <1>1, <1>3 DEF Next, Rest, ChannelStep

LEMMA StepSockets ==
    ASSUME SocketInv, [Next]_vars
    PROVE  SocketInv'
<1>1. CASE PageStep
  <2>1. CASE Page(Disconnect)
    BY <2>1, DisconnectSocket DEF Page
  <2>2. CASE Page(ReconnectFires)
    BY <2>2, ReconnectSocket DEF Page
  <2>3. CASE ~(Page(Disconnect) \/ Page(ReconnectFires))
    <3>1. /\ mishaps' = mishaps /\ UNCHANGED <<timers, tracked>>
          /\ ConnectCall \/ UNCHANGED <<ws, sockets, status, intentional>>
      BY <1>1, <2>3 DEF PageStep, Page, Open, Prompt, Stop, SendLater, Render, socketVars
    <3> QED BY <3>1, QuietSocket
  <2> QED BY <2>1, <2>2, <2>3
<1>2. ASSUME NEW k \in Sockets, ChannelStep(k) \/ PromptStep(k) \/ ServerStep(k)
      PROVE  SocketInv'
  <2>1. CASE Accept(k)
    BY <2>1, OpenSocket DEF Accept
  <2>2. CASE Page(SocketCloses(k))
    BY <2>2, CloseSocket DEF Page
  <2>3. CASE ~(Accept(k) \/ Page(SocketCloses(k)))
    <3>1. UNCHANGED socketVars /\ mishaps' = mishaps
      BY <1>2, <2>3 DEF ChannelStep, PromptStep, ServerStep, Page, Deliver, ReceivePrompt, RefusePrompt,
         ReceiveConnect, SubagentWorks, HangUp, LaneFails, Reply, pageVars, clientVars, socketVars
    <3> QED BY <3>1, QuietSocket DEF socketVars
  <2> QED BY <2>1, <2>2, <2>3
<1>3. CASE UNCHANGED vars
  <2>1. UNCHANGED socketVars /\ mishaps' = mishaps
    BY <1>3 DEF vars, clientVars, socketVars
  <2> QED BY <2>1, QuietSocket DEF socketVars
<1> QED BY <1>1, <1>2, <1>3, EachStep

-----------------------------------------------------------------------------
(* Slots of the orchestrator.                                              *)

SlotInv ==
    /\ OrchestratorTypeOK
    /\ activeRuns = {c \in Callers : subagents[c] # NoSubagent}
    /\ IsFiniteSet(activeRuns)
    /\ Cardinality(activeRuns) <= MaxSubagents

\* What a delegation makes of a caller is a sub-agent.
LEMMA NewSubagent ==
    ASSUME NEW agent \in Workspaces, NEW hints
    PROVE  \A a : a = [persona |-> agent, skills |-> OfferedSkills(agent, hints),
                       tools |-> WiredTools, chars |-> 0]
                  => a \in Subagent /\ a # NoSubagent
<1>1. OfferedSkills(agent, hints) \in SUBSET UNION {SkillsOf[p] : p \in Workspaces}
  BY DEF OfferedSkills
<1>2. WiredTools \in SUBSET Tools
  BY DEF WiredTools
<1>3. 0 \in 0..MaxChars
  BY OrchestratorAssumption
<1>4. PICK a : a = [persona |-> agent, skills |-> OfferedSkills(agent, hints),
                    tools |-> WiredTools, chars |-> 0]
  OBVIOUS
<1>5. a \in Subagent
  BY <1>1, <1>2, <1>3, <1>4 DEF Subagent
<1>6. "chars" \in DOMAIN a /\ "chars" \notin DOMAIN NoSubagent
  BY <1>4 DEF NoSubagent
<1> QED BY <1>4, <1>5, <1>6

LEMMA DelegateSlot ==
    ASSUME SlotInv, NEW c \in Callers, NEW agent, NEW hints, Delegate(c, agent, hints)
    PROVE  SlotInv'
<1>1. agent \in Workspaces /\ Cardinality(activeRuns) < MaxSubagents
  BY DEF Delegate, Refused, Room
<1>2. PICK a : a = [persona |-> agent, skills |-> OfferedSkills(agent, hints),
                    tools |-> WiredTools, chars |-> 0]
  OBVIOUS
<1>3. a \in Subagent /\ a # NoSubagent
  BY <1>1, <1>2, NewSubagent
<1>4. /\ activeRuns' = activeRuns \union {c} /\ subagents' = [subagents EXCEPT ![c] = a]
      /\ subagents[c] = NoSubagent
  BY <1>2 DEF Delegate
<1>5. OrchestratorTypeOK'
  BY <1>3, <1>4 DEF SlotInv, OrchestratorTypeOK
<1>6. activeRuns' = {d \in Callers : subagents'[d] # NoSubagent}
  BY <1>3, <1>4 DEF SlotInv, OrchestratorTypeOK
<1>7. IsFiniteSet(activeRuns') /\ Cardinality(activeRuns') = Cardinality(activeRuns) + 1
  <2>1. IsFiniteSet(activeRuns) /\ c \notin activeRuns
    BY <1>4 DEF SlotInv
  <2> QED BY <1>4, <2>1, FS_AddElement
<1>8. Cardinality(activeRuns) \in Nat /\ MaxSubagents \in Nat
  BY FS_CardinalityType, OrchestratorAssumption DEF SlotInv
<1> QED BY <1>1, <1>5, <1>6, <1>7, <1>8 DEF SlotInv

LEMMA EndSlot ==
    ASSUME SlotInv, NEW c \in Callers, NEW outcome, SubagentEnds(c, outcome)
    PROVE  SlotInv'
<1>1. activeRuns' = activeRuns \ {c} /\ subagents' = [subagents EXCEPT ![c] = NoSubagent]
  BY DEF SubagentEnds, Discarded
<1>2. OrchestratorTypeOK'
  BY <1>1 DEF SlotInv, OrchestratorTypeOK
<1>3. activeRuns' = {d \in Callers : subagents'[d] # NoSubagent}
  BY <1>1 DEF SlotInv, OrchestratorTypeOK
<1>4. IsFiniteSet(activeRuns') /\ Cardinality(activeRuns') <= Cardinality(activeRuns)
  <2>1. IsFiniteSet(activeRuns) /\ activeRuns' \subseteq activeRuns
    BY <1>1 DEF SlotInv
  <2> QED BY <2>1, FS_Subset
<1>5. Cardinality(activeRuns) \in Nat /\ MaxSubagents \in Nat /\ Cardinality(activeRuns') \in Nat
  BY <1>4, FS_CardinalityType, OrchestratorAssumption DEF SlotInv
<1> QED BY <1>2, <1>3, <1>4, <1>5 DEF SlotInv

LEMMA WorkSlot ==
    ASSUME SlotInv, NEW c \in Callers, SubagentActs(c)
    PROVE  SlotInv'
<1>1. CASE UNCHANGED orchestratorVars
  BY <1>1 DEF SlotInv, OrchestratorTypeOK, orchestratorVars
<1>2. CASE \E n \in DeltaSizes : Collect(c, n)
  <2>1. PICK n \in DeltaSizes : Collect(c, n)
    BY <1>2
  <2>2. /\ subagents[c] # NoSubagent /\ subagents[c] \in Subagent
        /\ activeRuns' = activeRuns /\ subagents' = [subagents EXCEPT ![c].chars = @ + n]
    BY <2>1 DEF Collect, Works, SlotInv, OrchestratorTypeOK
  <2>3. PICK a : a = [subagents[c] EXCEPT !.chars = @ + n]
    OBVIOUS
  <2>4. a \in Subagent /\ a # NoSubagent
    <3>1. subagents[c].chars + n \in 0..MaxChars
      BY <2>1, <2>2, OrchestratorAssumption DEF Collect, Fits, Subagent
    <3>2. a \in Subagent
      BY <2>2, <2>3, <3>1 DEF Subagent
    <3>3. "chars" \in DOMAIN a /\ "chars" \notin DOMAIN NoSubagent
      BY <3>2 DEF Subagent, NoSubagent
    <3> QED BY <3>2, <3>3
  <2>5. subagents' = [subagents EXCEPT ![c] = a]
    BY <2>2, <2>3
  <2>6. OrchestratorTypeOK'
    BY <2>2, <2>4, <2>5 DEF SlotInv, OrchestratorTypeOK
  <2>7. activeRuns' = {d \in Callers : subagents'[d] # NoSubagent}
    BY <2>2, <2>4, <2>5 DEF SlotInv, OrchestratorTypeOK
  <2> QED BY <2>2, <2>6, <2>7 DEF SlotInv
<1> QED BY <1>1, <1>2 DEF SubagentActs, UseTool

LEMMA InitSlots == Init => SlotInv
<1> SUFFICES ASSUME Init
             PROVE  SlotInv
  OBVIOUS
<1>1. activeRuns = {} /\ subagents = [c \in Callers |-> NoSubagent]
  BY DEF Init, OrchestratorInit
<1>2. IsFiniteSet(activeRuns) /\ Cardinality(activeRuns) = 0
  BY <1>1, FS_EmptySet
<1> QED BY <1>1, <1>2, OrchestratorAssumption DEF SlotInv, OrchestratorTypeOK

LEMMA StepSlots ==
    ASSUME SlotInv, [Next]_vars
    PROVE  SlotInv'
<1>1. ASSUME UNCHANGED orchestratorVars
      PROVE  SlotInv'
  BY <1>1 DEF SlotInv, OrchestratorTypeOK, orchestratorVars
<1>2. CASE PageStep
  BY <1>1, <1>2 DEF PageStep, Page
<1>3. ASSUME NEW k \in Sockets, ChannelStep(k) \/ PromptStep(k) \/ ServerStep(k)
      PROVE  SlotInv'
  <2>1. k \in Callers
    BY PromptPathAssumption
  <2>2. CASE ChannelStep(k)
    BY <1>1, <2>2 DEF ChannelStep, Accept, Page
  <2>3. CASE PromptStep(k)
    <3>1. ASSUME NEW agent, NEW hints, ReceivePrompt(k, agent, hints)
          PROVE  SlotInv'
      BY <2>1, <3>1, DelegateSlot DEF ReceivePrompt
    <3>2. ASSUME NEW agent, RefusePrompt(k, agent)
          PROVE  SlotInv'
      BY <1>1, <3>2 DEF RefusePrompt, DelegationFails
    <3> QED BY <2>3, <3>1, <3>2 DEF PromptStep
  <2>4. CASE ServerStep(k)
    <3>1. CASE SubagentWorks(k)
      BY <2>1, <3>1, WorkSlot DEF SubagentWorks
    <3>2. ASSUME NEW outcome, Reply(k, outcome)
          PROVE  SlotInv'
      BY <2>1, <3>2, EndSlot DEF Reply
    <3>3. CASE ReceiveConnect(k) \/ HangUp(k) \/ LaneFails(k)
      BY <1>1, <3>3 DEF ReceiveConnect, HangUp, LaneFails
    <3> QED BY <2>4, <3>1, <3>2, <3>3 DEF ServerStep
  <2> QED BY <1>3, <2>2, <2>3, <2>4
<1>4. CASE UNCHANGED vars
  BY <1>1, <1>4 DEF vars, orchestratorVars
<1> QED BY <1>2, <1>3, <1>4, EachStep

-----------------------------------------------------------------------------
(* Messages between them.                                                  *)

Holds(q, r) == \E i \in DOMAIN q : q[i] = r

Channels(M) == [Sockets -> Seq(M)]
UpMessages == {Handshake} \union Requests
DownMessages == {LaneError} \union Requests

\* One more message, one less, and none left, in the channel of a socket.
Extended(ch, k, m) == [ch EXCEPT ![k] = Append(@, m)]
Shortened(ch, k) == [ch EXCEPT ![k] = Tail(@)]
Cleared(ch, k) == [ch EXCEPT ![k] = <<>>]

Elsewhere(d, ch, k) == \A j \in Sockets : j # k => d[j] = ch[j]

\* A message that is added is on its way; it is the first if there was none.
LEMMA Added ==
    ASSUME NEW M, NEW ch \in Channels(M), NEW k \in Sockets, NEW m \in M
    PROVE  /\ Extended(ch, k, m) \in Channels(M) /\ OnTheWay(m, Extended(ch, k, m))
           /\ \A r : OnTheWay(r, ch) => OnTheWay(r, Extended(ch, k, m))
           /\ Elsewhere(Extended(ch, k, m), ch, k) /\ Extended(ch, k, m)[k] # <<>>
           /\ ch[k] = <<>> => Extended(ch, k, m)[k][1] = m
           /\ ch[k] # <<>> => Extended(ch, k, m)[k][1] = ch[k][1]
<1>1. PICK d : d = Extended(ch, k, m)
  OBVIOUS
<1>2. PICK q \in Seq(M) : q = ch[k]
  BY DEF Channels
<1>3. PICK p : p = Append(q, m)
  OBVIOUS
<1>4. /\ p \in Seq(M) /\ Len(p) = Len(q) + 1 /\ p[Len(q) + 1] = m
      /\ \A i \in 1..Len(q) : p[i] = q[i]
      /\ DOMAIN p = 1..(Len(q) + 1) /\ DOMAIN q = 1..Len(q) /\ Len(q) \in Nat
  BY <1>2, <1>3
<1>5. /\ d \in Channels(M) /\ d[k] = p
      /\ \A j \in Sockets : j # k => d[j] = ch[j]
  BY <1>1, <1>2, <1>3, <1>4 DEF Channels, Extended
<1>6. OnTheWay(m, d)
  <2>1. Len(q) + 1 \in DOMAIN p
    BY <1>4
  <2> QED BY <1>4, <1>5, <2>1 DEF OnTheWay
<1>7. ASSUME NEW r, OnTheWay(r, ch)
      PROVE  OnTheWay(r, d)
  <2>0. PICK j \in Sockets : \E i \in DOMAIN ch[j] : ch[j][i] = r
    BY <1>7 DEF OnTheWay
  <2>1. PICK i \in DOMAIN ch[j] : ch[j][i] = r
    BY <2>0
  <2>2. CASE j = k
    <3>1. i \in DOMAIN p /\ p[i] = r
      BY <1>2, <1>4, <2>1, <2>2
    <3> QED BY <1>5, <3>1 DEF OnTheWay
  <2>3. CASE j # k
    BY <1>5, <2>1, <2>3 DEF OnTheWay
  <2> QED BY <2>2, <2>3
<1>8. /\ p # <<>>
      /\ q = <<>> => p[1] = m
      /\ q # <<>> => p[1] = q[1]
  <2>1. q = <<>> <=> Len(q) = 0
    BY <1>2
  <2> QED BY <1>2, <1>3, <1>4, <2>1
<1> QED BY <1>1, <1>2, <1>5, <1>6, <1>7, <1>8 DEF Elsewhere

LEMMA Taken ==
    ASSUME NEW M, NEW ch \in Channels(M), NEW k \in Sockets, ch[k] # <<>>
    PROVE  /\ Shortened(ch, k) \in Channels(M)
           /\ Head(ch[k]) \in M /\ ch[k][1] = Head(ch[k])
           /\ \A r : OnTheWay(r, ch) => OnTheWay(r, Shortened(ch, k)) \/ r = Head(ch[k])
           /\ Elsewhere(Shortened(ch, k), ch, k)
<1>1. PICK d : d = Shortened(ch, k)
  OBVIOUS
<1>2. PICK q \in Seq(M) : q = ch[k]
  BY DEF Channels
<1>3. PICK p : p = Tail(q)
  OBVIOUS
<1>4. PICK n \in Nat : n = Len(q)
  BY <1>2
<1>5. q # <<>> /\ n > 0 /\ DOMAIN q = 1..n /\ Head(q) = q[1] /\ q[1] \in M
  BY <1>2, <1>4
<1>6. /\ p \in Seq(M) /\ DOMAIN p = 1..(n - 1)
      /\ \A i \in 1..(n - 1) : p[i] = q[i + 1]
  BY <1>2, <1>3, <1>4, <1>5
<1>7. /\ d \in Channels(M) /\ d[k] = p
      /\ \A j \in Sockets : j # k => d[j] = ch[j]
  BY <1>1, <1>2, <1>3, <1>6 DEF Channels, Shortened
<1>8. ASSUME NEW r, OnTheWay(r, ch), r # Head(ch[k])
      PROVE  OnTheWay(r, d)
  <2>0. PICK j \in Sockets : \E i \in DOMAIN ch[j] : ch[j][i] = r
    BY <1>8 DEF OnTheWay
  <2>1. PICK i \in DOMAIN ch[j] : ch[j][i] = r
    BY <2>0
  <2>2. CASE j = k
    <3>1. i \in 1..n /\ q[i] = r /\ i # 1
      BY <1>2, <1>5, <1>8, <2>1, <2>2
    <3>2. i - 1 \in 1..(n - 1) /\ (i - 1) + 1 = i
      BY <3>1
    <3>3. p[i - 1] = r
      BY <1>6, <3>1, <3>2
    <3> QED BY <1>6, <1>7, <3>2, <3>3 DEF OnTheWay
  <2>3. CASE j # k
    BY <1>7, <2>1, <2>3 DEF OnTheWay
  <2> QED BY <2>2, <2>3
<1> QED BY <1>1, <1>2, <1>5, <1>7, <1>8 DEF Elsewhere

LEMMA Emptied ==
    ASSUME NEW M, NEW ch \in Channels(M), NEW k \in Sockets
    PROVE  /\ Cleared(ch, k) \in Channels(M) /\ Cleared(ch, k)[k] = <<>>
           /\ \A r : OnTheWay(r, ch) => OnTheWay(r, Cleared(ch, k)) \/ Holds(ch[k], r)
           /\ Elsewhere(Cleared(ch, k), ch, k)
<1>1. PICK d : d = Cleared(ch, k)
  OBVIOUS
<1>2. d \in Channels(M) /\ d[k] = <<>> /\ \A j \in Sockets : j # k => d[j] = ch[j]
  BY <1>1 DEF Channels, Cleared
<1>3. ASSUME NEW r, OnTheWay(r, ch)
      PROVE  OnTheWay(r, d) \/ Holds(ch[k], r)
  <2>0. PICK j \in Sockets : \E i \in DOMAIN ch[j] : ch[j][i] = r
    BY <1>3 DEF OnTheWay
  <2>1. PICK i \in DOMAIN ch[j] : ch[j][i] = r
    BY <2>0
  <2> QED BY <1>2, <2>1 DEF OnTheWay, Holds
<1> QED BY <1>1, <1>2, <1>3 DEF Elsewhere

ChannelTypes ==
    /\ up \in Channels(UpMessages)
    /\ down \in Channels(DownMessages)
    /\ pending \subseteq Requests /\ delayed \subseteq Requests
    /\ answered \subseteq Requests /\ lost \subseteq Requests
    /\ conns \in [Sockets -> Conn]

CountTypes ==
    /\ rendered \in [pending : SUBSET Requests, connected : BOOLEAN]
    /\ stopTimers \in Nat /\ prompts \in 0..MaxRequests
    /\ calls \in 0..MaxCalls /\ failures \in 0..MaxFailures

Somewhere(r) ==
    r \in delayed \/ OnTheWay(r, up) \/ AtServer(r) \/ OnTheWay(r, down) \/ r \in lost

Located ==
    \A r \in 1..prompts : /\ r \in pending => Somewhere(r)
                          /\ r \notin pending => r \in answered

\* A connection has a request exactly while it waits for a sub-agent.
Idle == \A k \in Sockets : conns[k].phase # "routing" => conns[k].request = Null

\* A connection's handler begins when its socket has opened.
Begun ==
    \A k \in Sockets : conns[k].phase # "none" =>
        k \in DOMAIN sockets /\ sockets[k] # "connecting"

PathInv == ChannelTypes /\ CountTypes /\ Located /\ Idle

\* What keeps requests where they are, or moves them on, or settles them.
LEMMA Relocated ==
    ASSUME Located, prompts \in 0..MaxRequests, prompts' = prompts,
           pending' \subseteq pending, answered \subseteq answered',
           pending \subseteq pending' \union answered',
           \A r \in Requests : r \in pending' /\ Somewhere(r) => Somewhere(r)'
    PROVE  Located'
<1>1. ASSUME NEW r \in 1..prompts
      PROVE  /\ r \in pending' => Somewhere(r)'
             /\ r \notin pending' => r \in answered'
  <2>1. r \in Requests
    BY ClientAssumption DEF Requests
  <2> QED BY <2>1 DEF Located
<1> QED BY <1>1 DEF Located

LEMMA StepCounts ==
    ASSUME PathInv, [Next]_vars
    PROVE  CountTypes'
<1>0. /\ rendered \in [pending : SUBSET Requests, connected : BOOLEAN] /\ pending \subseteq Requests
      /\ stopTimers \in Nat /\ prompts \in 0..MaxRequests
      /\ calls \in 0..MaxCalls /\ failures \in 0..MaxFailures
      /\ MaxRequests \in Nat /\ MaxCalls \in Nat /\ MaxFailures \in Nat
  BY ClientAssumption DEF PathInv, CountTypes, ChannelTypes
<1> USE DEF PageStep, ChannelStep, PromptStep, ServerStep, vars, clientVars, requestVars, pageVars,
            counts, UserCalls, Fails,
            Page, Open, Prompt, Stop, SendLater, Disconnect, ReconnectFires, Render, Accept, SocketOpens,
            SocketCloses, Deliver, ReceivePrompt, RefusePrompt, ReceiveConnect, SubagentWorks, HangUp,
            LaneFails, Reply
<1>1. rendered' = rendered \/ rendered' = [pending |-> pending, connected |-> status = "connected"]
  BY EachStep
<1>2. \/ stopTimers' = stopTimers
      \/ stopTimers' = stopTimers + 1
      \/ stopTimers > 0 /\ stopTimers' = stopTimers - 1
  BY EachStep
<1>3. prompts' = prompts \/ (prompts' = prompts + 1 /\ prompts + 1 \in Requests)
  BY EachStep
<1>4. calls' = calls \/ (calls < MaxCalls /\ calls' = calls + 1)
  BY EachStep
<1>5. failures' = failures \/ (failures < MaxFailures /\ failures' = failures + 1)
  BY EachStep
<1>6. rendered' \in [pending : SUBSET Requests, connected : BOOLEAN]
  <2>1. PICK b \in BOOLEAN : b = (status = "connected")
    OBVIOUS
  <2>2. rendered' = rendered \/ rendered' = [pending |-> pending, connected |-> b]
    BY <1>1, <2>1, Zenon
  <2> QED BY <1>0, <2>2
<1>7. stopTimers' \in Nat
  BY <1>0, <1>2
<1>8. prompts' \in 0..MaxRequests
  BY <1>0, <1>3 DEF Requests
<1>9. calls' \in 0..MaxCalls /\ failures' \in 0..MaxFailures
  BY <1>0, <1>4, <1>5
<1> QED BY <1>6, <1>7, <1>8, <1>9 DEF CountTypes

PathsInv == ChannelTypes /\ Located /\ Idle

\* send_json: on its way, or thrown away.
LEMMA Sent ==
    ASSUME ChannelTypes, NEW k \in Sockets, NEW m \in DownMessages, SendToClient(k, m)
    PROVE  /\ down' \in Channels(DownMessages)
           /\ lost' \subseteq Requests /\ lost \subseteq lost'
           /\ \A r : OnTheWay(r, down) => OnTheWay(r, down')
           /\ m \in Requests => OnTheWay(m, down') \/ m \in lost'
<1>1. down \in Channels(DownMessages) /\ lost \subseteq Requests
  BY DEF ChannelTypes
<1>2. CASE sockets[k] = "open"
  <2>1. down' = Extended(down, k, m) /\ lost' = lost
    BY <1>2 DEF SendToClient, Extended
  <2>2. /\ down' \in Channels(DownMessages) /\ OnTheWay(m, down')
        /\ \A r : OnTheWay(r, down) => OnTheWay(r, down')
    BY <1>1, <2>1, Added
  <2> QED BY <1>1, <2>1, <2>2
<1>3. CASE sockets[k] # "open"
  <2>1. down' = down /\ lost' = lost \union ({m} \intersect Requests)
    BY <1>3 DEF SendToClient
  <2> QED BY <1>1, <2>1
<1> QED BY <1>2, <1>3

\* send(): on its way from the socket of ws, or dropped.
LEMMA Called ==
    ASSUME SocketTypes, ChannelTypes, NEW m \in Requests, SendCall(m)
    PROVE  /\ up' \in Channels(UpMessages)
           /\ lost' \subseteq Requests /\ lost \subseteq lost'
           /\ \A r : OnTheWay(r, up) => OnTheWay(r, up')
           /\ OnTheWay(m, up') \/ m \in lost'
<1>1. up \in Channels(UpMessages) /\ lost \subseteq Requests
  BY DEF ChannelTypes
<1>2. CASE CanSend
  <2>1. up' = Extended(up, ws, m) /\ lost' = lost
    BY <1>2 DEF SendCall, Extended
  <2>2. ws \in Sockets /\ m \in UpMessages
    BY <1>2, CurrentSocket DEF CanSend, UpMessages
  <2>3. /\ up' \in Channels(UpMessages) /\ OnTheWay(m, up')
        /\ \A r : OnTheWay(r, up) => OnTheWay(r, up')
    BY <1>1, <2>1, <2>2, Added
  <2> QED BY <1>1, <2>1, <2>3
<1>3. CASE ~CanSend
  <2>1. up' = up /\ lost' = lost \union {m}
    BY <1>3 DEF SendCall
  <2> QED BY <1>1, <2>1
<1> QED BY <1>2, <1>3

LEMMA PromptPaths ==
    ASSUME SocketInv, PathInv, Page(Prompt)
    PROVE  PathsInv'
<1>0. /\ ChannelTypes /\ Located /\ Idle /\ SocketTypes
      /\ prompts \in 0..MaxRequests /\ MaxRequests \in Nat
  BY ClientAssumption DEF PathInv, CountTypes, SocketInv
<1>1. PICK m \in Requests : m = prompts + 1
  BY DEF Page, Prompt
<1>2. /\ prompts' = m /\ pending' = pending \union {m}
      /\ UNCHANGED <<down, answered, conns>>
  BY <1>1 DEF Page, Prompt
<1>3. /\ up' \in Channels(UpMessages)
      /\ lost' \subseteq Requests /\ lost \subseteq lost'
      /\ delayed' \subseteq Requests /\ delayed \subseteq delayed'
      /\ \A r : OnTheWay(r, up) => OnTheWay(r, up')
      /\ m \in delayed' \/ OnTheWay(m, up') \/ m \in lost'
  <2>1. CASE rendered.connected
    <3>1. SendCall(m) /\ delayed' = delayed
      BY <1>1, <2>1 DEF Page, Prompt
    <3> QED BY <1>0, <3>1, Called DEF ChannelTypes
  <2>2. CASE ~rendered.connected
    <3>1. delayed' = delayed \union {m} /\ UNCHANGED <<up, lost>>
      BY <1>1, <2>2 DEF Page, Prompt
    <3> QED BY <1>0, <3>1 DEF ChannelTypes
  <2> QED BY <2>1, <2>2
<1>4. ChannelTypes'
  BY <1>0, <1>2, <1>3 DEF ChannelTypes
<1>5. Located'
  <2> SUFFICES ASSUME NEW r \in 1..m
               PROVE  /\ r \in pending' => Somewhere(r)'
                      /\ r \notin pending' => r \in answered'
    BY <1>2 DEF Located
  <2>1. CASE r = m
    BY <1>2, <1>3, <2>1 DEF Somewhere
  <2>2. CASE r # m
    <3>1. r \in 1..prompts
      BY <1>0, <1>1, <2>2
    <3>2. Somewhere(r) => Somewhere(r)'
      BY <1>2, <1>3 DEF Somewhere, AtServer
    <3> QED BY <1>0, <1>2, <2>2, <3>1, <3>2 DEF Located
  <2> QED BY <2>1, <2>2
<1> QED BY <1>0, <1>2, <1>4, <1>5 DEF PathsInv, Idle

\* The request is sent at last.
LEMMA LaterPaths ==
    ASSUME SocketInv, PathInv, NEW m \in Requests, Page(SendLater(m))
    PROVE  PathsInv'
<1>0. /\ ChannelTypes /\ Located /\ Idle /\ SocketTypes /\ prompts \in 0..MaxRequests
  BY DEF PathInv, CountTypes, SocketInv
<1>1. /\ delayed' = delayed \ {m} /\ SendCall(m)
      /\ UNCHANGED <<down, answered, conns, prompts, pending>>
  BY DEF Page, SendLater
<1>2. /\ up' \in Channels(UpMessages)
      /\ lost' \subseteq Requests /\ lost \subseteq lost'
      /\ \A r : OnTheWay(r, up) => OnTheWay(r, up')
      /\ OnTheWay(m, up') \/ m \in lost'
  BY <1>0, <1>1, Called
<1>3. ChannelTypes'
  BY <1>0, <1>1, <1>2 DEF ChannelTypes
<1>4. \A r \in Requests : Somewhere(r) => Somewhere(r)'
  BY <1>1, <1>2 DEF Somewhere, AtServer
<1>5. Located'
  BY <1>0, <1>1, <1>4, Relocated
<1> QED BY <1>0, <1>1, <1>3, <1>5 DEF PathsInv, Idle

\* What the server had sent goes with the socket.
LEMMA ClosePaths ==
    ASSUME PathInv, NEW k \in Sockets, Page(SocketCloses(k))
    PROVE  PathsInv'
<1>0. ChannelTypes /\ Located /\ Idle /\ prompts \in 0..MaxRequests
  BY DEF PathInv, CountTypes
<1>1. /\ down' = Cleared(down, k)
      /\ lost' = lost \union {r \in Requests : \E i \in DOMAIN down[k] : down[k][i] = r}
      /\ UNCHANGED <<up, delayed, answered, conns, prompts, pending>>
  BY DEF Page, SocketCloses, requestVars, Cleared
<1>2. /\ down' \in Channels(DownMessages)
      /\ \A r : OnTheWay(r, down) => OnTheWay(r, down') \/ Holds(down[k], r)
  <2>1. down \in Channels(DownMessages)
    BY <1>0 DEF ChannelTypes
  <2> QED BY <1>1, <2>1, Emptied
<1>3. ChannelTypes'
  BY <1>0, <1>1, <1>2 DEF ChannelTypes
<1>4. \A r \in Requests : Somewhere(r) => Somewhere(r)'
  BY <1>1, <1>2 DEF Somewhere, AtServer, Holds
<1>5. Located'
  BY <1>0, <1>1, <1>4, Relocated
<1> QED BY <1>0, <1>1, <1>3, <1>5 DEF PathsInv, Idle

\* A reply settles its request, an error the first that the page saw waiting.
LEMMA DeliverPaths ==
    ASSUME PathInv, NEW k \in Sockets, Page(Deliver(k))
    PROVE  PathsInv'
<1>0. /\ ChannelTypes /\ Located /\ Idle /\ prompts \in 0..MaxRequests
      /\ rendered.pending \subseteq Requests
  BY DEF PathInv, CountTypes
<1>1. /\ down[k] # <<>> /\ down' = Shortened(down, k)
      /\ UNCHANGED <<up, delayed, lost, conns, prompts>>
  BY DEF Page, Deliver, Shortened
<1>2. /\ down' \in Channels(DownMessages)
      /\ Head(down[k]) \in DownMessages
      /\ \A r : OnTheWay(r, down) => OnTheWay(r, down') \/ r = Head(down[k])
  <2>1. down \in Channels(DownMessages)
    BY <1>0 DEF ChannelTypes
  <2> QED BY <1>1, <2>1, Taken
<1>3. /\ answered' \subseteq Requests /\ answered \subseteq answered' /\ pending' \subseteq pending
      /\ pending \subseteq pending' \union answered'
      /\ Head(down[k]) # LaneError => Head(down[k]) \notin pending'
  <2>1. CASE Head(down[k]) = LaneError
    <3>1. ErrorArrives
      BY <2>1 DEF Page, Deliver
    <3>2. CASE rendered.pending = {}
      BY <1>0, <2>1, <3>1, <3>2 DEF ErrorArrives, ChannelTypes
    <3>3. CASE rendered.pending # {}
      <4>1. PICK r \in rendered.pending : answered' = answered \union {r} /\ pending' = pending \ {r}
        BY <3>1, <3>3 DEF ErrorArrives
      <4> QED BY <1>0, <2>1, <4>1 DEF ChannelTypes
    <3> QED BY <3>2, <3>3
  <2>2. CASE Head(down[k]) # LaneError
    <3>1. answered' = answered \union {Head(down[k])} /\ pending' = pending \ {Head(down[k])}
      BY <2>2 DEF Page, Deliver, ReplyArrives, Settled
    <3> QED BY <1>0, <1>2, <2>2, <3>1 DEF ChannelTypes, DownMessages
  <2> QED BY <2>1, <2>2
<1>4. ChannelTypes'
  BY <1>0, <1>1, <1>2, <1>3 DEF ChannelTypes
<1>5. LaneError \notin Requests
  BY DEF LaneError, Requests
<1>6. \A r \in Requests : r \in pending' /\ Somewhere(r) => Somewhere(r)'
  BY <1>1, <1>2, <1>3, <1>5 DEF Somewhere, AtServer
<1>7. Located'
  BY <1>0, <1>1, <1>3, <1>6, Relocated
<1> QED BY <1>0, <1>1, <1>4, <1>7 DEF PathsInv, Idle

\* The steps of connections leave the page alone, and move requests on.
LEMMA Carried ==
    ASSUME PathInv, UNCHANGED <<prompts, pending, answered, delayed>>,
           up' \in Channels(UpMessages), down' \in Channels(DownMessages),
           lost \subseteq lost', lost' \subseteq Requests, conns' \in [Sockets -> Conn], Idle',
           \A r \in Requests :
             (OnTheWay(r, up) \/ AtServer(r) \/ OnTheWay(r, down)) => Somewhere(r)'
    PROVE  PathsInv'
<1>1. ChannelTypes /\ Located /\ prompts \in 0..MaxRequests
  BY DEF PathInv, CountTypes
<1>2. ChannelTypes'
  BY <1>1 DEF ChannelTypes
<1>3. \A r \in Requests : Somewhere(r) => Somewhere(r)'
  BY DEF Somewhere
<1>4. Located'
  BY <1>1, <1>3, Relocated
<1> QED BY <1>2, <1>4 DEF PathsInv

\* A handler's loop begins: it has no request yet.
LEMMA AcceptPaths ==
    ASSUME SocketInv, PathInv, Begun, NEW k \in Sockets, Accept(k)
    PROVE  PathsInv'
<1>0. ChannelTypes /\ Idle /\ SocketTypes
  BY DEF PathInv, SocketInv
<1>1. /\ UNCHANGED <<prompts, pending, answered, delayed, down, lost, ws>>
      /\ conns' = [conns EXCEPT ![k].phase = "receiving"]
      /\ sockets[k] = "connecting"
      /\ up' = up \/ (ws # Null /\ up' = Extended(up, ws, Handshake))
  BY DEF Accept, SocketOpens, requestVars, Extended
<1>2. /\ up' \in Channels(UpMessages)
      /\ \A r : OnTheWay(r, up) => OnTheWay(r, up')
  <2>1. up \in Channels(UpMessages)
    BY <1>0 DEF ChannelTypes
  <2>2. CASE ws # Null /\ up' = Extended(up, ws, Handshake)
    <3>1. ws \in Sockets /\ Handshake \in UpMessages
      BY <1>0, <2>2, CurrentSocket DEF UpMessages
    <3> QED BY <2>1, <2>2, <3>1, Added
  <2> QED BY <1>1, <2>1, <2>2
<1>3. /\ conns' \in [Sockets -> Conn]
      /\ \A j \in Sockets : conns'[j].request = conns[j].request
      /\ \A j \in Sockets : j # k => conns'[j].phase = conns[j].phase
  BY <1>0, <1>1 DEF ChannelTypes, Conn
<1>4. conns[k].request = Null
  BY <1>0, <1>1 DEF Begun, Idle
<1>5. Idle'
  BY <1>0, <1>3, <1>4 DEF Idle
<1>6. \A r \in Requests :
        (OnTheWay(r, up) \/ AtServer(r) \/ OnTheWay(r, down)) => Somewhere(r)'
  BY <1>1, <1>2, <1>3 DEF Somewhere, AtServer
<1>7. /\ down' \in Channels(DownMessages) /\ lost \subseteq lost' /\ lost' \subseteq Requests
      /\ UNCHANGED <<prompts, pending, answered, delayed>>
  BY <1>0, <1>1 DEF ChannelTypes
<1> QED BY <1>2, <1>3, <1>5, <1>6, <1>7, Carried

LEMMA ConnectPaths ==
    ASSUME PathInv, NEW k \in Sockets, ReceiveConnect(k)
    PROVE  PathsInv'
<1>0. ChannelTypes /\ Idle
  BY DEF PathInv
<1>1. /\ UNCHANGED <<prompts, pending, answered, delayed, down, lost>>
      /\ conns' = [conns EXCEPT ![k].bound = TRUE]
      /\ up[k] # <<>> /\ Head(up[k]) = Handshake /\ up' = Shortened(up, k)
  BY DEF ReceiveConnect, Receiving, Received, pageVars, requestVars, Shortened
<1>2. /\ up' \in Channels(UpMessages)
      /\ \A r : OnTheWay(r, up) => OnTheWay(r, up') \/ r = Handshake
  <2>1. up \in Channels(UpMessages)
    BY <1>0 DEF ChannelTypes
  <2> QED BY <1>1, <2>1, Taken
<1>3. /\ conns' \in [Sockets -> Conn]
      /\ \A j \in Sockets : conns'[j].request = conns[j].request /\ conns'[j].phase = conns[j].phase
  BY <1>0, <1>1 DEF ChannelTypes, Conn
<1>4. Idle'
  BY <1>0, <1>3 DEF Idle
<1>5. Handshake \notin Requests
  BY DEF Handshake, Requests
<1>6. \A r \in Requests :
        (OnTheWay(r, up) \/ AtServer(r) \/ OnTheWay(r, down)) => Somewhere(r)'
  BY <1>1, <1>2, <1>3, <1>5 DEF Somewhere, AtServer
<1>7. /\ down' \in Channels(DownMessages) /\ lost \subseteq lost' /\ lost' \subseteq Requests
      /\ UNCHANGED <<prompts, pending, answered, delayed>>
  BY <1>0, <1>1 DEF ChannelTypes
<1> QED BY <1>2, <1>3, <1>4, <1>6, <1>7, Carried

\* The message at the head is a prompt: it goes to the connection, which had none.
LEMMA ReceivePaths ==
    ASSUME PathInv, NEW k \in Sockets, NEW agent, NEW hints, ReceivePrompt(k, agent, hints)
    PROVE  PathsInv'
<1>0. ChannelTypes /\ Idle
  BY DEF PathInv
<1>1. PICK m : m = Head(up[k])
  OBVIOUS
<1>2. /\ UNCHANGED <<prompts, pending, answered, delayed, down, lost>>
      /\ conns' = [conns EXCEPT ![k].phase = "routing", ![k].request = m]
      /\ conns[k].phase = "receiving"
      /\ up[k] # <<>> /\ m # Handshake /\ up' = Shortened(up, k)
  BY <1>1 DEF ReceivePrompt, Receiving, Received, pageVars, requestVars, Shortened
<1>3. /\ up' \in Channels(UpMessages) /\ m \in UpMessages
      /\ \A r : OnTheWay(r, up) => OnTheWay(r, up') \/ r = m
  <2>1. up \in Channels(UpMessages)
    BY <1>0 DEF ChannelTypes
  <2> QED BY <1>1, <1>2, <2>1, Taken
<1>4. m \in Requests
  BY <1>2, <1>3 DEF UpMessages
<1>5. /\ conns' \in [Sockets -> Conn]
      /\ conns'[k].request = m /\ conns'[k].phase = "routing"
      /\ \A j \in Sockets : j # k => conns'[j] = conns[j]
  BY <1>0, <1>2, <1>4 DEF ChannelTypes, Conn
<1>6. Idle'
  BY <1>0, <1>5 DEF Idle
<1>7. conns[k].request = Null /\ Null \notin Requests
  BY <1>0, <1>2 DEF Idle, Null, Requests
<1>8. \A r \in Requests :
        (OnTheWay(r, up) \/ AtServer(r) \/ OnTheWay(r, down)) => Somewhere(r)'
  BY <1>2, <1>3, <1>5, <1>7 DEF Somewhere, AtServer
<1>9. /\ down' \in Channels(DownMessages) /\ lost \subseteq lost' /\ lost' \subseteq Requests
      /\ UNCHANGED <<prompts, pending, answered, delayed>>
  BY <1>0, <1>2 DEF ChannelTypes
<1> QED BY <1>3, <1>5, <1>6, <1>8, <1>9, Carried

\* A refusal goes back at once.
LEMMA RefusePaths ==
    ASSUME PathInv, NEW k \in Sockets, NEW agent, RefusePrompt(k, agent)
    PROVE  PathsInv'
<1>0. ChannelTypes /\ Idle
  BY DEF PathInv
<1>1. PICK m : m = Head(up[k])
  OBVIOUS
<1>2. /\ UNCHANGED <<prompts, pending, answered, delayed, conns>>
      /\ up[k] # <<>> /\ m # Handshake /\ up' = Shortened(up, k) /\ SendToClient(k, m)
  BY <1>1 DEF RefusePrompt, Receiving, Received, pageVars, requestVars, Shortened
<1>3. /\ up' \in Channels(UpMessages) /\ m \in UpMessages
      /\ \A r : OnTheWay(r, up) => OnTheWay(r, up') \/ r = m
  <2>1. up \in Channels(UpMessages)
    BY <1>0 DEF ChannelTypes
  <2> QED BY <1>1, <1>2, <2>1, Taken
<1>4. m \in Requests /\ m \in DownMessages
  BY <1>2, <1>3 DEF UpMessages, DownMessages
<1>5. /\ down' \in Channels(DownMessages)
      /\ lost' \subseteq Requests /\ lost \subseteq lost'
      /\ \A r : OnTheWay(r, down) => OnTheWay(r, down')
      /\ OnTheWay(m, down') \/ m \in lost'
  BY <1>0, <1>2, <1>4, Sent
<1>6. Idle' /\ conns' \in [Sockets -> Conn]
  BY <1>0, <1>2 DEF Idle, ChannelTypes
<1>7. \A r \in Requests :
        (OnTheWay(r, up) \/ AtServer(r) \/ OnTheWay(r, down)) => Somewhere(r)'
  BY <1>2, <1>3, <1>5 DEF Somewhere, AtServer
<1> QED BY <1>2, <1>3, <1>5, <1>6, <1>7, Carried

\* So does the reply of a sub-agent.
LEMMA ReplyPaths ==
    ASSUME PathInv, NEW k \in Sockets, NEW outcome, Reply(k, outcome)
    PROVE  PathsInv'
<1>0. ChannelTypes /\ Idle
  BY DEF PathInv
<1>1. PICK m : m = conns[k].request
  OBVIOUS
<1>2. /\ UNCHANGED <<prompts, pending, answered, delayed, up>> /\ SendToClient(k, m)
      /\ conns' = [conns EXCEPT ![k].phase = "receiving", ![k].request = Null]
  BY <1>1 DEF Reply, pageVars, requestVars
<1>3. /\ conns' \in [Sockets -> Conn] /\ m \in DownMessages
      /\ conns'[k].request = Null
      /\ \A j \in Sockets : j # k => conns'[j] = conns[j]
  BY <1>0, <1>1, <1>2 DEF ChannelTypes, Conn, DownMessages, Null, LaneError
<1>4. Idle'
  BY <1>0, <1>3 DEF Idle
<1>5. /\ down' \in Channels(DownMessages)
      /\ lost' \subseteq Requests /\ lost \subseteq lost'
      /\ \A r : OnTheWay(r, down) => OnTheWay(r, down')
      /\ m \in Requests => OnTheWay(m, down') \/ m \in lost'
  BY <1>0, <1>2, <1>3, Sent
<1>6. \A r \in Requests :
        (OnTheWay(r, up) \/ AtServer(r) \/ OnTheWay(r, down)) => Somewhere(r)'
  BY <1>1, <1>2, <1>3, <1>5 DEF Somewhere, AtServer
<1>7. up' \in Channels(UpMessages)
  BY <1>0, <1>2 DEF ChannelTypes
<1> QED BY <1>2, <1>3, <1>4, <1>5, <1>6, <1>7, Carried

LEMMA LanePaths ==
    ASSUME PathInv, NEW k \in Sockets, LaneFails(k)
    PROVE  PathsInv'
<1>0. ChannelTypes /\ Idle
  BY DEF PathInv
<1>1. UNCHANGED <<prompts, pending, answered, delayed, up, conns>> /\ SendToClient(k, LaneError)
  BY DEF LaneFails, pageVars, requestVars
<1>2. LaneError \in DownMessages
  BY DEF DownMessages
<1>3. /\ down' \in Channels(DownMessages)
      /\ lost' \subseteq Requests /\ lost \subseteq lost'
      /\ \A r : OnTheWay(r, down) => OnTheWay(r, down')
  BY <1>0, <1>1, <1>2, Sent
<1>4. Idle' /\ conns' \in [Sockets -> Conn] /\ up' \in Channels(UpMessages)
  BY <1>0, <1>1 DEF Idle, ChannelTypes
<1>5. \A r \in Requests :
        (OnTheWay(r, up) \/ AtServer(r) \/ OnTheWay(r, down)) => Somewhere(r)'
  BY <1>1, <1>3 DEF Somewhere, AtServer
<1> QED BY <1>1, <1>3, <1>4, <1>5, Carried

\* What the client had sent goes with the connection.
LEMMA HangUpPaths ==
    ASSUME PathInv, NEW k \in Sockets, HangUp(k)
    PROVE  PathsInv'
<1>0. ChannelTypes /\ Idle
  BY DEF PathInv
<1>1. /\ UNCHANGED <<prompts, pending, answered, delayed, down>>
      /\ conns' = [conns EXCEPT ![k].phase = "gone"] /\ conns[k].phase = "receiving"
      /\ up' = Cleared(up, k)
      /\ lost' = lost \union {r \in Requests : \E i \in DOMAIN up[k] : up[k][i] = r}
  BY DEF HangUp, pageVars, requestVars, Cleared
<1>2. /\ up' \in Channels(UpMessages)
      /\ \A r : OnTheWay(r, up) => OnTheWay(r, up') \/ Holds(up[k], r)
  <2>1. up \in Channels(UpMessages)
    BY <1>0 DEF ChannelTypes
  <2> QED BY <1>1, <2>1, Emptied
<1>3. /\ conns' \in [Sockets -> Conn]
      /\ \A j \in Sockets : conns'[j].request = conns[j].request
      /\ \A j \in Sockets : j # k => conns'[j].phase = conns[j].phase
  BY <1>0, <1>1 DEF ChannelTypes, Conn
<1>4. Idle'
  BY <1>0, <1>1, <1>3 DEF Idle
<1>5. lost \subseteq lost' /\ lost' \subseteq Requests /\ down' \in Channels(DownMessages)
  BY <1>0, <1>1 DEF ChannelTypes
<1>6. \A r \in Requests :
        (OnTheWay(r, up) \/ AtServer(r) \/ OnTheWay(r, down)) => Somewhere(r)'
  BY <1>1, <1>2, <1>3 DEF Somewhere, AtServer, Holds
<1> QED BY <1>1, <1>2, <1>3, <1>4, <1>5, <1>6, Carried

\* The other steps move nothing.
LEMMA QuietPaths ==
    ASSUME PathInv,
           UNCHANGED <<up, down, prompts, pending, answered, delayed, lost, conns>>
    PROVE  PathsInv'
<1>0. ChannelTypes /\ Idle
  BY DEF PathInv
<1>1. /\ Idle' /\ conns' \in [Sockets -> Conn] /\ UNCHANGED <<prompts, pending, answered, delayed>>
      /\ up' \in Channels(UpMessages) /\ down' \in Channels(DownMessages)
      /\ lost \subseteq lost' /\ lost' \subseteq Requests
  BY <1>0 DEF Idle, ChannelTypes
<1>2. \A r \in Requests :
        (OnTheWay(r, up) \/ AtServer(r) \/ OnTheWay(r, down)) => Somewhere(r)'
  BY DEF Somewhere, AtServer
<1> QED BY <1>1, <1>2, Carried

LEMMA StepPaths ==
    ASSUME SocketInv, PathInv, Begun, [Next]_vars
    PROVE  PathInv'
<1> SUFFICES PathsInv'
  BY StepCounts DEF PathsInv, PathInv
<1>1. CASE PageStep
  <2>1. CASE Page(Prompt)
    BY <2>1, PromptPaths
  <2>2. ASSUME NEW r \in Requests, Page(SendLater(r))
        PROVE  PathsInv'
    BY <2>2, LaterPaths
  <2>3. CASE Page(Open) \/ Page(Stop) \/ Page(Disconnect) \/ Page(ReconnectFires) \/ Page(Render)
    <3>1. UNCHANGED <<up, down, prompts, pending, answered, delayed, lost, conns>>
      BY <2>3 DEF Page, Open, Stop, Disconnect, ReconnectFires, Render, requestVars
    <3> QED BY <3>1, QuietPaths
  <2> QED BY <1>1, <2>1, <2>2, <2>3 DEF PageStep
<1>2. ASSUME NEW k \in Sockets, ChannelStep(k)
      PROVE  PathsInv'
  BY <1>2, AcceptPaths, ClosePaths, DeliverPaths DEF ChannelStep
<1>3. ASSUME NEW k \in Sockets, PromptStep(k)
      PROVE  PathsInv'
  BY <1>3, ReceivePaths, RefusePaths DEF PromptStep
<1>4. ASSUME NEW k \in Sockets, ServerStep(k)
      PROVE  PathsInv'
  <2>1. CASE SubagentWorks(k)
    <3>1. UNCHANGED <<up, down, prompts, pending, answered, delayed, lost, conns>>
      BY <2>1 DEF SubagentWorks, clientVars
    <3> QED BY <3>1, QuietPaths
  <2>2. ASSUME NEW outcome, Reply(k, outcome)
        PROVE  PathsInv'
    BY <2>2, ReplyPaths
  <2>3. CASE ReceiveConnect(k) \/ HangUp(k) \/ LaneFails(k)
    BY <2>3, ConnectPaths, HangUpPaths, LanePaths
  <2> QED BY <1>4, <2>1, <2>2, <2>3 DEF ServerStep
<1>5. CASE UNCHANGED vars
  <2>1. UNCHANGED <<up, down, prompts, pending, answered, delayed, lost, conns>>
    BY <1>5 DEF vars, clientVars
  <2> QED BY <2>1, QuietPaths
<1> QED BY <1>1, <1>2, <1>3, <1>4, <1>5, EachStep

-----------------------------------------------------------------------------
(* The handler of a socket begins when it has opened, and gets the         *)
(* handshake first.                                                        *)

\* What has opened does not connect again.
Opened(k) == k \in DOMAIN sockets /\ sockets[k] # "connecting"

LEMMA StaysOpened ==
    ASSUME SocketInv, [Next]_vars, NEW k, Opened(k)
    PROVE  Opened(k)'
<1>0. sockets \in Seq(ReadyState) /\ k \in DOMAIN sockets /\ sockets[k] # "connecting"
  BY DEF SocketInv, SocketTypes, Opened
<1>1. ASSUME NEW j, NEW x, x # "connecting", sockets' = [sockets EXCEPT ![j] = x]
      PROVE  Opened(k)'
  BY <1>0, <1>1 DEF Opened
<1>2. ASSUME sockets' = sockets
      PROVE  Opened(k)'
  BY <1>0, <1>2 DEF Opened
<1>3. ASSUME sockets' = Append(sockets, "connecting")
      PROVE  Opened(k)'
  <2>1. k \in 1..Len(sockets) /\ Len(sockets) \in Nat
    BY <1>0
  <2> QED BY <1>0, <1>3, <2>1 DEF Opened
<1>4. \/ sockets' = sockets \/ sockets' = Append(sockets, "connecting")
      \/ \E j, x : x # "connecting" /\ sockets' = [sockets EXCEPT ![j] = x]
  <2>1. CASE PageStep
    <3>1. CASE Page(Disconnect)
      BY <3>1 DEF Page, Disconnect
    <3>2. CASE ~Page(Disconnect)
      BY <2>1, <3>2 DEF PageStep, Page, Open, Prompt, Stop, SendLater, ReconnectFires, Render,
         ConnectCall, socketVars
    <3> QED BY <3>1, <3>2
  <2>2. ASSUME NEW j \in Sockets, ChannelStep(j) \/ PromptStep(j) \/ ServerStep(j)
        PROVE  sockets' = sockets \/ \E x : x # "connecting" /\ sockets' = [sockets EXCEPT ![j] = x]
    <3>1. CASE Accept(j)
      BY <3>1 DEF Accept, SocketOpens
    <3>2. CASE Page(SocketCloses(j))
      BY <3>2 DEF Page, SocketCloses
    <3>3. CASE ~(Accept(j) \/ Page(SocketCloses(j)))
      BY <2>2, <3>3 DEF ChannelStep, PromptStep, ServerStep, Page, Deliver, ReceivePrompt, RefusePrompt,
         ReceiveConnect, SubagentWorks, HangUp, LaneFails, Reply, pageVars, clientVars, socketVars
    <3> QED BY <3>1, <3>2, <3>3
  <2>3. CASE UNCHANGED vars
    BY <2>3 DEF vars, clientVars
  <2> QED BY <2>1, <2>2, <2>3, EachStep
<1> QED BY <1>1, <1>2, <1>3, <1>4

\* Phases change at the steps of their connection only, and begin with Accept.
LEMMA StepBegun ==
    ASSUME SocketInv, ChannelTypes, Begun, [Next]_vars
    PROVE  Begun'
<1> SUFFICES ASSUME NEW k \in Sockets, conns'[k].phase # "none"
             PROVE  Opened(k)'
  BY DEF Begun, Opened
<1>0. conns \in [Sockets -> Conn]
  BY DEF ChannelTypes
<1>1. CASE conns[k].phase # "none"
  <2>1. Opened(k)
    BY <1>1 DEF Begun, Opened
  <2> QED BY <2>1, StaysOpened
<1>2. CASE conns[k].phase = "none"
  <2>1. conns' # conns
    BY <1>2
  <2>2. PICK j \in Sockets : ChannelStep(j) \/ PromptStep(j) \/ ServerStep(j)
    <3>1. PageStep \/ UNCHANGED vars => conns' = conns
      BY DEF PageStep, Page, vars
    <3> QED BY <2>1, <3>1, EachStep
  <2>3. CASE Accept(j)
    <3>1. j = k
      BY <1>0, <1>2, <2>3 DEF Accept
    <3>2. /\ k \in DOMAIN sockets /\ sockets' = [sockets EXCEPT ![k] = "open"]
      BY <2>3, <3>1 DEF Accept, SocketOpens
    <3> QED BY <3>2 DEF SocketInv, SocketTypes, Opened
  <2>4. CASE ~Accept(j)
    <3>1. CASE j # k
      <4>1. conns'[k] = conns[k]
        BY <1>0, <2>2, <2>4, <3>1 DEF ChannelStep, PromptStep, ServerStep, Page, ReceivePrompt,
           RefusePrompt, ReceiveConnect, SubagentWorks, HangUp, LaneFails, Reply
      <4> QED BY <1>2, <4>1
    <3>2. CASE j = k
      <4>1. conns'[k].phase = "none"
        BY <1>0, <1>2, <2>1, <2>2, <2>4, <3>2 DEF ChannelStep, PromptStep, ServerStep, Page, ReceivePrompt,
           RefusePrompt, ReceiveConnect, SubagentWorks, HangUp, LaneFails, Reply, Receiving, Conn
      <4> QED BY <4>1
    <3> QED BY <3>1, <3>2
  <2> QED BY <2>3, <2>4
<1> QED BY <1>1, <1>2

\* Once something is sent to a connection, or can be, its first message is the
\* handshake, unless that has been received.
Greets(k) == conns[k].bound \/ (up[k] # <<>> /\ up[k][1] = Handshake)
Addressed(k) == up[k] # <<>> \/ (CanSend /\ ws = k)
GreetInv == \A k \in Sockets : Addressed(k) => Greets(k)

\* A socket that can be sent to could be before, unless it has just opened.
LEMMA SendBefore ==
    ASSUME SocketInv, [Next]_vars, \A k \in Sockets : ~Accept(k), CanSend'
    PROVE  CanSend /\ ws' = ws
<1>0. SocketTypes /\ OneLive
  BY DEF SocketInv
<1>1. CASE ConnectCall /\ mishaps' = mishaps
  BY <1>0, <1>1, Connects
<1>2. CASE UNCHANGED <<ws, sockets>>
  BY <1>2 DEF CanSend
<1>3. CASE ws' = Null
  BY <1>3 DEF CanSend
<1>4. (ConnectCall /\ mishaps' = mishaps) \/ UNCHANGED <<ws, sockets>> \/ ws' = Null
  <2>1. CASE PageStep
    BY <2>1 DEF PageStep, Page, Open, Prompt, Stop, SendLater, Disconnect, ReconnectFires, Render,
       socketVars
  <2>2. ASSUME NEW j \in Sockets, ChannelStep(j) \/ PromptStep(j) \/ ServerStep(j)
        PROVE  UNCHANGED <<ws, sockets>> \/ ws' = Null
    BY <2>2 DEF ChannelStep, PromptStep, ServerStep, Page, Deliver, SocketCloses, ReceivePrompt,
       RefusePrompt, ReceiveConnect, SubagentWorks, HangUp, LaneFails, Reply, pageVars, clientVars,
       socketVars
  <2>3. CASE UNCHANGED vars
    BY <2>3 DEF vars, clientVars
  <2> QED BY <2>1, <2>2, <2>3, EachStep
<1> QED BY <1>1, <1>2, <1>3, <1>4

\* send() leaves the first message first.
LEMMA CallGreets ==
    ASSUME SocketTypes, ChannelTypes, GreetInv, NEW m \in UpMessages, UNCHANGED <<ws, sockets, conns>>,
           up' = up \/ (CanSend /\ up' = Extended(up, ws, m))
    PROVE  GreetInv'
<1>1. CASE up' = up
  BY <1>1 DEF GreetInv, Greets, Addressed, CanSend
<1>2. CASE CanSend /\ up' = Extended(up, ws, m)
  <2>1. ws \in Sockets /\ up \in Channels(UpMessages)
    BY <1>2, CurrentSocket DEF CanSend, ChannelTypes
  <2>2. /\ up'[ws] # <<>> /\ Elsewhere(up', up, ws)
        /\ up[ws] # <<>> => up'[ws][1] = up[ws][1]
    BY <1>2, <2>1, Added
  <2>3. ASSUME NEW k \in Sockets, k = ws
        PROVE  Greets(k)'
    <3>1. Greets(k)
      BY <1>2, <2>3 DEF GreetInv, Addressed
    <3> QED BY <2>2, <2>3, <3>1 DEF Greets
  <2>4. ASSUME NEW k \in Sockets, k # ws, Addressed(k)'
        PROVE  Greets(k)'
    <3>1. up'[k] = up[k]
      BY <2>2, <2>4 DEF Elsewhere
    <3>2. Greets(k)
      BY <2>4, <3>1 DEF GreetInv, Addressed
    <3> QED BY <3>1, <3>2 DEF Greets
  <2> QED BY <2>3, <2>4 DEF GreetInv
<1> QED BY <1>1, <1>2

\* onopen sends the handshake to the socket of ws, which may be another one.
LEMMA AcceptGreets ==
    ASSUME SocketTypes, ChannelTypes, GreetInv, NEW k \in Sockets, Accept(k)
    PROVE  GreetInv'
<1>0. up \in Channels(UpMessages) /\ conns \in [Sockets -> Conn] /\ Handshake \in UpMessages
  BY DEF ChannelTypes, UpMessages
<1>1. /\ ws' = ws /\ conns' = [conns EXCEPT ![k].phase = "receiving"]
      /\ CanSend' => up' = Extended(up, ws, Handshake)
      /\ ~CanSend' => up' = up
  BY DEF Accept, SocketOpens, CanSend, Extended
<1>2. \A j \in Sockets : conns'[j].bound = conns[j].bound
  BY <1>0, <1>1 DEF Conn
<1>3. CASE CanSend'
  <2>1. ws \in Sockets
    BY <1>1, <1>3, CurrentSocket DEF CanSend
  <2>2. /\ up'[ws] # <<>> /\ Elsewhere(up', up, ws)
        /\ up[ws] = <<>> => up'[ws][1] = Handshake
        /\ up[ws] # <<>> => up'[ws][1] = up[ws][1]
    BY <1>0, <1>1, <1>3, <2>1, Added
  <2>3. ASSUME NEW j \in Sockets, j = ws
        PROVE  Greets(j)'
    <3>1. up[j] # <<>> => Greets(j)
      BY DEF GreetInv, Addressed
    <3> QED BY <1>2, <2>2, <2>3, <3>1 DEF Greets
  <2>4. ASSUME NEW j \in Sockets, j # ws, Addressed(j)'
        PROVE  Greets(j)'
    <3>1. up'[j] = up[j]
      BY <2>2, <2>4 DEF Elsewhere
    <3>2. Greets(j)
      BY <1>1, <2>4, <3>1 DEF GreetInv, Addressed
    <3> QED BY <1>2, <3>1, <3>2 DEF Greets
  <2> QED BY <2>3, <2>4 DEF GreetInv
<1>4. CASE ~CanSend'
  BY <1>1, <1>2, <1>4 DEF GreetInv, Greets, Addressed
<1> QED BY <1>3, <1>4

\* The connection whose messages are received has been greeted; what it has left
\* needs no handshake.
LEMMA TakeGreets ==
    ASSUME ChannelTypes, GreetInv, CanSend' => CanSend /\ ws' = ws, NEW k \in Sockets,
           Elsewhere(up', up, k), conns'[k].bound \/ ~Addressed(k)',
           \A j \in Sockets : conns[j].bound => conns'[j].bound
    PROVE  GreetInv'
<1> SUFFICES ASSUME NEW j \in Sockets, Addressed(j)'
             PROVE  Greets(j)'
  BY DEF GreetInv
<1>1. CASE j = k
  BY <1>1 DEF Greets
<1>2. CASE j # k
  <2>1. up'[j] = up[j]
    BY <1>2 DEF Elsewhere
  <2>2. Greets(j)
    BY <2>1 DEF GreetInv, Addressed
  <2> QED BY <2>1, <2>2 DEF Greets
<1> QED BY <1>1, <1>2

LEMMA QuietGreets ==
    ASSUME GreetInv, CanSend' => CanSend /\ ws' = ws, UNCHANGED <<up, conns>>
    PROVE  GreetInv'
BY DEF GreetInv, Greets, Addressed

\* The connections' steps, for which the sockets stay as they are.
LEMMA ServerGreets ==
    ASSUME ChannelTypes, GreetInv, NEW k \in Sockets, PromptStep(k) \/ ServerStep(k)
    PROVE  GreetInv'
<1>0. up \in Channels(UpMessages) /\ conns \in [Sockets -> Conn]
  BY DEF ChannelTypes
<1>1. UNCHANGED <<ws, sockets>> /\ (CanSend' => CanSend /\ ws' = ws)
  BY DEF PromptStep, ServerStep, ReceivePrompt, RefusePrompt, ReceiveConnect, SubagentWorks, HangUp,
     LaneFails, Reply, pageVars, clientVars, socketVars, CanSend
<1>2. ASSUME ReceiveConnect(k) \/ PromptStep(k)
      PROVE  GreetInv'
  <2>1. up[k] # <<>> /\ up' = Shortened(up, k)
    BY <1>2 DEF ReceiveConnect, PromptStep, ReceivePrompt, RefusePrompt, Receiving, Received, Shortened
  <2>2. Elsewhere(up', up, k)
    BY <1>0, <2>1, Taken
  <2>3. conns'[k].bound /\ \A j \in Sockets : conns[j].bound => conns'[j].bound
    BY <1>0, <1>2 DEF ReceiveConnect, PromptStep, ReceivePrompt, RefusePrompt, Conn
  <2> QED BY <1>1, <2>2, <2>3, TakeGreets
<1>3. CASE HangUp(k)
  <2>1. /\ sockets[k] \in {"closing", "closed"} /\ up' = Cleared(up, k)
        /\ conns' = [conns EXCEPT ![k].phase = "gone"]
    BY <1>3 DEF HangUp, Cleared
  <2>2. Elsewhere(up', up, k) /\ up'[k] = <<>>
    BY <1>0, <2>1, Emptied
  <2>3. ~Addressed(k)'
    BY <1>1, <2>1, <2>2 DEF Addressed, CanSend
  <2>4. \A j \in Sockets : conns[j].bound => conns'[j].bound
    BY <1>0, <2>1 DEF Conn
  <2> QED BY <1>1, <2>2, <2>3, <2>4, TakeGreets
<1>4. CASE SubagentWorks(k) \/ LaneFails(k)
  <2>1. UNCHANGED <<up, conns>>
    BY <1>4 DEF SubagentWorks, LaneFails, clientVars
  <2> QED BY <1>1, <2>1, QuietGreets
<1>5. ASSUME NEW outcome, Reply(k, outcome)
      PROVE  GreetInv'
  <2>1. /\ up' = up
        /\ conns' = [conns EXCEPT ![k].phase = "receiving", ![k].request = Null]
    BY <1>5 DEF Reply
  <2>2. \A j \in Sockets : conns'[j].bound = conns[j].bound
    BY <1>0, <2>1 DEF Conn
  <2> QED BY <1>1, <2>1, <2>2 DEF GreetInv, Greets, Addressed
<1> QED BY <1>2, <1>3, <1>4, <1>5 DEF ServerStep

LEMMA StepGreets ==
    ASSUME SocketInv, ChannelTypes, GreetInv, [Next]_vars
    PROVE  GreetInv'
<1>0. SocketTypes
  BY DEF SocketInv
<1>1. ASSUME NEW k \in Sockets, Accept(k)
      PROVE  GreetInv'
  BY <1>0, <1>1, AcceptGreets
<1>2. CASE \A k \in Sockets : ~Accept(k)
  <2>1. CanSend' => CanSend /\ ws' = ws
    BY <1>2, SendBefore
  <2>2. ASSUME NEW m \in Requests, SendCall(m), UNCHANGED <<ws, sockets, conns>>
        PROVE  GreetInv'
    <3>1. m \in UpMessages /\ (up' = up \/ (CanSend /\ up' = Extended(up, ws, m)))
      BY <2>2 DEF SendCall, Extended, UpMessages
    <3> QED BY <1>0, <2>2, <3>1, CallGreets
  <2>3. CASE PageStep
    <3>1. CASE UNCHANGED <<up, conns>>
      BY <2>1, <3>1, QuietGreets
    <3>2. CASE ~UNCHANGED <<up, conns>>
      <4>1. CASE Page(Prompt)
        <5>1. \E m \in Requests : SendCall(m) /\ UNCHANGED <<ws, sockets, conns>>
          BY <3>2, <4>1 DEF Page, Prompt
        <5> QED BY <2>2, <5>1
      <4>2. CASE \E r \in Requests : Page(SendLater(r))
        <5>1. \E m \in Requests : SendCall(m) /\ UNCHANGED <<ws, sockets, conns>>
          BY <4>2 DEF Page, SendLater, socketVars
        <5> QED BY <2>2, <5>1
      <4>3. Page(Prompt) \/ \E r \in Requests : Page(SendLater(r))
        BY <2>3, <3>2 DEF PageStep, Page, Open, Stop, Disconnect, ReconnectFires, Render
      <4> QED BY <4>1, <4>2, <4>3
    <3> QED BY <3>1, <3>2
  <2>4. ASSUME NEW k \in Sockets, PromptStep(k) \/ ServerStep(k)
        PROVE  GreetInv'
    BY <2>4, ServerGreets
  <2>5. ASSUME NEW k \in Sockets, Page(SocketCloses(k)) \/ Page(Deliver(k))
        PROVE  GreetInv'
    <3>1. UNCHANGED <<up, conns>>
      BY <2>5 DEF Page, SocketCloses, Deliver
    <3> QED BY <2>1, <3>1, QuietGreets
  <2>6. CASE UNCHANGED vars
    <3>1. UNCHANGED <<up, conns>>
      BY <2>6 DEF vars, clientVars
    <3> QED BY <2>1, <3>1, QuietGreets
  <2> QED BY <1>2, <2>3, <2>4, <2>5, <2>6, EachStep DEF ChannelStep
<1> QED BY <1>1, <1>2

-----------------------------------------------------------------------------
(* The theorems.                                                           *)

IInv == SocketInv /\ SlotInv /\ PathInv /\ Begun /\ GreetInv

LEMMA InitIInv == Init => IInv
<1> SUFFICES ASSUME Init
             PROVE  IInv
  OBVIOUS
<1>1. SocketInv /\ SlotInv
  BY InitSockets, InitSlots
<1>2. /\ ws = Null /\ sockets = <<>> /\ pending = {} /\ rendered = [pending |-> {}, connected |-> FALSE]
      /\ delayed = {} /\ stopTimers = 0 /\ prompts = 0 /\ calls = 0 /\ failures = 0
      /\ answered = {} /\ lost = {}
      /\ up = [k \in Sockets |-> <<>>] /\ down = [k \in Sockets |-> <<>>]
      /\ conns = [k \in Sockets |-> [phase |-> "none", bound |-> FALSE, request |-> Null]]
  BY DEF Init, ClientInit
<1>3. ChannelTypes
  <2>1. up \in Channels(UpMessages) /\ down \in Channels(DownMessages)
    BY <1>2 DEF Channels
  <2>2. conns \in [Sockets -> Conn]
    BY <1>2 DEF Conn
  <2> QED BY <1>2, <2>1, <2>2 DEF ChannelTypes
<1>4. CountTypes
  BY <1>2, ClientAssumption DEF CountTypes
<1>5. Located
  BY <1>2 DEF Located
<1>6. Idle /\ Begun
  BY <1>2 DEF Idle, Begun
<1>7. GreetInv
  BY <1>2 DEF GreetInv, Addressed, CanSend
<1> QED BY <1>1, <1>3, <1>4, <1>5, <1>6, <1>7 DEF IInv, PathInv

LEMMA StepIInv == IInv /\ [Next]_vars => IInv'
<1> SUFFICES ASSUME IInv, [Next]_vars
             PROVE  IInv'
  OBVIOUS
<1>1. SocketInv /\ SlotInv /\ PathInv /\ Begun /\ GreetInv /\ ChannelTypes
  BY DEF IInv, PathInv
<1>2. SocketInv' /\ SlotInv' /\ PathInv'
  BY <1>1, StepSockets, StepSlots, StepPaths
<1>3. Begun' /\ GreetInv'
  BY <1>1, StepBegun, StepGreets
<1> QED BY <1>2, <1>3 DEF IInv

LEMMA IInvHolds == Spec => []IInv
<1>1. Init => IInv
  BY InitIInv
<1>2. IInv /\ [Next]_vars => IInv'
  BY StepIInv
<1> QED BY <1>1, <1>2, PTL DEF Spec

\* PathTypes: page, channels, connections and sub-agents keep their types; among
\* them, the limit on a sub-agent's response, MAX_SUBAGENT_RESPONSE_CHARS.
THEOREM PathTypes == Spec => []TypeOK
<1>1. IInv => TypeOK
  <2> SUFFICES ASSUME IInv
               PROVE  TypeOK
    OBVIOUS
  <2>1. SocketTypes /\ TimerTypes /\ ChannelTypes /\ CountTypes /\ OrchestratorTypeOK
    BY DEF IInv, SocketInv, PathInv, SlotInv
  <2>2. ClientTypeOK
    BY <2>1 DEF ClientTypeOK, SocketTypes, TimerTypes, ChannelTypes, CountTypes, ReadyState, Channels,
       UpMessages, DownMessages
  <2> QED BY <2>1, <2>2 DEF TypeOK, ChannelTypes
<1> QED BY <1>1, IInvHolds, PTL

\* RequestsAreAccounted: the page waits for no request that is nowhere, and has an
\* answer to show for every other; slots are taken by the sub-agents there are, and
\* these are never more than MaxSubagents.
THEOREM RequestsAreAccounted == Spec => []RequestsAccounted
<1>1. IInv => RequestsAccounted
  <2> SUFFICES ASSUME IInv
               PROVE  RequestsAccounted
    OBVIOUS
  <2>1. Located /\ SlotInv
    BY DEF IInv, PathInv
  <2>2. ASSUME NEW r \in 1..prompts
        PROVE  IF Pending(r)
               THEN r \in delayed \/ OnTheWay(r, up) \/ AtServer(r) \/ OnTheWay(r, down) \/ r \in lost
               ELSE r \in answered
    BY <2>1 DEF Located, Pending, Somewhere
  <2> QED BY <2>1, <2>2 DEF RequestsAccounted, SlotInv
<1> QED BY <1>1, IInvHolds, PTL

\* ClientHasOneSocket: one live socket, the client's own, unless a close event came
\* late; nothing armed after disconnect(), unless there were two timers; and the
\* handshake before any prompt, whichever sockets come and go.
THEOREM ClientHasOneSocket == Spec => []OneSocket
<1>1. IInv => OneSocket
  <2> SUFFICES ASSUME IInv
               PROVE  OneSocket
    OBVIOUS
  <2>1. OneLive /\ TimersKnown /\ GreetInv /\ up \in Channels(UpMessages)
    BY DEF IInv, SocketInv, PathInv, ChannelTypes
  <2>2. ASSUME NEW k \in Sockets, NEW i \in DOMAIN up[k], up[k][i] # Handshake, ~conns[k].bound
        PROVE  \E j \in 1..(i - 1) : up[k][j] = Handshake
    <3>1. up[k] # <<>> /\ i \in 1..Len(up[k]) /\ Len(up[k]) \in Nat
      BY <2>1, <2>2 DEF Channels
    <3>2. up[k][1] = Handshake
      BY <2>1, <2>2, <3>1 DEF GreetInv, Addressed, Greets
    <3>3. 1 \in 1..(i - 1)
      BY <2>2, <3>1, <3>2
    <3> QED BY <3>2, <3>3
  <2>3. intentional /\ "twoTimers" \notin mishaps => timers = 0
    BY <2>1 DEF TimersKnown
  <2> QED BY <2>1, <2>2, <2>3 DEF OneSocket, OneLive
<1> QED BY <1>1, IInvHolds, PTL
=============================================================================
