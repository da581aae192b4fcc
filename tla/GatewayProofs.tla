---------------------------- MODULE GatewayProofs ----------------------------
(***************************************************************************)
(* Theorems about Gateway, for every set of connections and all bounds:    *)
(* its type invariant, that registry, lanes and sessions agree, and that   *)
(* output stays with the connection whose session it belongs to.  Runs of  *)
(* one lane may overlap, and cron jobs add agents to the registry.         *)
(*                                                                         *)
(* What separates two clients is that a session is created for one         *)
(* connection only: made, the sessions that a connection created, is       *)
(* disjoint from every other connection's (MadeOnce), and a connection     *)
(* listens only on lanes of sessions that it made (ListensToMade).         *)
(***************************************************************************)
EXTENDS Gateway, SequenceTheorems, FiniteSetTheorems, TLAPS

\* The part of a sequence before a position and the part after it: an agent leaves
\* the registry.
LEMMA Halves ==
    ASSUME NEW D, NEW q \in Seq(D), NEW h \in Nat, h <= Len(q)
    PROVE  /\ SubSeq(q, 1, h) \in Seq(D) /\ Len(SubSeq(q, 1, h)) = h
           /\ \A i \in 1..h : SubSeq(q, 1, h)[i] = q[i]
           /\ SubSeq(q, h + 1, Len(q)) \in Seq(D)
           /\ Len(SubSeq(q, h + 1, Len(q))) = Len(q) - h
           /\ \A i \in 1..(Len(q) - h) : SubSeq(q, h + 1, Len(q))[i] = q[h + i]
OBVIOUS

\* Taking out the element at position h + 1.
LEMMA CutOut ==
    ASSUME NEW D, NEW q \in Seq(D), NEW h \in Nat, h + 1 <= Len(q)
    PROVE  \A p : p = SubSeq(q, 1, h) \o SubSeq(q, h + 1 + 1, Len(q)) =>
             /\ p \in Seq(D) /\ Len(p) = Len(q) - 1
             /\ \A i \in 1..h : p[i] = q[i]
             /\ \A i \in (h + 1)..(Len(q) - 1) : p[i] = q[i + 1]
<1>1. Len(q) \in Nat /\ h + 1 \in Nat /\ h <= Len(q)
  OBVIOUS
<1>2. PICK front : front = SubSeq(q, 1, h)
  OBVIOUS
<1>3. PICK back : back = SubSeq(q, h + 1 + 1, Len(q))
  OBVIOUS
<1>f. front \in Seq(D) /\ Len(front) = h /\ \A i \in 1..h : front[i] = q[i]
  BY <1>1, <1>2, Halves
<1>b. /\ back \in Seq(D) /\ Len(back) = Len(q) - (h + 1)
      /\ \A i \in 1..(Len(q) - (h + 1)) : back[i] = q[h + 1 + i]
  <2>1. /\ SubSeq(q, h + 1 + 1, Len(q)) \in Seq(D)
        /\ Len(SubSeq(q, h + 1 + 1, Len(q))) = Len(q) - (h + 1)
        /\ \A i \in 1..(Len(q) - (h + 1)) : SubSeq(q, h + 1 + 1, Len(q))[i] = q[h + 1 + i]
    BY <1>1, Halves
  <2> QED BY <1>3, <2>1
<1>4. PICK p : p = front \o back
  OBVIOUS
<1>c. /\ p \in Seq(D) /\ Len(p) = Len(front) + Len(back)
      /\ \A i \in 1..(Len(front) + Len(back)) :
           p[i] = IF i <= Len(front) THEN front[i] ELSE back[i - Len(front)]
  BY <1>f, <1>b, <1>4, ConcatProperties
<1>5. Len(p) = Len(q) - 1 /\ Len(front) + Len(back) = Len(q) - 1
  BY <1>1, <1>f, <1>b, <1>c
<1>6. \A i \in 1..h : p[i] = q[i]
  BY <1>1, <1>f, <1>c, <1>5
<1>7. ASSUME NEW i \in (h + 1)..(Len(q) - 1)
      PROVE  p[i] = q[i + 1]
  <2>1. i - h \in 1..(Len(q) - (h + 1)) /\ h + 1 + (i - h) = i + 1
    BY <1>1
  <2>2. p[i] = back[i - h]
    BY <1>1, <1>f, <1>c, <1>5
  <2> QED BY <1>b, <2>1, <2>2
<1>8. \A r : r = SubSeq(q, 1, h) \o SubSeq(q, h + 1 + 1, Len(q)) => r = p
  BY <1>2, <1>3, <1>4
<1> QED BY <1>c, <1>5, <1>6, <1>7, <1>8
-----------------------------------------------------------------------------
Live == {n \in DOMAIN status : status[n] # "ended"}

\* What is known of one connection when there are n sessions and m runs.
ConnOK(x, n, m) ==
    /\ x \in Conn
    /\ x.made \subseteq 1..n
    /\ x.session = NoSession \/ x.session \in x.made
    /\ x.lane = x.session
    /\ x.state = "replying" => x.reply \in x.made
    /\ x.buffer \subseteq 1..m

ConnInv ==
    /\ conns \in [Conns -> Conn]
    /\ \A c \in Conns : ConnOK(conns[c], Len(status), Len(runs))

\* Every run was started for a message of its own.
RunsPaid == IsFiniteSet(waiting) /\ Len(runs) + Cardinality(waiting) <= enqueued

\* Only lanes of sessions that exist, and of cron jobs, get messages.
LanesKnown == \A w \in waiting : w.lane.kind # "cron" => w.lane.of \in DOMAIN status

TypeInv ==
    /\ TypeOK /\ ConnInv /\ RunsPaid /\ LanesKnown
    /\ Len(status) <= MaxSessions

MadeOnce ==
    \A c, d \in Conns : \A n \in conns[c].made \intersect conns[d].made : c = d

ListensToMade ==
    \A l \in Lane : \A c \in listeners[l] : l.kind = "own" /\ l.of \in conns[c].made

\* No value occurs twice in q.
Once(q) == \A i, j \in DOMAIN q : q[i] = q[j] => i = j

Members(q) == {q[i] : i \in DOMAIN q}

GoneIsOver ==
    \A c \in Conns : conns[c].state = "gone" /\ conns[c].session # NoSession =>
        /\ status[conns[c].session] = "ended"
        /\ listeners[OwnLane(conns[c].lane)] = {}

\* The personas whose cron runs got an agent.
Served(q) == {r \in DOMAIN q : q[r].lane.kind = "cron" /\ q[r].agent # NoAgent}
CronAgents == {runs[r].lane.of : r \in Served(runs)}

\* Registry, lanes and sessions agree.
Agree ==
    /\ status \in Seq(Status) /\ Len(status) <= MaxSessions
    /\ agents \in Seq(DOMAIN status \union Personas) /\ Once(agents)
    /\ Members(agents) = Live \union CronAgents /\ laned = Live

RegistryInv == TypeInv /\ Agree /\ MadeOnce /\ ListensToMade /\ GoneIsOver

Executing(r) == runs[r].phase \in {"running", "sending"}

\* A connection that is still there listens to every run whose text it holds,
\* so it has cleared its buffer when the run was done.
TextHeard ==
    \A c \in Conns : \A r \in conns[c].buffer :
        /\ runs[r].lane.kind = "own" /\ runs[r].lane.of \in conns[c].made
        /\ conns[c].state # "gone" => c \in listeners[runs[r].lane] /\ runs[r].phase # "end"

CardsHome ==
    \A card \in cards :
        runs[card.run].lane.kind = "own" /\ runs[card.run].lane.of \in conns[card.to].made

OutputInv == RegistryInv /\ TextHeard /\ CardsHome
-----------------------------------------------------------------------------
\* Removing an agent from the registry: the others stay, each once.
LEMMA RemoveOne ==
    ASSUME NEW D, NEW q \in Seq(D), Once(q), NEW n
    PROVE  /\ AgentRemoved(n, q) \in Seq(D) /\ Once(AgentRemoved(n, q))
           /\ \A a : a \in Members(AgentRemoved(n, q)) <=> a \in Members(q) /\ a # n
<1>0. Len(q) \in Nat /\ DOMAIN q = 1..Len(q) /\ \A i \in 1..Len(q) : q[i] \in D
  OBVIOUS
<1>1. CASE \E i \in DOMAIN q : q[i] = n
  <2>1. PICK at \in 1..Len(q) : at = CHOOSE i \in DOMAIN q : q[i] = n
    BY <1>0, <1>1
  <2>2. q[at] = n
    BY <1>1, <2>1
  <2>3. PICK h \in Nat : at = h + 1 /\ at - 1 = h /\ h + 1 <= Len(q)
    <3>1. at - 1 \in Nat /\ at = (at - 1) + 1 /\ (at - 1) + 1 <= Len(q)
      BY <1>0
    <3> QED BY <3>1
  <2>5. PICK p : p = AgentRemoved(n, q)
    OBVIOUS
  <2>c. p = SubSeq(q, 1, h) \o SubSeq(q, h + 1 + 1, Len(q))
    <3>1. p = SubSeq(q, 1, at - 1) \o SubSeq(q, at + 1, Len(q))
      BY <1>1, <2>1, <2>5 DEF AgentRemoved
    <3>2. at - 1 = h /\ at + 1 = h + 1 + 1
      BY <2>3
    <3> QED BY <3>1, <3>2
  <2>4. /\ p \in Seq(D) /\ Len(p) = Len(q) - 1
        /\ \A i \in 1..h : p[i] = q[i]
        /\ \A i \in (h + 1)..(Len(q) - 1) : p[i] = q[i + 1]
    <3>1. \A x : x = SubSeq(q, 1, h) \o SubSeq(q, h + 1 + 1, Len(q)) =>
                /\ x \in Seq(D) /\ Len(x) = Len(q) - 1
                /\ \A i \in 1..h : x[i] = q[i]
                /\ \A i \in (h + 1)..(Len(q) - 1) : x[i] = q[i + 1]
      BY <2>3, CutOut, Zenon
    <3> QED BY <2>c, <3>1, Zenon
  <2>6. DOMAIN p = 1..(Len(q) - 1)
    BY <1>0, <2>4
  <2>7. \A i \in DOMAIN p : IF i <= h THEN i \in 1..Len(q) /\ p[i] = q[i]
                                      ELSE i + 1 \in 1..Len(q) /\ p[i] = q[i + 1]
    BY <1>0, <2>4, <2>6
  <2>8. Once(p)
    <3> SUFFICES ASSUME NEW i \in DOMAIN p, NEW j \in DOMAIN p, p[i] = p[j]
                 PROVE  i = j
      BY DEF Once
    <3>1. \A a, b \in 1..Len(q) : q[a] = q[b] => a = b
      BY <1>0 DEF Once
    <3> QED BY <1>0, <2>6, <2>7, <3>1
  <2>9. \A i \in DOMAIN p : p[i] \in Members(q) /\ p[i] # n
    <3> SUFFICES ASSUME NEW i \in DOMAIN p
                 PROVE  p[i] \in Members(q) /\ p[i] # n
      OBVIOUS
    <3>1. \A a \in 1..Len(q) : q[a] = n => a = h + 1
      BY <1>0, <2>2, <2>3 DEF Once
    <3> QED BY <1>0, <2>6, <2>7, <3>1 DEF Members
  <2>10. ASSUME NEW a \in Members(q), a # n
         PROVE  a \in Members(p)
    <3>1. PICK j \in 1..Len(q) : q[j] = a /\ j # h + 1
      BY <1>0, <2>2, <2>3, <2>10 DEF Members
    <3>2. CASE j <= h
      <4>1. j \in DOMAIN p /\ p[j] = a
        BY <1>0, <2>3, <2>4, <2>6, <3>1, <3>2
      <4> QED BY <4>1 DEF Members
    <3>3. CASE j > h + 1
      <4>1. j - 1 \in (h + 1)..(Len(q) - 1) /\ j - 1 + 1 = j
        BY <1>0, <3>3
      <4>2. j - 1 \in DOMAIN p /\ p[j - 1] = a
        BY <1>0, <2>4, <2>6, <3>1, <4>1
      <4> QED BY <4>2 DEF Members
    <3> QED BY <1>0, <3>1, <3>2, <3>3
  <2>11. \A a : a \in Members(p) => a \in Members(q) /\ a # n
    BY <2>9 DEF Members
  <2> QED BY <2>4, <2>5, <2>8, <2>10, <2>11
<1>2. CASE ~\E i \in DOMAIN q : q[i] = n
  <2>1. AgentRemoved(n, q) = q
    BY <1>2 DEF AgentRemoved
  <2> QED BY <1>2, <2>1 DEF Members
<1> QED BY <1>1, <1>2

\* A new agent in the registry.
LEMMA AddOne ==
    ASSUME NEW D, NEW q \in Seq(D), Once(q), NEW n, n \notin Members(q)
    PROVE  /\ Append(q, n) \in Seq(D \union {n}) /\ Once(Append(q, n))
           /\ \A a : a \in Members(Append(q, n)) <=> a \in Members(q) \/ a = n
<1>0. Len(q) \in Nat /\ DOMAIN q = 1..Len(q) /\ q \in Seq(D \union {n})
  OBVIOUS
<1>a. PICK p : p = Append(q, n)
  OBVIOUS
<1>1. /\ p \in Seq(D \union {n}) /\ Len(p) = Len(q) + 1 /\ p[Len(q) + 1] = n
      /\ \A i \in 1..Len(q) : p[i] = q[i]
  BY <1>0, <1>a, AppendProperties
<1>2. \A i : i \in DOMAIN p <=> i \in DOMAIN q \/ i = Len(q) + 1
  BY <1>0, <1>1
<1>3. \A i \in DOMAIN q : q[i] # n
  BY DEF Members
<1>4. Once(p)
  BY <1>0, <1>1, <1>2, <1>3 DEF Once
<1>5. ASSUME NEW a
      PROVE  a \in Members(p) <=> a \in Members(q) \/ a = n
  <2>1. Len(q) + 1 \in DOMAIN p /\ \A i \in DOMAIN q : i \in DOMAIN p /\ p[i] = q[i]
    BY <1>0, <1>1, <1>2
  <2> QED BY <1>1, <1>2, <2>1 DEF Members
<1> QED BY <1>a, <1>1, <1>4, <1>5
-----------------------------------------------------------------------------
\* A bound connection's session is one of its own, and there is such a session.
LEMMA BoundToOwn ==
    ASSUME RegistryInv, NEW c \in Conns
    PROVE  /\ conns[c] \in Conn /\ conns[c].made \subseteq 1..Len(status)
           /\ conns[c].session = NoSession \/ conns[c].session \in conns[c].made
           /\ conns[c].session = NoSession \/ conns[c].session \in DOMAIN status
           /\ conns[c].lane = conns[c].session
           /\ conns[c].state = "replying" => conns[c].reply \in conns[c].made
           /\ conns[c].buffer \subseteq 1..Len(runs)
           /\ DOMAIN status = 1..Len(status) /\ Len(status) \in Nat /\ Len(status) <= MaxSessions
           /\ DOMAIN runs = 1..Len(runs) /\ Len(runs) \in Nat
<1>1. ConnOK(conns[c], Len(status), Len(runs))
  BY DEF RegistryInv, TypeInv, ConnInv
<1>2. status \in Seq(Status) /\ runs \in Seq(Run) /\ Len(status) <= MaxSessions
  BY DEF RegistryInv, TypeInv, TypeOK
<1>3. DOMAIN status = 1..Len(status) /\ Len(status) \in Nat /\ DOMAIN runs = 1..Len(runs) /\ Len(runs) \in Nat
  BY <1>2
<1> QED BY <1>1, <1>2, <1>3 DEF ConnOK

\* What a step does to the runs and to the messages that wait: it queues a
\* message on a lane that is known, starts a run, or leaves them.
RunsKept ==
    /\ UNCHANGED <<enqueued, waiting>>
    /\ runs' \in Seq(Run) /\ Len(runs') = Len(runs)
    /\ \A r \in DOMAIN runs : runs'[r].lane = runs[r].lane /\ runs'[r].agent = runs[r].agent

Queued(l) ==
    /\ l.kind # "cron" => l.of \in DOMAIN status
    /\ Enqueue(l) /\ UNCHANGED runs

LEMMA RunMoves ==
    ASSUME RegistryInv, [Next]_vars
    PROVE  \/ RunsKept
           \/ \E l \in Lane : Queued(l)
           \/ \E w \in waiting : StartRun(w)
<1>0. runs \in Seq(Run) /\ DOMAIN runs = 1..Len(runs) /\ \A r \in 1..Len(runs) : runs[r] \in Run
  BY DEF RegistryInv, TypeInv, TypeOK
<1>1. ASSUME UNCHANGED <<enqueued, waiting, runs>>
      PROVE  RunsKept
  BY <1>0, <1>1 DEF RunsKept
<1>2. ASSUME NEW c \in Conns, Transcript(c) \/ StopMeeting(c)
      PROVE  \E l \in Lane : Queued(l)
  <2>1. PICK n \in DOMAIN status : n = conns[c].session
    BY <1>2, BoundToOwn DEF Transcript, StopMeeting, Bound
  <2>2. n \in Sessions
    BY BoundToOwn, GatewayAssumption DEF Sessions
  <2>3. OwnLane(n) \in Lane /\ DigestLane(n) \in Lane /\ OwnLane(n).of = n /\ DigestLane(n).of = n
    BY <2>2 DEF OwnLane, DigestLane, Lane
  <2> QED BY <1>2, <2>1, <2>3 DEF Transcript, StopMeeting, Queued
<1>p. ASSUME NEW p \in Personas, CronJob(p)
      PROVE  \E l \in Lane : Queued(l)
  <2>1. CronLane(p) \in Lane /\ CronLane(p).kind = "cron"
    BY DEF CronLane, Lane
  <2> QED BY <1>p, <2>1 DEF CronJob, Queued
<1>3. ASSUME NEW r \in DOMAIN runs, EmitDone(r) \/ CardsSent(r) \/ EmitError(r)
      PROVE  RunsKept
  <2>1. PICK p \in {"sending", "end", "error"} : runs' = [runs EXCEPT ![r].phase = p]
    BY <1>3 DEF EmitDone, CardsSent, EmitError
  <2>2. /\ [runs[r] EXCEPT !.phase = p] \in Run /\ [runs[r] EXCEPT !.phase = p].lane = runs[r].lane
        /\ [runs[r] EXCEPT !.phase = p].agent = runs[r].agent
    BY <1>0 DEF Run
  <2>3. runs' \in Seq(Run) /\ Len(runs') = Len(runs)
    BY <1>0, <2>1, <2>2
  <2> QED BY <1>0, <1>3, <2>1, <2>2, <2>3 DEF RunsKept, EmitDone, CardsSent, EmitError
<1>4. ASSUME \/ \E c \in Conns : \/ Accept(c) \/ Connect(c) \/ Bind(c) \/ StartOrPause(c)
                                 \/ SelectPersona(c) \/ Disconnect(c)
             \/ \E r \in DOMAIN runs : EmitText(r)
             \/ Quiet \/ UNCHANGED vars
      PROVE  RunsKept
  <2>1. UNCHANGED <<enqueued, waiting, runs>>
    BY <1>4 DEF Accept, Connect, Bind, StartOrPause, SelectPersona, Disconnect, EmitText, Quiet, vars
  <2> QED BY <1>1, <2>1
<1>5. CASE \/ \E c \in Conns : Transcript(c) \/ StopMeeting(c)
           \/ \E p \in Personas : CronJob(p)
           \/ \E r \in DOMAIN runs : EmitDone(r) \/ CardsSent(r) \/ EmitError(r)
  BY <1>2, <1>p, <1>3, <1>5
<1> QED BY <1>4, <1>5 DEF Next

\* Only a run that starts may serve another persona.
LEMMA CronKept ==
    ASSUME RegistryInv, [Next]_vars
    PROVE  \/ CronAgents' = CronAgents
           \/ \E w \in waiting : StartRun(w)
<1>0. runs \in Seq(Run)
  BY DEF RegistryInv, TypeInv, TypeOK
<1>1. CASE RunsKept
  <2>1. DOMAIN runs' = DOMAIN runs
    BY <1>0, <1>1 DEF RunsKept
  <2>2. Served(runs') = Served(runs)
    BY <1>1, <2>1 DEF RunsKept, Served
  <2> QED BY <1>1, <2>2 DEF RunsKept, CronAgents, Served
<1>2. ASSUME NEW l \in Lane, Queued(l)
      PROVE  CronAgents' = CronAgents
  BY <1>2 DEF Queued, CronAgents
<1> QED BY <1>1, <1>2, RunMoves

\* What a step does to the sessions: nothing that matters to the registry,
\* or it makes a session, ends one, or ends one and makes another.
SessionsKept ==
    /\ UNCHANGED <<laned, agents>>
    /\ status' \in Seq(Status) /\ Len(status') = Len(status)
    /\ \A n \in DOMAIN status : status'[n] = "ended" <=> status[n] = "ended"

Switch(n) ==
    /\ Len(status) < MaxSessions
    /\ status' = Append([status EXCEPT ![n] = "ended"], "active")
    /\ agents' = Append(AgentRemoved(n, agents), Len(status) + 1)
    /\ laned' = (laned \ {n}) \union {Len(status) + 1}

LEMMA SessionMoves ==
    ASSUME RegistryInv, [Next]_vars
    PROVE  \/ \E w \in waiting : StartRun(w)
           \/ SessionsKept
           \/ CreateSession
           \/ \E n \in DOMAIN status : EndSession(n) \/ Switch(n)
<1>0. status \in Seq(Status) /\ DOMAIN status = 1..Len(status) /\ Len(status) \in Nat
  BY DEF RegistryInv, Agree
<1>1. ASSUME UNCHANGED <<status, laned, agents>>
      PROVE  SessionsKept
  BY <1>0, <1>1 DEF SessionsKept
<1>2. ASSUME NEW c \in Conns, Connect(c)
      PROVE  CreateSession
  BY <1>2 DEF Connect
<1>3. ASSUME NEW c \in Conns, StartOrPause(c)
      PROVE  SessionsKept
  <2>1. PICK n \in 1..Len(status) : n = conns[c].session
    BY <1>3, BoundToOwn DEF StartOrPause, Bound
  <2>2. PICK p \in Status : status' = [status EXCEPT ![n] = p] /\ (p = "ended" <=> status[n] = "ended")
    <3>1. status[n] \in Status
      BY <1>0
    <3>2. \/ status' = [status EXCEPT ![n] = Resumed(status[n])]
          \/ status' = [status EXCEPT ![n] = Paused(status[n])]
      BY <1>3, <2>1 DEF StartOrPause
    <3>3. Resumed(status[n]) \in Status /\ (Resumed(status[n]) = "ended" <=> status[n] = "ended")
      BY <3>1 DEF Resumed, Status
    <3>4. Paused(status[n]) \in Status /\ (Paused(status[n]) = "ended" <=> status[n] = "ended")
      BY <3>1 DEF Paused, Status
    <3> QED BY <3>2, <3>3, <3>4
  <2>3. status' \in Seq(Status) /\ Len(status') = Len(status)
    BY <1>0, <2>2
  <2> QED BY <1>0, <1>3, <2>2, <2>3 DEF SessionsKept, StartOrPause
<1>4. ASSUME NEW c \in Conns, StopMeeting(c) \/ Disconnect(c)
      PROVE  SessionsKept \/ \E n \in DOMAIN status : EndSession(n)
  <2>1. CASE conns[c].session = NoSession
    BY <1>1, <1>4, <2>1 DEF StopMeeting, Bound, Disconnect
  <2>2. CASE conns[c].session \in DOMAIN status
    <3>1. conns[c].session # NoSession
      BY <1>0, <2>2 DEF NoSession
    <3> QED BY <1>4, <2>2, <3>1 DEF StopMeeting, Disconnect
  <2> QED BY <2>1, <2>2, BoundToOwn
<1>5. ASSUME NEW c \in Conns, SelectPersona(c)
      PROVE  \E n \in DOMAIN status : Switch(n)
  BY <1>5, BoundToOwn DEF SelectPersona, Bound, Switch
<1>6. ASSUME \/ \E c \in Conns : Accept(c) \/ Bind(c) \/ Transcript(c)
             \/ \E p \in Personas : CronJob(p)
             \/ \E r \in DOMAIN runs : EmitText(r) \/ EmitDone(r) \/ CardsSent(r) \/ EmitError(r)
             \/ Quiet \/ UNCHANGED vars
      PROVE  SessionsKept
  <2>1. UNCHANGED <<status, laned, agents>>
    BY <1>6 DEF Accept, Bind, Transcript, CronJob, EmitText, EmitDone, CardsSent, EmitError, Quiet, vars
  <2> QED BY <1>1, <2>1
<1>7. CASE \E c \in Conns : Connect(c) \/ StartOrPause(c) \/ StopMeeting(c) \/ SelectPersona(c) \/ Disconnect(c)
  BY <1>2, <1>3, <1>4, <1>5, <1>7
<1> QED BY <1>6, <1>7 DEF Next

\* A session more in the registry, on a list of sessions that agrees with it.
LEMMA CreateAgrees ==
    ASSUME NEW st \in Seq(Status), Len(st) < MaxSessions,
           NEW ag \in Seq(DOMAIN st \union Personas), Once(ag), NEW la, CronAgents' = CronAgents,
           \A n : n \in Members(ag) <=> (n \in DOMAIN st /\ st[n] # "ended") \/ n \in CronAgents,
           \A n : n \in la <=> n \in DOMAIN st /\ st[n] # "ended",
           status' = Append(st, "active"), agents' = Append(ag, Len(st) + 1),
           laned' = la \union {Len(st) + 1}
    PROVE  Agree'
<1>0. Len(st) \in Nat /\ DOMAIN st = 1..Len(st) /\ MaxSessions \in Nat
  BY GatewayAssumption
<1>1. /\ status' \in Seq(Status) /\ Len(status') = Len(st) + 1
      /\ \A n \in 1..Len(st) : status'[n] = st[n]
      /\ status'[Len(st) + 1] = "active"
  BY DEF Status
<1>2. DOMAIN status' = 1..(Len(st) + 1) /\ DOMAIN status' = DOMAIN st \union {Len(st) + 1}
  BY <1>0, <1>1
<1>3. Len(st) + 1 \notin Members(ag)
  <2>1. \A i \in DOMAIN ag : ag[i] \in DOMAIN st \union Personas
    OBVIOUS
  <2>2. Len(st) + 1 \notin DOMAIN st /\ Len(st) + 1 \notin Personas
    BY <1>0, GatewayAssumption
  <2> QED BY <2>1, <2>2 DEF Members
<1>4. /\ agents' \in Seq(DOMAIN status' \union Personas) /\ Once(agents)'
      /\ \A a : a \in Members(agents)' <=> a \in Members(ag) \/ a = Len(st) + 1
  <2>1. PICK k : k = Len(st) + 1
    OBVIOUS
  <2>2. /\ Append(ag, k) \in Seq((DOMAIN st \union Personas) \union {k}) /\ Once(Append(ag, k))
        /\ \A a : a \in Members(Append(ag, k)) <=> a \in Members(ag) \/ a = k
    <3>1. k \notin Members(ag)
      BY <1>3, <2>1
    <3> QED BY <3>1, AddOne, Zenon
  <2>3. PICK p : p = Append(ag, k)
    OBVIOUS
  <2>s. (DOMAIN st \union Personas) \union {k} = DOMAIN status' \union Personas
    BY <1>2, <2>1
  <2>4. /\ p \in Seq(DOMAIN status' \union Personas) /\ Once(p)
        /\ \A a : a \in Members(p) <=> a \in Members(ag) \/ a = k
    BY <2>s, <2>2, <2>3
  <2>5. agents' = p
    BY <2>1, <2>3
  <2>6. agents' \in Seq(DOMAIN status' \union Personas)
    BY <2>4, <2>5, Zenon
  <2>7. Once(agents)'
    BY <2>4, <2>5, Zenon DEF Once
  <2>8. \A a : a \in Members(agents)' <=> a \in Members(ag) \/ a = k
    BY <2>4, <2>5, Zenon DEF Members
  <2> QED BY <2>1, <2>6, <2>7, <2>8, Zenon
<1>5. \A n : n \in Live' <=> (n \in DOMAIN st /\ st[n] # "ended") \/ n = Len(st) + 1
  BY <1>0, <1>1, <1>2 DEF Live
<1>6. Members(agents)' = (Live \union CronAgents)' /\ laned' = Live'
  <2>1. \A a : a \in Members(agents)' <=> a \in Live' \/ a \in CronAgents'
    BY <1>4, <1>5
  <2> QED BY <1>5, <2>1
<1>7. Len(status') <= MaxSessions
  BY <1>0, <1>1
<1> QED BY <1>1, <1>4, <1>6, <1>7 DEF Agree

\* A run that starts: only the agent of a cron lane may be new.
LEMMA StartAgrees ==
    ASSUME RegistryInv, NEW w \in waiting, StartRun(w)
    PROVE  Agree'
<1>0. /\ status \in Seq(Status) /\ DOMAIN status = 1..Len(status) /\ Len(status) \in Nat
      /\ agents \in Seq(DOMAIN status \union Personas) /\ Once(agents)
      /\ \A a : a \in Members(agents) <=> a \in Live \/ a \in CronAgents
      /\ laned = Live /\ Len(status) <= MaxSessions
      /\ runs \in Seq(Run) /\ DOMAIN runs = 1..Len(runs) /\ Len(runs) \in Nat
  BY DEF RegistryInv, Agree, TypeInv, TypeOK
<1>l. PICK l \in Lane : l = w.lane
  BY DEF RegistryInv, TypeInv, TypeOK, Message
<1>p. l.kind = "cron" => l.of \in Personas /\ l.of # NoAgent /\ l.of \notin Live
  <2>1. l.kind = "cron" => l.of \in Personas
    BY DEF Lane
  <2> QED BY <1>0, <2>1, GatewayAssumption DEF NoAgent, Live
<1>k. status' = status /\ laned' = laned /\ Live' = Live
  BY DEF StartRun, Live
<1>c. ASSUME NEW a, runs' = Append(runs, RunOf(l, a))
      PROVE  \A x : x \in CronAgents' <=> x \in CronAgents \/ (l.kind = "cron" /\ a # NoAgent /\ x = l.of)
  <2>1. PICK m \in Nat : m = Len(runs) + 1
    BY <1>0
  <2>2. /\ runs'[m].lane = l /\ runs'[m].agent = a
        /\ \A r : r \in DOMAIN runs' <=> r \in DOMAIN runs \/ r = m
        /\ \A r \in DOMAIN runs : runs'[r] = runs[r] /\ r # m
    BY <1>0, <1>c, <2>1 DEF RunOf
  <2>3. \A r : r \in Served(runs') <=> r \in Served(runs) \/ (r = m /\ l.kind = "cron" /\ a # NoAgent)
    BY <2>2 DEF Served
  <2>4. \A r \in Served(runs) : runs'[r] = runs[r]
    BY <2>2 DEF Served
  <2>5. CronAgents' = {runs'[r].lane.of : r \in Served(runs')}
    BY DEF CronAgents, Served
  <2> QED BY <2>2, <2>3, <2>4, <2>5 DEF CronAgents
<1>s. ASSUME agents' = agents, \A x : x \in CronAgents' <=> x \in CronAgents
      PROVE  Agree'
  <2>1. CronAgents' = CronAgents
    BY <1>s
  <2>2. Members(agents)' = Members(agents) /\ Once(agents)'
    BY <1>0, <1>s DEF Members, Once
  <2> QED BY <1>0, <1>k, <1>s, <2>1, <2>2 DEF RegistryInv, Agree
<1>1. CASE l.kind = "cron" /\ ~HasAgent(l.of) /\ agents' = agents /\ runs' = Append(runs, RunOf(l, NoAgent))
  BY <1>c, <1>s, <1>1
<1>2. CASE agents' = Registered(l) /\ runs' = Append(runs, RunOf(l, Resolved(l)))
  <2>1. CASE l.kind # "cron"
    <3>1. agents' = agents
      BY <1>2, <2>1 DEF Registered
    <3> QED BY <1>2, <1>c, <1>s, <2>1, <3>1
  <2>2. CASE l.kind = "cron" /\ HasAgent(l.of)
    <3>1. agents' = agents
      BY <1>2, <2>2 DEF Registered
    <3>2. l.of \in CronAgents
      BY <1>0, <1>p, <2>2 DEF HasAgent, Members
    <3>3. \A x : x \in CronAgents' <=> x \in CronAgents
      BY <1>2, <1>c, <3>2
    <3> QED BY <1>s, <3>1, <3>3
  <2>3. CASE l.kind = "cron" /\ ~HasAgent(l.of)
    <3>1. Resolved(l) = l.of /\ l.of # NoAgent /\ l.of \in Personas
      BY <1>p, <2>3 DEF Resolved
    <3>2. \A x : x \in CronAgents' <=> x \in CronAgents \/ x = l.of
      BY <1>2, <1>c, <2>3, <3>1
    <3>3. PICK q : q = Append(agents, l.of)
      OBVIOUS
    <3>4. /\ q \in Seq((DOMAIN status \union Personas) \union {l.of}) /\ Once(q)
          /\ \A x : x \in Members(q) <=> x \in Members(agents) \/ x = l.of
      <4>1. l.of \notin Members(agents)
        BY <2>3 DEF HasAgent, Members
      <4> QED BY <1>0, <3>3, <4>1, AddOne
    <3>5. agents' = q
      BY <1>2, <2>3, <3>3 DEF Registered
    <3>6. (DOMAIN status \union Personas) \union {l.of} = DOMAIN status \union Personas
      BY <3>1
    <3>7. agents' \in Seq(DOMAIN status' \union Personas)
      BY <1>k, <3>4, <3>5, <3>6
    <3>8. Once(agents)' /\ \A x : x \in Members(agents)' <=> x \in Members(agents) \/ x = l.of
      BY <3>4, <3>5, Zenon DEF Once, Members
    <3>9. Members(agents)' = (Live \union CronAgents)'
      BY <1>0, <1>k, <3>2, <3>8
    <3> QED BY <1>0, <1>k, <3>7, <3>8, <3>9 DEF Agree
  <2> QED BY <2>1, <2>2, <2>3
<1> QED BY <1>l, <1>1, <1>2 DEF StartRun

LEMMA StepAgree ==
    ASSUME RegistryInv, [Next]_vars
    PROVE  /\ Agree' /\ Len(status') \in Nat /\ Len(status) <= Len(status')
           /\ DOMAIN status = 1..Len(status)
           /\ \A n \in DOMAIN status : status[n] = "ended" => status'[n] = "ended"
<1>0. /\ status \in Seq(Status) /\ DOMAIN status = 1..Len(status) /\ Len(status) \in Nat
      /\ Len(status) <= MaxSessions /\ agents \in Seq(DOMAIN status \union Personas) /\ Once(agents)
      /\ Members(agents) = Live \union CronAgents /\ laned = Live
  BY DEF RegistryInv, Agree
<1>p. \A n \in DOMAIN status : n \notin CronAgents
  <2>1. \A r \in Served(runs) : runs[r] \in Run
    BY DEF RegistryInv, TypeInv, TypeOK, Served
  <2>2. \A r \in Served(runs) : runs[r].lane \in Lane /\ runs[r].lane.kind = "cron"
    BY <2>1 DEF Run, Served
  <2>3. \A r \in Served(runs) : runs[r].lane.of \in Personas
    BY <2>2 DEF Lane
  <2> QED BY <1>0, <2>3, GatewayAssumption DEF CronAgents
<1>s. ASSUME NEW w \in waiting, StartRun(w)
      PROVE  Agree' /\ status' = status
  BY <1>s, StartAgrees DEF StartRun
<1>k. ASSUME ~\E w \in waiting : StartRun(w)
      PROVE  CronAgents' = CronAgents
  BY <1>k, CronKept
<1>1. CASE SessionsKept /\ CronAgents' = CronAgents
  <2>1. DOMAIN status' = 1..Len(status)
    BY <1>0, <1>1 DEF SessionsKept
  <2>2. Live' = Live
    BY <1>0, <1>1, <2>1 DEF SessionsKept, Live
  <2>3. Members(agents)' = Members(agents) /\ Once(agents)'
    BY <1>0, <1>1 DEF SessionsKept, Members, Once
  <2> QED BY <1>0, <1>1, <2>1, <2>2, <2>3 DEF SessionsKept, Agree
<1>2. CASE CreateSession /\ CronAgents' = CronAgents
  <2>1. \A n : n \in Live <=> n \in DOMAIN status /\ status[n] # "ended"
    BY DEF Live
  <2>2. Agree'
    <3>1. \A n : n \in Members(agents) <=> (n \in DOMAIN status /\ status[n] # "ended") \/ n \in CronAgents
      BY <1>0, <2>1
    <3> QED BY <1>0, <1>2, <2>1, <3>1, CreateAgrees DEF CreateSession
  <2>3. Len(status') = Len(status) + 1 /\ \A n \in 1..Len(status) : status'[n] = status[n]
    BY <1>0, <1>2 DEF CreateSession, Status
  <2> QED BY <1>0, <2>2, <2>3
<1>3. ASSUME NEW n \in DOMAIN status, EndSession(n) \/ Switch(n), CronAgents' = CronAgents
      PROVE  /\ Agree' /\ Len(status') \in Nat /\ Len(status) <= Len(status')
             /\ \A k \in DOMAIN status : status[k] = "ended" => status'[k] = "ended"
  <2>1. PICK st : st = [status EXCEPT ![n] = "ended"]
    OBVIOUS
  <2>2. /\ st \in Seq(Status) /\ Len(st) = Len(status) /\ DOMAIN st = DOMAIN status
        /\ st[n] = "ended" /\ \A k \in DOMAIN status : k # n => st[k] = status[k]
    BY <1>0, <2>1 DEF Status
  <2>3. PICK ag : ag = AgentRemoved(n, agents)
    OBVIOUS
  <2>4. /\ ag \in Seq(DOMAIN st \union Personas) /\ Once(ag)
        /\ \A a : a \in Members(ag) <=> a \in Members(agents) /\ a # n
    BY <1>0, <2>2, <2>3, RemoveOne
  <2>5. \A k : k \in Live /\ k # n <=> k \in DOMAIN st /\ st[k] # "ended"
    BY <2>2 DEF Live
  <2>6. \A k : k \in Members(ag) <=> (k \in DOMAIN st /\ st[k] # "ended") \/ k \in CronAgents
    BY <1>0, <1>p, <2>4, <2>5
  <2>7. \A k : k \in laned \ {n} <=> k \in DOMAIN st /\ st[k] # "ended"
    BY <1>0, <2>5
  <2>8. CASE EndSession(n)
    <3>1. status' = st /\ agents' = ag /\ laned' = laned \ {n}
      BY <2>1, <2>3, <2>8 DEF EndSession
    <3>2. Live' = laned \ {n} /\ Members(agents)' = (Live \union CronAgents)' /\ Once(agents)'
      <4>1. \A k : k \in Live' <=> k \in DOMAIN st /\ st[k] # "ended"
        BY <3>1 DEF Live
      <4>2. \A k : k \in Members(agents)' <=> k \in Members(ag)
        BY <3>1 DEF Members
      <4>3. Once(agents)'
        BY <2>4, <3>1 DEF Once
      <4> QED BY <1>3, <2>6, <2>7, <4>1, <4>2, <4>3
    <3> QED BY <1>0, <2>2, <2>4, <3>1, <3>2 DEF Agree
  <2>9. CASE Switch(n)
    <3>1. /\ status' = Append(st, "active") /\ agents' = Append(ag, Len(st) + 1)
          /\ laned' = (laned \ {n}) \union {Len(st) + 1} /\ Len(st) < MaxSessions
      BY <2>1, <2>2, <2>3, <2>9 DEF Switch
    <3>2. PICK la : la = laned \ {n}
      OBVIOUS
    <3>3. Agree'
      BY <1>3, <2>2, <2>4, <2>6, <2>7, <3>1, <3>2, CreateAgrees
    <3>4. Len(status') = Len(st) + 1 /\ \A k \in 1..Len(st) : status'[k] = st[k]
      BY <2>2, <3>1 DEF Status
    <3> QED BY <1>0, <2>2, <3>3, <3>4
  <2> QED BY <1>3, <2>8, <2>9
<1>4. CASE \E w \in waiting : StartRun(w)
  BY <1>0, <1>s, <1>4
<1> QED BY <1>0, <1>k, <1>1, <1>2, <1>3, <1>4, SessionMoves

-----------------------------------------------------------------------------
\* A run's agent is one that is registered.
LEMMA ResolvedType ==
    ASSUME RegistryInv, NEW l \in Lane
    PROVE  Resolved(l) \in Sessions \union Personas \union {NoAgent}
<1>1. agents \in Seq(DOMAIN status \union Personas) /\ DOMAIN status \subseteq Sessions
  <2>1. status \in Seq(Status) /\ Len(status) <= MaxSessions /\ agents \in Seq(DOMAIN status \union Personas)
    BY DEF RegistryInv, Agree
  <2> QED BY <2>1, GatewayAssumption DEF Sessions
<1>2. agents # <<>> => Head(agents) \in Sessions \union Personas
  BY <1>1, HeadTailProperties
<1>3. l.of \in Sessions \union Personas
  BY DEF Lane
<1> QED BY <1>2, <1>3 DEF Resolved

LEMMA StepRuns ==
    ASSUME RegistryInv, [Next]_vars
    PROVE  /\ enqueued' \in 0..MaxMessages /\ waiting' \subseteq Message /\ runs' \in Seq(Run)
           /\ RunsPaid' /\ Len(runs') <= MaxMessages
           /\ Len(runs') \in Nat /\ Len(runs) <= Len(runs') /\ DOMAIN runs = 1..Len(runs)
           /\ \A r \in DOMAIN runs : r \in DOMAIN runs' /\ runs'[r].lane = runs[r].lane
           /\ \A w \in waiting' : w.lane.kind # "cron" => w.lane.of \in DOMAIN status
<1>0. /\ enqueued \in 0..MaxMessages /\ waiting \subseteq Message
      /\ runs \in Seq(Run) /\ DOMAIN runs = 1..Len(runs) /\ Len(runs) \in Nat
      /\ IsFiniteSet(waiting) /\ Len(runs) + Cardinality(waiting) <= enqueued
      /\ \A w \in waiting : w.lane.kind # "cron" => w.lane.of \in DOMAIN status
      /\ MaxMessages \in Nat
  BY GatewayAssumption DEF RegistryInv, TypeInv, TypeOK, RunsPaid, LanesKnown
<1>1. Cardinality(waiting) \in Nat
  BY <1>0, FS_CardinalityType
<1>2. CASE RunsKept
  <2>1. DOMAIN runs' = DOMAIN runs
    BY <1>0, <1>2 DEF RunsKept
  <2> QED BY <1>0, <1>1, <1>2, <2>1 DEF RunsKept, RunsPaid
<1>3. ASSUME NEW l \in Lane, Queued(l)
      PROVE  /\ enqueued' \in 0..MaxMessages /\ waiting' \subseteq Message /\ runs' = runs
             /\ RunsPaid' /\ Len(runs') <= MaxMessages
             /\ \A w \in waiting' : w.lane.kind # "cron" => w.lane.of \in DOMAIN status
  <2>1. PICK m : m = [number |-> enqueued + 1, lane |-> l]
    OBVIOUS
  <2>2. /\ enqueued' = enqueued + 1 /\ enqueued < MaxMessages /\ waiting' = waiting \union {m}
        /\ runs' = runs
    BY <1>3, <2>1 DEF Enqueue, Queued
  <2>3. m \in Message /\ (m.lane.kind # "cron" => m.lane.of \in DOMAIN status)
    BY <1>0, <1>3, <2>1, <2>2 DEF Queued, Message
  <2>4. IsFiniteSet(waiting') /\ Cardinality(waiting') \in Nat /\ Cardinality(waiting') <= Cardinality(waiting) + 1
    <3>1. /\ IsFiniteSet(waiting \union {m})
          /\ Cardinality(waiting \union {m}) = IF m \in waiting THEN Cardinality(waiting) ELSE Cardinality(waiting) + 1
      BY <1>0, FS_AddElement
    <3> QED BY <1>1, <2>2, <3>1
  <2>5. Len(runs') + Cardinality(waiting') <= enqueued' /\ Len(runs') <= MaxMessages
    BY <1>0, <1>1, <2>2, <2>4
  <2> QED BY <1>0, <2>2, <2>3, <2>4, <2>5 DEF RunsPaid
<1>4. ASSUME NEW w \in waiting, StartRun(w)
      PROVE  /\ enqueued' \in 0..MaxMessages /\ waiting' \subseteq Message /\ runs' \in Seq(Run)
             /\ RunsPaid' /\ Len(runs') <= MaxMessages
             /\ Len(runs') = Len(runs) + 1
             /\ \A r \in DOMAIN runs : r \in DOMAIN runs' /\ runs'[r].lane = runs[r].lane
             /\ \A v \in waiting' : v.lane.kind # "cron" => v.lane.of \in DOMAIN status
  <2>l. w.lane \in Lane /\ w.number <= w.number
    BY <1>0 DEF Message
  <2>1. PICK x \in Run : runs' = Append(runs, x)
    <3>1. RunOf(w.lane, NoAgent) \in Run /\ RunOf(w.lane, Resolved(w.lane)) \in Run
      BY <2>l, ResolvedType DEF RunOf, Run
    <3> QED BY <1>4, <3>1 DEF StartRun
  <2>2. enqueued' = enqueued /\ waiting' \subseteq waiting \ {w}
    BY <1>4, <2>l DEF StartRun
  <2>3. /\ runs' \in Seq(Run) /\ Len(runs') = Len(runs) + 1
        /\ \A r \in 1..Len(runs) : runs'[r] = runs[r]
    BY <1>0, <2>1, AppendProperties
  <2>4. /\ IsFiniteSet(waiting') /\ Cardinality(waiting') \in Nat
        /\ Cardinality(waiting') <= Cardinality(waiting) - 1
    <3>1. IsFiniteSet(waiting \ {w}) /\ Cardinality(waiting \ {w}) = Cardinality(waiting) - 1
      BY <1>0, FS_RemoveElement
    <3>2. IsFiniteSet(waiting') /\ Cardinality(waiting') <= Cardinality(waiting \ {w})
      BY <2>2, <3>1, FS_Subset
    <3> QED BY <3>1, <3>2, FS_CardinalityType
  <2>5. Len(runs') + Cardinality(waiting') <= enqueued' /\ Len(runs') <= MaxMessages
    BY <1>0, <1>1, <2>2, <2>3, <2>4
  <2> QED BY <1>0, <2>2, <2>3, <2>4, <2>5 DEF RunsPaid
<1> QED BY <1>0, <1>1, <1>2, <1>3, <1>4, RunMoves

-----------------------------------------------------------------------------
LEMMA ConnGrows ==
    ASSUME NEW x, NEW n \in Nat, NEW m \in Nat, NEW n2 \in Nat, NEW m2 \in Nat,
           ConnOK(x, n, m), n <= n2, m <= m2
    PROVE  ConnOK(x, n2, m2)
BY DEF ConnOK

\* A step of one connection.
LEMMA OneConn ==
    ASSUME RegistryInv, NEW c \in Conns,
           \A d \in Conns : ConnOK(conns[d], Len(status'), Len(runs')),
           conns' \in [Conns -> Conn], \A d \in Conns : d # c => conns'[d] = conns[d],
           ConnOK(conns'[c], Len(status'), Len(runs')),
           conns[c].made \subseteq conns'[c].made,
           conns'[c].made \subseteq conns[c].made \union {Len(status) + 1}
    PROVE  /\ ConnInv' /\ MadeOnce' /\ \A d \in Conns : conns[d].made \subseteq conns'[d].made
<1>1. ConnInv'
  BY DEF ConnInv
<1>2. \A d \in Conns : Len(status) + 1 \notin conns[d].made
  BY BoundToOwn
<1>3. \A d, e \in Conns : \A n \in conns[d].made \intersect conns[e].made : d = e
  BY DEF RegistryInv, MadeOnce
<1>4. MadeOnce'
  BY <1>2, <1>3 DEF MadeOnce
<1> QED BY <1>1, <1>4

LEMMA StepConns ==
    ASSUME RegistryInv, [Next]_vars
    PROVE  /\ ConnInv' /\ MadeOnce'
           /\ \A d \in Conns : conns[d].made \subseteq conns'[d].made
<1>0. /\ conns \in [Conns -> Conn] /\ MadeOnce
      /\ \A d \in Conns : ConnOK(conns[d], Len(status), Len(runs))
  BY DEF RegistryInv, TypeInv, ConnInv
<1>n. /\ Len(status) \in Nat /\ Len(status') \in Nat /\ Len(status) <= Len(status')
      /\ Len(runs) \in Nat /\ Len(runs') \in Nat /\ Len(runs) <= Len(runs')
      /\ Len(status') <= MaxSessions /\ MaxSessions \in Nat /\ Len(runs') <= MaxMessages
      /\ MaxMessages \in Nat /\ status \in Seq(Status) /\ DOMAIN runs = 1..Len(runs)
  BY StepAgree, StepRuns, GatewayAssumption DEF RegistryInv, Agree, TypeInv, TypeOK
<1>g. \A d \in Conns : ConnOK(conns[d], Len(status'), Len(runs'))
  BY <1>0, <1>n, ConnGrows
<1>1. ASSUME UNCHANGED conns
      PROVE  /\ ConnInv' /\ MadeOnce' /\ \A d \in Conns : conns[d].made \subseteq conns'[d].made
  BY <1>0, <1>g, <1>1 DEF ConnInv, MadeOnce
<1>2. ASSUME NEW c \in Conns, Accept(c) \/ Bind(c) \/ Disconnect(c)
      PROVE  /\ ConnInv' /\ MadeOnce' /\ \A d \in Conns : conns[d].made \subseteq conns'[d].made
  <2>1. ConnOK(conns[c], Len(status'), Len(runs'))
    BY <1>g
  <2>2. CASE Accept(c) \/ Disconnect(c)
    <3>1. PICK st \in {"open", "gone"} : conns' = [conns EXCEPT ![c].state = st]
      BY <2>2 DEF Accept, Disconnect
    <3>2. conns'[c] = [conns[c] EXCEPT !.state = st] /\ \A d \in Conns : d # c => conns'[d] = conns[d]
      BY <1>0, <3>1
    <3>3. ConnOK(conns'[c], Len(status'), Len(runs')) /\ conns'[c].made = conns[c].made
      BY <2>1, <3>2 DEF ConnOK, Conn
    <3>4. conns' \in [Conns -> Conn]
      BY <1>0, <3>1, <3>2, <3>3 DEF ConnOK
    <3> QED BY <1>g, <3>2, <3>3, <3>4, OneConn
  <2>3. CASE Bind(c)
    <3>1. PICK n \in Sessions \union {NoSession} :
            /\ n = conns[c].reply /\ conns[c].state = "replying" /\ n \in conns[c].made
            /\ conns' = [conns EXCEPT ![c].state = "open", ![c].reply = NoSession,
                                      ![c].session = n, ![c].lane = n]
      BY <2>1, <2>3 DEF Bind, ConnOK, Conn
    <3>2. /\ conns'[c] = [conns[c] EXCEPT !.state = "open", !.reply = NoSession,
                                          !.session = n, !.lane = n]
          /\ \A d \in Conns : d # c => conns'[d] = conns[d]
      BY <1>0, <3>1
    <3>x. conns[c] \in Conn
      BY <1>0
    <3>3. /\ conns'[c].state = "open" /\ conns'[c].session = n /\ conns'[c].lane = n
          /\ conns'[c].made = conns[c].made /\ conns'[c].buffer = conns[c].buffer
      BY <3>x, <3>2 DEF Conn
    <3>4. conns'[c] \in Conn
      BY <3>x, <3>2 DEF Conn
    <3>5. ConnOK(conns'[c], Len(status'), Len(runs'))
      BY <2>1, <3>1, <3>3, <3>4 DEF ConnOK
    <3>6. conns' \in [Conns -> Conn]
      BY <1>0, <3>1, <3>2, <3>4
    <3> QED BY <1>g, <3>2, <3>3, <3>5, <3>6, OneConn
  <2> QED BY <1>2, <2>2, <2>3
<1>3. ASSUME NEW c \in Conns, Connect(c) \/ SelectPersona(c)
      PROVE  /\ ConnInv' /\ MadeOnce' /\ \A d \in Conns : conns[d].made \subseteq conns'[d].made
  <2>1. PICK n \in Nat : n = Len(status) + 1 /\ n = Len(status')
    BY <1>n, <1>3 DEF Connect, CreateSession, SelectPersona, Status
  <2>2. n \in Sessions /\ n \in 1..Len(status')
    BY <1>n, <2>1 DEF Sessions
  <2>3. ConnOK(conns[c], Len(status'), Len(runs'))
    BY <1>g
  <2>4. \/ conns' = [conns EXCEPT ![c].state = "replying", ![c].reply = n, ![c].made = @ \union {n}]
        \/ conns' = [conns EXCEPT ![c].made = @ \union {n}] /\ conns[c].state = "open"
    BY <1>3, <2>1 DEF Connect, SelectPersona, Bound, Ready
  <2>5. /\ \/ conns'[c] = [conns[c] EXCEPT !.state = "replying", !.reply = n, !.made = @ \union {n}]
           \/ conns'[c] = [conns[c] EXCEPT !.made = @ \union {n}] /\ conns[c].state = "open"
        /\ \A d \in Conns : d # c => conns'[d] = conns[d]
    BY <1>0, <2>4
  <2>x. conns[c] \in Conn
    BY <1>0
  <2>a. /\ conns'[c].session = conns[c].session /\ conns'[c].lane = conns[c].lane
        /\ conns'[c].made = conns[c].made \union {n} /\ conns'[c].buffer = conns[c].buffer
        /\ conns'[c].state = "replying" => conns'[c].reply = n
    BY <2>x, <2>5 DEF Conn
  <2>b. conns'[c] \in Conn
    <3>1. conns[c].made \union {n} \in SUBSET Sessions
      BY <2>x, <2>2 DEF Conn
    <3> QED BY <2>x, <2>2, <2>5, <3>1 DEF Conn
  <2>6. ConnOK(conns'[c], Len(status'), Len(runs')) /\ conns'[c].made = conns[c].made \union {n}
    BY <2>2, <2>3, <2>a, <2>b DEF ConnOK
  <2>7. conns' \in [Conns -> Conn]
    BY <1>0, <2>4, <2>5, <2>6 DEF ConnOK
  <2> QED BY <1>g, <2>1, <2>5, <2>6, <2>7, OneConn
<1>4. ASSUME NEW r \in DOMAIN runs, EmitText(r) \/ CardsSent(r)
      PROVE  /\ ConnInv' /\ MadeOnce' /\ \A d \in Conns : conns[d].made \subseteq conns'[d].made
  <2>1. r \in 1..Len(runs') /\ r \in 1..MaxMessages
    BY <1>n
  <2>2. ASSUME NEW d \in Conns
        PROVE  /\ ConnOK(conns'[d], Len(status'), Len(runs')) /\ conns'[d].made = conns[d].made
    <3>1. ConnOK(conns[d], Len(status'), Len(runs'))
      BY <1>g
    <3>2. PICK b \in {{}, conns[d].buffer, conns[d].buffer \union {r}} :
            conns'[d] = [conns[d] EXCEPT !.buffer = b]
      <4>1. conns[d] = [conns[d] EXCEPT !.buffer = conns[d].buffer]
        BY <1>0 DEF Conn
      <4> QED BY <1>4, <4>1 DEF EmitText, CardsSent, Cleared
    <3>3. b \subseteq 1..MaxMessages /\ b \subseteq 1..Len(runs')
      BY <2>1, <3>1 DEF ConnOK, Conn
    <3> QED BY <3>1, <3>2, <3>3 DEF ConnOK, Conn
  <2>3. conns' \in [Conns -> Conn]
    <3>1. DOMAIN conns' = Conns /\ conns' = [d \in Conns |-> conns'[d]]
      BY <1>4 DEF EmitText, CardsSent
    <3> QED BY <2>2, <3>1 DEF ConnOK
  <2> QED BY <1>0, <2>2, <2>3 DEF ConnInv, MadeOnce
<1>5. ASSUME \/ \E c \in Conns : Transcript(c) \/ StartOrPause(c) \/ StopMeeting(c)
             \/ \E p \in Personas : CronJob(p)
             \/ \E w \in waiting : StartRun(w)
             \/ \E r \in DOMAIN runs : EmitDone(r) \/ EmitError(r)
             \/ Quiet \/ UNCHANGED vars
      PROVE  /\ ConnInv' /\ MadeOnce' /\ \A d \in Conns : conns[d].made \subseteq conns'[d].made
  <2>1. UNCHANGED conns
    BY <1>5 DEF Transcript, StartOrPause, StopMeeting, CronJob, StartRun, EmitDone, EmitError, Quiet, vars
  <2> QED BY <1>1, <2>1
<1>6. CASE \/ \E c \in Conns : \/ Accept(c) \/ Bind(c) \/ Disconnect(c)
                               \/ Connect(c) \/ SelectPersona(c)
           \/ \E r \in DOMAIN runs : EmitText(r) \/ CardsSent(r)
  BY <1>2, <1>3, <1>4, <1>6
<1> QED BY <1>5, <1>6 DEF Next

\* A connection goes only by its own finally block, and stays as it went.
LEMMA GoneStays ==
    ASSUME RegistryInv, [Next]_vars, NEW d \in Conns, conns'[d].state = "gone"
    PROVE  \/ Disconnect(d) /\ conns'[d].session = conns[d].session /\ conns'[d].lane = conns[d].lane
           \/ /\ conns[d].state = "gone"
              /\ conns'[d].session = conns[d].session /\ conns'[d].lane = conns[d].lane
<1>0. conns \in [Conns -> Conn] /\ conns[d] \in Conn
  BY DEF RegistryInv, TypeInv, ConnInv
<1>1. ASSUME NEW c \in Conns, Accept(c) \/ Bind(c) \/ Connect(c) \/ SelectPersona(c)
      PROVE  conns[d].state = "gone" /\ conns'[d] = conns[d]
  <2>1. CASE c = d
    <3>1. conns'[d].state = "open" \/ conns'[d].state = "replying" \/ (Ready(d) /\ conns'[d].state = conns[d].state)
      BY <1>0, <1>1, <2>1 DEF Accept, Bind, Connect, SelectPersona, Bound, Conn
    <3> QED BY <3>1 DEF Ready
  <2>2. CASE c # d
    BY <1>0, <1>1, <2>2 DEF Accept, Bind, Connect, SelectPersona
  <2> QED BY <2>1, <2>2
<1>2. ASSUME NEW c \in Conns, Disconnect(c)
      PROVE  /\ c = d \/ conns[d].state = "gone"
             /\ conns'[d].session = conns[d].session /\ conns'[d].lane = conns[d].lane
  BY <1>0, <1>2 DEF Disconnect, Conn
<1>3. ASSUME NEW r \in DOMAIN runs, EmitText(r) \/ CardsSent(r)
      PROVE  /\ conns[d].state = "gone"
             /\ conns'[d].session = conns[d].session /\ conns'[d].lane = conns[d].lane
  BY <1>0, <1>3 DEF EmitText, CardsSent, Conn
<1>4. ASSUME \/ \E c \in Conns : Transcript(c) \/ StartOrPause(c) \/ StopMeeting(c)
             \/ \E p \in Personas : CronJob(p)
             \/ \E w \in waiting : StartRun(w)
             \/ \E r \in DOMAIN runs : EmitDone(r) \/ EmitError(r)
             \/ Quiet \/ UNCHANGED vars
      PROVE  conns' = conns
  BY <1>4 DEF Transcript, StartOrPause, StopMeeting, CronJob, StartRun, EmitDone, EmitError, Quiet, vars
<1>5. CASE \/ \E c \in Conns : \/ Accept(c) \/ Bind(c) \/ Disconnect(c)
                               \/ Connect(c) \/ SelectPersona(c)
           \/ \E r \in DOMAIN runs : EmitText(r) \/ CardsSent(r)
  BY <1>1, <1>2, <1>3, <1>5
<1> QED BY <1>4, <1>5 DEF Next

\* What a step does to the listeners: a connection joins those of a session
\* that it made, a lane loses all of its own, or they stay.
LEMMA ListenerMoves ==
    ASSUME RegistryInv, [Next]_vars
    PROVE  \/ listeners' = listeners
           \/ \E c \in Conns : /\ Disconnect(c) /\ conns[c].session \in Sessions
                               /\ listeners' = [listeners EXCEPT ![OwnLane(conns[c].session)] = {}]
           \/ \E c \in Conns : \E n \in conns[c].made :
                /\ conns[c].state = "replying" /\ n \in Sessions
                /\ listeners' = [listeners EXCEPT ![OwnLane(n)] = @ \union {c}]
<1>0. listeners \in [Lane -> SUBSET Conns]
  BY DEF RegistryInv, TypeInv, TypeOK
<1>1. ASSUME NEW c \in Conns, Bind(c)
      PROVE  \E n \in conns[c].made :
                /\ conns[c].state = "replying" /\ n \in Sessions
                /\ listeners' = [listeners EXCEPT ![OwnLane(n)] = @ \union {c}]
  <2>1. PICK n \in conns[c].made : /\ n = conns[c].reply /\ n \in Sessions
                                   /\ conns[c].state = "replying"
    BY <1>1, BoundToOwn DEF Bind, Conn
  <2>2. listeners' = [l \in Lane |-> listeners[l] \union IF l \in {OwnLane(n)} THEN {c} ELSE {}]
    BY <1>1, <2>1 DEF Bind, ListensTo
  <2>3. OwnLane(n) \in Lane
    BY <2>1 DEF OwnLane, Lane
  <2>4. listeners' = [listeners EXCEPT ![OwnLane(n)] = @ \union {c}]
    BY <1>0, <2>2, <2>3
  <2> QED BY <2>1, <2>4
<1>2. ASSUME NEW c \in Conns, Disconnect(c)
      PROVE  \/ listeners' = listeners
             \/ /\ conns[c].session \in Sessions
                /\ listeners' = [listeners EXCEPT ![OwnLane(conns[c].session)] = {}]
  <2>1. conns[c].lane = conns[c].session /\ conns[c].session \in Sessions \union {NoSession}
    BY BoundToOwn DEF Conn
  <2> QED BY <1>2, <2>1 DEF Disconnect, Silenced
<1>3. ASSUME \/ \E c \in Conns : \/ Accept(c) \/ Connect(c) \/ Transcript(c) \/ StartOrPause(c)
                                 \/ StopMeeting(c) \/ SelectPersona(c)
             \/ \E p \in Personas : CronJob(p)
             \/ \E w \in waiting : StartRun(w)
             \/ \E r \in DOMAIN runs : EmitText(r) \/ EmitDone(r) \/ CardsSent(r) \/ EmitError(r)
             \/ Quiet \/ UNCHANGED vars
      PROVE  listeners' = listeners
  BY <1>3 DEF Accept, Connect, Transcript, StartOrPause, StopMeeting, SelectPersona, CronJob, StartRun,
              EmitText, EmitDone, CardsSent, EmitError, Quiet, vars
<1>4. CASE \E c \in Conns : Bind(c) \/ Disconnect(c)
  BY <1>1, <1>2, <1>4
<1> QED BY <1>3, <1>4 DEF Next

LEMMA StepListens ==
    ASSUME RegistryInv, [Next]_vars
    PROVE  listeners' \in [Lane -> SUBSET Conns] /\ ListensToMade' /\ GoneIsOver'
<1>0. /\ listeners \in [Lane -> SUBSET Conns] /\ ListensToMade /\ GoneIsOver /\ MadeOnce
      /\ \A d \in Conns : conns[d].made \subseteq conns'[d].made
  BY StepConns DEF RegistryInv, TypeInv, TypeOK
<1>e. \A d \in Conns : conns[d].session # NoSession /\ status[conns[d].session] = "ended" =>
        status'[conns[d].session] = "ended"
  BY StepAgree, BoundToOwn
<1>o. \A n, k \in Sessions : /\ OwnLane(n) \in Lane /\ OwnLane(n).of = n /\ OwnLane(n).kind = "own"
                             /\ (OwnLane(n) = OwnLane(k) => n = k)
  BY DEF OwnLane, Lane
<1>s. \A d \in Conns : /\ conns[d].lane = conns[d].session
                       /\ conns[d].session # NoSession =>
                            conns[d].session \in Sessions /\ conns[d].session \in conns[d].made
  BY BoundToOwn DEF Conn
<1>d. ASSUME NEW d \in Conns, Disconnect(d), conns'[d].session # NoSession,
             conns'[d].session = conns[d].session, conns'[d].lane = conns[d].lane
      PROVE  status'[conns'[d].session] = "ended" /\ listeners'[OwnLane(conns'[d].lane)] = {}
  <2>1. conns[d].session \in 1..Len(status) /\ status \in Seq(Status)
    BY <1>d, BoundToOwn DEF RegistryInv, Agree
  <2>2. status'[conns[d].session] = "ended"
    BY <1>d, <2>1 DEF Disconnect, EndSession
  <2>3. listeners' = [listeners EXCEPT ![OwnLane(conns[d].lane)] = {}]
    BY <1>d DEF Disconnect, Silenced
  <2> QED BY <1>0, <1>o, <1>s, <1>d, <2>2, <2>3
<1>1. CASE listeners' = listeners
  <2>1. ListensToMade'
    BY <1>0, <1>1 DEF ListensToMade
  <2>2. GoneIsOver'
    <3> SUFFICES ASSUME NEW d \in Conns, conns'[d].state = "gone", conns'[d].session # NoSession
                 PROVE  status'[conns'[d].session] = "ended" /\ listeners'[OwnLane(conns'[d].lane)] = {}
      BY DEF GoneIsOver
    <3>1. CASE Disconnect(d) /\ conns'[d].session = conns[d].session /\ conns'[d].lane = conns[d].lane
      BY <1>d, <3>1
    <3>2. CASE /\ conns[d].state = "gone"
               /\ conns'[d].session = conns[d].session /\ conns'[d].lane = conns[d].lane
      BY <1>0, <1>e, <1>1, <3>2 DEF GoneIsOver
    <3> QED BY <3>1, <3>2, GoneStays
  <2> QED BY <1>0, <1>1, <2>1, <2>2
<1>2. ASSUME NEW c \in Conns, Disconnect(c), conns[c].session \in Sessions,
             listeners' = [listeners EXCEPT ![OwnLane(conns[c].session)] = {}]
      PROVE  listeners' \in [Lane -> SUBSET Conns] /\ ListensToMade' /\ GoneIsOver'
  <2>0. \A l \in Lane : listeners'[l] \subseteq listeners[l]
    BY <1>0, <1>2
  <2>1. ListensToMade'
    BY <1>0, <2>0 DEF ListensToMade
  <2>2. GoneIsOver'
    <3> SUFFICES ASSUME NEW d \in Conns, conns'[d].state = "gone", conns'[d].session # NoSession
                 PROVE  status'[conns'[d].session] = "ended" /\ listeners'[OwnLane(conns'[d].lane)] = {}
      BY DEF GoneIsOver
    <3>1. CASE Disconnect(d) /\ conns'[d].session = conns[d].session /\ conns'[d].lane = conns[d].lane
      BY <1>d, <3>1
    <3>2. CASE /\ conns[d].state = "gone"
               /\ conns'[d].session = conns[d].session /\ conns'[d].lane = conns[d].lane
      <4>1. status'[conns'[d].session] = "ended" /\ listeners[OwnLane(conns'[d].lane)] = {}
        BY <1>0, <1>e, <3>2 DEF GoneIsOver
      <4>2. OwnLane(conns'[d].lane) \in Lane
        BY <1>o, <1>s, <3>2
      <4> QED BY <2>0, <4>1, <4>2
    <3> QED BY <3>1, <3>2, GoneStays
  <2>3. listeners' \in [Lane -> SUBSET Conns]
    BY <1>0, <1>2
  <2> QED BY <2>1, <2>2, <2>3
<1>3. ASSUME NEW c \in Conns, NEW n \in conns[c].made, conns[c].state = "replying", n \in Sessions,
             listeners' = [listeners EXCEPT ![OwnLane(n)] = @ \union {c}]
      PROVE  listeners' \in [Lane -> SUBSET Conns] /\ ListensToMade' /\ GoneIsOver'
  <2>0. /\ \A l \in Lane : l # OwnLane(n) => listeners'[l] = listeners[l]
        /\ listeners'[OwnLane(n)] = listeners[OwnLane(n)] \union {c} /\ OwnLane(n) \in Lane
    BY <1>0, <1>3, <1>o
  <2>1. ListensToMade'
    <3> SUFFICES ASSUME NEW l \in Lane, NEW d \in listeners'[l]
                 PROVE  l.kind = "own" /\ l.of \in conns'[d].made
      BY DEF ListensToMade
    <3>1. CASE d \in listeners[l]
      <4>1. d \in Conns
        BY <1>0, <3>1
      <4> QED BY <1>0, <3>1, <4>1 DEF ListensToMade
    <3>2. CASE l = OwnLane(n) /\ d = c
      BY <1>0, <1>3, <1>o, <3>2
    <3> QED BY <2>0, <3>1, <3>2
  <2>2. GoneIsOver'
    <3> SUFFICES ASSUME NEW d \in Conns, conns'[d].state = "gone", conns'[d].session # NoSession
                 PROVE  status'[conns'[d].session] = "ended" /\ listeners'[OwnLane(conns'[d].lane)] = {}
      BY DEF GoneIsOver
    <3>1. CASE Disconnect(d) /\ conns'[d].session = conns[d].session /\ conns'[d].lane = conns[d].lane
      BY <1>d, <3>1
    <3>2. CASE /\ conns[d].state = "gone"
               /\ conns'[d].session = conns[d].session /\ conns'[d].lane = conns[d].lane
      <4>1. status'[conns'[d].session] = "ended" /\ listeners[OwnLane(conns'[d].lane)] = {}
        BY <1>0, <1>e, <3>2 DEF GoneIsOver
      <4>2. OwnLane(conns'[d].lane) \in Lane /\ conns'[d].lane \in Sessions
        BY <1>o, <1>s, <3>2
      <4>3. conns'[d].lane # n
        <5>1. c # d /\ conns'[d].lane \in conns[d].made
          BY <1>3, <1>s, <3>2
        <5> QED BY <1>0, <1>3, <5>1 DEF MadeOnce
      <4>4. OwnLane(conns'[d].lane) # OwnLane(n)
        BY <1>3, <1>o, <4>2, <4>3
      <4> QED BY <2>0, <4>1, <4>2, <4>4
    <3> QED BY <3>1, <3>2, GoneStays
  <2>3. listeners' \in [Lane -> SUBSET Conns]
    BY <1>0, <1>3, <2>0
  <2> QED BY <2>1, <2>2, <2>3
<1> QED BY <1>1, <1>2, <1>3, ListenerMoves

-----------------------------------------------------------------------------
\* Cards are only added, when a run is done, one for every listener that is
\* still there.
LEMMA CardMoves ==
    ASSUME [Next]_vars
    PROVE  \/ cards' = cards
           \/ \E r \in DOMAIN runs : EmitDone(r)
BY DEF Next, vars, Accept, Connect, Bind, Transcript, StartOrPause, StopMeeting, SelectPersona,
       Disconnect, CronJob, StartRun, EmitText, CardsSent, EmitError, Quiet

LEMMA StepCards ==
    ASSUME RegistryInv, [Next]_vars
    PROVE  (cards \subseteq [run : DOMAIN runs, text : SUBSET DOMAIN runs, to : Conns])'
<1>1. /\ cards \subseteq [run : DOMAIN runs, text : SUBSET DOMAIN runs, to : Conns]
      /\ DOMAIN runs \subseteq DOMAIN runs'
  BY StepRuns DEF RegistryInv, TypeInv, TypeOK
<1>2. [run : DOMAIN runs, text : SUBSET DOMAIN runs, to : Conns]
        \subseteq [run : DOMAIN runs', text : SUBSET DOMAIN runs', to : Conns]
  BY <1>1
<1>3. ASSUME NEW r \in DOMAIN runs, EmitDone(r), NEW card \in cards', card \notin cards
      PROVE  card \in [run : DOMAIN runs, text : SUBSET DOMAIN runs, to : Conns]
  <2>1. PICK c \in Hearers(r) : card = [run |-> r, text |-> conns[c].buffer, to |-> c]
    BY <1>3 DEF EmitDone
  <2>3. c \in Conns
    <3>1. /\ runs \in Seq(Run) /\ DOMAIN runs = 1..Len(runs)
          /\ listeners \in [Lane -> SUBSET Conns]
      BY DEF RegistryInv, TypeInv, TypeOK
    <3>2. runs[r] \in Run
      BY <3>1
    <3>3. runs[r].lane \in Lane
      BY <3>2 DEF Run
    <3> QED BY <3>1, <3>3 DEF Hearers
  <2>2. conns[c].buffer \in SUBSET DOMAIN runs
    BY <2>3, BoundToOwn
  <2> QED BY <2>1, <2>2, <2>3
<1> QED BY <1>1, <1>2, <1>3, CardMoves

LEMMA InitRegistryInv == Init => RegistryInv
<1> SUFFICES ASSUME Init
             PROVE  RegistryInv
  OBVIOUS
<1>0. /\ status = <<>> /\ laned = {} /\ agents = <<>> /\ enqueued = 0 /\ runs = <<>> /\ cards = {}
      /\ waiting = {} /\ listeners = [l \in Lane |-> {}]
      /\ MaxSessions \in Nat /\ MaxMessages \in Nat
  BY GatewayAssumption DEF Init
<1>1. \A c \in Conns : /\ conns[c] = [state |-> "new", session |-> NoSession, lane |-> NoSession,
                                      reply |-> NoSession, made |-> {}, buffer |-> {}]
                       /\ conns[c] \in Conn
  BY DEF Init, Conn
<1>2. conns \in [Conns -> Conn]
  BY <1>1 DEF Init
<1>3. ConnInv
  BY <1>1, <1>2 DEF ConnInv, ConnOK
<1>4. RunsPaid /\ LanesKnown
  BY <1>0, FS_EmptySet DEF RunsPaid, LanesKnown
<1>5. TypeOK
  BY <1>0, <1>2 DEF TypeOK
<1>6. TypeInv
  BY <1>0, <1>3, <1>4, <1>5 DEF TypeInv
<1>7. Agree
  BY <1>0 DEF Agree, Once, Members, Live, CronAgents, Served
<1>8. MadeOnce /\ ListensToMade /\ GoneIsOver
  BY <1>0, <1>1 DEF MadeOnce, ListensToMade, GoneIsOver
<1> QED BY <1>6, <1>7, <1>8 DEF RegistryInv

LEMMA StepRegistryInv == RegistryInv /\ [Next]_vars => RegistryInv'
<1> SUFFICES ASSUME RegistryInv, [Next]_vars
             PROVE  RegistryInv'
  OBVIOUS
<1>1. Agree' /\ Len(status) <= Len(status') /\ DOMAIN status = 1..Len(status) /\ Len(status') \in Nat
  BY StepAgree
<1>2. /\ status' \in Seq(Status) /\ Len(status') <= MaxSessions /\ agents' \in Seq(DOMAIN status' \union Personas)
      /\ laned' = Live'
  BY <1>1 DEF Agree
<1>3. laned' \subseteq DOMAIN status'
  BY <1>2 DEF Live
<1>4. ConnInv' /\ MadeOnce'
  BY StepConns
<1>5. TypeOK'
  BY <1>2, <1>3, <1>4, StepRuns, StepListens, StepCards DEF TypeOK, ConnInv
<1>6. LanesKnown'
  <2>1. DOMAIN status \subseteq DOMAIN status'
    BY <1>1, <1>2
  <2> QED BY <2>1, StepRuns DEF LanesKnown
<1>7. TypeInv'
  BY <1>2, <1>4, <1>5, <1>6, StepRuns DEF TypeInv
<1> QED BY <1>1, <1>4, <1>7, StepListens DEF RegistryInv

(* GatewayTypes: connections, sessions, registry, lanes and runs keep their  *)
(* types whatever the clients do, in whatever order.  In particular no more  *)
(* runs start than messages were enqueued.                                   *)
THEOREM GatewayTypes == Spec => []TypeOK
<1>1. RegistryInv => TypeOK
  BY DEF RegistryInv, TypeInv
<1> QED BY InitRegistryInv, StepRegistryInv, <1>1, PTL DEF Spec

(* NoAgentLeaks: the registry holds the agents of the sessions that have not *)
(* ended and those of cron lanes whose runs got one, each once, and exactly  *)
(* the sessions that have not ended have lanes; the session that a           *)
(* connection was bound to when it went has ended, and its lane has no       *)
(* listeners (session.py create_session and end_session, runner.py           *)
(* _resolve_agent, server.py's finally block).  The theorem leaves open what *)
(* becomes of sessions that a gone connection was not, or no longer, bound   *)
(* to.                                                                       *)
THEOREM NoAgentLeaks == Spec => []AgentsMatchSessions
<1>1. ASSUME RegistryInv
      PROVE  AgentsMatchSessions
  <2>1. /\ agents \in Seq(DOMAIN status \union Personas) /\ Once(agents)
        /\ Members(agents) = Live \union CronAgents /\ laned = Live /\ GoneIsOver
    BY <1>1 DEF RegistryInv, Agree
  <2>2. DOMAIN agents = 1..Len(agents) /\ Len(agents) \in Nat
    BY <2>1
  <2>3. agents \in Bijection(1..Len(agents), Members(agents))
    <3>1. agents \in [1..Len(agents) -> Members(agents)]
      BY <2>1, <2>2 DEF Members
    <3>2. \A a, b \in 1..Len(agents) : agents[a] = agents[b] => a = b
      BY <2>1, <2>2 DEF Once
    <3>3. \A n \in Members(agents) : \E i \in 1..Len(agents) : agents[i] = n
      BY <2>1, <2>2 DEF Members
    <3> QED BY <3>1, <3>2, <3>3 DEF Bijection, Injection, Surjection, IsInjective
  <2>4. Cardinality(Members(agents)) = Len(agents)
    BY <2>2, <2>3, FS_CountingElements DEF ExistsBijection
  <2> QED BY <2>1, <2>4 DEF AgentsMatchSessions, Live, CronAgents, Served, Members, GoneIsOver
<1>2. RegistryInv => AgentsMatchSessions
  BY <1>1
<1> QED BY InitRegistryInv, StepRegistryInv, <1>2, PTL DEF Spec

(* OwnAgentRuns: a run that starts on the lane of a session that has not     *)
(* ended executes on that session's agent (runner.py _resolve_agent).        *)
THEOREM OwnAgentRuns == Spec => LiveRunOnOwnAgent
<1>1. ASSUME RegistryInv, [Next]_vars,
             NEW r \in DOMAIN runs' \ DOMAIN runs,
             runs'[r].lane.kind = "own", status[runs'[r].lane.of] # "ended"
      PROVE  runs'[r].agent = runs'[r].lane.of
  <2>0. runs \in Seq(Run) /\ DOMAIN runs = 1..Len(runs) /\ Len(runs) \in Nat
    BY <1>1 DEF RegistryInv, TypeInv, TypeOK
  <2>1. PICK w \in waiting : StartRun(w)
    <3>1. RunsKept => DOMAIN runs' = DOMAIN runs
      BY <2>0 DEF RunsKept
    <3>2. \A l \in Lane : Queued(l) => DOMAIN runs' = DOMAIN runs
      BY DEF Queued
    <3> QED BY <1>1, <3>1, <3>2, RunMoves
  <2>2. PICK l : l = w.lane
    OBVIOUS
  <2>3. PICK a : /\ runs' = Append(runs, RunOf(l, a)) /\ (l.kind # "cron" => a = Resolved(l))
    BY <2>1, <2>2 DEF StartRun
  <2>4. runs'[r] = RunOf(l, a)
    BY <1>1, <2>0, <2>3
  <2>5. runs'[r].lane = l /\ runs'[r].agent = a
    BY <2>4 DEF RunOf
  <2>6. l.kind = "own" /\ a = Resolved(l) /\ l.of \in Live
    BY <1>1, <2>1, <2>2, <2>3, <2>5 DEF RegistryInv, TypeInv, LanesKnown, Live
  <2>7. Resolved(l) = l.of
    BY <1>1, <2>6 DEF RegistryInv, Agree, Members, HasAgent, Resolved
  <2> QED BY <2>5, <2>6, <2>7
<1>2. RegistryInv /\ [Next]_vars =>
        [\A r \in DOMAIN runs' \ DOMAIN runs :
           LET l == runs'[r].lane
           IN  l.kind = "own" /\ status[l.of] # "ended" => runs'[r].agent = l.of]_vars
  BY <1>1
<1> QED BY InitRegistryInv, StepRegistryInv, <1>2, PTL DEF Spec, LiveRunOnOwnAgent

-----------------------------------------------------------------------------
\* A run that is over stays so, and one ends only by CardsSent.
LEMMA PhaseMoves ==
    ASSUME RegistryInv, [Next]_vars, NEW r \in DOMAIN runs
    PROVE  /\ runs'[r].phase \in {"running", "sending"} => Executing(r)
           /\ runs[r].phase = "error" => runs'[r].phase = "error"
           /\ runs'[r].phase = "end" => runs[r].phase = "end" \/ CardsSent(r)
<1>0. runs \in Seq(Run) /\ DOMAIN runs = 1..Len(runs) /\ Len(runs) \in Nat
  BY DEF RegistryInv, TypeInv, TypeOK
<1>1. CASE runs' = runs
  BY <1>1 DEF Executing
<1>2. ASSUME NEW q \in DOMAIN runs, EmitDone(q) \/ CardsSent(q) \/ EmitError(q)
      PROVE  /\ runs'[r].phase \in {"running", "sending"} => Executing(r)
             /\ runs[r].phase = "error" => runs'[r].phase = "error"
             /\ runs'[r].phase = "end" => runs[r].phase = "end" \/ CardsSent(r)
  <2>1. CASE q # r
    <3>1. runs'[r] = runs[r]
      BY <1>0, <1>2, <2>1 DEF EmitDone, CardsSent, EmitError
    <3> QED BY <3>1 DEF Executing
  <2>2. CASE q = r
    <3>1. runs[r] \in Run
      BY <1>0
    <3>2. PICK p \in {"sending", "end", "error"} :
            /\ runs' = [runs EXCEPT ![r].phase = p] /\ Executing(r)
            /\ p = "end" => CardsSent(r)
      BY <1>2, <2>2 DEF EmitDone, CardsSent, EmitError, Executing
    <3>3. runs'[r].phase = p
      BY <1>0, <3>1, <3>2 DEF Run
    <3> QED BY <3>2, <3>3 DEF Executing
  <2> QED BY <2>1, <2>2
<1>3. ASSUME NEW w \in waiting, StartRun(w)
      PROVE  runs'[r] = runs[r]
  <2>1. PICK x : runs' = Append(runs, x)
    BY <1>3 DEF StartRun
  <2> QED BY <1>0, <2>1
<1>4. CASE \E w \in waiting : StartRun(w)
  BY <1>3, <1>4 DEF Executing
<1>5. CASE \E q \in DOMAIN runs : EmitDone(q) \/ CardsSent(q) \/ EmitError(q)
  BY <1>2, <1>5
<1>6. CASE \/ \E c \in Conns : \/ Accept(c) \/ Connect(c) \/ Bind(c) \/ Transcript(c)
                               \/ StartOrPause(c) \/ StopMeeting(c) \/ SelectPersona(c)
                               \/ Disconnect(c)
           \/ \E p \in Personas : CronJob(p)
           \/ \E q \in DOMAIN runs : EmitText(q)
           \/ Quiet \/ UNCHANGED vars
  <2>1. runs' = runs
    BY <1>6 DEF Accept, Connect, Bind, Transcript, StartOrPause, StopMeeting, SelectPersona,
                Disconnect, CronJob, EmitText, Quiet, vars
  <2> QED BY <1>1, <2>1
<1> QED BY <1>4, <1>5, <1>6 DEF Next

\* A connection that has gone does not come back.
LEMMA NoReturn ==
    ASSUME RegistryInv, [Next]_vars, NEW d \in Conns, conns'[d].state # "gone"
    PROVE  conns[d].state # "gone"
<1>0. conns \in [Conns -> Conn] /\ conns[d] \in Conn
  BY DEF RegistryInv, TypeInv, ConnInv
<1>1. ASSUME NEW c \in Conns, \/ Accept(c) \/ Bind(c) \/ Connect(c) \/ SelectPersona(c) \/ Disconnect(c)
      PROVE  conns[d].state # "gone"
  <2>1. CASE c = d
    BY <1>1, <2>1 DEF Accept, Bind, Connect, SelectPersona, Bound, Ready, Disconnect
  <2>2. CASE c # d
    BY <1>0, <1>1, <2>2 DEF Accept, Bind, Connect, SelectPersona, Disconnect
  <2> QED BY <2>1, <2>2
<1>2. ASSUME NEW r \in DOMAIN runs, EmitText(r) \/ CardsSent(r)
      PROVE  conns'[d].state = conns[d].state
  BY <1>0, <1>2 DEF EmitText, CardsSent, Conn
<1>3. ASSUME \/ \E c \in Conns : Transcript(c) \/ StartOrPause(c) \/ StopMeeting(c)
             \/ \E p \in Personas : CronJob(p)
             \/ \E w \in waiting : StartRun(w)
             \/ \E r \in DOMAIN runs : EmitDone(r) \/ EmitError(r)
             \/ Quiet \/ UNCHANGED vars
      PROVE  conns' = conns
  BY <1>3 DEF Transcript, StartOrPause, StopMeeting, CronJob, StartRun, EmitDone, EmitError, Quiet, vars
<1>4. CASE \/ \E c \in Conns : \/ Accept(c) \/ Bind(c) \/ Disconnect(c)
                               \/ Connect(c) \/ SelectPersona(c)
           \/ \E r \in DOMAIN runs : EmitText(r) \/ CardsSent(r)
  BY <1>1, <1>2, <1>4
<1> QED BY <1>3, <1>4 DEF Next

\* Text is added only by EmitText, to the buffers of those that hear the run.
LEMMA TextMoves ==
    ASSUME RegistryInv, [Next]_vars, NEW d \in Conns, NEW r \in conns'[d].buffer
    PROVE  r \in conns[d].buffer \/ (r \in DOMAIN runs /\ EmitText(r) /\ d \in Hearers(r))
<1>0. conns \in [Conns -> Conn] /\ conns[d] \in Conn
  BY DEF RegistryInv, TypeInv, ConnInv
<1>1. ASSUME NEW c \in Conns, \/ Accept(c) \/ Bind(c) \/ Connect(c) \/ SelectPersona(c) \/ Disconnect(c)
      PROVE  conns'[d].buffer = conns[d].buffer
  <2>1. CASE c = d
    BY <1>0, <1>1, <2>1 DEF Accept, Bind, Connect, SelectPersona, Disconnect, Conn
  <2>2. CASE c # d
    BY <1>0, <1>1, <2>2 DEF Accept, Bind, Connect, SelectPersona, Disconnect
  <2> QED BY <2>1, <2>2
<1>2. ASSUME NEW q \in DOMAIN runs, EmitText(q)
      PROVE  conns'[d].buffer = conns[d].buffer \/ (d \in Hearers(q) /\ conns'[d].buffer = conns[d].buffer \union {q})
  BY <1>0, <1>2 DEF EmitText, Conn
<1>3. ASSUME NEW q \in DOMAIN runs, CardsSent(q)
      PROVE  conns'[d].buffer \subseteq conns[d].buffer
  BY <1>0, <1>3 DEF CardsSent, Cleared, Conn
<1>4. ASSUME \/ \E c \in Conns : Transcript(c) \/ StartOrPause(c) \/ StopMeeting(c)
             \/ \E p \in Personas : CronJob(p)
             \/ \E w \in waiting : StartRun(w)
             \/ \E q \in DOMAIN runs : EmitDone(q) \/ EmitError(q)
             \/ Quiet \/ UNCHANGED vars
      PROVE  conns' = conns
  BY <1>4 DEF Transcript, StartOrPause, StopMeeting, CronJob, StartRun, EmitDone, EmitError, Quiet, vars
<1>5. CASE \/ \E c \in Conns : \/ Accept(c) \/ Bind(c) \/ Disconnect(c)
                               \/ Connect(c) \/ SelectPersona(c)
           \/ \E q \in DOMAIN runs : EmitText(q) \/ CardsSent(q)
  BY <1>1, <1>2, <1>3, <1>5
<1> QED BY <1>4, <1>5 DEF Next

LEMMA StepTextHeard ==
    ASSUME OutputInv, [Next]_vars
    PROVE  TextHeard'
<1>0. /\ RegistryInv /\ TextHeard /\ MadeOnce /\ ListensToMade
      /\ \A d \in Conns : conns[d].made \subseteq conns'[d].made
      /\ \A r \in DOMAIN runs : runs'[r].lane = runs[r].lane
      /\ runs \in Seq(Run) /\ DOMAIN runs = 1..Len(runs) /\ listeners \in [Lane -> SUBSET Conns]
  BY StepConns, StepRuns DEF OutputInv, RegistryInv, TypeInv, TypeOK
<1> SUFFICES ASSUME NEW d \in Conns, NEW r \in conns'[d].buffer
             PROVE  /\ runs'[r].lane.kind = "own" /\ runs'[r].lane.of \in conns'[d].made
                    /\ conns'[d].state # "gone" =>
                         d \in listeners'[runs'[r].lane] /\ runs'[r].phase # "end"
  BY DEF TextHeard
<1>1. CASE r \in DOMAIN runs /\ EmitText(r) /\ d \in Hearers(r)
  <2>1. /\ runs' = runs /\ listeners' = listeners /\ runs[r].phase = "running"
        /\ d \in listeners[runs[r].lane]
    BY <1>1 DEF EmitText, Hearers
  <2>2. runs[r] \in Run
    BY <1>0, <1>1
  <2>3. runs[r].lane \in Lane
    BY <2>2 DEF Run
  <2> QED BY <1>0, <2>1, <2>3 DEF ListensToMade
<1>2. CASE r \in conns[d].buffer
  <2>1. /\ r \in DOMAIN runs /\ runs[r].lane.kind = "own" /\ runs[r].lane.of \in conns[d].made
        /\ conns[d].state # "gone" => d \in listeners[runs[r].lane] /\ runs[r].phase # "end"
    BY <1>0, <1>2, BoundToOwn DEF TextHeard
  <2>2. runs[r] \in Run
    BY <1>0, <2>1
  <2>3. runs[r].lane \in Lane /\ runs[r].lane = OwnLane(runs[r].lane.of)
    BY <2>1, <2>2 DEF Run, Lane, OwnLane
  <2>4. ASSUME conns'[d].state # "gone"
        PROVE  d \in listeners'[runs[r].lane] /\ runs'[r].phase # "end"
    <3>1. d \in listeners[runs[r].lane] /\ runs[r].phase # "end" /\ conns[d].state # "gone"
      BY <1>0, <2>1, <2>4, NoReturn
    <3>2. d \in listeners'[runs[r].lane]
      <4>1. CASE listeners' = listeners
        BY <3>1, <4>1
      <4>2. ASSUME NEW c \in Conns, Disconnect(c), conns[c].session \in Sessions,
                   listeners' = [listeners EXCEPT ![OwnLane(conns[c].session)] = {}]
            PROVE  d \in listeners'[runs[r].lane]
        <5>1. c # d
          BY <1>0, <2>4, <4>2 DEF Disconnect, RegistryInv, TypeInv, TypeOK, Conn
        <5>2. conns[c].session \in conns[c].made
          BY <1>0, <4>2, BoundToOwn DEF Sessions, NoSession
        <5>3. conns[c].session # runs[r].lane.of
          BY <1>0, <2>1, <5>1, <5>2 DEF MadeOnce
        <5>4. OwnLane(conns[c].session) # runs[r].lane
          BY <5>3 DEF OwnLane
        <5> QED BY <1>0, <2>3, <3>1, <4>2, <5>4
      <4>3. ASSUME NEW c \in Conns, NEW n \in Sessions,
                   listeners' = [listeners EXCEPT ![OwnLane(n)] = @ \union {c}]
            PROVE  d \in listeners'[runs[r].lane]
        BY <1>0, <2>3, <3>1, <4>3
      <4> QED BY <1>0, <4>1, <4>2, <4>3, ListenerMoves
    <3>3. ~CardsSent(r)
      <4> SUFFICES ASSUME CardsSent(r)
                   PROVE  FALSE
        OBVIOUS
      <4>1. d \in Hearers(r) /\ conns[d] \in Conn
        BY <1>0, <3>1 DEF Hearers, RegistryInv, TypeInv, ConnInv
      <4>2. conns'[d] = [conns[d] EXCEPT !.buffer = Cleared(d)]
        BY <3>1, <4>1 DEF CardsSent
      <4> QED BY <4>1, <4>2 DEF Cleared, Conn
    <3>4. runs'[r].phase # "end"
      BY <1>0, <2>1, <3>1, <3>3, PhaseMoves
    <3> QED BY <3>2, <3>4
  <2> QED BY <1>0, <2>1, <2>4
<1> QED BY <1>0, <1>1, <1>2, TextMoves

LEMMA StepCardsHome ==
    ASSUME OutputInv, [Next]_vars
    PROVE  CardsHome'
<1>0. /\ RegistryInv /\ CardsHome /\ ListensToMade
      /\ \A d \in Conns : conns[d].made \subseteq conns'[d].made
      /\ \A r \in DOMAIN runs : runs'[r].lane = runs[r].lane
      /\ runs \in Seq(Run) /\ listeners \in [Lane -> SUBSET Conns]
      /\ cards \subseteq [run : DOMAIN runs, text : SUBSET DOMAIN runs, to : Conns]
  BY StepConns, StepRuns DEF OutputInv, RegistryInv, TypeInv, TypeOK
<1> SUFFICES ASSUME NEW card \in cards'
             PROVE  /\ runs'[card.run].lane.kind = "own"
                    /\ runs'[card.run].lane.of \in conns'[card.to].made
  BY DEF CardsHome
<1>1. CASE card \in cards
  <2>1. card.run \in DOMAIN runs /\ card.to \in Conns
    BY <1>0, <1>1
  <2> QED BY <1>0, <1>1, <2>1 DEF CardsHome
<1>2. ASSUME NEW r \in DOMAIN runs, EmitDone(r), card \notin cards
      PROVE  runs'[card.run].lane.kind = "own" /\ runs'[card.run].lane.of \in conns'[card.to].made
  <2>1. PICK c \in Hearers(r) : card.run = r /\ card.to = c
    BY <1>2 DEF EmitDone
  <2>2. runs[r] \in Run
    BY <1>0
  <2>3. runs[r].lane \in Lane /\ c \in listeners[runs[r].lane]
    BY <2>1, <2>2 DEF Run, Hearers
  <2>4. c \in Conns /\ runs[r].lane.kind = "own" /\ runs[r].lane.of \in conns[c].made
    BY <1>0, <2>3 DEF ListensToMade
  <2> QED BY <1>0, <2>1, <2>4
<1> QED BY <1>1, <1>2, CardMoves

LEMMA InitOutputInv == Init => OutputInv
<1> SUFFICES ASSUME Init
             PROVE  OutputInv
  OBVIOUS
<1>1. RegistryInv
  BY InitRegistryInv
<1>2. TextHeard /\ CardsHome
  BY DEF Init, TextHeard, CardsHome
<1> QED BY <1>1, <1>2 DEF OutputInv

LEMMA StepOutputInv == OutputInv /\ [Next]_vars => OutputInv'
<1> SUFFICES ASSUME OutputInv, [Next]_vars
             PROVE  OutputInv'
  OBVIOUS
<1>1. RegistryInv'
  BY StepRegistryInv DEF OutputInv
<1> QED BY <1>1, StepTextHeard, StepCardsHome DEF OutputInv

\* What a new card holds: the buffer of a connection that is there.
LEMMA NewCards ==
    ASSUME OutputInv, [Next]_vars, NEW card \in cards', card \notin cards, NEW r \in card.text
    PROVE  runs[r].phase # "end"
<1>0. /\ RegistryInv /\ TextHeard /\ runs \in Seq(Run) /\ listeners \in [Lane -> SUBSET Conns]
  BY DEF OutputInv, RegistryInv, TypeInv, TypeOK
<1>1. PICK q \in DOMAIN runs : EmitDone(q)
  BY CardMoves
<1>2. PICK c \in Hearers(q) : card.text = conns[c].buffer /\ conns[c].state # "gone"
  BY <1>1 DEF EmitDone
<1>3. c \in Conns
  <2>1. runs[q] \in Run
    BY <1>0
  <2> QED BY <1>0, <1>2, <2>1 DEF Run, Hearers
<1> QED BY <1>0, <1>2, <1>3 DEF TextHeard

(* SuggestionsStayHome: a card, and any text, reaches only the connection    *)
(* that created the session on whose own lane the run was, although runs of  *)
(* one lane may overlap and one buffer serves all lanes of a connection; and *)
(* a new card holds, besides its run's text, only text of runs that failed   *)
(* or still execute, none of a run that is over with success (server.py      *)
(* on_agent_output).                                                         *)
THEOREM SuggestionsStayHome == Spec => OutputStaysHome
<1>1. ASSUME OutputInv
      PROVE  AtHome
  <2>0. /\ RegistryInv /\ CardsHome /\ TextHeard /\ runs \in Seq(Run)
        /\ cards \subseteq [run : DOMAIN runs, text : SUBSET DOMAIN runs, to : Conns]
    BY <1>1 DEF OutputInv, RegistryInv, TypeInv, TypeOK
  <2>1. ASSUME NEW r \in DOMAIN runs, runs[r].lane.kind = "own"
        PROVE  runs[r].lane = OwnLane(runs[r].lane.of)
    <3>1. runs[r] \in Run
      BY <2>0
    <3>2. runs[r].lane \in Lane
      BY <3>1 DEF Run
    <3> QED BY <2>1, <3>2 DEF Lane, OwnLane
  <2>2. \A card \in cards : card.run \in DOMAIN runs
    BY <2>0
  <2>3. \A c \in Conns : \A r \in conns[c].buffer : r \in DOMAIN runs
    BY <2>0, BoundToOwn
  <2> QED BY <2>0, <2>1, <2>2, <2>3 DEF CardsHome, TextHeard, AtHome
<1>2. ASSUME OutputInv, [Next]_vars
      PROVE  NothingShownAgain
  BY <1>2, NewCards DEF NothingShownAgain
<1>3. (OutputInv => AtHome) /\ (OutputInv /\ [Next]_vars => [NothingShownAgain]_vars)
  BY <1>1, <1>2
<1> QED BY InitOutputInv, StepOutputInv, <1>3, PTL DEF Spec, OutputStaysHome
=============================================================================
