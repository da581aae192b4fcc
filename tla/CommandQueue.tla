---------------------------- MODULE CommandQueue ----------------------------
(***************************************************************************)
(* The lane-based FIFO command queue of src/src/engine/queue.py: per       *)
(* session a list of waiting messages and a debounce timer, per global     *)
(* lane a semaphore, and the agent runs that carry drained messages.       *)
(*                                                                         *)
(* Everything runs on one asyncio event loop, so the code between two      *)
(* awaits that really suspend is one atomic action.  _drain_session takes  *)
(* its session lock around a body with no await, so the lock is never      *)
(* contended and a drain is part of the step that calls it.  The           *)
(* lifecycle listeners of _emit_lifecycle are never registered in this     *)
(* repository, so emitting an event does not suspend either, and phase     *)
(* START is never visible to another task.                                 *)
(*                                                                         *)
(* A message is the number of the enqueue() call that brought it.  A queue *)
(* item is the set of messages whose text it still carries: a singleton,   *)
(* or what the "summarize" overflow policy folded into one summary.        *)
(*                                                                         *)
(* A definition marked (mutant) is a plausible bug that a property must    *)
(* catch; no specification uses it.                                        *)
(***************************************************************************)
EXTENDS Naturals, Sequences, FiniteSets

CONSTANTS
    Sessions,        \* session keys
    Lanes,           \* names of the global lanes
    MainLane,        \* "main": the lane a finished run drains to
    LaneCap,         \* max_concurrent of every lane
    Cap,             \* cap_per_session
    OverflowPolicy,  \* "summarize", "drop_old" or "drop_new"
    SummaryLen,      \* messages whose text fits into a summary (500 characters)
    MaxMessages      \* bound on the number of enqueue() calls

ASSUME LaneAssumption ==
    /\ MainLane \in Lanes
    /\ LaneCap \in [Lanes -> Nat \ {0}]

ASSUME QueueAssumption ==
    /\ Cap \in Nat \ {0}
    /\ OverflowPolicy \in {"summarize", "drop_old", "drop_new"}
    /\ SummaryLen \in Nat
    /\ MaxMessages \in Nat

VARIABLES
    arrived,       \* enqueue() calls so far
    running,       \* _running
    sessionQueue,  \* _session_queues: session -> sequence of items
    timers,        \* _debounce_tasks not yet done: pairs <<session, lane>>
    active,        \* _active_runs: session -> run, or NoRun
    steerable,     \* sessions with an entry in _steer_callbacks
    runs,          \* every AgentRun made so far, in order of creation
    laneQueue,     \* lane -> runs whose task waits for the lane's semaphore
    permits,       \* lane -> value of the lane's semaphore
    steered,       \* history: messages passed to a steer callback
    dropped        \* history: messages thrown away by the overflow policy

vars == <<arrived, running, sessionQueue, timers, active, steerable, runs,
          laneQueue, permits, steered, dropped>>

QueueMode == {"steer", "collect", "followup"}
NoRun == 0

\* The messages that a sequence of items stands for.
Covered(items) == UNION {items[i] : i \in DOMAIN items}

Item == SUBSET Nat

RunPhase == {"queued", "running", "end", "error"}

AgentRun == [session : Sessions, lane : Lanes, input : Seq(Item),
             phase : RunPhase]

TypeOK ==
    /\ arrived \in Nat
    /\ running \in BOOLEAN
    /\ sessionQueue \in [Sessions -> Seq(Item)]
    /\ timers \subseteq Sessions \X Lanes
    /\ active \in [Sessions -> Nat]
    /\ steerable \subseteq Sessions
    /\ runs \in Seq(AgentRun)
    /\ laneQueue \in [Lanes -> Seq(Nat)]
    /\ permits \in [Lanes -> Nat]
    /\ steered \subseteq Nat
    /\ dropped \subseteq Nat

-----------------------------------------------------------------------------
\* The queue after __init__ and start(), which the gateway's lifespan handler
\* calls before it accepts a connection.
Init ==
    /\ arrived = 0
    /\ running = TRUE
    /\ sessionQueue = [s \in Sessions |-> <<>>]
    /\ timers = {}
    /\ active = [s \in Sessions |-> NoRun]
    /\ steerable = {}
    /\ runs = <<>>
    /\ laneQueue = [l \in Lanes |-> <<>>]
    /\ permits = LaneCap
    /\ steered = {}
    /\ dropped = {}

\* run.phase = p.
WithPhase(rs, r, p) == [rs EXCEPT ![r].phase = p]

\* is_running over given values of runs and _active_runs.
IsRunning(s, rs, act) ==
    /\ act[s] # NoRun
    /\ rs[act[s]].phase = "running"

-----------------------------------------------------------------------------
\* _handle_overflow: what the policy makes of a full queue and a new message.
\* A summary joins the texts of the older half and cuts the result off, so of
\* the messages folded into it the oldest survive.
Oldest(n, S) == {m \in S : Cardinality({x \in S : x < m}) < n}

UnfoldedSummary(q, m) ==  \* (mutant) the summarised half stays in the queue
    <<Oldest(SummaryLen, Covered(q))>> \o q \o <<{m}>>

Summarize(q, m) ==
    LET half == Len(q) \div 2
    IN  <<Oldest(SummaryLen, Covered(SubSeq(q, 1, half)))>>
            \o SubSeq(q, half + 1, Len(q)) \o <<{m}>>

Overflowed(q, m) ==
    CASE OverflowPolicy = "drop_old"  -> Append(Tail(q), {m})
      [] OverflowPolicy = "drop_new"  -> q
      [] OverflowPolicy = "summarize" -> Summarize(q, m)

QueuedInFront(q, m) ==  \* (mutant) insert(0) for append
    IF Len(q) >= Cap THEN Overflowed(q, m) ELSE <<{m}>> \o q

QueuedPastCap(q, m) ==  \* (mutant) > for >=
    IF Len(q) > Cap THEN Overflowed(q, m) ELSE Append(q, {m})

\* The session queue after a message that was not steered.
Queued(q, m) == IF Len(q) >= Cap THEN Overflowed(q, m) ELSE Append(q, {m})

\* _reset_debounce: cancel the session's pending timer and start a new one.
ResetDebounce(s, l) == {t \in timers : t[1] # s} \union {<<s, l>>}

\* enqueue() on its first branch: the steer callback takes the message.
CanSteer(s, mode) ==
    /\ mode = "steer"
    /\ IsRunning(s, runs, active)
    /\ s \in steerable

Steer(s, mode) ==
    /\ arrived < MaxMessages
    /\ CanSteer(s, mode)
    /\ arrived' = arrived + 1
    /\ steered' = steered \union {arrived + 1}
    /\ UNCHANGED <<running, sessionQueue, timers, active, steerable, runs,
                   laneQueue, permits, dropped>>

\* enqueue() otherwise: the message joins the session queue, overflow
\* included, and the debounce timer starts again.
Enqueue(s, mode, l) ==
    LET m == arrived + 1
        q == Queued(sessionQueue[s], m)
    IN  /\ arrived < MaxMessages
        /\ ~CanSteer(s, mode)
        /\ arrived' = m
        /\ sessionQueue' = [sessionQueue EXCEPT ![s] = q]
        /\ dropped' = dropped \union ((Covered(sessionQueue[s]) \union {m}) \ Covered(q))
        /\ timers' = ResetDebounce(s, l)
        /\ UNCHANGED <<running, active, steerable, runs, laneQueue, permits, steered>>

-----------------------------------------------------------------------------
DrainStopped(s, rs, act) ==  \* (mutant) _running is not tested
    ~IsRunning(s, rs, act) /\ sessionQueue[s] # <<>>

DrainBusy(s, rs, act) ==  \* (mutant) the active run is not tested
    running /\ sessionQueue[s] # <<>>

\* The early returns of _drain_session, for given values of runs and _active_runs.
MayDrain(s, rs, act) == running /\ ~IsRunning(s, rs, act) /\ sessionQueue[s] # <<>>

EmptiedByGet(s) == sessionQueue  \* (mutant) get() for pop()

Emptied(s) == [sessionQueue EXCEPT ![s] = <<>>]

\* A new task reaches its lane's semaphore: waiters are served first come first served.
LaneJoined(l, r) == [laneQueue EXCEPT ![l] = Append(@, r)]

\* _drain_session: all queued messages become the input of a new run.
DrainSession(s, l, rs, act) ==
    \/ /\ MayDrain(s, rs, act)
       /\ runs' = Append(rs, [session |-> s, lane |-> l, phase |-> "queued",
                               input |-> sessionQueue[s]])
       /\ sessionQueue' = Emptied(s)
       /\ laneQueue' = LaneJoined(l, Len(rs) + 1)
    \/ /\ ~MayDrain(s, rs, act)
       /\ runs' = rs
       /\ UNCHANGED <<sessionQueue, laneQueue>>

StartableUnlimited(l) == laneQueue[l] # <<>>  \* (mutant) no semaphore

\* Some run's task is ready: it waits for a permit that is free.
Startable(l) == laneQueue[l] # <<>> /\ permits[l] > 0

\* _debounce_then_drain after its sleep.  The sleep lasts debounce_ms (one
\* second), and a task that is ready runs before the loop waits: no timer
\* fires while a permit is free for a waiting run.
DebounceFires(s, l) ==
    /\ <<s, l>> \in timers
    /\ \A k \in Lanes : ~Startable(k)
    /\ timers' = timers \ {<<s, l>>}
    /\ DrainSession(s, l, runs, active)
    /\ UNCHANGED <<arrived, running, active, steerable, permits, steered, dropped>>

\* _execute_run up to the first suspension in its handler.  Semaphore waiters
\* are served in FIFO order.  AgentRunner.handle_run registers the steer
\* callback at once, unless it finds no agent for the session.
StartRun(l) ==
    /\ Startable(l)
    /\ LET r == Head(laneQueue[l])
           s == runs[r].session
       IN  /\ laneQueue' = [laneQueue EXCEPT ![l] = Tail(@)]
           /\ permits' = [permits EXCEPT ![l] = @ - 1]
           /\ active' = [active EXCEPT ![s] = r]
           /\ runs' = WithPhase(runs, r, "running")
           /\ \E resolved \in BOOLEAN :
                steerable' = IF resolved THEN steerable \union {s} ELSE steerable
    /\ UNCHANGED <<arrived, running, sessionQueue, timers, steered, dropped>>

ReleasedOnSuccess(l, outcome) ==  \* (mutant) an error keeps the permit
    IF outcome = "end" THEN [permits EXCEPT ![l] = @ + 1] ELSE permits

\* "async with semaphore" is left, by return or by exception.
Released(l, outcome) == [permits EXCEPT ![l] = @ + 1]

NoDrainAfterRun(s, rs, act) ==  \* (mutant) the drain after cleanup is missing
    runs' = rs /\ UNCHANGED <<sessionQueue, laneQueue>>

\* Messages that arrived during the run are drained onto the main lane.
DrainAfterRun(s, rs, act) == DrainSession(s, MainLane, rs, act)

\* The handler of run r returns ("end") or raises ("error").  The cleanup pops
\* whatever run _active_runs holds for the session.
FinishRun(r, outcome) ==
    LET s == runs[r].session
        act == [active EXCEPT ![s] = NoRun]
    IN  /\ runs[r].phase = "running"
        /\ active' = act
        /\ steerable' = steerable \ {s}
        /\ permits' = Released(runs[r].lane, outcome)
        /\ DrainAfterRun(s, WithPhase(runs, r, outcome), act)
        /\ UNCHANGED <<arrived, running, timers, steered, dropped>>

\* stop(): no more drains, every pending debounce timer cancelled.
Stop ==
    /\ running
    /\ running' = FALSE
    /\ timers' = {}
    /\ UNCHANGED <<arrived, sessionQueue, active, steerable, runs, laneQueue,
                   permits, steered, dropped>>

\* The event loop sleeps: nothing is scheduled and no further call will come.
\* Any other state without a successor is a deadlock that TLC reports.
Idle ==
    /\ arrived = MaxMessages
    /\ ~running
    /\ timers = {}
    /\ \A l \in Lanes : laneQueue[l] = <<>>
    /\ \A r \in DOMAIN runs : runs[r].phase \in {"end", "error"}
    /\ UNCHANGED vars

Next ==
    \/ \E s \in Sessions, mode \in QueueMode : Steer(s, mode)
    \/ \E s \in Sessions, mode \in QueueMode, l \in Lanes : Enqueue(s, mode, l)
    \/ \E s \in Sessions, l \in Lanes : DebounceFires(s, l)
    \/ \E l \in Lanes : StartRun(l)
    \/ \E r \in DOMAIN runs, outcome \in {"end", "error"} : FinishRun(r, outcome)
    \/ Stop
    \/ Idle

Spec == Init /\ [][Next]_vars

\* Timers fire, ready tasks run, and every run's handler returns at last (the
\* LLM stream and the tools it awaits end or raise).  Nothing makes anyone
\* call enqueue() or stop().
Fairness ==
    /\ \A s \in Sessions, l \in Lanes : WF_vars(DebounceFires(s, l))
    /\ \A l \in Lanes : WF_vars(StartRun(l))
    /\ \A r \in 1..MaxMessages :
         WF_vars(r \in DOMAIN runs /\ \E outcome \in {"end", "error"} : FinishRun(r, outcome))

FairSpec == Spec /\ Fairness
-----------------------------------------------------------------------------
Waiting(s) == Covered(sessionQueue[s])
Input(r) == Covered(runs[r].input)
RunsOf(s) == {r \in DOMAIN runs : runs[r].session = s}
RunningIn(l) == {r \in DOMAIN runs : runs[r].lane = l /\ runs[r].phase = "running"}

\* Everywhere that message m is.
Places(m) ==
    {<<"waiting", s>> : s \in {t \in Sessions : m \in Waiting(t)}}
    \union {<<"input", r>> : r \in {t \in DOMAIN runs : m \in Input(t)}}
    \union {<<"steered", m>> : x \in {m} \intersect steered}
    \union {<<"dropped", m>> : x \in {m} \intersect dropped}

(* ExactlyOnce: across enqueue, overflow, debounce and the drain that a      *)
(* finished run makes, every message that enqueue() accepted is in exactly   *)
(* one place: it waits in one session, or it is input of one run, or it was  *)
(* steered, or the overflow policy dropped it.  No drain loses a message or  *)
(* hands it to two runs.                                                     *)
ExactlyOnce == \A m \in 1..arrived : \E p \in Places(m) : Places(m) = {p}

(* NoneStranded: while the queue runs, a session with waiting messages has a *)
(* pending debounce timer, or a RUNNING run whose cleanup will drain them.   *)
(* A timer that finds a run active gives up and is not set again, so this    *)
(* rests on the drain at the end of _execute_run and on what _active_runs    *)
(* holds when several runs of one session overlap.                           *)
NoneStranded ==
    \A s \in Sessions :
        running /\ sessionQueue[s] # <<>>
            => \/ \E l \in Lanes : <<s, l>> \in timers
               \/ IsRunning(s, runs, active)

(* TurnsInOrder: the runs of a session take its messages in the order in     *)
(* which enqueue() accepted them, what waits is newer than what any run has, *)
(* and items of the queue are in order too, summaries included.              *)
TurnsInOrder ==
    \A s \in Sessions :
        /\ \A r1, r2 \in RunsOf(s) : r1 < r2 =>
             \A a \in Input(r1), b \in Input(r2) : a < b
        /\ \A r \in RunsOf(s) : \A a \in Input(r), b \in Waiting(s) : a < b
        /\ \A i, j \in DOMAIN sessionQueue[s] : i < j =>
             \A a \in sessionQueue[s][i], b \in sessionQueue[s][j] : a < b

(* PermitsBalance: a lane's semaphore and the runs that hold a permit always *)
(* add up to max_concurrent: no path through _execute_run, error included,   *)
(* leaks a permit or runs without one.                                       *)
PermitsBalance ==
    \A l \in Lanes : permits[l] + Cardinality(RunningIn(l)) = LaneCap[l]

\* Where the length of a session queue settles.
DepthLimit == IF OverflowPolicy = "summarize" /\ Cap < 4 THEN 4 ELSE Cap

(* DepthBounded: no session queue grows beyond its cap.  Folding half of the *)
(* queue into a summary frees too little when the cap is below 4 (at a cap   *)
(* of 1 it folds nothing and adds an empty summary), and then settles at 4.  *)
DepthBounded == \A s \in Sessions : Len(sessionQueue[s]) <= DepthLimit

(* StrictSerial: at most one run of a session executes at a time, which is   *)
(* what the module's docstring says of a session lane (queue.py:6).          *)
StrictSerial ==
    \A s \in Sessions : \A r1, r2 \in RunsOf(s) :
        runs[r1].phase = "running" /\ runs[r2].phase = "running" => r1 = r2

(* StopDrainsNothing: after stop() no step creates a run: neither a timer    *)
(* that a late enqueue() sets nor a run that finishes after the stop.        *)
StopDrainsNothing == [][~running => Len(runs') = Len(runs)]_vars

\* Some run that had the message has ended.
Answered(m) == \E r \in DOMAIN runs : m \in Input(r) /\ runs[r].phase \in {"end", "error"}

(* EveryMessageAnswered: under Fairness, every message that is accepted is   *)
(* steered, dropped by overflow, or in the input of a run that ends, unless  *)
(* the queue is stopped.  It needs the timers, the FIFO semaphores, the      *)
(* release of every permit and the drain after a run.                        *)
EveryMessageAnswered ==
    \A m \in 1..MaxMessages :
        (arrived >= m) ~> (Answered(m) \/ m \in steered \/ m \in dropped \/ ~running)

-----------------------------------------------------------------------------
(* ImplementsInbox: the queue implements SessionInbox, liveness included: a  *)
(* drain is a turn that takes the whole inbox at once, an overflow costs     *)
(* messages of that one inbox only, and a session with waiting               *)
(* messages gets its turn unless the queue is stopped.                       *)
Inbox == INSTANCE SessionInbox WITH
    accepted <- arrived,
    open <- running,
    inbox <- [s \in Sessions |-> Waiting(s)],
    turns <- [s \in Sessions |-> {Input(r) : r \in RunsOf(s)}],
    injected <- steered,
    lost <- dropped

ImplementsInbox == Inbox!Spec
=============================================================================
