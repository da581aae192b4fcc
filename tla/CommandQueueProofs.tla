------------------------- MODULE CommandQueueProofs -------------------------
(***************************************************************************)
(* Safety of CommandQueue for every number of sessions, lanes, permits and *)
(* messages, every cap and every overflow policy.                          *)
(*                                                                         *)
(* TypeInv is TypeOK with what keeps the references between the variables  *)
(* in range.  NoneStranded is not inductive on its own: FinishRun and      *)
(* StartRun preserve it only because the entry of _active_runs, if there   *)
(* is one, is a run of that session that is RUNNING (ActiveRunsRun).       *)
(* PermitsBalance needs LaneShape: a lane's waiting runs are QUEUED runs   *)
(* of that lane, none of them twice.                                       *)
(***************************************************************************)
EXTENDS CommandQueue, SequenceTheorems, FiniteSetTheorems, TLAPS

\* The part of a sequence before a position and the part after it: an overflow folds
\* the older half of a queue into a summary.
LEMMA Halves ==
    ASSUME NEW D, NEW q \in Seq(D), NEW h \in Nat, h <= Len(q)
    PROVE  /\ SubSeq(q, 1, h) \in Seq(D) /\ Len(SubSeq(q, 1, h)) = h
           /\ \A i \in 1..h : SubSeq(q, 1, h)[i] = q[i]
           /\ SubSeq(q, h + 1, Len(q)) \in Seq(D)
           /\ Len(SubSeq(q, h + 1, Len(q))) = Len(q) - h
           /\ \A i \in 1..(Len(q) - h) : SubSeq(q, h + 1, Len(q))[i] = q[h + i]
OBVIOUS
-----------------------------------------------------------------------------
RunIds == 1..Len(runs)

TypeInv ==
    /\ TypeOK
    /\ \A l \in Lanes : laneQueue[l] \in Seq(RunIds)
    /\ \A s \in Sessions : active[s] \in RunIds \union {NoRun}

ActiveRunsRun ==
    \A s \in Sessions : active[s] # NoRun =>
        /\ runs[active[s]].session = s
        /\ runs[active[s]].phase = "running"

-----------------------------------------------------------------------------
\* The messages of a sequence of items.
LEMMA CoveredType ==
    ASSUME NEW q \in Seq(Item)
    PROVE  Covered(q) \in Item
<1>1. \A i \in DOMAIN q : q[i] \in SUBSET Nat
  BY DEF Item
<1> QED BY <1>1 DEF Covered, Item

\* A summary keeps a queue a sequence of items, and says how long it is.
LEMMA SummarizeType ==
    ASSUME NEW q \in Seq(Item), NEW m \in Nat
    PROVE  /\ Summarize(q, m) \in Seq(Item)
           /\ Len(Summarize(q, m)) = Len(q) - (Len(q) \div 2) + 2
<1> DEFINE half == Len(q) \div 2
           folded == SubSeq(q, 1, half)
           kept == SubSeq(q, half + 1, Len(q))
           summary == <<Oldest(SummaryLen, Covered(folded))>>
<1>1. half \in Nat /\ half <= Len(q) /\ Len(q) \in Nat
  OBVIOUS
<1>2. /\ \A i \in 1..half : q[i] \in Item
      /\ \A i \in (half + 1)..Len(q) : q[i] \in Item
  <2> HIDE DEF half
  <2> QED BY <1>1
<1>3. folded \in Seq(Item)
  <2> HIDE DEF half
  <2> QED BY <1>1, <1>2, SubSeqProperties
<1>4. kept \in Seq(Item) /\ Len(kept) = Len(q) - half
  <2> HIDE DEF half
  <2>1. kept \in Seq(Item)
    BY <1>1, <1>2, SubSeqProperties
  <2>2. Len(kept) = IF half + 1 <= Len(q) THEN Len(q) - (half + 1) + 1 ELSE 0
    BY <1>1, <1>2, SubSeqProperties
  <2> QED BY <1>1, <2>1, <2>2
<1>5. summary \in Seq(Item) /\ Len(summary) = 1
  <2>1. Covered(folded) \in Item
    BY <1>3, CoveredType
  <2>2. Oldest(SummaryLen, Covered(folded)) \in Item
    BY <2>1 DEF Oldest, Item
  <2> HIDE DEF folded
  <2> QED BY <2>2
<1>6. summary \o kept \in Seq(Item) /\ Len(summary \o kept) = Len(q) - half + 1
  <2> HIDE DEF summary, kept, half
  <2>1. Len(summary \o kept) = Len(summary) + Len(kept)
    BY <1>4, <1>5, ConcatProperties
  <2>2. summary \o kept \in Seq(Item)
    BY <1>4, <1>5, ConcatProperties
  <2> QED BY <1>1, <1>4, <1>5, <2>1, <2>2
<1>7. summary \o kept \o <<{m}>> \in Seq(Item)
      /\ Len(summary \o kept \o <<{m}>>) = Len(q) - half + 2
  <2> DEFINE front == summary \o kept
             back == <<{m}>>
  <2> HIDE DEF summary, kept, half, front, back
  <2>1. front \in Seq(Item) /\ Len(front) = Len(q) - half + 1
    BY <1>6 DEF front
  <2>2. back \in Seq(Item) /\ Len(back) = 1
    BY DEF back, Item
  <2>3. front \o back \in Seq(Item) /\ Len(front \o back) = Len(front) + Len(back)
    BY <2>1, <2>2, ConcatProperties
  <2> QED BY <1>1, <2>1, <2>2, <2>3 DEF front, back
<1> QED BY <1>7 DEF Summarize

\* A session queue stays a sequence of items, whatever the policy does.
LEMMA QueuedType ==
    ASSUME NEW q \in Seq(Item), NEW m \in Nat
    PROVE  Queued(q, m) \in Seq(Item)
<1>1. {m} \in Item
  BY DEF Item
<1>2. Append(q, {m}) \in Seq(Item)
  BY <1>1
<1>3. ASSUME Len(q) >= Cap
      PROVE  Overflowed(q, m) \in Seq(Item)
  <2>1. Tail(q) \in Seq(Item)
    BY <1>3, QueueAssumption, HeadTailProperties
  <2>2. Append(Tail(q), {m}) \in Seq(Item)
    BY <1>1, <2>1
  <2> QED BY <2>2, SummarizeType, QueueAssumption DEF Overflowed
<1> QED BY <1>2, <1>3 DEF Queued

\* What a drain does to the runs, the session queues and the lanes.
LEMMA DrainType ==
    ASSUME NEW s \in Sessions, NEW l \in Lanes, NEW rs \in Seq(AgentRun), NEW act,
           sessionQueue \in [Sessions -> Seq(Item)],
           laneQueue \in [Lanes -> Seq(1..Len(rs))],
           DrainSession(s, l, rs, act)
    PROVE  /\ runs' \in Seq(AgentRun)
           /\ Len(rs) <= Len(runs')
           /\ \A i \in 1..Len(rs) : runs'[i] = rs[i]
           /\ sessionQueue' \in [Sessions -> Seq(Item)]
           /\ laneQueue' \in [Lanes -> Seq(1..Len(runs'))]
<1> DEFINE new == [session |-> s, lane |-> l, phase |-> "queued", input |-> sessionQueue[s]]
<1>1. new \in AgentRun
  BY DEF AgentRun, RunPhase
<1>2. CASE MayDrain(s, rs, act)
  <2>1. /\ runs' = Append(rs, new)
        /\ sessionQueue' = [sessionQueue EXCEPT ![s] = <<>>]
        /\ laneQueue' = [laneQueue EXCEPT ![l] = Append(@, Len(rs) + 1)]
    BY <1>2 DEF DrainSession, Emptied, LaneJoined
  <2> HIDE DEF new
  <2>2. /\ runs' \in Seq(AgentRun)
        /\ Len(runs') = Len(rs) + 1
        /\ \A i \in 1..Len(rs) : runs'[i] = rs[i]
    BY <1>1, <2>1, AppendProperties
  <2>3. sessionQueue' \in [Sessions -> Seq(Item)]
    BY <2>1
  <2>4. \A k \in Lanes : laneQueue[k] \in Seq(1..Len(runs'))
    BY <2>2
  <2>5. Append(laneQueue[l], Len(rs) + 1) \in Seq(1..Len(runs'))
    BY <2>2, <2>4
  <2>6. laneQueue' \in [Lanes -> Seq(1..Len(runs'))]
    BY <2>1, <2>4, <2>5
  <2> QED BY <2>2, <2>3, <2>6
<1>3. CASE ~MayDrain(s, rs, act)
  BY <1>3 DEF DrainSession
<1> QED BY <1>2, <1>3

\* A run changes its phase in place.
LEMMA PhaseType ==
    ASSUME NEW rs \in Seq(AgentRun), NEW r \in 1..Len(rs),
           NEW p \in RunPhase
    PROVE  /\ WithPhase(rs, r, p) \in Seq(AgentRun)
           /\ Len(WithPhase(rs, r, p)) = Len(rs)
           /\ WithPhase(rs, r, p)[r].session = rs[r].session
           /\ WithPhase(rs, r, p)[r].lane = rs[r].lane
           /\ WithPhase(rs, r, p)[r].phase = p
           /\ \A i \in 1..Len(rs) : i # r => WithPhase(rs, r, p)[i] = rs[i]
<1> DEFINE e == [rs[r] EXCEPT !.phase = p]
<1>1. rs[r] \in AgentRun
  OBVIOUS
<1>2. e \in AgentRun /\ e.session = rs[r].session /\ e.lane = rs[r].lane /\ e.phase = p
  BY <1>1 DEF AgentRun
<1>3. WithPhase(rs, r, p) = [rs EXCEPT ![r] = e]
  BY DEF WithPhase
<1> HIDE DEF e
<1>4. /\ [rs EXCEPT ![r] = e] \in Seq(AgentRun)
      /\ Len([rs EXCEPT ![r] = e]) = Len(rs)
      /\ \A j \in 1..Len(rs) : [rs EXCEPT ![r] = e][j] = IF j = r THEN e ELSE rs[j]
  BY <1>2, ExceptSeq
<1> QED BY <1>2, <1>3, <1>4

-----------------------------------------------------------------------------
\* The queue starts with no run for anything to refer to.
LEMMA InitTypeInv == Init => TypeInv
BY LaneAssumption DEF Init, TypeInv, TypeOK, NoRun, RunIds, Item

\* Every step keeps the types and the references in range.
LEMMA StepTypeInv ==
    ASSUME TypeInv, [Next]_vars
    PROVE  TypeInv'
<1> USE DEF TypeInv, TypeOK, RunIds
<1>1. ASSUME NEW s \in Sessions, NEW mode \in QueueMode, Steer(s, mode)
      PROVE  TypeInv'
  BY <1>1 DEF Steer
<1>2. ASSUME NEW s \in Sessions, NEW mode \in QueueMode, NEW l \in Lanes, Enqueue(s, mode, l)
      PROVE  TypeInv'
  <2> DEFINE m == arrived + 1
             q == Queued(sessionQueue[s], m)
  <2>1. q \in Seq(Item)
    BY QueuedType
  <2>2. Covered(sessionQueue[s]) \subseteq Nat
    BY CoveredType DEF Item
  <2>3. sessionQueue' \in [Sessions -> Seq(Item)]
    BY <1>2, <2>1 DEF Enqueue
  <2>4. dropped' \subseteq Nat /\ arrived' \in Nat
    <3>1. dropped' \subseteq dropped \union Covered(sessionQueue[s]) \union {m}
      BY <1>2 DEF Enqueue
    <3>2. arrived' = m /\ m \in Nat
      BY <1>2 DEF Enqueue
    <3> QED BY <2>2, <3>1, <3>2
  <2>5. timers' \subseteq Sessions \X Lanes
    BY <1>2 DEF Enqueue, ResetDebounce
  <2> QED BY <1>2, <2>3, <2>4, <2>5 DEF Enqueue
<1>3. ASSUME NEW s \in Sessions, NEW l \in Lanes, DebounceFires(s, l)
      PROVE  TypeInv'
  <2>1. DrainSession(s, l, runs, active)
    BY <1>3 DEF DebounceFires
  <2>2. laneQueue \in [Lanes -> Seq(1..Len(runs))]
    OBVIOUS
  <2>3. /\ runs' \in Seq(AgentRun) /\ Len(runs) <= Len(runs')
        /\ sessionQueue' \in [Sessions -> Seq(Item)]
        /\ laneQueue' \in [Lanes -> Seq(1..Len(runs'))]
    BY <2>1, <2>2, DrainType
  <2>4. laneQueue' \in [Lanes -> Seq(Nat)]
    BY <2>3
  <2> QED BY <1>3, <2>3, <2>4 DEF DebounceFires
<1>4. ASSUME NEW l \in Lanes, StartRun(l)
      PROVE  TypeInv'
  <2> DEFINE r == Head(laneQueue[l])
             s == runs[r].session
  <2>1. laneQueue[l] # <<>> /\ permits[l] > 0
    BY <1>4 DEF StartRun, Startable
  <2>2. r \in 1..Len(runs) /\ Tail(laneQueue[l]) \in Seq(1..Len(runs))
    BY <2>1, HeadTailProperties
  <2>3. s \in Sessions
    <3>1. runs[r] \in AgentRun
      BY <2>2
    <3> QED BY <3>1 DEF AgentRun
  <2>4. runs' = WithPhase(runs, r, "running")
    BY <1>4 DEF StartRun
  <2>5. runs' \in Seq(AgentRun) /\ Len(runs') = Len(runs)
    <3>1. "running" \in RunPhase
      BY DEF RunPhase
    <3> QED BY <2>2, <2>4, <3>1, PhaseType
  <2>6. laneQueue' \in [Lanes -> Seq(1..Len(runs))]
    BY <1>4, <2>2 DEF StartRun
  <2>7. laneQueue' \in [Lanes -> Seq(Nat)]
    BY <2>6
  <2>8. permits' \in [Lanes -> Nat]
    BY <1>4, <2>1 DEF StartRun
  <2>9. active' = [active EXCEPT ![s] = r] /\ steerable' \subseteq steerable \union {s}
    BY <1>4 DEF StartRun
  <2>10. UNCHANGED <<arrived, running, sessionQueue, timers, steered, dropped>>
    BY <1>4 DEF StartRun
  <2> HIDE DEF r, s
  <2>11. active' \in [Sessions -> Nat]
         /\ \A t \in Sessions : active'[t] \in (1..Len(runs)) \union {NoRun}
    BY <2>2, <2>3, <2>9
  <2> QED BY <2>3, <2>5, <2>6, <2>7, <2>8, <2>9, <2>10, <2>11
<1>5. ASSUME NEW r \in DOMAIN runs, NEW outcome \in {"end", "error"}, FinishRun(r, outcome)
      PROVE  TypeInv'
  <2> DEFINE s == runs[r].session
             after == WithPhase(runs, r, outcome)
             act == [active EXCEPT ![s] = NoRun]
  <2>1. r \in 1..Len(runs) /\ s \in Sessions /\ runs[r].lane \in Lanes
    <3>1. r \in 1..Len(runs) /\ runs[r] \in AgentRun
      OBVIOUS
    <3> QED BY <3>1 DEF AgentRun
  <2>2. after \in Seq(AgentRun) /\ Len(after) = Len(runs)
    <3>1. outcome \in RunPhase
      BY DEF RunPhase
    <3> QED BY <2>1, <3>1, PhaseType
  <2>3. DrainSession(s, MainLane, after, act)
    BY <1>5 DEF FinishRun, DrainAfterRun
  <2>4. laneQueue \in [Lanes -> Seq(1..Len(after))]
    BY <2>2
  <2> HIDE DEF after, act, s
  <2>5. /\ runs' \in Seq(AgentRun) /\ Len(runs) <= Len(runs')
        /\ sessionQueue' \in [Sessions -> Seq(Item)]
        /\ laneQueue' \in [Lanes -> Seq(1..Len(runs'))]
    BY <2>1, <2>2, <2>3, <2>4, DrainType, LaneAssumption
  <2>6. laneQueue' \in [Lanes -> Seq(Nat)]
    BY <2>5
  <2>7. permits' \in [Lanes -> Nat] /\ active' = act /\ steerable' \subseteq steerable
    BY <1>5, <2>1 DEF FinishRun, Released, act, s
  <2>8. \A t \in Sessions : active'[t] \in (1..Len(runs')) \union {NoRun}
    BY <2>1, <2>5, <2>7 DEF act
  <2>9. active' \in [Sessions -> Nat]
    BY <2>1, <2>7 DEF NoRun, act
  <2> QED BY <1>5, <2>5, <2>6, <2>7, <2>8, <2>9 DEF FinishRun
<1>6. CASE Stop
  BY <1>6 DEF Stop
<1>7. CASE Idle \/ UNCHANGED vars
  BY <1>7 DEF Idle, vars
<1> QED BY <1>1, <1>2, <1>3, <1>4, <1>5, <1>6, <1>7 DEF Next

(* TypeCorrect: the types of the queue's variables, for every instance.      *)
(* TypeInv, from which it follows, says also that no lane and no             *)
(* _active_runs entry names a run that does not exist.                       *)
THEOREM TypeCorrect == Spec => []TypeOK
<1>1. TypeInv => TypeOK
  BY DEF TypeInv
<1> QED BY InitTypeInv, StepTypeInv, <1>1, PTL DEF Spec
-----------------------------------------------------------------------------
\* What a drain does to the waiting messages: it takes them all, or finds none,
\* a stopped queue or a RUNNING run.
LEMMA DrainEmpties ==
    ASSUME NEW s \in Sessions, NEW l \in Lanes, NEW rs, NEW act,
           sessionQueue \in [Sessions -> Seq(Item)],
           DrainSession(s, l, rs, act)
    PROVE  /\ sessionQueue'[s] = <<>> \/ ~running \/ IsRunning(s, rs, act)
           /\ \A t \in Sessions : t # s => sessionQueue'[t] = sessionQueue[t]
<1>1. CASE MayDrain(s, rs, act)
  BY <1>1 DEF DrainSession, Emptied
<1>2. CASE ~MayDrain(s, rs, act)
  BY <1>2 DEF DrainSession, MayDrain
<1> QED BY <1>1, <1>2

StrandInv == TypeInv /\ ActiveRunsRun /\ NoneStranded

\* Nothing waits initially.
LEMMA InitStrandInv == Init => StrandInv
BY InitTypeInv DEF StrandInv, Init, ActiveRunsRun, NoneStranded

\* No step leaves waiting messages without a timer or a run that drains them.
LEMMA StepStrandInv ==
    ASSUME StrandInv, [Next]_vars
    PROVE  StrandInv'
<1>0. TypeInv /\ TypeInv' /\ ActiveRunsRun /\ NoneStranded
  BY StepTypeInv DEF StrandInv
<1>t. /\ runs \in Seq(AgentRun) /\ sessionQueue \in [Sessions -> Seq(Item)]
      /\ laneQueue \in [Lanes -> Seq(1..Len(runs))]
      /\ active \in [Sessions -> Nat]
      /\ \A s \in Sessions : active[s] \in (1..Len(runs)) \union {NoRun}
  BY <1>0 DEF TypeInv, TypeOK, RunIds
<1>1. ASSUME NEW s \in Sessions, NEW mode \in QueueMode, Steer(s, mode)
      PROVE  ActiveRunsRun' /\ NoneStranded'
  BY <1>0, <1>1 DEF Steer, ActiveRunsRun, NoneStranded, IsRunning
<1>2. ASSUME NEW s \in Sessions, NEW mode \in QueueMode, NEW l \in Lanes, Enqueue(s, mode, l)
      PROVE  ActiveRunsRun' /\ NoneStranded'
  <2>1. ActiveRunsRun'
    BY <1>0, <1>2 DEF Enqueue, ActiveRunsRun
  <2>2. <<s, l>> \in timers' /\ \A t \in timers : t[1] # s => t \in timers'
    BY <1>2 DEF Enqueue, ResetDebounce
  <2>3. \A t \in Sessions : t # s => sessionQueue'[t] = sessionQueue[t]
    BY <1>2, <1>t DEF Enqueue
  <2>4. UNCHANGED <<running, runs, active>>
    BY <1>2 DEF Enqueue
  <2> QED BY <1>0, <2>1, <2>2, <2>3, <2>4 DEF NoneStranded, IsRunning
<1>3. ASSUME NEW s \in Sessions, NEW l \in Lanes, DebounceFires(s, l)
      PROVE  ActiveRunsRun' /\ NoneStranded'
  <2>1. DrainSession(s, l, runs, active) /\ timers' = timers \ {<<s, l>>}
        /\ UNCHANGED <<running, active>>
    BY <1>3 DEF DebounceFires
  <2>2. /\ Len(runs) <= Len(runs')
        /\ \A i \in 1..Len(runs) : runs'[i] = runs[i]
    BY <1>t, <2>1, DrainType
  <2>3. \A t \in Sessions : active[t] # NoRun => runs'[active'[t]] = runs[active[t]]
    BY <1>t, <2>1, <2>2
  <2>4. ActiveRunsRun'
    BY <1>0, <2>1, <2>3 DEF ActiveRunsRun
  <2>5. \A t \in Sessions : IsRunning(t, runs, active) => IsRunning(t, runs, active)'
    BY <2>1, <2>3 DEF IsRunning
  <2>6. sessionQueue'[s] = <<>> \/ ~running \/ IsRunning(s, runs, active)
    BY <1>t, <2>1, DrainEmpties
  <2>7. \A t \in Sessions : t # s => sessionQueue'[t] = sessionQueue[t]
    BY <1>t, <2>1, DrainEmpties
  <2>8. \A t \in Sessions : t # s => \A k \in Lanes : <<t, k>> \in timers => <<t, k>> \in timers'
    BY <2>1
  <2> QED BY <1>0, <2>1, <2>4, <2>5, <2>6, <2>7, <2>8 DEF NoneStranded
<1>4. ASSUME NEW l \in Lanes, StartRun(l)
      PROVE  ActiveRunsRun' /\ NoneStranded'
  <2>1. laneQueue[l] # <<>>
    BY <1>4 DEF StartRun, Startable
  <2>2. PICK r \in 1..Len(runs) : r = Head(laneQueue[l])
    BY <1>t, <2>1, HeadTailProperties
  <2>3. runs[r] \in AgentRun
    BY <1>t
  <2>4. PICK s \in Sessions : s = runs[r].session
    BY <2>3 DEF AgentRun
  <2>5. /\ runs' = WithPhase(runs, r, "running")
        /\ active' = [active EXCEPT ![s] = r]
        /\ UNCHANGED <<running, sessionQueue, timers>>
    BY <1>4, <2>2, <2>4 DEF StartRun
  <2>6. /\ runs'[r].session = s /\ runs'[r].phase = "running"
        /\ \A i \in 1..Len(runs) : i # r => runs'[i] = runs[i]
    <3>1. "running" \in RunPhase
      BY DEF RunPhase
    <3> QED BY <1>t, <2>4, <2>5, <3>1, PhaseType
  <2>7. active'[s] = r /\ \A t \in Sessions : t # s => active'[t] = active[t]
    BY <1>t, <2>5
  <2>8. \A t \in Sessions : t # s /\ active[t] # NoRun =>
          /\ active[t] \in 1..Len(runs) /\ runs[active[t]].session = t /\ active[t] # r
          /\ runs[active[t]].phase = "running"
    BY <1>0, <1>t, <2>4 DEF ActiveRunsRun
  <2>9. ActiveRunsRun'
    BY <2>6, <2>7, <2>8 DEF ActiveRunsRun
  <2>10. \A t \in Sessions : IsRunning(t, runs, active) => IsRunning(t, runs, active)'
    <3>1. IsRunning(s, runs, active)'
      BY <2>6, <2>7 DEF IsRunning, NoRun
    <3>2. ASSUME NEW t \in Sessions, t # s, IsRunning(t, runs, active)
          PROVE  IsRunning(t, runs, active)'
      BY <2>6, <2>7, <2>8, <3>2 DEF IsRunning
    <3> QED BY <3>1, <3>2
  <2> QED BY <1>0, <2>5, <2>9, <2>10 DEF NoneStranded
<1>5. ASSUME NEW r \in DOMAIN runs, NEW outcome \in {"end", "error"}, FinishRun(r, outcome)
      PROVE  ActiveRunsRun' /\ NoneStranded'
  <2> DEFINE s == runs[r].session
             after == WithPhase(runs, r, outcome)
             act == [active EXCEPT ![s] = NoRun]
  <2>1. r \in 1..Len(runs) /\ runs[r] \in AgentRun
    BY <1>t
  <2>2. s \in Sessions
    BY <2>1 DEF AgentRun
  <2>3. /\ DrainSession(s, MainLane, after, act) /\ active' = act
        /\ UNCHANGED <<running, timers>>
    BY <1>5 DEF FinishRun, DrainAfterRun
  <2>4. /\ after \in Seq(AgentRun) /\ Len(after) = Len(runs)
        /\ \A i \in 1..Len(runs) : i # r => after[i] = runs[i]
    <3>1. outcome \in RunPhase
      BY DEF RunPhase
    <3> QED BY <1>t, <2>1, <3>1, PhaseType
  <2> HIDE DEF after
  <2>5. /\ Len(after) <= Len(runs')
        /\ \A i \in 1..Len(after) : runs'[i] = after[i]
    BY <1>t, <2>2, <2>3, <2>4, DrainType, LaneAssumption
  <2>6. act[s] = NoRun /\ \A t \in Sessions : t # s => act[t] = active[t]
    BY <1>t, <2>2
  <2>7. \A t \in Sessions : t # s /\ active[t] # NoRun =>
          active[t] \in 1..Len(runs) /\ active[t] # r
    BY <1>0, <1>t DEF ActiveRunsRun
  <2>8. \A t \in Sessions : t # s /\ active[t] # NoRun => runs'[active'[t]] = runs[active[t]]
    BY <2>3, <2>4, <2>5, <2>6, <2>7
  <2>9. ActiveRunsRun'
    BY <1>0, <2>3, <2>6, <2>8 DEF ActiveRunsRun
  <2>10. \A t \in Sessions : t # s /\ IsRunning(t, runs, active) => IsRunning(t, runs, active)'
    BY <2>3, <2>6, <2>8 DEF IsRunning
  <2>11. sessionQueue'[s] = <<>> \/ ~running
    <3>1. ~IsRunning(s, after, act)
      BY <2>6 DEF IsRunning
    <3> QED BY <1>t, <2>2, <2>3, <3>1, DrainEmpties, LaneAssumption
  <2>12. \A t \in Sessions : t # s => sessionQueue'[t] = sessionQueue[t]
    BY <1>t, <2>2, <2>3, DrainEmpties, LaneAssumption
  <2> HIDE DEF s, act
  <2> QED BY <1>0, <2>3, <2>9, <2>10, <2>11, <2>12 DEF NoneStranded
<1>6. ASSUME Stop
      PROVE  ActiveRunsRun' /\ NoneStranded'
  BY <1>0, <1>6 DEF Stop, ActiveRunsRun, NoneStranded
<1>7. ASSUME Idle \/ UNCHANGED vars
      PROVE  ActiveRunsRun' /\ NoneStranded'
  BY <1>0, <1>7 DEF Idle, vars, ActiveRunsRun, NoneStranded, IsRunning
<1> QED BY <1>0, <1>1, <1>2, <1>3, <1>4, <1>5, <1>6, <1>7 DEF Next, StrandInv

(* NothingStranded: waiting messages always have a debounce timer or a       *)
(* RUNNING run that will drain them, in every instance; also when runs of    *)
(* one session overlap.                                                      *)
THEOREM NothingStranded == Spec => []NoneStranded
<1>1. StrandInv => NoneStranded
  BY DEF StrandInv
<1> QED BY InitStrandInv, StepStrandInv, <1>1, PTL DEF Spec
-----------------------------------------------------------------------------
\* The steps in which a queue may grow, be emptied or stay, for any predicate
\* on queues: only enqueue() makes a queue longer.
LEMMA QueueSteps ==
    ASSUME TypeInv, [Next]_vars, NEW s \in Sessions
    PROVE  \/ sessionQueue'[s] = sessionQueue[s]
           \/ sessionQueue'[s] = <<>>
           \/ \E m \in Nat : sessionQueue'[s] = Queued(sessionQueue[s], m)
<1>t. /\ runs \in Seq(AgentRun) /\ sessionQueue \in [Sessions -> Seq(Item)]
      /\ arrived \in Nat
  BY DEF TypeInv, TypeOK
<1>1. ASSUME NEW t \in Sessions, NEW l \in Lanes, NEW rs, NEW act, DrainSession(t, l, rs, act)
      PROVE  sessionQueue'[s] = sessionQueue[s] \/ sessionQueue'[s] = <<>>
  BY <1>t, <1>1 DEF DrainSession, Emptied
<1>2. ASSUME NEW t \in Sessions, NEW mode \in QueueMode, Steer(t, mode)
      PROVE  sessionQueue'[s] = sessionQueue[s]
  BY <1>2 DEF Steer
<1>3. ASSUME NEW t \in Sessions, NEW mode \in QueueMode, NEW l \in Lanes, Enqueue(t, mode, l)
      PROVE  \/ sessionQueue'[s] = sessionQueue[s]
             \/ \E m \in Nat : sessionQueue'[s] = Queued(sessionQueue[s], m)
  <2>1. sessionQueue' = [sessionQueue EXCEPT ![t] = Queued(sessionQueue[t], arrived + 1)]
    BY <1>3 DEF Enqueue
  <2>2. arrived + 1 \in Nat
    BY <1>t
  <2> QED BY <1>t, <2>1, <2>2
<1>4. ASSUME NEW t \in Sessions, NEW l \in Lanes, DebounceFires(t, l)
      PROVE  sessionQueue'[s] = sessionQueue[s] \/ sessionQueue'[s] = <<>>
  BY <1>1, <1>4 DEF DebounceFires
<1>5. ASSUME NEW l \in Lanes, StartRun(l)
      PROVE  sessionQueue'[s] = sessionQueue[s]
  BY <1>5 DEF StartRun
<1>6. ASSUME NEW r \in DOMAIN runs, NEW outcome \in {"end", "error"}, FinishRun(r, outcome)
      PROVE  sessionQueue'[s] = sessionQueue[s] \/ sessionQueue'[s] = <<>>
  <2>1. runs[r] \in AgentRun
    BY <1>t
  <2>2. runs[r].session \in Sessions
    BY <2>1 DEF AgentRun
  <2> QED BY <1>1, <1>6, <2>2, LaneAssumption DEF FinishRun, DrainAfterRun
<1>7. ASSUME Stop \/ Idle \/ UNCHANGED vars
      PROVE  sessionQueue'[s] = sessionQueue[s]
  BY <1>7 DEF Stop, Idle, vars
<1> QED BY <1>2, <1>3, <1>4, <1>5, <1>6, <1>7 DEF Next

\* The arithmetic of the overflow policies.
LEMMA QueuedLength ==
    ASSUME NEW q \in Seq(Item), NEW m \in Nat, Len(q) <= DepthLimit
    PROVE  Len(Queued(q, m)) <= DepthLimit
<1>1. Cap \in Nat \ {0} /\ Len(q) \in Nat /\ {m} \in Item
  BY QueueAssumption DEF Item
<1>2. CASE Len(q) < Cap
  <2>1. Queued(q, m) = Append(q, {m})
    BY <1>1, <1>2 DEF Queued
  <2>2. Len(Queued(q, m)) = Len(q) + 1
    BY <1>1, <2>1, AppendProperties
  <2> QED BY <1>1, <1>2, <2>2 DEF DepthLimit
<1>3. CASE Len(q) >= Cap
  <2>1. Queued(q, m) = Overflowed(q, m)
    BY <1>3 DEF Queued
  <2>2. CASE OverflowPolicy = "drop_old"
    <3>1. Tail(q) \in Seq(Item) /\ Len(Tail(q)) = Len(q) - 1
      BY <1>1, <1>3, HeadTailProperties
    <3>2. Len(Append(Tail(q), {m})) = Len(q)
      BY <1>1, <3>1, AppendProperties
    <3> QED BY <2>1, <2>2, <3>2 DEF Overflowed
  <2>3. CASE OverflowPolicy = "drop_new"
    BY <2>1, <2>3 DEF Overflowed
  <2>4. CASE OverflowPolicy = "summarize"
    <3>1. Len(Queued(q, m)) = Len(q) - (Len(q) \div 2) + 2
      BY <2>1, <2>4, SummarizeType DEF Overflowed
    <3>2. CASE Cap < 4
      <4>1. DepthLimit = 4
        BY <2>4, <3>2 DEF DepthLimit
      <4>2. Len(q) - (Len(q) \div 2) + 2 <= 4
        <5>1. Len(q) >= 1 /\ Len(q) <= 4
          BY <1>1, <1>3, <4>1
        <5>2. \A n \in Nat : n >= 1 /\ n <= 4 => n - (n \div 2) + 2 <= 4
          OBVIOUS
        <5> QED BY <1>1, <5>1, <5>2
      <4> QED BY <3>1, <4>1, <4>2
    <3>3. CASE Cap >= 4
      <4>1. DepthLimit = Cap
        BY <1>1, <3>3 DEF DepthLimit
      <4>2. Len(q) >= 4 => Len(q) - (Len(q) \div 2) + 2 <= Len(q)
        BY <1>1
      <4> QED BY <1>1, <1>3, <3>1, <3>3, <4>1, <4>2
    <3> QED BY <1>1, <3>2, <3>3
  <2> QED BY <2>2, <2>3, <2>4, QueueAssumption
<1> QED BY <1>1, <1>2, <1>3

(* DepthStaysBounded: no sequence of enqueues, drains and overflows takes a  *)
(* session queue past DepthLimit, for any cap and any policy.                *)
THEOREM DepthStaysBounded == Spec => []DepthBounded
<1>1. Init => DepthBounded
  BY QueueAssumption DEF Init, DepthBounded, DepthLimit
<1>2. ASSUME TypeInv, DepthBounded, [Next]_vars
      PROVE  DepthBounded'
  <2>1. ASSUME NEW s \in Sessions
        PROVE  Len(sessionQueue'[s]) <= DepthLimit
    <3>1. sessionQueue[s] \in Seq(Item) /\ Len(sessionQueue[s]) <= DepthLimit
      BY <1>2 DEF TypeInv, TypeOK, DepthBounded
    <3>2. \A m \in Nat : Len(Queued(sessionQueue[s], m)) <= DepthLimit
      BY <3>1, QueuedLength
    <3>3. 0 <= DepthLimit
      BY QueueAssumption DEF DepthLimit
    <3>4. Len(<<>>) = 0
      OBVIOUS
    <3> QED BY <1>2, <3>1, <3>2, <3>3, <3>4, QueueSteps
  <2> QED BY <2>1 DEF DepthBounded, DepthLimit
<1> QED BY <1>1, <1>2, InitTypeInv, StepTypeInv, PTL DEF Spec
-----------------------------------------------------------------------------
\* A stopped queue drains nothing.
LEMMA StoppedDrain ==
    ASSUME NEW s, NEW l, NEW rs, NEW act, ~running, DrainSession(s, l, rs, act)
    PROVE  runs' = rs
BY DEF DrainSession, MayDrain

(* NoRunAfterStop: once stop() was called no step creates a run.             *)
THEOREM NoRunAfterStop == Spec => StopDrainsNothing
<1>1. ASSUME TypeInv, [Next]_vars
      PROVE  [~running => Len(runs') = Len(runs)]_vars
  <2> SUFFICES ASSUME ~running
               PROVE  Len(runs') = Len(runs)
    OBVIOUS
  <2>t. runs \in Seq(AgentRun) /\ laneQueue \in [Lanes -> Seq(RunIds)]
    BY <1>1 DEF TypeInv, TypeOK
  <2>1. ASSUME NEW s \in Sessions, NEW l \in Lanes, DebounceFires(s, l)
        PROVE  Len(runs') = Len(runs)
    BY <2>1, StoppedDrain DEF DebounceFires
  <2>2. ASSUME NEW l \in Lanes, StartRun(l)
        PROVE  Len(runs') = Len(runs)
    <3>1. PICK r \in 1..Len(runs) : runs' = WithPhase(runs, r, "running")
      <4>1. laneQueue[l] \in Seq(1..Len(runs)) /\ laneQueue[l] # <<>>
        BY <1>1, <2>2 DEF TypeInv, RunIds, StartRun, Startable
      <4>2. Head(laneQueue[l]) \in 1..Len(runs)
        BY <4>1, HeadTailProperties
      <4> QED BY <2>2, <4>2 DEF StartRun
    <3>2. "running" \in RunPhase
      BY DEF RunPhase
    <3> QED BY <2>t, <3>1, <3>2, PhaseType
  <2>3. ASSUME NEW r \in DOMAIN runs, NEW outcome \in {"end", "error"}, FinishRun(r, outcome)
        PROVE  Len(runs') = Len(runs)
    <3>1. runs' = WithPhase(runs, r, outcome)
      BY <2>3, StoppedDrain DEF FinishRun, DrainAfterRun
    <3>2. outcome \in RunPhase /\ r \in 1..Len(runs)
      BY <2>t DEF RunPhase
    <3> QED BY <2>t, <3>1, <3>2, PhaseType
  <2>4. ASSUME \/ \E s \in Sessions, mode \in QueueMode : Steer(s, mode)
               \/ \E s \in Sessions, mode \in QueueMode, l \in Lanes : Enqueue(s, mode, l)
               \/ Stop \/ Idle \/ UNCHANGED vars
        PROVE  Len(runs') = Len(runs)
    BY <2>4 DEF Steer, Enqueue, Stop, Idle, vars
  <2> QED BY <1>1, <2>1, <2>2, <2>3, <2>4 DEF Next
<1> QED BY <1>1, InitTypeInv, StepTypeInv, PTL DEF Spec, StopDrainsNothing

-----------------------------------------------------------------------------
(* The runs that wait for a lane's semaphore are QUEUED runs of that lane,   *)
(* each of them once: with this a permit is taken and given back exactly     *)
(* once per run.                                                             *)
ShapeFor(rs) ==
    \A l \in Lanes : \A i \in 1..Len(laneQueue[l]) :
        /\ rs[laneQueue[l][i]].lane = l
        /\ rs[laneQueue[l][i]].phase = "queued"
        /\ \A j \in 1..Len(laneQueue[l]) : laneQueue[l][i] = laneQueue[l][j] => i = j

LaneShape == ShapeFor(runs)

RunningAmong(rs, l) == {r \in 1..Len(rs) : rs[r].lane = l /\ rs[r].phase = "running"}

PermitInv == TypeInv /\ LaneShape /\ PermitsBalance

\* A drain adds at most one QUEUED run, and that only to a session without a
\* RUNNING one.
LEMMA DrainAdds ==
    ASSUME NEW s \in Sessions, NEW l \in Lanes, NEW rs \in Seq(AgentRun), NEW act,
           laneQueue \in [Lanes -> Seq(1..Len(rs))],
           DrainSession(s, l, rs, act)
    PROVE  \/ runs' = rs /\ laneQueue' = laneQueue
           \/ /\ Len(runs') = Len(rs) + 1
              /\ \A i \in 1..Len(rs) : runs'[i] = rs[i]
              /\ runs'[Len(rs) + 1].phase = "queued" /\ runs'[Len(rs) + 1].lane = l
              /\ runs'[Len(rs) + 1].session = s
              /\ laneQueue' = [laneQueue EXCEPT ![l] = Append(@, Len(rs) + 1)]
              /\ ~IsRunning(s, rs, act)
<1> DEFINE new == [session |-> s, lane |-> l, phase |-> "queued", input |-> sessionQueue[s]]
<1>1. CASE MayDrain(s, rs, act)
  <2>1. /\ runs' = Append(rs, new)
        /\ laneQueue' = [laneQueue EXCEPT ![l] = Append(@, Len(rs) + 1)]
        /\ ~IsRunning(s, rs, act)
    BY <1>1 DEF DrainSession, MayDrain, LaneJoined
  <2>2. new.phase = "queued" /\ new.lane = l /\ new.session = s
    OBVIOUS
  <2> HIDE DEF new
  <2> QED BY <2>1, <2>2
<1>2. CASE ~MayDrain(s, rs, act)
  BY <1>2 DEF DrainSession
<1> QED BY <1>1, <1>2

\* LaneShape and the set of RUNNING runs of each lane through a drain.
LEMMA DrainShape ==
    ASSUME NEW s \in Sessions, NEW l \in Lanes, NEW rs \in Seq(AgentRun), NEW act,
           laneQueue \in [Lanes -> Seq(1..Len(rs))],
           ShapeFor(rs),
           DrainSession(s, l, rs, act)
    PROVE  /\ LaneShape'
           /\ \A k \in Lanes : RunningIn(k)' = RunningAmong(rs, k)
<1> USE DEF ShapeFor, RunningAmong
<1>1. CASE runs' = rs /\ laneQueue' = laneQueue
  BY <1>1 DEF LaneShape, RunningIn
<1>2. CASE /\ Len(runs') = Len(rs) + 1
           /\ \A i \in 1..Len(rs) : runs'[i] = rs[i]
           /\ runs'[Len(rs) + 1].phase = "queued" /\ runs'[Len(rs) + 1].lane = l
           /\ laneQueue' = [laneQueue EXCEPT ![l] = Append(@, Len(rs) + 1)]
  <2>1. \A k \in Lanes : k # l => laneQueue'[k] = laneQueue[k]
    BY <1>2
  <2>2. /\ Len(laneQueue'[l]) = Len(laneQueue[l]) + 1
        /\ \A i \in 1..Len(laneQueue[l]) : laneQueue'[l][i] = laneQueue[l][i]
        /\ laneQueue'[l][Len(laneQueue[l]) + 1] = Len(rs) + 1
    BY <1>2
  <2>3. \A k \in Lanes : \A i \in 1..Len(laneQueue[k]) : laneQueue[k][i] \in 1..Len(rs)
    OBVIOUS
  <2>4. LaneShape'
    <3>1. ASSUME NEW k \in Lanes, k # l, NEW i \in 1..Len(laneQueue'[k])
          PROVE  /\ runs'[laneQueue'[k][i]].lane = k
                 /\ runs'[laneQueue'[k][i]].phase = "queued"
                 /\ \A j \in 1..Len(laneQueue'[k]) : laneQueue'[k][i] = laneQueue'[k][j] => i = j
      BY <1>2, <2>1, <2>3, <3>1
    <3>2. ASSUME NEW i \in 1..Len(laneQueue'[l])
          PROVE  /\ runs'[laneQueue'[l][i]].lane = l
                 /\ runs'[laneQueue'[l][i]].phase = "queued"
                 /\ \A j \in 1..Len(laneQueue'[l]) : laneQueue'[l][i] = laneQueue'[l][j] => i = j
      <4>1. Len(laneQueue[l]) \in Nat /\ Len(rs) \in Nat
        OBVIOUS
      <4>2. CASE i = Len(laneQueue[l]) + 1
        BY <1>2, <2>2, <2>3, <4>1, <4>2
      <4>3. CASE i \in 1..Len(laneQueue[l])
        <5>1. laneQueue'[l][i] = laneQueue[l][i] /\ laneQueue[l][i] \in 1..Len(rs)
          BY <2>2, <2>3, <4>3
        <5>2. runs'[laneQueue'[l][i]].lane = l /\ runs'[laneQueue'[l][i]].phase = "queued"
          BY <1>2, <4>3, <5>1
        <5>3. ASSUME NEW j \in 1..Len(laneQueue'[l]), laneQueue'[l][i] = laneQueue'[l][j]
              PROVE  i = j
          <6>1. j \in 1..Len(laneQueue[l]) \/ j = Len(laneQueue[l]) + 1
            BY <2>2, <4>1
          <6>2. j # Len(laneQueue[l]) + 1
            BY <2>2, <4>1, <5>1, <5>3
          <6> QED BY <2>2, <4>3, <5>1, <5>3, <6>1, <6>2
        <5> QED BY <5>2, <5>3
      <4> QED BY <2>2, <3>2, <4>1, <4>2, <4>3
    <3> QED BY <3>1, <3>2 DEF LaneShape
  <2>5. \A k \in Lanes : RunningIn(k)' = RunningAmong(rs, k)
    <3>1. DOMAIN runs' = 1..(Len(rs) + 1)
      BY DrainType, <1>2
    <3> QED BY <1>2, <3>1 DEF RunningIn
  <2> QED BY <2>4, <2>5
<1> QED BY <1>1, <1>2, DrainAdds

\* A lane has finitely many executing runs, so they can be counted.
LEMMA RunningInFinite ==
    ASSUME TypeInv, NEW l \in Lanes
    PROVE  /\ IsFiniteSet(RunningIn(l)) /\ Cardinality(RunningIn(l)) \in Nat
<1>1. runs \in Seq(AgentRun)
  BY DEF TypeInv, TypeOK
<1>2. IsFiniteSet(1..Len(runs))
  BY <1>1, FS_Interval
<1>3. RunningIn(l) \subseteq 1..Len(runs)
  BY <1>1 DEF RunningIn
<1> QED BY <1>2, <1>3, FS_Subset, FS_CardinalityType

\* Every permit is free initially.
LEMMA InitPermitInv == Init => PermitInv
<1> SUFFICES ASSUME Init
             PROVE  PermitInv
  OBVIOUS
<1>1. LaneShape
  BY DEF Init, LaneShape, ShapeFor
<1>2. \A l \in Lanes : RunningIn(l) = {}
  BY DEF Init, RunningIn
<1>3. permits = LaneCap /\ \A l \in Lanes : LaneCap[l] \in Nat
  BY LaneAssumption DEF Init
<1>4. PermitsBalance
  BY <1>2, <1>3, FS_EmptySet DEF PermitsBalance
<1> QED BY <1>1, <1>4, InitTypeInv DEF PermitInv

\* Every step that takes a permit starts a run, and every one that ends a run returns it.
LEMMA StepPermitInv ==
    ASSUME PermitInv, [Next]_vars
    PROVE  PermitInv'
<1>0. TypeInv /\ TypeInv' /\ LaneShape /\ PermitsBalance
  BY StepTypeInv DEF PermitInv
<1>t. /\ runs \in Seq(AgentRun)
      /\ laneQueue \in [Lanes -> Seq(1..Len(runs))]
      /\ permits \in [Lanes -> Nat]
  BY <1>0 DEF TypeInv, TypeOK, RunIds
<1>f. \A l \in Lanes : IsFiniteSet(RunningIn(l)) /\ Cardinality(RunningIn(l)) \in Nat
  BY <1>0, RunningInFinite
<1>c. \A l \in Lanes : LaneCap[l] \in Nat
  BY LaneAssumption
<1>1. ASSUME UNCHANGED <<runs, laneQueue, permits>>
      PROVE  LaneShape' /\ PermitsBalance'
  BY <1>0, <1>1 DEF LaneShape, ShapeFor, PermitsBalance, RunningIn
<1>2. ASSUME NEW s \in Sessions, NEW l \in Lanes, DebounceFires(s, l)
      PROVE  LaneShape' /\ PermitsBalance'
  <2>1. DrainSession(s, l, runs, active) /\ permits' = permits
    BY <1>2 DEF DebounceFires
  <2>2. /\ LaneShape'
        /\ \A k \in Lanes : RunningIn(k)' = RunningAmong(runs, k)
    BY <1>0, <1>t, <2>1, DrainShape DEF LaneShape, ShapeFor
  <2>3. \A k \in Lanes : RunningIn(k)' = RunningIn(k)
    <3>1. DOMAIN runs = 1..Len(runs)
      BY <1>t
    <3>2. \A k \in Lanes : RunningAmong(runs, k) = RunningIn(k)
      BY <3>1 DEF RunningAmong, RunningIn
    <3> QED BY <2>2, <3>2
  <2> QED BY <1>0, <2>1, <2>2, <2>3 DEF PermitsBalance
<1>3. ASSUME NEW l \in Lanes, StartRun(l)
      PROVE  LaneShape' /\ PermitsBalance'
  <2>1. laneQueue[l] # <<>> /\ permits[l] > 0
    BY <1>3 DEF StartRun, Startable
  <2>2. PICK r \in 1..Len(runs) : r = Head(laneQueue[l])
    BY <1>t, <2>1, HeadTailProperties
  <2>3. /\ runs' = WithPhase(runs, r, "running")
        /\ laneQueue' = [laneQueue EXCEPT ![l] = Tail(@)]
        /\ permits' = [permits EXCEPT ![l] = @ - 1]
    BY <1>3, <2>2 DEF StartRun
  <2>4. /\ Len(runs') = Len(runs) /\ runs' \in Seq(AgentRun)
        /\ runs'[r].phase = "running" /\ runs'[r].lane = runs[r].lane
        /\ \A i \in 1..Len(runs) : i # r => runs'[i] = runs[i]
    <3>1. "running" \in RunPhase
      BY DEF RunPhase
    <3> QED BY <1>t, <2>3, <3>1, PhaseType
  <2>5. /\ 1 \in 1..Len(laneQueue[l]) /\ laneQueue[l][1] = r
        /\ Len(Tail(laneQueue[l])) = Len(laneQueue[l]) - 1
        /\ \A i \in 1..Len(Tail(laneQueue[l])) : Tail(laneQueue[l])[i] = laneQueue[l][i + 1]
    BY <1>t, <2>1, <2>2, HeadTailProperties
  <2>6. runs[r].lane = l /\ runs[r].phase = "queued"
    BY <1>0, <2>5 DEF LaneShape, ShapeFor
  <2>7. LaneShape'
    <3>1. ASSUME NEW k \in Lanes, k # l, NEW i \in 1..Len(laneQueue'[k])
          PROVE  /\ runs'[laneQueue'[k][i]].lane = k
                 /\ runs'[laneQueue'[k][i]].phase = "queued"
                 /\ \A j \in 1..Len(laneQueue'[k]) : laneQueue'[k][i] = laneQueue'[k][j] => i = j
      <4>1. laneQueue'[k] = laneQueue[k]
        BY <1>t, <2>3, <3>1
      <4>2. laneQueue[k][i] \in 1..Len(runs) /\ runs[laneQueue[k][i]].lane = k
            /\ runs[laneQueue[k][i]].phase = "queued"
        BY <1>0, <1>t, <4>1 DEF LaneShape, ShapeFor
      <4>3. laneQueue[k][i] # r
        BY <2>6, <3>1, <4>2
      <4> QED BY <1>0, <2>4, <4>1, <4>2, <4>3 DEF LaneShape, ShapeFor
    <3>2. ASSUME NEW i \in 1..Len(laneQueue'[l])
          PROVE  /\ runs'[laneQueue'[l][i]].lane = l
                 /\ runs'[laneQueue'[l][i]].phase = "queued"
                 /\ \A j \in 1..Len(laneQueue'[l]) : laneQueue'[l][i] = laneQueue'[l][j] => i = j
      <4>1. laneQueue'[l] = Tail(laneQueue[l])
        BY <1>t, <2>3
      <4>2. Len(laneQueue[l]) \in Nat
        BY <1>t
      <4>3. \A n \in 1..Len(laneQueue'[l]) :
              n + 1 \in 1..Len(laneQueue[l]) /\ laneQueue'[l][n] = laneQueue[l][n + 1]
        BY <2>5, <4>1, <4>2
      <4>4. laneQueue[l][i + 1] # r
        BY <1>0, <2>5, <4>3 DEF LaneShape, ShapeFor
      <4>5. laneQueue[l][i + 1] \in 1..Len(runs)
        BY <1>t, <4>3
      <4>6. runs[laneQueue[l][i + 1]].lane = l /\ runs[laneQueue[l][i + 1]].phase = "queued"
        BY <1>0, <4>3 DEF LaneShape, ShapeFor
      <4>7. ASSUME NEW j \in 1..Len(laneQueue'[l]), laneQueue'[l][i] = laneQueue'[l][j]
            PROVE  i = j
        <5>1. i + 1 = j + 1
          BY <1>0, <4>3, <4>7 DEF LaneShape, ShapeFor
        <5> QED BY <5>1
      <4> QED BY <2>4, <4>3, <4>4, <4>5, <4>6, <4>7
    <3> QED BY <3>1, <3>2 DEF LaneShape, ShapeFor
  <2>8. ASSUME NEW k \in Lanes
        PROVE  RunningIn(k)' = IF k = l THEN RunningIn(k) \union {r} ELSE RunningIn(k)
    <3>1. DOMAIN runs = 1..Len(runs) /\ DOMAIN runs' = 1..Len(runs)
      BY <1>t, <2>4
    <3>2. r \in RunningIn(k)' <=> k = l
      BY <2>4, <2>6, <3>1 DEF RunningIn
    <3>3. \A i \in 1..Len(runs) : i # r => (i \in RunningIn(k)' <=> i \in RunningIn(k))
      BY <2>4, <3>1 DEF RunningIn
    <3>4. RunningIn(k) \subseteq 1..Len(runs) /\ RunningIn(k)' \subseteq 1..Len(runs) /\ r \notin RunningIn(k)
      BY <2>6, <3>1 DEF RunningIn
    <3> QED BY <3>2, <3>3, <3>4
  <2>9. r \notin RunningIn(l)
    BY <2>6 DEF RunningIn
  <2>10. Cardinality(RunningIn(l)') = Cardinality(RunningIn(l)) + 1
    BY <1>f, <2>8, <2>9, FS_AddElement
  <2>11. PermitsBalance'
    <3>1. permits'[l] = permits[l] - 1 /\ \A k \in Lanes : k # l => permits'[k] = permits[k]
      BY <1>t, <2>3
    <3>2. permits[l] + Cardinality(RunningIn(l)) = LaneCap[l]
      BY <1>0 DEF PermitsBalance
    <3>3. permits'[l] + Cardinality(RunningIn(l)') = LaneCap[l]
      BY <1>t, <1>f, <1>c, <2>10, <3>1, <3>2
    <3>4. \A k \in Lanes : k # l => permits'[k] + Cardinality(RunningIn(k)') = LaneCap[k]
      BY <1>0, <2>8, <3>1 DEF PermitsBalance
    <3> QED BY <3>3, <3>4 DEF PermitsBalance
  <2> QED BY <2>7, <2>11
<1>4. ASSUME NEW r \in DOMAIN runs, NEW outcome \in {"end", "error"}, FinishRun(r, outcome)
      PROVE  LaneShape' /\ PermitsBalance'
  <2>1. r \in 1..Len(runs) /\ runs[r] \in AgentRun /\ runs[r].phase = "running"
    BY <1>t, <1>4 DEF FinishRun
  <2>2. PICK s \in Sessions, l \in Lanes : s = runs[r].session /\ l = runs[r].lane
    BY <2>1 DEF AgentRun
  <2>3. PICK after : after = WithPhase(runs, r, outcome)
    OBVIOUS
  <2>4. /\ after \in Seq(AgentRun) /\ Len(after) = Len(runs)
        /\ after[r].phase = outcome
        /\ \A i \in 1..Len(runs) : i # r => after[i] = runs[i]
    <3>1. outcome \in RunPhase
      BY DEF RunPhase
    <3> QED BY <1>t, <2>1, <2>3, <3>1, PhaseType
  <2>5. /\ permits' = [permits EXCEPT ![l] = @ + 1]
        /\ \E act : DrainSession(s, MainLane, after, act)
    BY <1>4, <2>2, <2>3 DEF FinishRun, DrainAfterRun, Released
  <2>6. ASSUME NEW k \in Lanes, NEW i \in 1..Len(laneQueue[k])
        PROVE  /\ after[laneQueue[k][i]].lane = k
               /\ after[laneQueue[k][i]].phase = "queued"
               /\ \A j \in 1..Len(laneQueue[k]) : laneQueue[k][i] = laneQueue[k][j] => i = j
    <3>1. laneQueue[k][i] \in 1..Len(runs) /\ runs[laneQueue[k][i]].phase = "queued"
      BY <1>0, <1>t DEF LaneShape, ShapeFor
    <3>2. laneQueue[k][i] # r
      BY <2>1, <3>1
    <3> QED BY <1>0, <2>4, <3>1, <3>2 DEF LaneShape, ShapeFor
  <2>7. /\ LaneShape'
        /\ \A k \in Lanes : RunningIn(k)' = RunningAmong(after, k)
    <3>1. PICK act : DrainSession(s, MainLane, after, act)
      BY <2>5
    <3>2. laneQueue \in [Lanes -> Seq(1..Len(after))]
      BY <1>t, <2>4
    <3>3. ShapeFor(after)
      BY <2>6 DEF ShapeFor
    <3> QED BY <2>4, <3>1, <3>2, <3>3, DrainShape, LaneAssumption
  <2>8. \A k \in Lanes : RunningIn(k)' = IF k = l THEN RunningIn(k) \ {r} ELSE RunningIn(k)
    <3>1. outcome # "running"
      OBVIOUS
    <3>2. ASSUME NEW k \in Lanes
          PROVE  RunningAmong(after, k) = IF k = l THEN RunningIn(k) \ {r} ELSE RunningIn(k)
      BY <1>t, <2>1, <2>2, <2>4, <3>1 DEF RunningIn, RunningAmong
    <3> QED BY <2>7, <3>2
  <2>9. r \in RunningIn(l)
    BY <1>t, <2>1, <2>2 DEF RunningIn
  <2>10. Cardinality(RunningIn(l)') = Cardinality(RunningIn(l)) - 1
    BY <1>f, <2>8, <2>9, FS_RemoveElement
  <2>11. PermitsBalance'
    <3>1. permits'[l] = permits[l] + 1 /\ \A k \in Lanes : k # l => permits'[k] = permits[k]
      BY <1>t, <2>5
    <3>2. permits[l] + Cardinality(RunningIn(l)) = LaneCap[l]
      BY <1>0 DEF PermitsBalance
    <3>3. permits'[l] + Cardinality(RunningIn(l)') = LaneCap[l]
      BY <1>t, <1>f, <1>c, <2>10, <3>1, <3>2
    <3>4. \A k \in Lanes : k # l => permits'[k] + Cardinality(RunningIn(k)') = LaneCap[k]
      BY <1>0, <2>8, <3>1 DEF PermitsBalance
    <3> QED BY <3>3, <3>4 DEF PermitsBalance
  <2> QED BY <2>7, <2>11
<1>5. ASSUME \/ \E s \in Sessions, mode \in QueueMode : Steer(s, mode)
             \/ \E s \in Sessions, mode \in QueueMode, l \in Lanes : Enqueue(s, mode, l)
             \/ Stop \/ Idle \/ UNCHANGED vars
      PROVE  UNCHANGED <<runs, laneQueue, permits>>
  BY <1>5 DEF Steer, Enqueue, Stop, Idle, vars
<1> QED BY <1>0, <1>1, <1>2, <1>3, <1>4, <1>5 DEF Next, PermitInv

(* NoPermitLeaks: in every lane the semaphore and the executing runs always  *)
(* add up to max_concurrent, whatever the outcomes of the runs.              *)
THEOREM NoPermitLeaks == Spec => []PermitsBalance
<1>1. PermitInv => PermitsBalance
  BY DEF PermitInv
<1> QED BY InitPermitInv, StepPermitInv, <1>1, PTL DEF Spec
-----------------------------------------------------------------------------
\* As many permits in every lane as there are sessions.
EnoughPermits ==
    /\ IsFiniteSet(Sessions)
    /\ \A l \in Lanes : Cardinality(Sessions) <= LaneCap[l]

\* Run r waits for a permit or executes.
Live(r) == runs[r].phase \in {"queued", "running"}

OneLive ==
    \A r, q \in 1..Len(runs) :
        Live(r) /\ Live(q) /\ runs[r].session = runs[q].session => r = q

RunningIsActive ==
    \A r \in 1..Len(runs) : runs[r].phase = "running" => active[runs[r].session] = r

QueuedInLane ==
    \A r \in 1..Len(runs) : runs[r].phase = "queued" =>
        \E i \in 1..Len(laneQueue[runs[r].lane]) : laneQueue[runs[r].lane][i] = r

SerialInv == PermitInv /\ OneLive /\ RunningIsActive /\ QueuedInLane

\* The sessions of a lane's executing runs and of one that waits for a permit
\* are different: with enough permits the lane has one for it.
LEMMA PermitLeft ==
    ASSUME EnoughPermits, SerialInv,
           NEW r \in 1..Len(runs), runs[r].phase = "queued"
    PROVE  Startable(runs[r].lane)
<1> DEFINE l == runs[r].lane
           R == RunningIn(l)
           S == R \union {r}
           f == [q \in S |-> runs[q].session]
<1>1. TypeInv /\ OneLive /\ QueuedInLane /\ PermitsBalance
  BY DEF SerialInv, PermitInv
<1>2. runs \in Seq(AgentRun) /\ runs[r] \in AgentRun
  BY <1>1 DEF TypeInv, TypeOK
<1>3. l \in Lanes /\ permits[l] \in Nat
  BY <1>1, <1>2 DEF TypeInv, TypeOK, AgentRun
<1>4. laneQueue[l] # <<>>
  BY <1>1 DEF QueuedInLane
<1>5. \A q \in S : q \in 1..Len(runs) /\ Live(q) /\ runs[q].session \in Sessions
  <2>1. DOMAIN runs = 1..Len(runs) /\ \A q \in 1..Len(runs) : runs[q] \in AgentRun
    BY <1>2
  <2>2. ASSUME NEW q \in S
        PROVE  q \in 1..Len(runs) /\ Live(q)
    BY <2>1, <2>2 DEF RunningIn, Live
  <2>3. \A q \in 1..Len(runs) : runs[q].session \in Sessions
    BY <2>1 DEF AgentRun
  <2> QED BY <2>2, <2>3
<1>6. f \in Injection(S, Sessions)
  BY <1>1, <1>5 DEF OneLive, Injection, IsInjective
<1>7. IsFiniteSet(R) /\ Cardinality(R) \in Nat /\ r \notin R
  BY <1>1, <1>3, RunningInFinite DEF RunningIn
<1>8. Cardinality(S) = Cardinality(R) + 1
  BY <1>7, FS_AddElement
<1>9. Cardinality(S) <= Cardinality(Sessions)
  BY <1>6, FS_Injection DEF EnoughPermits
<1>10. permits[l] + Cardinality(R) = LaneCap[l]
  BY <1>1, <1>3 DEF PermitsBalance
<1>11. LaneCap[l] \in Nat /\ Cardinality(Sessions) \in Nat /\ Cardinality(Sessions) <= LaneCap[l]
  BY <1>3, LaneAssumption, FS_CardinalityType DEF EnoughPermits
<1>12. permits[l] > 0
  <2> HIDE DEF l, R, S, f
  <2> QED BY <1>3, <1>7, <1>8, <1>9, <1>10, <1>11
<1> QED BY <1>4, <1>12 DEF Startable

\* A drain keeps the serial invariant if its session has no live run.
LEMMA SerialDrain ==
    ASSUME NEW s \in Sessions, NEW l \in Lanes, NEW rs \in Seq(AgentRun), NEW act,
           laneQueue \in [Lanes -> Seq(1..Len(rs))],
           \A r, q \in 1..Len(rs) :
             (rs[r].phase \in {"queued", "running"} /\ rs[q].phase \in {"queued", "running"}
              /\ rs[r].session = rs[q].session) => r = q,
           \A r \in 1..Len(rs) : rs[r].phase = "running" => act[rs[r].session] = r,
           \A r \in 1..Len(rs) : rs[r].phase = "queued" =>
             \E i \in 1..Len(laneQueue[rs[r].lane]) : laneQueue[rs[r].lane][i] = r,
           ~IsRunning(s, rs, act) =>
             \A r \in 1..Len(rs) : rs[r].session = s => rs[r].phase \notin {"queued", "running"},
           DrainSession(s, l, rs, act), active' = act
    PROVE  OneLive' /\ RunningIsActive' /\ QueuedInLane'
<1>1. CASE runs' = rs /\ laneQueue' = laneQueue
  <2>1. OneLive'
    BY <1>1 DEF OneLive, Live
  <2>2. RunningIsActive'
    BY <1>1 DEF RunningIsActive
  <2>3. QueuedInLane'
    BY <1>1 DEF QueuedInLane
  <2> QED BY <2>1, <2>2, <2>3
<1>2. CASE /\ Len(runs') = Len(rs) + 1
           /\ \A i \in 1..Len(rs) : runs'[i] = rs[i]
           /\ runs'[Len(rs) + 1].phase = "queued" /\ runs'[Len(rs) + 1].lane = l
           /\ runs'[Len(rs) + 1].session = s
           /\ laneQueue' = [laneQueue EXCEPT ![l] = Append(@, Len(rs) + 1)]
           /\ ~IsRunning(s, rs, act)
  <2>n. PICK n \in Nat : n = Len(rs) + 1
    OBVIOUS
  <2>r. \A r : r \in 1..n <=> r \in 1..Len(rs) \/ r = n
    BY <2>n
  <2>0. \A r \in 1..Len(rs) : rs[r].session = s => rs[r].phase \notin {"queued", "running"}
    BY <1>2
  <2>m. /\ Len(runs') = n /\ \A i \in 1..Len(rs) : runs'[i] = rs[i]
        /\ runs'[n].phase = "queued" /\ runs'[n].lane = l /\ runs'[n].session = s
    BY <1>2, <2>n
  <2>1. OneLive'
    <3> SUFFICES ASSUME NEW r \in 1..n, NEW q \in 1..n,
                        runs'[r].phase \in {"queued", "running"},
                        runs'[q].phase \in {"queued", "running"},
                        runs'[r].session = runs'[q].session
                 PROVE  r = q
      BY <2>m DEF OneLive, Live
    <3>1. CASE r \in 1..Len(rs) /\ q \in 1..Len(rs)
      BY <2>m, <3>1
    <3>2. CASE r = n /\ q \in 1..Len(rs)
      BY <2>m, <2>0, <3>2
    <3>3. CASE r \in 1..Len(rs) /\ q = n
      BY <2>m, <2>0, <3>3
    <3> QED BY <2>r, <3>1, <3>2, <3>3
  <2>2. RunningIsActive'
    <3> SUFFICES ASSUME NEW r \in 1..n, runs'[r].phase = "running"
                 PROVE  active'[runs'[r].session] = r
      BY <2>m DEF RunningIsActive
    <3>1. r \in 1..Len(rs)
      BY <2>m, <2>r
    <3> QED BY <2>m, <3>1
  <2>3. \A k \in Lanes : \A i \in 1..Len(laneQueue[k]) :
          i \in 1..Len(laneQueue'[k]) /\ laneQueue'[k][i] = laneQueue[k][i]
    BY <1>2
  <2>4. /\ Len(laneQueue[l]) + 1 \in 1..Len(laneQueue'[l])
        /\ laneQueue'[l][Len(laneQueue[l]) + 1] = n
    BY <1>2, <2>n
  <2>5. QueuedInLane'
    <3> SUFFICES ASSUME NEW r \in 1..n, runs'[r].phase = "queued"
                 PROVE  \E i \in 1..Len(laneQueue'[runs'[r].lane]) :
                          laneQueue'[runs'[r].lane][i] = r
      BY <2>m DEF QueuedInLane
    <3>1. CASE r \in 1..Len(rs)
      <4>1. rs[r] \in AgentRun
        BY <3>1
      <4>2. rs[r].lane \in Lanes
        BY <4>1 DEF AgentRun
      <4>3. PICK i \in 1..Len(laneQueue[rs[r].lane]) : laneQueue[rs[r].lane][i] = r
        BY <2>m, <3>1
      <4>4. runs'[r].lane = rs[r].lane
        BY <2>m, <3>1
      <4>5. /\ i \in 1..Len(laneQueue'[rs[r].lane])
            /\ laneQueue'[rs[r].lane][i] = r
        BY <2>3, <4>2, <4>3
      <4> QED BY <4>4, <4>5
    <3>2. CASE r = n
      BY <2>m, <2>4, <3>2
    <3> QED BY <2>r, <3>1, <3>2
  <2> QED BY <2>1, <2>2, <2>5
<1> QED BY <1>1, <1>2, DrainAdds

\* With enough permits a session never has two live runs.
LEMMA StepSerialInv ==
    ASSUME EnoughPermits, SerialInv, [Next]_vars
    PROVE  SerialInv'
<1>0. TypeInv /\ OneLive /\ RunningIsActive /\ QueuedInLane /\ LaneShape /\ PermitInv'
  BY StepPermitInv DEF SerialInv, PermitInv
<1>t. /\ runs \in Seq(AgentRun) /\ laneQueue \in [Lanes -> Seq(1..Len(runs))]
      /\ active \in [Sessions -> Nat]
      /\ \A r \in 1..Len(runs) : runs[r] \in AgentRun
  BY <1>0 DEF TypeInv, TypeOK, RunIds
<1>1. ASSUME UNCHANGED <<runs, laneQueue, active>>
      PROVE  OneLive' /\ RunningIsActive' /\ QueuedInLane'
  BY <1>0, <1>1 DEF OneLive, RunningIsActive, QueuedInLane, Live
<1>2. ASSUME NEW s \in Sessions, NEW l \in Lanes, DebounceFires(s, l)
      PROVE  OneLive' /\ RunningIsActive' /\ QueuedInLane'
  <2>1. DrainSession(s, l, runs, active) /\ active' = active /\ \A k \in Lanes : ~Startable(k)
    BY <1>2 DEF DebounceFires
  <2>2. \A r \in 1..Len(runs) : runs[r].phase # "queued"
    <3>1. \A r \in 1..Len(runs) : runs[r].lane \in Lanes
      BY <1>t DEF AgentRun
    <3> QED BY <2>1, <3>1, PermitLeft
  <2>3. ASSUME ~IsRunning(s, runs, active), NEW r \in 1..Len(runs), runs[r].session = s
        PROVE  runs[r].phase \notin {"queued", "running"}
    BY <1>0, <2>2, <2>3 DEF RunningIsActive, IsRunning, NoRun
  <2>4. \A r, q \in 1..Len(runs) :
          (runs[r].phase \in {"queued", "running"} /\ runs[q].phase \in {"queued", "running"}
           /\ runs[r].session = runs[q].session) => r = q
    BY <1>0 DEF OneLive, Live
  <2>5. \A r \in 1..Len(runs) : runs[r].phase = "running" => active[runs[r].session] = r
    BY <1>0 DEF RunningIsActive
  <2>6. \A r \in 1..Len(runs) : runs[r].phase = "queued" =>
          \E i \in 1..Len(laneQueue[runs[r].lane]) : laneQueue[runs[r].lane][i] = r
    BY <1>0 DEF QueuedInLane
  <2>7. ~IsRunning(s, runs, active) =>
          \A r \in 1..Len(runs) : runs[r].session = s => runs[r].phase \notin {"queued", "running"}
    BY <2>3
  <2>8. PICK rs \in Seq(AgentRun), act \in {active} : rs = runs /\ act = active
    BY <1>t
  <2>9. DrainSession(s, l, rs, act) /\ active' = act
    BY <2>1, <2>8
  <2>10. ~IsRunning(s, rs, act) =>
           \A r \in 1..Len(rs) : rs[r].session = s => rs[r].phase \notin {"queued", "running"}
    BY <2>7, <2>8
  <2> QED BY <1>t, <2>4, <2>5, <2>6, <2>8, <2>9, <2>10, SerialDrain
<1>3. ASSUME NEW l \in Lanes, StartRun(l)
      PROVE  OneLive' /\ RunningIsActive' /\ QueuedInLane'
  <2>1. laneQueue[l] # <<>>
    BY <1>3 DEF StartRun, Startable
  <2>2. PICK r \in 1..Len(runs) : r = Head(laneQueue[l])
    BY <1>t, <2>1, HeadTailProperties
  <2>3. /\ runs' = WithPhase(runs, r, "running")
        /\ laneQueue' = [laneQueue EXCEPT ![l] = Tail(@)]
        /\ active' = [active EXCEPT ![runs[r].session] = r]
    BY <1>3, <2>2 DEF StartRun
  <2>4. /\ Len(runs') = Len(runs)
        /\ runs'[r].phase = "running" /\ runs'[r].session = runs[r].session
        /\ \A i \in 1..Len(runs) : i # r => runs'[i] = runs[i]
    <3>1. "running" \in RunPhase
      BY DEF RunPhase
    <3> QED BY <1>t, <2>3, <3>1, PhaseType
  <2>5. /\ laneQueue[l][1] = r /\ 1 \in 1..Len(laneQueue[l])
        /\ \A i \in 1..Len(laneQueue[l]) : i # 1 =>
             i - 1 \in 1..Len(Tail(laneQueue[l])) /\ Tail(laneQueue[l])[i - 1] = laneQueue[l][i]
    BY <1>t, <2>1, <2>2, HeadTailProperties
  <2>6. runs[r].phase = "queued" /\ Live(r)
    BY <1>0, <2>5 DEF LaneShape, ShapeFor, Live
  <2>7. OneLive'
    <3>1. \A i \in 1..Len(runs) : Live(i)' => Live(i)
      BY <2>4, <2>6 DEF Live
    <3>2. \A i \in 1..Len(runs) : runs'[i].session = runs[i].session
      BY <2>4
    <3> QED BY <1>0, <2>4, <3>1, <3>2 DEF OneLive
  <2>8. RunningIsActive'
    <3>1. ASSUME NEW i \in 1..Len(runs), i # r, runs[i].phase = "running"
          PROVE  active'[runs[i].session] = i
      <4>1. runs[i].session # runs[r].session
        BY <1>0, <2>6, <3>1 DEF OneLive, Live
      <4>2. runs[i].session \in Sessions
        BY <1>t DEF AgentRun
      <4> QED BY <1>0, <1>t, <2>3, <3>1, <4>1, <4>2 DEF RunningIsActive
    <3>2. active'[runs[r].session] = r
      <4>1. runs[r].session \in Sessions
        BY <1>t DEF AgentRun
      <4> QED BY <1>t, <2>3, <4>1
    <3> QED BY <2>4, <3>1, <3>2 DEF RunningIsActive
  <2>9. QueuedInLane'
    <3> SUFFICES ASSUME NEW i \in 1..Len(runs), i # r, runs[i].phase = "queued"
                 PROVE  \E j \in 1..Len(laneQueue'[runs[i].lane]) : laneQueue'[runs[i].lane][j] = i
      BY <2>4 DEF QueuedInLane
    <3>1. PICK j \in 1..Len(laneQueue[runs[i].lane]) : laneQueue[runs[i].lane][j] = i
      BY <1>0 DEF QueuedInLane
    <3>2. runs[i].lane \in Lanes
      BY <1>t DEF AgentRun
    <3>3. CASE runs[i].lane # l
      BY <1>t, <2>3, <3>1, <3>2, <3>3
    <3>4. CASE runs[i].lane = l
      <4>1. laneQueue'[l] = Tail(laneQueue[l]) /\ j # 1
        BY <1>t, <2>3, <2>5, <3>1, <3>4
      <4>2. j - 1 \in 1..Len(laneQueue'[l]) /\ laneQueue'[l][j - 1] = i
        BY <2>5, <3>1, <3>4, <4>1
      <4> QED BY <3>4, <4>2
    <3> QED BY <3>3, <3>4
  <2> QED BY <2>7, <2>8, <2>9
<1>4. ASSUME NEW r \in DOMAIN runs, NEW outcome \in {"end", "error"}, FinishRun(r, outcome)
      PROVE  OneLive' /\ RunningIsActive' /\ QueuedInLane'
  <2>1. r \in 1..Len(runs) /\ runs[r].phase = "running" /\ outcome \in RunPhase
    BY <1>t, <1>4 DEF FinishRun, RunPhase
  <2>2. PICK s \in Sessions : s = runs[r].session
    BY <1>t, <2>1 DEF AgentRun
  <2>3. PICK after \in Seq(AgentRun) : after = WithPhase(runs, r, outcome)
    BY <1>t, <2>1, PhaseType
  <2>4. /\ Len(after) = Len(runs)
        /\ after[r].phase = outcome /\ after[r].session = s
        /\ \A i \in 1..Len(runs) : i # r => after[i] = runs[i]
    BY <1>t, <2>1, <2>2, <2>3, PhaseType
  <2>5. PICK act : act = [active EXCEPT ![s] = NoRun]
    OBVIOUS
  <2>6. DrainSession(s, MainLane, after, act) /\ active' = act
    BY <1>4, <2>2, <2>3, <2>5 DEF FinishRun, DrainAfterRun
  <2>7. \A i \in 1..Len(runs) : i # r /\ runs[i].session = s => runs[i].phase \notin {"queued", "running"}
    BY <1>0, <2>1, <2>2 DEF OneLive, Live
  <2>8. \A i \in 1..Len(after) : after[i].session = s => after[i].phase \notin {"queued", "running"}
    BY <2>4, <2>7
  <2>9. \A i \in 1..Len(after) : after[i].phase = "running" => act[after[i].session] = i
    <3> SUFFICES ASSUME NEW i \in 1..Len(runs), i # r, runs[i].phase = "running"
                 PROVE  act[runs[i].session] = i
      BY <2>4
    <3>1. runs[i].session \in Sessions /\ runs[i].session # s
      BY <1>t, <2>7 DEF AgentRun
    <3> QED BY <1>0, <1>t, <2>5, <3>1 DEF RunningIsActive
  <2>10. \A i \in 1..Len(after) : after[i].phase = "queued" =>
           \E j \in 1..Len(laneQueue[after[i].lane]) : laneQueue[after[i].lane][j] = i
    BY <1>0, <2>4 DEF QueuedInLane
  <2>11. \A i, j \in 1..Len(after) :
           (after[i].phase \in {"queued", "running"} /\ after[j].phase \in {"queued", "running"}
            /\ after[i].session = after[j].session) => i = j
    <3>1. \A i \in 1..Len(runs) : after[i].phase \in {"queued", "running"} =>
            i # r /\ runs[i].phase \in {"queued", "running"} /\ after[i].session = runs[i].session
      <4>1. outcome \notin {"queued", "running"}
        OBVIOUS
      <4> QED BY <2>4, <4>1
    <3>2. \A i, j \in 1..Len(runs) :
            (runs[i].phase \in {"queued", "running"} /\ runs[j].phase \in {"queued", "running"}
             /\ runs[i].session = runs[j].session) => i = j
      BY <1>0 DEF OneLive, Live
    <3>3. ASSUME NEW i \in 1..Len(runs), NEW j \in 1..Len(runs),
                 after[i].phase \in {"queued", "running"},
                 after[j].phase \in {"queued", "running"},
                 after[i].session = after[j].session
          PROVE  i = j
      BY <3>1, <3>2, <3>3
    <3> QED BY <2>4, <3>3
  <2>12. laneQueue \in [Lanes -> Seq(1..Len(after))]
    BY <1>t, <2>4
  <2> QED BY <2>6, <2>8, <2>9, <2>10, <2>11, <2>12, SerialDrain, LaneAssumption
<1>5. ASSUME \/ \E s \in Sessions, mode \in QueueMode : Steer(s, mode)
             \/ \E s \in Sessions, mode \in QueueMode, l \in Lanes : Enqueue(s, mode, l)
             \/ Stop \/ Idle \/ UNCHANGED vars
      PROVE  UNCHANGED <<runs, laneQueue, active>>
  BY <1>5 DEF Steer, Enqueue, Stop, Idle, vars
<1> QED BY <1>0, <1>1, <1>2, <1>3, <1>4, <1>5 DEF Next, SerialInv

(* SerialWhenUncontended: a session lane is strictly serial, as the module's *)
(* docstring says (queue.py:6), in every instance whose lanes have a permit  *)
(* for each session.  Without that it is not (run queue_contended).          *)
THEOREM SerialWhenUncontended ==
    ASSUME EnoughPermits
    PROVE  Spec => []StrictSerial
<1>1. Init => SerialInv
  BY InitPermitInv DEF Init, SerialInv, OneLive, RunningIsActive, QueuedInLane
<1>2. SerialInv /\ [Next]_vars => SerialInv'
  BY StepSerialInv
<1>3. SerialInv => StrictSerial
  <2> SUFFICES ASSUME SerialInv
               PROVE  StrictSerial
    OBVIOUS
  <2>1. OneLive /\ DOMAIN runs = 1..Len(runs)
    BY DEF SerialInv, PermitInv, TypeInv, TypeOK
  <2> QED BY <2>1 DEF OneLive, Live, StrictSerial, RunsOf
<1> QED BY <1>1, <1>2, <1>3, PTL DEF Spec

-----------------------------------------------------------------------------
(* Where messages go: none is lost or handed out twice, turns take them in *)
(* order, and every step of the queue is a step of SessionInbox or changes *)
(* nothing there.                                                          *)
(*                                                                         *)
(* All three rest on MoveLemma, which says what the steps of the queue do  *)
(* to messages: a step steers one, queues one, drains one session, or      *)
(* moves none.  ExactlyOnce and TurnsInOrder are inductive once the        *)
(* messages that are anywhere are known to have arrived (Fresh).           *)

\* Items in the order of the messages they cover.
Ordered(q) ==
    \A i, j \in 1..Len(q) : i < j => \A a \in q[i], b \in q[j] : a < b

\* Every run that there was has its session and its input still.
RunsKept ==
    /\ Len(runs) <= Len(runs')
    /\ \A r \in 1..Len(runs) :
         runs'[r].session = runs[r].session /\ runs'[r].input = runs[r].input

\* The four kinds of steps.
MovesNone ==
    /\ RunsKept /\ Len(runs') = Len(runs)
    /\ running' = running \/ (running /\ ~running')
    /\ UNCHANGED <<arrived, sessionQueue, steered, dropped>>

SteersOne ==
    /\ arrived < MaxMessages
    /\ arrived' = arrived + 1
    /\ steered' = steered \union {arrived + 1}
    /\ UNCHANGED <<running, sessionQueue, runs, dropped>>

QueuesOne(s) ==
    LET q == Queued(sessionQueue[s], arrived + 1)
    IN  /\ arrived < MaxMessages
        /\ arrived' = arrived + 1
        /\ sessionQueue' = [sessionQueue EXCEPT ![s] = q]
        /\ dropped' = dropped \union ((Covered(sessionQueue[s]) \union {arrived + 1}) \ Covered(q))
        /\ UNCHANGED <<running, runs, steered>>

DrainsOne(s) ==
    /\ running /\ running'
    /\ sessionQueue[s] # <<>>
    /\ RunsKept /\ Len(runs') = Len(runs) + 1
    /\ runs'[Len(runs) + 1].session = s
    /\ runs'[Len(runs) + 1].input = sessionQueue[s]
    /\ sessionQueue' = [sessionQueue EXCEPT ![s] = <<>>]
    /\ UNCHANGED <<arrived, steered, dropped>>

-----------------------------------------------------------------------------
\* A drain makes a run of the whole session queue, or changes neither.
LEMMA DrainMoves ==
    ASSUME NEW s \in Sessions, NEW l \in Lanes, NEW rs \in Seq(AgentRun), NEW act,
           DrainSession(s, l, rs, act)
    PROVE  \/ runs' = rs /\ sessionQueue' = sessionQueue
           \/ /\ running /\ sessionQueue[s] # <<>>
              /\ Len(runs') = Len(rs) + 1
              /\ \A i \in 1..Len(rs) : runs'[i] = rs[i]
              /\ runs'[Len(rs) + 1].session = s
              /\ runs'[Len(rs) + 1].input = sessionQueue[s]
              /\ sessionQueue' = [sessionQueue EXCEPT ![s] = <<>>]
<1> DEFINE new == [session |-> s, lane |-> l, phase |-> "queued", input |-> sessionQueue[s]]
<1>1. CASE MayDrain(s, rs, act)
  <2>1. /\ runs' = Append(rs, new)
        /\ sessionQueue' = [sessionQueue EXCEPT ![s] = <<>>]
        /\ running /\ sessionQueue[s] # <<>>
    BY <1>1 DEF DrainSession, MayDrain, Emptied
  <2>2. new.session = s /\ new.input = sessionQueue[s]
    OBVIOUS
  <2> HIDE DEF new
  <2> QED BY <2>1, <2>2
<1>2. CASE ~MayDrain(s, rs, act)
  BY <1>2 DEF DrainSession
<1> QED BY <1>1, <1>2

\* A run that changes its phase keeps its session and its input.
LEMMA PhaseKeepsInput ==
    ASSUME NEW rs \in Seq(AgentRun), NEW r \in 1..Len(rs), NEW p \in RunPhase
    PROVE  \A i \in 1..Len(rs) : /\ WithPhase(rs, r, p)[i].session = rs[i].session
                                 /\ WithPhase(rs, r, p)[i].input = rs[i].input
<1>1. rs[r] \in AgentRun
  OBVIOUS
<1>2. WithPhase(rs, r, p)[r].input = rs[r].input
  BY <1>1 DEF WithPhase, AgentRun
<1> QED BY <1>2, PhaseType

\* Every step is one of the four kinds.
LEMMA MoveLemma ==
    ASSUME TypeInv, [Next]_vars
    PROVE  \/ MovesNone \/ SteersOne
           \/ \E s \in Sessions : QueuesOne(s) \/ DrainsOne(s)
<1>t. /\ runs \in Seq(AgentRun) /\ laneQueue \in [Lanes -> Seq(1..Len(runs))]
      /\ sessionQueue \in [Sessions -> Seq(Item)] /\ running \in BOOLEAN
  BY DEF TypeInv, TypeOK, RunIds
<1>1. ASSUME NEW s \in Sessions, NEW mode \in QueueMode, Steer(s, mode)
      PROVE  SteersOne
  BY <1>1 DEF Steer, SteersOne
<1>2. ASSUME NEW s \in Sessions, NEW mode \in QueueMode, NEW l \in Lanes, Enqueue(s, mode, l)
      PROVE  QueuesOne(s)
  BY <1>2 DEF Enqueue, QueuesOne
<1>3. ASSUME NEW s \in Sessions, NEW l \in Lanes, NEW rs \in Seq(AgentRun), NEW act,
             Len(rs) = Len(runs),
             \A i \in 1..Len(runs) : rs[i].session = runs[i].session /\ rs[i].input = runs[i].input,
             DrainSession(s, l, rs, act), UNCHANGED <<arrived, running, steered, dropped>>
      PROVE  MovesNone \/ DrainsOne(s)
  BY <1>t, <1>3, DrainMoves DEF MovesNone, DrainsOne, RunsKept
<1>4. ASSUME NEW s \in Sessions, NEW l \in Lanes, DebounceFires(s, l)
      PROVE  MovesNone \/ DrainsOne(s)
  BY <1>t, <1>3, <1>4 DEF DebounceFires
<1>5. ASSUME NEW l \in Lanes, StartRun(l)
      PROVE  MovesNone
  <2>1. PICK r \in 1..Len(runs) : runs' = WithPhase(runs, r, "running")
    <3>1. laneQueue[l] \in Seq(1..Len(runs)) /\ laneQueue[l] # <<>>
      BY <1>t, <1>5 DEF StartRun, Startable
    <3>2. Head(laneQueue[l]) \in 1..Len(runs)
      BY <3>1, HeadTailProperties
    <3> QED BY <1>5, <3>2 DEF StartRun
  <2>2. "running" \in RunPhase
    BY DEF RunPhase
  <2> QED BY <1>t, <1>5, <2>1, <2>2, PhaseType, PhaseKeepsInput DEF StartRun, MovesNone, RunsKept
<1>6. ASSUME NEW r \in DOMAIN runs, NEW outcome \in {"end", "error"}, FinishRun(r, outcome)
      PROVE  MovesNone \/ \E s \in Sessions : DrainsOne(s)
  <2>1. r \in 1..Len(runs) /\ runs[r] \in AgentRun /\ outcome \in RunPhase
    BY <1>t DEF RunPhase
  <2>2. PICK s \in Sessions : s = runs[r].session
    BY <2>1 DEF AgentRun
  <2>3. PICK after \in Seq(AgentRun) : after = WithPhase(runs, r, outcome)
    BY <1>t, <2>1, PhaseType
  <2>4. /\ Len(after) = Len(runs)
        /\ \A i \in 1..Len(runs) : after[i].session = runs[i].session /\ after[i].input = runs[i].input
    BY <1>t, <2>1, <2>3, PhaseType, PhaseKeepsInput
  <2>5. PICK act : DrainSession(s, MainLane, after, act)
    BY <1>6, <2>2, <2>3 DEF FinishRun, DrainAfterRun
  <2>6. UNCHANGED <<arrived, running, steered, dropped>>
    BY <1>6 DEF FinishRun
  <2> QED BY <1>3, <2>4, <2>5, <2>6, LaneAssumption
<1>7. CASE Stop
  <2>1. running /\ ~running' /\ UNCHANGED <<arrived, sessionQueue, runs, steered, dropped>>
    BY <1>7 DEF Stop
  <2>2. RunsKept /\ Len(runs') = Len(runs)
    BY <1>t, <2>1 DEF RunsKept
  <2> QED BY <2>1, <2>2 DEF MovesNone
<1>8. CASE Idle \/ UNCHANGED vars
  BY <1>t, <1>8 DEF Idle, vars, MovesNone, RunsKept
<1> QED BY <1>1, <1>2, <1>4, <1>5, <1>6, <1>7, <1>8 DEF Next
-----------------------------------------------------------------------------
\* The items of a summarised queue: the summary, the newer half, the message.
LEMMA SummarizeItems ==
    ASSUME NEW q \in Seq(Item), NEW m \in Nat
    PROVE  \E h \in Nat : \E x \in Seq(Item) :
               /\ h <= Len(q) /\ x = Summarize(q, m) /\ Len(x) = Len(q) - h + 2
               /\ \A a \in x[1] : \E i \in 1..h : a \in q[i]
               /\ \A i \in 2..(Len(q) - h + 1) : x[i] = q[h + i - 1]
               /\ x[Len(q) - h + 2] = {m}
<1>1. PICK h \in Nat : h = Len(q) \div 2 /\ h <= Len(q)
  OBVIOUS
<1>2. PICK older, newer \in Seq(Item) :
        /\ older = SubSeq(q, 1, h) /\ newer = SubSeq(q, h + 1, Len(q))
        /\ Len(older) = h /\ \A i \in 1..h : older[i] = q[i]
        /\ Len(newer) = Len(q) - h /\ \A i \in 1..(Len(q) - h) : newer[i] = q[h + i]
  <2>1. /\ SubSeq(q, 1, h) \in Seq(Item) /\ Len(SubSeq(q, 1, h)) = h
        /\ \A i \in 1..h : SubSeq(q, 1, h)[i] = q[i]
        /\ SubSeq(q, h + 1, Len(q)) \in Seq(Item)
        /\ Len(SubSeq(q, h + 1, Len(q))) = Len(q) - h
        /\ \A i \in 1..(Len(q) - h) : SubSeq(q, h + 1, Len(q))[i] = q[h + i]
    BY <1>1, Halves
  <2> QED BY <2>1
<1>3. PICK summary \in Item : summary = Oldest(SummaryLen, Covered(older))
  BY CoveredType DEF Oldest, Item
<1>4. \A a \in summary : \E i \in 1..h : a \in q[i]
  BY <1>2, <1>3 DEF Oldest, Covered
<1>5. PICK x : x = <<summary>> \o newer \o <<{m}>>
  OBVIOUS
<1>s. x \in Seq(Item)
  <2>1. {m} \in Item
    BY DEF Item
  <2>2. <<summary>> \in Seq(Item) /\ <<{m}>> \in Seq(Item)
    BY <2>1
  <2> QED BY <1>5, <2>2
<1>6. x = Summarize(q, m)
  BY <1>1, <1>2, <1>3, <1>5 DEF Summarize
<1>7. /\ Len(x) = Len(newer) + 2
      /\ x[1] = summary
      /\ \A i \in 2..(Len(newer) + 1) : x[i] = newer[i - 1]
      /\ x[Len(newer) + 2] = {m}
  BY <1>5, <1>s
<1>8. ASSUME NEW i \in 2..(Len(q) - h + 1)
      PROVE  x[i] = q[h + i - 1]
  <2>1. i \in 2..(Len(newer) + 1) /\ i - 1 \in 1..(Len(q) - h) /\ h + (i - 1) = h + i - 1
    BY <1>1, <1>2
  <2> QED BY <1>2, <1>7, <2>1
<1>9. x[Len(q) - h + 2] = {m} /\ Len(x) = Len(q) - h + 2
  BY <1>1, <1>2, <1>7
<1> WITNESS h \in Nat
<1> WITNESS x \in Seq(Item)
<1> QED BY <1>1, <1>4, <1>6, <1>7, <1>8, <1>9

\* The messages of a queue are those of its items.
LEMMA InCovered ==
    ASSUME NEW q \in Seq(Item), NEW m
    PROVE  m \in Covered(q) <=> \E i \in 1..Len(q) : m \in q[i]
BY DEF Covered

\* A queue that gets message m holds nothing but m that it did not hold, keeps
\* its order if m is newer than all of it, and never ends in an empty item.
LEMMA QueuedItems ==
    ASSUME NEW q \in Seq(Item), NEW m \in Nat
    PROVE  /\ Covered(Queued(q, m)) \subseteq Covered(q) \union {m}
           /\ Ordered(q) /\ (\A a \in Covered(q) : a < m) => Ordered(Queued(q, m))
           /\ (q # <<>> => q[Len(q)] # {})
                => Queued(q, m) # <<>> /\ Queued(q, m)[Len(Queued(q, m))] # {}
<1> DEFINE Good(x) ==
             /\ \A i \in 1..Len(x) : x[i] \subseteq Covered(q) \union {m}
             /\ Ordered(q) /\ (\A a \in Covered(q) : a < m) => Ordered(x)
             /\ (q # <<>> => q[Len(q)] # {}) => x # <<>> /\ x[Len(x)] # {}
<1>1. Cap \in Nat \ {0} /\ Len(q) \in Nat /\ Len(q) >= 0
  BY QueueAssumption
<1>2. \A i \in 1..Len(q) : q[i] \subseteq Covered(q)
  BY InCovered
<1>3. ASSUME NEW y \in Seq(Item), NEW k \in Nat, Len(y) + k = Len(q),
             \A i \in 1..Len(y) : y[i] = q[i + k]
      PROVE  Good(Append(y, {m}))
  <2> DEFINE x == Append(y, {m})
  <2>1. /\ Len(x) = Len(y) + 1 /\ x[Len(y) + 1] = {m}
        /\ \A i \in 1..Len(y) : x[i] = q[i + k] /\ i + k \in 1..Len(q)
    BY <1>1, <1>3
  <2> HIDE DEF x
  <2>2. Len(y) \in Nat
    OBVIOUS
  <2>3. ASSUME NEW i \in 1..Len(x)
        PROVE  x[i] \subseteq Covered(q) \union {m}
    <3>1. i \in 1..Len(y) \/ i = Len(y) + 1
      BY <2>1, <2>2
    <3> QED BY <1>2, <2>1, <3>1
  <2>4. ASSUME Ordered(q), \A a \in Covered(q) : a < m
        PROVE  Ordered(x)
    <3> SUFFICES ASSUME NEW i \in 1..Len(x), NEW j \in 1..Len(x), i < j,
                        NEW a \in x[i], NEW b \in x[j]
                 PROVE  a < b
      BY DEF Ordered
    <3>1. x[i] = q[i + k] /\ i + k \in 1..Len(q)
      BY <2>1, <2>2
    <3>2. CASE j = Len(y) + 1
      BY <1>2, <2>1, <2>4, <3>1, <3>2
    <3>3. CASE j \in 1..Len(y)
      <4>1. x[j] = q[j + k] /\ j + k \in 1..Len(q) /\ i + k < j + k
        BY <2>1, <3>3
      <4> QED BY <2>4, <3>1, <4>1 DEF Ordered
    <3> QED BY <2>1, <2>2, <3>2, <3>3
  <2>5. x # <<>> /\ x[Len(x)] # {}
    BY <2>1, <2>2
  <2> QED BY <2>3, <2>4, <2>5 DEF x
<1>4. Good(Append(q, {m}))
  <2>1. Len(q) + 0 = Len(q) /\ \A i \in 1..Len(q) : q[i] = q[i + 0]
    BY <1>1
  <2> HIDE DEF Good
  <2> QED BY <1>3, <2>1
<1>5. ASSUME Len(q) >= Cap
      PROVE  Good(Overflowed(q, m))
  <2>1. CASE OverflowPolicy = "drop_old"
    <3>1. Tail(q) \in Seq(Item) /\ Len(Tail(q)) + 1 = Len(q)
          /\ \A i \in 1..Len(Tail(q)) : Tail(q)[i] = q[i + 1]
      BY <1>1, <1>5, HeadTailProperties
    <3>2. Good(Append(Tail(q), {m}))
      <4> HIDE DEF Good
      <4> QED BY <1>3, <3>1
    <3> HIDE DEF Good
    <3> QED BY <2>1, <3>2 DEF Overflowed
  <2>2. CASE OverflowPolicy = "drop_new"
    <3>1. Good(q)
      BY <1>1, <1>2, <1>5
    <3> HIDE DEF Good
    <3> QED BY <2>2, <3>1 DEF Overflowed
  <2>3. CASE OverflowPolicy = "summarize"
    <3>0. PICK half \in Nat, x \in Seq(Item) :
            /\ half <= Len(q) /\ x = Summarize(q, m) /\ Len(x) = Len(q) - half + 2
            /\ \A a \in x[1] : \E i \in 1..half : a \in q[i]
            /\ \A i \in 2..(Len(q) - half + 1) : x[i] = q[half + i - 1]
            /\ x[Len(q) - half + 2] = {m}
      BY SummarizeItems
    <3> DEFINE n == Len(q) - half
    <3>1. n \in Nat /\ half + n = Len(q)
      BY <1>1, <3>0
    <3>2. /\ Len(x) = n + 2
          /\ \A i \in 2..(n + 1) : x[i] = q[half + i - 1]
          /\ x[n + 2] = {m}
      BY <3>0, <3>1
    <3> HIDE DEF n
    <3>3. \A a \in x[1] : \E i \in 1..Len(q) : i <= half /\ a \in q[i]
      BY <3>0
    <3>4. \A i \in 2..(n + 1) : x[i] = q[half + i - 1] /\ half + i - 1 \in (half + 1)..Len(q)
      BY <3>1, <3>2
    <3>5. ASSUME NEW i \in 1..Len(x)
          PROVE  x[i] \subseteq Covered(q) \union {m}
      <4>1. i = 1 \/ i \in 2..(n + 1) \/ i = n + 2
        BY <3>1, <3>2
      <4>2. x[1] \subseteq Covered(q)
        BY <1>2, <3>3
      <4>3. i \in 2..(n + 1) => x[i] \subseteq Covered(q)
        <5>1. ASSUME i \in 2..(n + 1)
              PROVE  half + i - 1 \in 1..Len(q)
          BY <3>1, <3>4, <5>1
        <5> QED BY <1>2, <3>4, <5>1
      <4> QED BY <3>2, <4>1, <4>2, <4>3
    <3>6. ASSUME Ordered(q), \A a \in Covered(q) : a < m
          PROVE  Ordered(x)
      <4> SUFFICES ASSUME NEW i \in 1..Len(x), NEW j \in 1..Len(x), i < j,
                          NEW a \in x[i], NEW b \in x[j]
                   PROVE  a < b
        BY DEF Ordered
      <4>0. i \in 1..(n + 1) /\ j \in 2..(n + 2)
        BY <3>1, <3>2
      <4>1. PICK k \in 1..Len(q) : a \in q[k] /\ (i = 1 => k <= half) /\ (i # 1 => k = half + i - 1)
        <5>1. CASE i = 1
          <6>1. a \in x[1]
            BY <5>1
          <6>2. PICK k \in 1..Len(q) : k <= half /\ a \in q[k]
            BY <3>3, <6>1
          <6> QED BY <5>1, <6>2
        <5>2. CASE i \in 2..(n + 1)
          <6>1. x[i] = q[half + i - 1] /\ half + i - 1 \in 1..Len(q)
            <7>1. x[i] = q[half + i - 1] /\ half + i - 1 \in (half + 1)..Len(q)
              BY <3>4, <5>2
            <7> QED BY <3>1, <5>2, <7>1
          <6> QED BY <5>2, <6>1
        <5> QED BY <3>1, <4>0, <5>1, <5>2
      <4>2. CASE j = n + 2
        BY <1>2, <3>2, <3>6, <4>1, <4>2
      <4>3. CASE j \in 2..(n + 1)
        <5>1. x[j] = q[half + j - 1] /\ half + j - 1 \in 1..Len(q) /\ k < half + j - 1
          BY <3>1, <3>4, <4>0, <4>1, <4>3
        <5> QED BY <3>6, <4>1, <5>1 DEF Ordered
      <4> QED BY <3>1, <4>0, <4>2, <4>3
    <3>7. x # <<>> /\ x[Len(x)] # {}
      BY <3>1, <3>2
    <3>8. Good(x)
      BY <3>5, <3>6, <3>7
    <3> HIDE DEF Good
    <3> QED BY <2>3, <3>0, <3>8 DEF Overflowed
  <2> HIDE DEF Good
  <2> QED BY <2>1, <2>2, <2>3, QueueAssumption
<1>6. Good(Queued(q, m))
  <2> HIDE DEF Good
  <2> QED BY <1>1, <1>4, <1>5 DEF Queued
<1>7. Covered(Queued(q, m)) \subseteq Covered(q) \union {m}
  BY <1>6, QueuedType, InCovered
<1> QED BY <1>6, <1>7
-----------------------------------------------------------------------------
\* What the four kinds of steps do to the messages that wait and to inputs.
SameInputs == \A r \in 1..Len(runs) : Input(r)' = Input(r) /\ runs'[r].session = runs[r].session

LEMMA EffectOfNone ==
    ASSUME TypeInv, TypeInv', MovesNone \/ SteersOne
    PROVE  /\ \A s \in Sessions : Waiting(s)' = Waiting(s)
           /\ SameInputs /\ Len(runs') = Len(runs)
BY DEF MovesNone, SteersOne, RunsKept, Waiting, Input, SameInputs

LEMMA EffectOfQueueing ==
    ASSUME TypeInv, TypeInv', NEW s \in Sessions, QueuesOne(s)
    PROVE  /\ arrived + 1 \in Nat
           /\ \A t \in Sessions : t # s => Waiting(t)' = Waiting(t)
           /\ Waiting(s)' \subseteq Waiting(s) \union {arrived + 1}
           /\ dropped' = dropped \union ((Waiting(s) \union {arrived + 1}) \ Waiting(s)')
           /\ SameInputs /\ Len(runs') = Len(runs)
<1>1. sessionQueue \in [Sessions -> Seq(Item)] /\ arrived + 1 \in Nat
  BY DEF TypeInv, TypeOK
<1>2. sessionQueue'[s] = Queued(sessionQueue[s], arrived + 1)
      /\ \A t \in Sessions : t # s => sessionQueue'[t] = sessionQueue[t]
  BY <1>1 DEF QueuesOne
<1>3. Covered(Queued(sessionQueue[s], arrived + 1)) \subseteq Covered(sessionQueue[s]) \union {arrived + 1}
  BY <1>1, QueuedItems
<1>4. dropped' = dropped \union ((Waiting(s) \union {arrived + 1}) \ Waiting(s)')
  BY <1>2 DEF QueuesOne, Waiting
<1>5. SameInputs /\ Len(runs') = Len(runs)
  BY DEF QueuesOne, SameInputs, Input
<1> QED BY <1>1, <1>2, <1>3, <1>4, <1>5 DEF Waiting

LEMMA EffectOfDrain ==
    ASSUME TypeInv, TypeInv', NEW s \in Sessions, DrainsOne(s),
           NEW n \in Nat, n = Len(runs) + 1
    PROVE  /\ \A t \in Sessions : t # s => Waiting(t)' = Waiting(t)
           /\ Waiting(s)' = {}
           /\ SameInputs /\ Len(runs') = n
           /\ Input(n)' = Waiting(s)
           /\ runs'[n].session = s
<1>1. sessionQueue \in [Sessions -> Seq(Item)]
  BY DEF TypeInv, TypeOK
<1>2. sessionQueue'[s] = <<>>
      /\ \A t \in Sessions : t # s => sessionQueue'[t] = sessionQueue[t]
  BY <1>1 DEF DrainsOne
<1>3. Covered(<<>>) = {}
  BY DEF Covered
<1>4. SameInputs /\ Input(n)' = Waiting(s)
  BY DEF DrainsOne, RunsKept, SameInputs, Input, Waiting
<1> QED BY <1>2, <1>3, <1>4 DEF Waiting, DrainsOne

-----------------------------------------------------------------------------
\* Messages that are anywhere have arrived.
Fresh ==
    /\ \A s \in Sessions : Waiting(s) \subseteq 1..arrived
    /\ \A r \in 1..Len(runs) : Input(r) \subseteq 1..arrived
    /\ steered \subseteq 1..arrived /\ dropped \subseteq 1..arrived

\* ExactlyOnce, said of one message place by place.
Somewhere(m) ==
    \/ \E s \in Sessions : m \in Waiting(s)
    \/ \E r \in 1..Len(runs) : m \in Input(r)
    \/ m \in steered
    \/ m \in dropped

NowhereElse(m) ==
    /\ \A s, t \in Sessions : m \in Waiting(s) /\ m \in Waiting(t) => s = t
    /\ \A r, q \in 1..Len(runs) : m \in Input(r) /\ m \in Input(q) => r = q
    /\ \A s \in Sessions, r \in 1..Len(runs) : ~(m \in Waiting(s) /\ m \in Input(r))
    /\ \A s \in Sessions : m \in Waiting(s) => m \notin steered /\ m \notin dropped
    /\ \A r \in 1..Len(runs) : m \in Input(r) => m \notin steered /\ m \notin dropped
    /\ ~(m \in steered /\ m \in dropped)

OnceInv == TypeInv /\ Fresh /\ \A m \in 1..arrived : Somewhere(m) /\ NowhereElse(m)

\* Nothing has arrived initially.
LEMMA InitOnceInv == Init => OnceInv
<1> SUFFICES ASSUME Init
             PROVE  OnceInv
  OBVIOUS
<1>1. arrived = 0 /\ Len(runs) = 0 /\ steered = {} /\ dropped = {}
  BY DEF Init
<1>2. \A s \in Sessions : Waiting(s) = {}
  BY DEF Init, Waiting, Covered
<1>3. 1..arrived = {}
  BY <1>1
<1>4. Fresh
  BY <1>1, <1>2 DEF Fresh
<1> QED BY <1>3, <1>4, InitTypeInv DEF OnceInv

\* A step puts its message in one place, or moves messages from one to another.
LEMMA StepOnceInv ==
    ASSUME OnceInv, [Next]_vars
    PROVE  OnceInv'
<1>0. TypeInv /\ TypeInv' /\ Fresh
  BY StepTypeInv DEF OnceInv
<1>1. arrived \in Nat /\ Len(runs) \in Nat /\ ~(arrived + 1 \in 1..arrived)
  BY <1>0 DEF TypeInv, TypeOK
<1>2. \A m \in 1..arrived : Somewhere(m) /\ NowhereElse(m)
  BY DEF OnceInv
<1>3. CASE MovesNone
  <2>1. Fresh'
    BY <1>0, <1>3, EffectOfNone DEF MovesNone, Fresh, SameInputs
  <2>2. ASSUME NEW m \in 1..arrived
        PROVE  Somewhere(m)' /\ NowhereElse(m)'
    BY <1>0, <1>2, <1>3, EffectOfNone DEF MovesNone, Somewhere, NowhereElse, SameInputs
  <2> QED BY <1>0, <1>3, <2>1, <2>2 DEF OnceInv, MovesNone
<1>4. CASE SteersOne
  <2>0. arrived' = arrived + 1 /\ steered' = steered \union {arrived + 1} /\ dropped' = dropped
    BY <1>4 DEF SteersOne
  <2>1. Fresh'
    BY <1>0, <1>1, <1>4, <2>0, EffectOfNone DEF Fresh, SameInputs
  <2>2. ASSUME NEW m \in 1..arrived
        PROVE  Somewhere(m)' /\ NowhereElse(m)'
    BY <1>0, <1>1, <1>2, <1>4, <2>0, EffectOfNone DEF Somewhere, NowhereElse, SameInputs
  <2>3. ASSUME NEW m \in Nat, m = arrived + 1
        PROVE  Somewhere(m)' /\ NowhereElse(m)'
    BY <1>0, <1>1, <1>4, <2>0, <2>3, EffectOfNone DEF Fresh, Somewhere, NowhereElse, SameInputs
  <2>4. \A m \in 1..arrived' : m \in 1..arrived \/ (m \in Nat /\ m = arrived + 1)
    BY <1>1, <2>0
  <2> QED BY <1>0, <2>1, <2>2, <2>3, <2>4 DEF OnceInv
<1>5. ASSUME NEW s \in Sessions, QueuesOne(s)
      PROVE  OnceInv'
  <2>0. arrived' = arrived + 1 /\ steered' = steered
    BY <1>5 DEF QueuesOne
  <2>e. /\ \A t \in Sessions : t # s => Waiting(t)' = Waiting(t)
        /\ Waiting(s)' \subseteq Waiting(s) \union {arrived + 1}
        /\ dropped' = dropped \union ((Waiting(s) \union {arrived + 1}) \ Waiting(s)')
        /\ Len(runs') = Len(runs)
        /\ \A r \in 1..Len(runs) : Input(r)' = Input(r)
    BY <1>0, <1>5, EffectOfQueueing DEF SameInputs
  <2>1. Fresh'
    <3>1. \A m \in 1..arrived : m \in 1..arrived'
      BY <1>1, <2>0
    <3>2. arrived + 1 \in 1..arrived'
      BY <1>1, <2>0
    <3>3. \A t \in Sessions : Waiting(t)' \subseteq 1..arrived'
      BY <1>0, <2>e, <3>1, <3>2 DEF Fresh
    <3>4. \A r \in 1..Len(runs') : Input(r)' \subseteq 1..arrived'
      BY <1>0, <2>e, <3>1 DEF Fresh
    <3>5. dropped' \subseteq 1..arrived' /\ steered' \subseteq 1..arrived'
      BY <1>0, <2>0, <2>e, <3>1, <3>2 DEF Fresh
    <3> QED BY <3>3, <3>4, <3>5 DEF Fresh
  <2>2. ASSUME NEW m \in 1..arrived
        PROVE  Somewhere(m)' /\ NowhereElse(m)'
    <3>1. Somewhere(m) /\ NowhereElse(m) /\ m # arrived + 1
      BY <1>1, <1>2
    <3>2. Somewhere(m)'
      BY <2>0, <2>e, <3>1 DEF Somewhere
    <3>3. NowhereElse(m)'
      BY <2>0, <2>e, <3>1 DEF NowhereElse
    <3> QED BY <3>2, <3>3
  <2>3. ASSUME NEW m \in Nat, m = arrived + 1
        PROVE  Somewhere(m)' /\ NowhereElse(m)'
    <3>1. /\ \A t \in Sessions : m \notin Waiting(t)
          /\ \A r \in 1..Len(runs) : m \notin Input(r)
          /\ m \notin steered /\ m \notin dropped
      BY <1>0, <1>1, <2>3 DEF Fresh
    <3>2. Somewhere(m)'
      BY <2>e, <2>3 DEF Somewhere
    <3>3. NowhereElse(m)'
      BY <2>0, <2>e, <2>3, <3>1 DEF NowhereElse
    <3> QED BY <3>2, <3>3
  <2>4. \A m \in 1..arrived' : m \in 1..arrived \/ (m \in Nat /\ m = arrived + 1)
    BY <1>1, <2>0
  <2> QED BY <1>0, <2>1, <2>2, <2>3, <2>4 DEF OnceInv
<1>6. ASSUME NEW s \in Sessions, DrainsOne(s)
      PROVE  OnceInv'
  <2>0. UNCHANGED <<arrived, steered, dropped>>
    BY <1>6 DEF DrainsOne
  <2>n. PICK n \in Nat : n = Len(runs) + 1
    BY <1>1
  <2>e. /\ \A t \in Sessions : t # s => Waiting(t)' = Waiting(t)
        /\ Waiting(s)' = {}
        /\ Len(runs') = n
        /\ \A r \in 1..Len(runs) : Input(r)' = Input(r)
        /\ Input(n)' = Waiting(s)
    BY <1>0, <1>6, <2>n, EffectOfDrain DEF SameInputs
  <2>r. \A r : r \in 1..n <=> r \in 1..Len(runs) \/ r = n
    BY <1>1, <2>n
  <2>1. Fresh'
    BY <1>0, <2>0, <2>e, <2>r DEF Fresh
  <2>2. ASSUME NEW m \in 1..arrived
        PROVE  Somewhere(m)' /\ NowhereElse(m)'
    <3>1. Somewhere(m) /\ NowhereElse(m)
      BY <1>2
    <3>2. Somewhere(m)'
      BY <2>0, <2>e, <2>r, <3>1 DEF Somewhere
    <3>3. NowhereElse(m)'
      BY <2>0, <2>e, <2>r, <3>1 DEF NowhereElse
    <3> QED BY <3>2, <3>3
  <2> QED BY <1>0, <2>0, <2>1, <2>2 DEF OnceInv
<1> QED BY <1>0, <1>3, <1>4, <1>5, <1>6, MoveLemma

(* NothingLostOrTwice: every message that enqueue() accepted is in exactly   *)
(* one place, in every instance: no overflow, drain or steering loses one    *)
(* without counting it as dropped, or gives it to two runs.                  *)
THEOREM NothingLostOrTwice == Spec => []ExactlyOnce
<1>1. ASSUME OnceInv, NEW m \in 1..arrived
      PROVE  \E p \in Places(m) : Places(m) = {p}
  <2>1. Somewhere(m) /\ NowhereElse(m) /\ DOMAIN runs = 1..Len(runs)
    BY <1>1 DEF OnceInv, TypeInv, TypeOK
  <2>2. ASSUME NEW s \in Sessions, m \in Waiting(s)
        PROVE  Places(m) = {<<"waiting", s>>}
    BY <2>1, <2>2 DEF NowhereElse, Places
  <2>3. ASSUME NEW r \in 1..Len(runs), m \in Input(r)
        PROVE  Places(m) = {<<"input", r>>}
    BY <2>1, <2>3 DEF NowhereElse, Places
  <2>4. ASSUME m \in steered
        PROVE  Places(m) = {<<"steered", m>>}
    BY <2>1, <2>4 DEF NowhereElse, Places
  <2>5. ASSUME m \in dropped
        PROVE  Places(m) = {<<"dropped", m>>}
    BY <2>1, <2>5 DEF NowhereElse, Places
  <2> QED BY <2>1, <2>2, <2>3, <2>4, <2>5 DEF Somewhere
<1>2. OnceInv => ExactlyOnce
  BY <1>1 DEF ExactlyOnce
<1> QED BY InitOnceInv, StepOnceInv, <1>2, PTL DEF Spec
-----------------------------------------------------------------------------
OrderInv == OnceInv /\ TurnsInOrder

\* TurnsInOrder with the ranges of the runs spelled out.
InOrderFor(s) ==
    /\ \A r1, r2 \in 1..Len(runs) : runs[r1].session = s /\ runs[r2].session = s /\ r1 < r2 =>
         \A a \in Input(r1), b \in Input(r2) : a < b
    /\ \A r \in 1..Len(runs) : runs[r].session = s => \A a \in Input(r), b \in Waiting(s) : a < b
    /\ Ordered(sessionQueue[s])

LEMMA InOrderUnfolds ==
    ASSUME TypeInv
    PROVE  TurnsInOrder <=> \A s \in Sessions : InOrderFor(s)
<1>1. DOMAIN runs = 1..Len(runs) /\ \A s \in Sessions : DOMAIN sessionQueue[s] = 1..Len(sessionQueue[s])
  BY DEF TypeInv, TypeOK
<1>2. \A s \in Sessions : \A r : r \in RunsOf(s) <=> r \in 1..Len(runs) /\ runs[r].session = s
  BY <1>1 DEF RunsOf
<1> QED BY <1>1, <1>2 DEF TurnsInOrder, InOrderFor, Ordered

\* A new message is newer than all others, and a drain makes the newest run.
LEMMA StepOrderInv ==
    ASSUME OrderInv, [Next]_vars
    PROVE  OrderInv'
<1>0. TypeInv /\ Fresh /\ OnceInv' /\ TypeInv'
  BY StepOnceInv, StepTypeInv DEF OrderInv, OnceInv
<1>1. /\ arrived \in Nat /\ Len(runs) \in Nat
      /\ sessionQueue \in [Sessions -> Seq(Item)]
  BY <1>0 DEF TypeInv, TypeOK
<1>2. \A s \in Sessions : InOrderFor(s)
  BY <1>0, InOrderUnfolds DEF OrderInv
<1>3. ASSUME MovesNone \/ SteersOne, NEW s \in Sessions
      PROVE  InOrderFor(s)'
  <2>1. sessionQueue' = sessionQueue
    BY <1>3 DEF MovesNone, SteersOne
  <2> QED BY <1>0, <1>2, <1>3, <2>1, EffectOfNone DEF SameInputs, InOrderFor, Ordered
<1>4. ASSUME NEW t \in Sessions, QueuesOne(t), NEW s \in Sessions
      PROVE  InOrderFor(s)'
  <2>e. /\ \A u \in Sessions : u # t => Waiting(u)' = Waiting(u)
        /\ Waiting(t)' \subseteq Waiting(t) \union {arrived + 1}
        /\ Len(runs') = Len(runs)
        /\ \A r \in 1..Len(runs) : Input(r)' = Input(r) /\ runs'[r].session = runs[r].session
    BY <1>0, <1>4, EffectOfQueueing DEF SameInputs
  <2>1. /\ \A u \in Sessions : \A a \in Waiting(u) : a < arrived + 1
        /\ \A r \in 1..Len(runs) : \A a \in Input(r) : a < arrived + 1
    BY <1>0, <1>1 DEF Fresh
  <2>2. sessionQueue'[s] = IF s = t THEN Queued(sessionQueue[t], arrived + 1) ELSE sessionQueue[s]
    BY <1>1, <1>4 DEF QueuesOne
  <2>3. Ordered(sessionQueue'[s])
    <3>1. Ordered(sessionQueue[s]) /\ sessionQueue[s] \in Seq(Item) /\ arrived + 1 \in Nat
      BY <1>1, <1>2 DEF InOrderFor
    <3>2. \A a \in Covered(sessionQueue[s]) : a < arrived + 1
      BY <2>1 DEF Waiting
    <3>3. Ordered(Queued(sessionQueue[s], arrived + 1))
      BY <3>1, <3>2, QueuedItems
    <3> QED BY <2>2, <3>1, <3>3
  <2> QED BY <1>2, <2>e, <2>1, <2>3 DEF InOrderFor, Ordered
<1>5. ASSUME NEW t \in Sessions, DrainsOne(t), NEW s \in Sessions
      PROVE  InOrderFor(s)'
  <2>n. PICK n \in Nat : n = Len(runs) + 1
    BY <1>1
  <2>e. /\ \A u \in Sessions : u # t => Waiting(u)' = Waiting(u)
        /\ Waiting(t)' = {}
        /\ Len(runs') = n
        /\ \A r \in 1..Len(runs) : Input(r)' = Input(r) /\ runs'[r].session = runs[r].session
        /\ Input(n)' = Waiting(t) /\ runs'[n].session = t
    BY <1>0, <1>5, <2>n, EffectOfDrain DEF SameInputs
  <2>r. \A r : r \in 1..n <=> r \in 1..Len(runs) \/ r = n
    BY <1>1, <2>n
  <2>1. sessionQueue'[s] = IF s = t THEN <<>> ELSE sessionQueue[s]
    BY <1>1, <1>5 DEF DrainsOne
  <2>2. Ordered(sessionQueue'[s])
    BY <1>2, <2>1 DEF InOrderFor, Ordered
  <2>3. ASSUME NEW r1 \in 1..n, NEW r2 \in 1..n, runs'[r1].session = s, runs'[r2].session = s, r1 < r2,
               NEW a \in Input(r1)', NEW b \in Input(r2)'
        PROVE  a < b
    <3>1. r1 \in 1..Len(runs)
      BY <1>1, <2>n, <2>3
    <3>2. CASE r2 = n
      BY <1>2, <2>e, <2>3, <3>1, <3>2 DEF InOrderFor
    <3>3. CASE r2 \in 1..Len(runs)
      BY <1>2, <2>e, <2>3, <3>1, <3>3 DEF InOrderFor
    <3> QED BY <2>r, <3>2, <3>3
  <2>4. ASSUME NEW r \in 1..n, runs'[r].session = s, NEW a \in Input(r)', NEW b \in Waiting(s)'
        PROVE  a < b
    <3>1. s # t
      BY <2>e, <2>4
    <3>2. r \in 1..Len(runs)
      BY <2>e, <2>r, <2>4, <3>1
    <3> QED BY <1>2, <2>e, <2>4, <3>1, <3>2 DEF InOrderFor
  <2> QED BY <2>e, <2>2, <2>3, <2>4 DEF InOrderFor, Ordered
<1>6. \A s \in Sessions : InOrderFor(s)'
  BY <1>0, <1>3, <1>4, <1>5, MoveLemma DEF OrderInv
<1>7. TurnsInOrder'
  <2>1. DOMAIN runs' = 1..Len(runs') /\ \A s \in Sessions : DOMAIN sessionQueue'[s] = 1..Len(sessionQueue'[s])
    BY <1>0 DEF TypeInv, TypeOK
  <2>2. \A s \in Sessions : \A r : r \in RunsOf(s)' <=> r \in 1..Len(runs') /\ runs'[r].session = s
    BY <2>1 DEF RunsOf
  <2> QED BY <1>6, <2>1, <2>2 DEF TurnsInOrder, InOrderFor, Ordered
<1> QED BY <1>0, <1>7 DEF OrderInv

(* TurnsStayInOrder: in every instance the runs of a session take its        *)
(* messages in the order of their arrival, and the queue keeps that order    *)
(* through every overflow policy.                                            *)
THEOREM TurnsStayInOrder == Spec => []TurnsInOrder
<1>1. Init => OrderInv
  <2>1. Init => \A s \in Sessions : InOrderFor(s)
    BY DEF Init, InOrderFor, Ordered, Waiting, Covered
  <2> QED BY <2>1, InitOnceInv, InitTypeInv, InOrderUnfolds DEF OrderInv
<1>2. OrderInv => TurnsInOrder
  BY DEF OrderInv
<1> QED BY <1>1, <1>2, StepOrderInv, PTL DEF Spec
-----------------------------------------------------------------------------
\* A queue never ends in an item without messages: what a drain takes is not empty.
EndsInMessage == \A s \in Sessions :
    sessionQueue[s] # <<>> => sessionQueue[s][Len(sessionQueue[s])] # {}

InboxInv == TypeInv /\ EndsInMessage

LEMMA StepInboxInv ==
    ASSUME InboxInv, [Next]_vars
    PROVE  InboxInv'
<1>1. TypeInv /\ TypeInv' /\ EndsInMessage
  BY StepTypeInv DEF InboxInv
<1>2. ASSUME NEW s \in Sessions, sessionQueue'[s] # <<>>
      PROVE  sessionQueue'[s][Len(sessionQueue'[s])] # {}
  <2>1. sessionQueue[s] \in Seq(Item)
    BY <1>1 DEF TypeInv, TypeOK
  <2>2. ASSUME NEW m \in Nat, sessionQueue'[s] = Queued(sessionQueue[s], m)
        PROVE  sessionQueue'[s][Len(sessionQueue'[s])] # {}
    BY <1>1, <2>1, <2>2, QueuedItems DEF EndsInMessage
  <2> QED BY <1>1, <1>2, <2>2, QueueSteps DEF EndsInMessage
<1> QED BY <1>1, <1>2 DEF InboxInv, EndsInMessage

\* What waits in a queue that is not empty.
LEMMA WaitingNotEmpty ==
    ASSUME InboxInv, NEW s \in Sessions, sessionQueue[s] # <<>>
    PROVE  Waiting(s) # {}
<1>1. sessionQueue[s] \in Seq(Item) /\ sessionQueue[s][Len(sessionQueue[s])] # {}
  BY DEF InboxInv, EndsInMessage, TypeInv, TypeOK
<1>2. Len(sessionQueue[s]) \in 1..Len(sessionQueue[s])
  BY <1>1
<1> QED BY <1>1, <1>2, InCovered DEF Waiting

\* The inboxes and turns of the refinement mapping.
InboxOf == [s \in Sessions |-> Waiting(s)]
TurnsOf == [s \in Sessions |-> {Input(r) : r \in RunsOf(s)}]

\* The turns of a step that keeps the runs.
LEMMA SameTurns ==
    ASSUME TypeInv, TypeInv', SameInputs, Len(runs') = Len(runs)
    PROVE  TurnsOf' = TurnsOf
<1>1. DOMAIN runs = 1..Len(runs) /\ DOMAIN runs' = 1..Len(runs)
  BY DEF TypeInv, TypeOK
<1>2. ASSUME NEW s \in Sessions
      PROVE  RunsOf(s)' = RunsOf(s) /\ {Input(r) : r \in RunsOf(s)}' = {Input(r) : r \in RunsOf(s)}
  <2>1. RunsOf(s)' = RunsOf(s) /\ \A r \in RunsOf(s) : Input(r)' = Input(r)
    BY <1>1 DEF RunsOf, SameInputs
  <2> QED BY <2>1
<1> QED BY <1>2 DEF TurnsOf

\* Every step of the queue is a step of the inbox, or none.
LEMMA StepOfInbox ==
    ASSUME InboxInv, InboxInv', [Next]_vars
    PROVE  [Inbox!Next]_(Inbox!vars)
<1>0. TypeInv /\ TypeInv' /\ InboxInv
  BY DEF InboxInv
<1>1. CASE MovesNone
  <2>1. InboxOf' = InboxOf /\ TurnsOf' = TurnsOf
    BY <1>0, <1>1, EffectOfNone, SameTurns DEF InboxOf
  <2>2. UNCHANGED <<arrived, steered, dropped>> /\ (running' = running \/ (running /\ running' = FALSE))
    <3>1. running \in BOOLEAN /\ running' \in BOOLEAN
      BY <1>0 DEF TypeInv, TypeOK
    <3> QED BY <1>1, <3>1 DEF MovesNone
  <2>3. CASE running' = running
    BY <2>1, <2>2, <2>3 DEF Inbox!vars, InboxOf, TurnsOf
  <2>4. CASE running /\ running' = FALSE
    BY <2>1, <2>2, <2>4 DEF Inbox!Next, Inbox!Close, InboxOf, TurnsOf
  <2> QED BY <2>2, <2>3, <2>4
<1>2. CASE SteersOne
  <2>1. InboxOf' = InboxOf /\ TurnsOf' = TurnsOf
    BY <1>0, <1>2, EffectOfNone, SameTurns DEF InboxOf
  <2>2. /\ arrived < MaxMessages /\ arrived' = arrived + 1
        /\ steered' = steered \union {arrived + 1}
        /\ UNCHANGED <<running, dropped>>
    BY <1>2 DEF SteersOne
  <2> QED BY <2>1, <2>2 DEF Inbox!Next, Inbox!Inject, InboxOf, TurnsOf
<1>3. ASSUME NEW s \in Sessions, QueuesOne(s)
      PROVE  Inbox!Accept(s)
  <2>1. TurnsOf' = TurnsOf
    BY <1>0, <1>3, EffectOfQueueing, SameTurns
  <2>2. PICK gone : gone = (Waiting(s) \union {arrived + 1}) \ Waiting(s)'
    OBVIOUS
  <2>3. /\ \A t \in Sessions : t # s => Waiting(t)' = Waiting(t)
        /\ Waiting(s)' = (Waiting(s) \union {arrived + 1}) \ gone
        /\ dropped' = dropped \union gone
    BY <1>0, <1>3, <2>2, EffectOfQueueing
  <2>4. InboxOf' = [InboxOf EXCEPT ![s] = (@ \union {arrived + 1}) \ gone]
    BY <2>3 DEF InboxOf
  <2>5. gone \in SUBSET (InboxOf[s] \union {arrived + 1})
    BY <2>2 DEF InboxOf
  <2>6. arrived < MaxMessages /\ arrived' = arrived + 1 /\ UNCHANGED <<running, steered>>
    BY <1>3 DEF QueuesOne
  <2> QED BY <2>1, <2>3, <2>4, <2>5, <2>6 DEF Inbox!Accept, InboxOf, TurnsOf
<1>4. ASSUME NEW s \in Sessions, DrainsOne(s)
      PROVE  Inbox!TakeTurn(s)
  <2>n. PICK n \in Nat : n = Len(runs) + 1
    BY <1>0 DEF TypeInv, TypeOK
  <2>1. /\ \A t \in Sessions : t # s => Waiting(t)' = Waiting(t)
        /\ Waiting(s)' = {}
        /\ SameInputs /\ Len(runs') = n
        /\ Input(n)' = Waiting(s) /\ runs'[n].session = s
    BY <1>0, <1>4, <2>n, EffectOfDrain
  <2>2. InboxOf' = [InboxOf EXCEPT ![s] = {}]
    BY <2>1 DEF InboxOf
  <2>3. InboxOf[s] # {}
    BY <1>0, <1>4, WaitingNotEmpty DEF DrainsOne, InboxOf
  <2>4. TurnsOf' = [TurnsOf EXCEPT ![s] = @ \union {InboxOf[s]}]
    <3>1. /\ DOMAIN runs = 1..Len(runs) /\ DOMAIN runs' = 1..n
          /\ \A r : r \in 1..n <=> r \in 1..Len(runs) \/ r = n
          /\ n \notin 1..Len(runs)
      BY <1>0, <2>n, <2>1 DEF TypeInv, TypeOK
    <3>2. ASSUME NEW t \in Sessions
          PROVE  RunsOf(t)' = IF t = s THEN RunsOf(t) \union {n} ELSE RunsOf(t)
      BY <2>1, <3>1 DEF RunsOf, SameInputs
    <3>3. \A t \in Sessions : \A r \in RunsOf(t) : Input(r)' = Input(r)
      BY <2>1, <3>1 DEF RunsOf, SameInputs
    <3>4. ASSUME NEW t \in Sessions
          PROVE  {Input(r) : r \in RunsOf(t)}' =
                   IF t = s THEN {Input(r) : r \in RunsOf(t)} \union {Waiting(s)}
                            ELSE {Input(r) : r \in RunsOf(t)}
      BY <2>1, <3>2, <3>3
    <3> QED BY <3>4 DEF TurnsOf, InboxOf
  <2>5. running /\ UNCHANGED <<arrived, running, steered, dropped>>
    <3>1. running \in BOOLEAN /\ running' \in BOOLEAN
      BY <1>0 DEF TypeInv, TypeOK
    <3> QED BY <1>4, <3>1 DEF DrainsOne
  <2> QED BY <2>2, <2>3, <2>4, <2>5 DEF Inbox!TakeTurn, InboxOf, TurnsOf
<1> QED BY <1>0, <1>1, <1>2, <1>3, <1>4, MoveLemma DEF Inbox!Next

(* ImplementsInboxSteps: the queue implements the safety part of             *)
(* SessionInbox, in every instance: turns take a whole inbox that is not     *)
(* empty, overflow costs messages of one inbox only, and no turn begins      *)
(* after stop().  (TLC checks the fairness part on an instance.)             *)
THEOREM ImplementsInboxSteps == Spec => Inbox!Safety
<1>1. Init => Inbox!Init
  <2>1. Init => InboxOf = [s \in Sessions |-> {}] /\ TurnsOf = [s \in Sessions |-> {}]
    BY DEF Init, InboxOf, TurnsOf, Waiting, Covered, RunsOf
  <2> QED BY <2>1 DEF Init, Inbox!Init, InboxOf, TurnsOf
<1>2. Init => InboxInv
  BY InitTypeInv DEF Init, InboxInv, EndsInMessage
<1> QED BY <1>1, <1>2, StepInboxInv, StepOfInbox, PTL DEF Spec, Inbox!Safety
=============================================================================
