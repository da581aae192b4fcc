----------------------- MODULE TranscriptBufferProofs -----------------------
(***************************************************************************)
(* Theorems about TranscriptBuffer, for every set of callers and speakers, *)
(* every batch size and all bounds: its types, that no chunk is lost, sent *)
(* twice or out of order, and that an entry has one speaker.               *)
(*                                                                         *)
(* What holds it together is that the lock is kept across the callback:    *)
(* while an entry is in flight nothing is pending (HeldIsEmpty), so a task *)
(* that resumes to commit its chunk starts a new text, whatever speaker    *)
(* the buffer had when it asked for the lock.                              *)
(***************************************************************************)
EXTENDS TranscriptBuffer, SequenceTheorems, TLAPS

\* The part of a sequence before a position and the part after it: a task leaves the
\* waiters for the lock.
LEMMA Halves ==
    ASSUME NEW D, NEW q \in Seq(D), NEW h \in Nat, h <= Len(q)
    PROVE  /\ SubSeq(q, 1, h) \in Seq(D) /\ Len(SubSeq(q, 1, h)) = h
           /\ \A i \in 1..h : SubSeq(q, 1, h)[i] = q[i]
           /\ SubSeq(q, h + 1, Len(q)) \in Seq(D)
           /\ Len(SubSeq(q, h + 1, Len(q))) = Len(q) - h
           /\ \A i \in 1..(Len(q) - h) : SubSeq(q, h + 1, Len(q))[i] = q[h + i]
OBVIOUS

\* Taking out the element at position h + 1.
LEMMA CutOut ==
    ASSUME NEW D, NEW q \in Seq(D), NEW h \in Nat, h + 1 <= Len(q)
    PROVE  \A p : p = SubSeq(q, 1, h) \o SubSeq(q, h + 1 + 1, Len(q)) =>
             /\ p \in Seq(D) /\ Len(p) = Len(q) - 1
             /\ \A i \in 1..h : p[i] = q[i]
             /\ \A i \in (h + 1)..(Len(q) - 1) : p[i] = q[i + 1]
<1>1. Len(q) \in Nat /\ h + 1 \in Nat /\ h <= Len(q)
  OBVIOUS
<1>2. PICK front : front = SubSeq(q, 1, h)
  OBVIOUS
<1>3. PICK back : back = SubSeq(q, h + 1 + 1, Len(q))
  OBVIOUS
<1>f. front \in Seq(D) /\ Len(front) = h /\ \A i \in 1..h : front[i] = q[i]
  BY <1>1, <1>2, Halves
<1>b. /\ back \in Seq(D) /\ Len(back) = Len(q) - (h + 1)
      /\ \A i \in 1..(Len(q) - (h + 1)) : back[i] = q[h + 1 + i]
  <2>1. /\ SubSeq(q, h + 1 + 1, Len(q)) \in Seq(D)
        /\ Len(SubSeq(q, h + 1 + 1, Len(q))) = Len(q) - (h + 1)
        /\ \A i \in 1..(Len(q) - (h + 1)) : SubSeq(q, h + 1 + 1, Len(q))[i] = q[h + 1 + i]
    BY <1>1, Halves
  <2> QED BY <1>3, <2>1
<1>4. PICK p : p = front \o back
  OBVIOUS
<1>c. /\ p \in Seq(D) /\ Len(p) = Len(front) + Len(back)
      /\ \A i \in 1..(Len(front) + Len(back)) :
           p[i] = IF i <= Len(front) THEN front[i] ELSE back[i - Len(front)]
  BY <1>f, <1>b, <1>4, ConcatProperties
<1>5. Len(p) = Len(q) - 1 /\ Len(front) + Len(back) = Len(q) - 1
  BY <1>1, <1>f, <1>b, <1>c
<1>6. \A i \in 1..h : p[i] = q[i]
  BY <1>1, <1>f, <1>c, <1>5
<1>7. ASSUME NEW i \in (h + 1)..(Len(q) - 1)
      PROVE  p[i] = q[i + 1]
  <2>1. i - h \in 1..(Len(q) - (h + 1)) /\ h + 1 + (i - h) = i + 1
    BY <1>1
  <2>2. p[i] = back[i - h]
    BY <1>1, <1>f, <1>c, <1>5
  <2> QED BY <1>b, <2>1, <2>2
<1>8. \A r : r = SubSeq(q, 1, h) \o SubSeq(q, h + 1 + 1, Len(q)) => r = p
  BY <1>2, <1>3, <1>4
<1> QED BY <1>c, <1>5, <1>6, <1>7, <1>8
-----------------------------------------------------------------------------
Buffer == [speaker : Label, pending : Seq(Nat), timer : {"off", "armed", "due"}]
Flight == [speaker : Label, text : Text, waits : CallbackWaits]

HeldIsEmpty == holder # Nobody => buf.pending = <<>>

OnceTimer(q) == \A i, j \in DOMAIN q : q[i] = Timer /\ q[j] = Timer => i = j
TimerIn(q) == \E i \in DOMAIN q : q[i] = Timer

\* The timer task waits for the lock exactly when its sleep is over, once, and
\* there is a timer exactly while text is pending.
TimerWaits ==
    /\ OnceTimer(lockQueue)
    /\ TimerIn(lockQueue) <=> buf.timer = "due"
    /\ buf.timer = "off" <=> buf.pending = <<>>

TypeInv == TypeOK /\ HeldIsEmpty /\ TimerWaits

\* A text has numbers of committed chunks, whose labels agree with its own.
Labelled(cs, text, speaker) ==
    \A i \in DOMAIN text : text[i] \in 1..Len(cs) /\ cs[text[i]].speaker \in {NoSpeaker, speaker}

AllLabelled ==
    /\ \A n \in DOMAIN entries : Labelled(chunks, entries[n].text, entries[n].speaker)
    /\ Labelled(chunks, inflight.text, inflight.speaker)
    /\ Labelled(chunks, buf.pending, buf.speaker)

BufferInv == TypeInv /\ NothingLost /\ AllLabelled
-----------------------------------------------------------------------------
\* Cancelling the timer takes it out of the waiters.
LEMMA TimerLeaves ==
    ASSUME NEW q \in Seq(Tasks), OnceTimer(q)
    PROVE  \A p : p = RemoveFirst(q, Timer) => p \in Seq(Tasks) /\ ~TimerIn(p)
<1>0. Len(q) \in Nat /\ DOMAIN q = 1..Len(q)
  OBVIOUS
<1>1. CASE \E i \in 1..Len(q) : q[i] = Timer
  <2>1. PICK at \in 1..Len(q) : q[at] = Timer
    BY <1>1
  <2>2. SelectInSeq(q, LAMBDA v : v = Timer) = at
    <3>1. {i \in 1..Len(q) : q[i] = Timer} = {at}
      BY <1>0, <2>1 DEF OnceTimer
    <3>2. Min({at}) = at
      BY DEF Min
    <3> QED BY <3>1, <3>2 DEF SelectInSeq
  <2>3. PICK h \in Nat : at = h + 1 /\ at - 1 = h /\ h + 1 <= Len(q)
    <3>1. at - 1 \in Nat /\ at = (at - 1) + 1 /\ (at - 1) + 1 <= Len(q)
      BY <1>0
    <3> QED BY <3>1
  <2>4. ASSUME NEW p, p = RemoveFirst(q, Timer)
        PROVE  p \in Seq(Tasks) /\ ~TimerIn(p)
    <3>1. p = RemoveAt(q, at)
      BY <1>1, <2>2, <2>4 DEF RemoveFirst
    <3>2. p = SubSeq(q, 1, at - 1) \o SubSeq(q, at + 1, Len(q))
      BY <3>1 DEF RemoveAt
    <3>3. p = SubSeq(q, 1, h) \o SubSeq(q, h + 1 + 1, Len(q))
      <4>1. at - 1 = h /\ at + 1 = h + 1 + 1
        BY <2>3
      <4> QED BY <3>2, <4>1
    <3>4. /\ p \in Seq(Tasks) /\ Len(p) = Len(q) - 1
          /\ \A i \in 1..h : p[i] = q[i]
          /\ \A i \in (h + 1)..(Len(q) - 1) : p[i] = q[i + 1]
      <4>1. \A r : r = SubSeq(q, 1, h) \o SubSeq(q, h + 1 + 1, Len(q)) =>
              /\ r \in Seq(Tasks) /\ Len(r) = Len(q) - 1
              /\ \A i \in 1..h : r[i] = q[i]
              /\ \A i \in (h + 1)..(Len(q) - 1) : r[i] = q[i + 1]
        BY <2>3, CutOut, Zenon
      <4> QED BY <3>3, <4>1, Zenon
    <3>5. ASSUME NEW i \in DOMAIN p
          PROVE  p[i] # Timer
      <4>1. i \in 1..(Len(q) - 1)
        BY <1>0, <3>4
      <4>2. CASE i <= h
        <5>1. i \in 1..h /\ i \in DOMAIN q /\ i # at
          BY <1>0, <2>3, <4>1, <4>2
        <5> QED BY <1>0, <2>1, <3>4, <5>1 DEF OnceTimer
      <4>3. CASE ~(i <= h)
        <5>1. i \in (h + 1)..(Len(q) - 1) /\ i + 1 \in DOMAIN q /\ i + 1 # at
          BY <1>0, <2>3, <4>1, <4>3
        <5> QED BY <1>0, <2>1, <3>4, <5>1 DEF OnceTimer
      <4> QED BY <4>2, <4>3
    <3> QED BY <3>4, <3>5 DEF TimerIn
  <2> QED BY <2>4
<1>2. CASE ~\E i \in 1..Len(q) : q[i] = Timer
  BY <1>0, <1>2 DEF RemoveFirst, TimerIn
<1> QED BY <1>1, <1>2

\* Who waits behind the head of the queue.
LEMMA BehindHead ==
    ASSUME NEW q \in Seq(Tasks), q # <<>>
    PROVE  /\ Head(q) \in Tasks /\ Tail(q) \in Seq(Tasks)
           /\ OnceTimer(q) => OnceTimer(Tail(q))
           /\ Head(q) # Timer => (TimerIn(Tail(q)) <=> TimerIn(q))
           /\ Head(q) = Timer => TimerIn(q)
<1>1. PICK r : r = Tail(q)
  OBVIOUS
<1>2. /\ r \in Seq(Tasks) /\ Len(r) = Len(q) - 1 /\ Len(q) \in Nat /\ Len(q) > 0
      /\ DOMAIN q = 1..Len(q) /\ DOMAIN r = 1..(Len(q) - 1)
      /\ Head(q) = q[1] /\ \A i \in 1..(Len(q) - 1) : r[i] = q[i + 1]
  BY <1>1, HeadTailProperties
<1>3. \A i \in DOMAIN r : i + 1 \in DOMAIN q /\ r[i] = q[i + 1]
  BY <1>2
<1>4. OnceTimer(q) => OnceTimer(r)
  <2> SUFFICES ASSUME OnceTimer(q), NEW i \in DOMAIN r, NEW j \in DOMAIN r, r[i] = Timer, r[j] = Timer
               PROVE  i = j
    BY DEF OnceTimer
  <2>1. i + 1 = j + 1
    BY <1>3 DEF OnceTimer
  <2> QED BY <1>2, <2>1
<1>5. 1 \in DOMAIN q
  BY <1>2
<1>6. \A i \in DOMAIN q : i # 1 => i - 1 \in DOMAIN r /\ r[i - 1] = q[i]
  <2>1. ASSUME NEW i \in DOMAIN q, i # 1
        PROVE  i - 1 \in DOMAIN r /\ r[i - 1] = q[i]
    <3>1. i - 1 \in 1..(Len(q) - 1) /\ (i - 1) + 1 = i
      BY <1>2, <2>1
    <3> QED BY <1>2, <3>1
  <2> QED BY <2>1
<1>7. Head(q) # Timer => (TimerIn(r) <=> TimerIn(q))
  BY <1>2, <1>3, <1>6 DEF TimerIn
<1>8. Head(q) \in Tasks
  BY <1>2, <1>5
<1> QED BY <1>1, <1>2, <1>4, <1>5, <1>7, <1>8 DEF TimerIn

\* One waiter more.
LEMMA OneMore ==
    ASSUME NEW q \in Seq(Tasks), NEW a \in Tasks
    PROVE  /\ Append(q, a) \in Seq(Tasks)
           /\ a # Timer => /\ TimerIn(Append(q, a)) <=> TimerIn(q)
                           /\ OnceTimer(q) => OnceTimer(Append(q, a))
           /\ a = Timer => /\ TimerIn(Append(q, a))
                           /\ ~TimerIn(q) => OnceTimer(Append(q, a))
<1>1. PICK r : r = Append(q, a)
  OBVIOUS
<1>2. /\ r \in Seq(Tasks) /\ Len(q) \in Nat /\ DOMAIN q = 1..Len(q) /\ DOMAIN r = 1..(Len(q) + 1)
      /\ r[Len(q) + 1] = a /\ \A i \in DOMAIN q : r[i] = q[i]
  BY <1>1
<1>3. \A i \in DOMAIN r : i \in DOMAIN q \/ i = Len(q) + 1
  BY <1>2
<1>4. DOMAIN q \subseteq DOMAIN r /\ Len(q) + 1 \in DOMAIN r
  BY <1>2
<1> QED BY <1>1, <1>2, <1>3, <1>4 DEF TimerIn, OnceTimer

-----------------------------------------------------------------------------
(* What the parts of a critical section do.                                *)

\* Where a critical section begins: n chunks have been sent, and what is pending
\* follows them.
Ready(n, q) ==
    /\ n \in Nat /\ q \in Seq(Tasks) /\ OnceTimer(q)
    /\ chunks \in Seq(Chunk) /\ buf \in Buffer /\ job \in [Callers -> Job]
    /\ buf.timer = "off" <=> buf.pending = <<>>
    /\ Follows(buf.pending, n) /\ n + Len(buf.pending) = Len(chunks)
    /\ Labelled(chunks, buf.pending, buf.speaker)

\* Where it ends, or waits for the callback.
Done(n, old) ==
    /\ chunks' \in Seq(Chunk) /\ buf' \in Buffer /\ job' \in [Callers -> Job]
    /\ lockQueue' \in Seq(Tasks) /\ OnceTimer(lockQueue')
    /\ TimerIn(lockQueue') <=> buf'.timer = "due"
    /\ buf'.timer = "off" <=> buf'.pending = <<>>
    /\ holder' \in Tasks \union {Nobody}
    /\ IF holder' = Nobody THEN inflight' = NoEntry ELSE inflight' \in Flight
    /\ holder' # Nobody => buf'.pending = <<>>
    /\ Len(old) <= Len(chunks') /\ \A i \in DOMAIN old : chunks'[i] = old[i]
    /\ Follows(inflight'.text, n) /\ Follows(buf'.pending, n + Len(inflight'.text))
    /\ n + Len(inflight'.text) + Len(buf'.pending) = Len(chunks')
    /\ Labelled(chunks', inflight'.text, inflight'.speaker)
    /\ Labelled(chunks', buf'.pending, buf'.speaker)

LEMMA NoEntryText ==
    /\ NoEntry.text = <<>> /\ NoEntry.speaker = NoSpeaker /\ Len(NoEntry.text) = 0
    /\ \A n \in Nat : Follows(NoEntry.text, n)
    /\ \A cs : \A s : Labelled(cs, NoEntry.text, s)
    /\ DOMAIN <<>> = {} /\ \A n \in Nat : Follows(<<>>, n)
<1>1. NoEntry.text = <<>> /\ NoEntry.speaker = NoSpeaker
  BY DEF NoEntry
<1>2. DOMAIN <<>> = {} /\ Len(<<>>) = 0
  OBVIOUS
<1>3. \A n \in Nat : Follows(<<>>, n)
  BY <1>2 DEF Follows
<1> QED BY <1>1, <1>2, <1>3 DEF Labelled

\* The pending text b.pending is taken and its callback called.
LEMMA FlushBegins ==
    ASSUME NEW a \in Tasks, NEW b \in Buffer, b.pending # <<>>,
           NEW q \in Seq(Tasks), OnceTimer(q), BeginFlush(a, b, q)
    PROVE  /\ inflight' \in Flight /\ inflight'.text = b.pending /\ inflight'.speaker = b.speaker
           /\ buf' \in Buffer /\ buf'.pending = <<>> /\ buf'.timer = "off" /\ holder' = a
           /\ lockQueue' \in Seq(Tasks) /\ ~TimerIn(lockQueue') /\ OnceTimer(lockQueue')
<1>1. PICK w \in CallbackWaits : inflight' = [speaker |-> b.speaker, text |-> b.pending, waits |-> w]
  BY DEF BeginFlush
<1>2. b.pending \in Seq(Nat) /\ b.speaker \in Label
  BY DEF Buffer
<1>3. inflight' \in Flight /\ inflight'.text = b.pending /\ inflight'.speaker = b.speaker
  BY <1>1, <1>2 DEF Flight, Text
<1>4. buf' = [b EXCEPT !.pending = <<>>, !.timer = "off"] /\ holder' = a
      /\ lockQueue' = RemoveFirst(q, Timer)
  BY DEF BeginFlush, Taken
<1>5. <<>> \in Seq(Nat)
  OBVIOUS
<1>6. buf' \in Buffer /\ buf'.pending = <<>> /\ buf'.timer = "off"
  BY <1>4, <1>5 DEF Buffer
<1>7. lockQueue' \in Seq(Tasks) /\ ~TimerIn(lockQueue')
  BY <1>4, TimerLeaves
<1> QED BY <1>3, <1>4, <1>6, <1>7 DEF OnceTimer, TimerIn

\* A critical section that flushes at once.
LEMMA FlushReady ==
    ASSUME NEW n, NEW q, Ready(n, q), NEW a \in Tasks, HasText, BeginFlush(a, buf, q),
           UNCHANGED <<chunks, job>>
    PROVE  Done(n, chunks)
<1>1. n \in Nat /\ q \in Seq(Tasks) /\ OnceTimer(q) /\ buf \in Buffer /\ buf.pending # <<>>
  BY DEF Ready, HasText
<1>2. /\ inflight' \in Flight /\ inflight'.text = buf.pending /\ inflight'.speaker = buf.speaker
      /\ buf' \in Buffer /\ buf'.pending = <<>> /\ buf'.timer = "off" /\ holder' = a
      /\ lockQueue' \in Seq(Tasks) /\ ~TimerIn(lockQueue') /\ OnceTimer(lockQueue')
  BY <1>1, FlushBegins
<1>3. buf.pending \in Seq(Nat)
  BY <1>1 DEF Buffer
<1>4. Len(buf.pending) \in Nat
  BY <1>3
<1>5. Follows(<<>>, n + Len(buf.pending)) /\ Labelled(chunks', <<>>, buf'.speaker) /\ Len(<<>>) = 0
  BY <1>1, <1>4, NoEntryText DEF Labelled
<1>6. a # Nobody
  BY BufferAssumption DEF Tasks
<1>7. Len(chunks) \in Nat
  BY DEF Ready
<1> QED BY <1>1, <1>2, <1>4, <1>5, <1>6, <1>7 DEF Done, Ready

\* A chunk is committed: it goes behind what is pending, and starts a new text
\* if its speaker is another.
LEMMA CommitReady ==
    ASSUME NEW n, NEW q, Ready(n, q), TimerIn(q) <=> buf.timer = "due",
           NEW c \in Callers, job[c].op = "commit",
           HasText => ~SpeakerChanged(job[c].chunk), Commit(c, q)
    PROVE  Done(n, chunks)
<1>1. /\ n \in Nat /\ q \in Seq(Tasks) /\ OnceTimer(q)
      /\ chunks \in Seq(Chunk) /\ buf \in Buffer /\ job \in [Callers -> Job]
      /\ buf.timer = "off" <=> buf.pending = <<>>
      /\ n + Len(buf.pending) = Len(chunks)
  BY DEF Ready
<1>k. PICK k : k = job[c].chunk
  OBVIOUS
<1>2. k \in Chunk
  BY <1>1, <1>k DEF Job
<1>c. PICK cs : cs = Append(chunks, k)
  OBVIOUS
<1>3. /\ cs \in Seq(Chunk) /\ Len(cs) = Len(chunks) + 1 /\ cs[Len(chunks) + 1] = k
      /\ \A i \in DOMAIN chunks : cs[i] = chunks[i]
      /\ DOMAIN chunks = 1..Len(chunks) /\ Len(chunks) \in Nat
  BY <1>1, <1>2, <1>c
<1>b. PICK b : b = [speaker |-> IF k.speaker # NoSpeaker THEN k.speaker ELSE buf.speaker,
                    pending |-> Append(buf.pending, Len(cs)),
                    timer |-> TimerAfterCommit(buf)]
  OBVIOUS
<1>p. buf.pending \in Seq(Nat) /\ buf.speaker \in Label /\ buf.timer \in {"off", "armed", "due"}
  BY <1>1 DEF Buffer
<1>x. PICK x : x = Append(buf.pending, Len(cs))
  OBVIOUS
<1>4. /\ x \in Seq(Nat) /\ x # <<>> /\ Len(x) = Len(buf.pending) + 1
      /\ Len(buf.pending) \in Nat
      /\ DOMAIN x = 1..(Len(buf.pending) + 1) /\ DOMAIN buf.pending = 1..Len(buf.pending)
      /\ x[Len(buf.pending) + 1] = Len(cs)
      /\ \A i \in DOMAIN buf.pending : x[i] = buf.pending[i]
  <2>1. Len(cs) \in Nat
    BY <1>3
  <2> QED BY <1>p, <1>x, <2>1
<1>5. /\ b \in Buffer /\ b.pending = x
      /\ b.speaker = (IF k.speaker # NoSpeaker THEN k.speaker ELSE buf.speaker)
      /\ b.timer = (IF buf.pending = <<>> THEN "armed" ELSE buf.timer)
  <2>1. k.speaker \in Label
    BY <1>2 DEF Chunk
  <2> QED BY <1>b, <1>p, <1>x, <1>4, <2>1 DEF Buffer, TimerAfterCommit
<1>6. Follows(x, n)
  <2>1. \A i \in DOMAIN buf.pending : buf.pending[i] = n + i
    BY DEF Ready, Follows
  <2>2. ASSUME NEW i \in DOMAIN x
        PROVE  x[i] = n + i
    <3>1. CASE i \in DOMAIN buf.pending
      BY <1>4, <2>1, <3>1
    <3>2. CASE i \notin DOMAIN buf.pending
      <4>1. i = Len(buf.pending) + 1
        BY <1>4, <3>2
      <4>2. x[i] = Len(cs)
        BY <1>4, <4>1
      <4>3. PICK m \in Nat : m = Len(buf.pending)
        BY <1>4
      <4>4. n + m = Len(chunks) /\ Len(cs) = Len(chunks) + 1 /\ i = m + 1
        BY <1>1, <1>3, <4>1, <4>3
      <4>5. Len(cs) = n + i
        BY <1>1, <4>3, <4>4
      <4> QED BY <4>2, <4>5
    <3> QED BY <3>1, <3>2
  <2>3. x = [i \in DOMAIN x |-> x[i]]
    BY <1>4
  <2>4. [i \in DOMAIN x |-> x[i]] = [i \in DOMAIN x |-> n + i]
    BY <2>2
  <2>5. x = [i \in DOMAIN x |-> n + i]
    BY <2>3, <2>4, Zenon
  <2> QED BY <2>5 DEF Follows
<1>7. n + Len(x) = Len(cs) /\ n + Len(x) \in Nat
  <2>1. PICK m \in Nat : m = Len(buf.pending)
    BY <1>4
  <2>2. n + m = Len(chunks) /\ Len(cs) = Len(chunks) + 1 /\ Len(x) = m + 1 /\ n \in Nat
    BY <1>1, <1>3, <1>4, <2>1
  <2> QED BY <2>1, <2>2
<1>8. Labelled(cs, x, b.speaker)
  <2>1. ASSUME NEW i \in DOMAIN x
        PROVE  x[i] \in 1..Len(cs) /\ cs[x[i]].speaker \in {NoSpeaker, b.speaker}
    <3>1. CASE i \in DOMAIN buf.pending
      <4>1. /\ buf.pending[i] \in 1..Len(chunks)
            /\ chunks[buf.pending[i]].speaker \in {NoSpeaker, buf.speaker}
        BY <3>1 DEF Ready, Labelled
      <4>2. k.speaker = NoSpeaker \/ k.speaker = buf.speaker
        BY <1>4, <1>k, <3>1 DEF HasText, SpeakerChanged
      <4>3. b.speaker = buf.speaker
        BY <1>5, <4>2
      <4> QED BY <1>3, <1>4, <3>1, <4>1, <4>3
    <3>2. CASE i \notin DOMAIN buf.pending
      <4>1. x[i] = Len(cs)
        BY <1>4, <3>2
      <4> QED BY <1>3, <1>5, <4>1
    <3> QED BY <3>1, <3>2
  <2> QED BY <2>1 DEF Labelled
<1>9. chunks' = cs /\ Len(chunks) <= Len(chunks') /\ \A i \in DOMAIN chunks : chunks'[i] = chunks[i]
  BY <1>3, <1>c, <1>k DEF Commit
<1>10. /\ [job EXCEPT ![c] = [op |-> "flush"]] \in [Callers -> Job]
       /\ [job EXCEPT ![c] = Idle] \in [Callers -> Job]
  BY <1>1 DEF Job, Idle
<1>11. CASE /\ BeginFlush(c, b, q) /\ job' = [job EXCEPT ![c] = [op |-> "flush"]]
  <2>1. c \in Tasks /\ c # Nobody /\ b.pending # <<>>
    BY <1>4, <1>5, BufferAssumption DEF Tasks
  <2>2. /\ inflight' \in Flight /\ inflight'.text = x /\ inflight'.speaker = b.speaker
        /\ buf' \in Buffer /\ buf'.pending = <<>> /\ buf'.timer = "off" /\ holder' = c
        /\ lockQueue' \in Seq(Tasks) /\ ~TimerIn(lockQueue') /\ OnceTimer(lockQueue')
    <3>1. /\ inflight' \in Flight /\ inflight'.text = b.pending /\ inflight'.speaker = b.speaker
          /\ buf' \in Buffer /\ buf'.pending = <<>> /\ buf'.timer = "off" /\ holder' = c
          /\ lockQueue' \in Seq(Tasks) /\ ~TimerIn(lockQueue') /\ OnceTimer(lockQueue')
      <4>1. b \in Buffer /\ q \in Seq(Tasks) /\ OnceTimer(q) /\ BeginFlush(c, b, q)
        BY <1>1, <1>5, <1>11
      <4> QED BY <2>1, <4>1, FlushBegins
    <3> QED BY <1>5, <3>1
  <2>3. /\ Follows(<<>>, n + Len(x)) /\ Labelled(chunks', <<>>, buf'.speaker) /\ Len(<<>>) = 0
        /\ n + Len(x) + 0 = Len(cs)
    <3>1. Follows(<<>>, n + Len(x))
      BY <1>7, NoEntryText
    <3>2. Labelled(chunks', <<>>, buf'.speaker)
      BY NoEntryText DEF Labelled
    <3>3. Len(<<>>) = 0
      OBVIOUS
    <3>4. n + Len(x) + 0 = Len(cs)
      BY <1>7
    <3> QED BY <3>1, <3>2, <3>3, <3>4
  <2>4. job' \in [Callers -> Job]
    BY <1>10, <1>11
  <2> QED BY <1>3, <1>6, <1>8, <1>9, <2>1, <2>2, <2>3, <2>4 DEF Done
<1>12. CASE /\ buf' = b /\ job' = [job EXCEPT ![c] = Idle]
            /\ holder' = Nobody /\ lockQueue' = q /\ inflight' = NoEntry
  <2>1. /\ buf'.timer = "off" <=> buf'.pending = <<>>
        /\ TimerIn(lockQueue') <=> buf'.timer = "due"
    BY <1>1, <1>4, <1>5, <1>12
  <2>2. /\ inflight'.text = <<>> /\ Len(inflight'.text) = 0 /\ Follows(inflight'.text, n)
        /\ Labelled(chunks', inflight'.text, inflight'.speaker)
        /\ n + 0 = n
    BY <1>1, <1>12, NoEntryText
  <2>3. /\ Follows(buf'.pending, n + Len(inflight'.text))
        /\ n + Len(inflight'.text) + Len(buf'.pending) = Len(chunks')
        /\ Labelled(chunks', buf'.pending, buf'.speaker)
    BY <1>5, <1>6, <1>7, <1>8, <1>9, <1>12, <2>2
  <2>4. job' \in [Callers -> Job]
    BY <1>10, <1>12
  <2> QED BY <1>1, <1>3, <1>5, <1>9, <1>12, <2>1, <2>2, <2>3, <2>4 DEF Done
<1> QED BY <1>b, <1>c, <1>k, <1>11, <1>12 DEF Commit

\* The lock is left with nothing pending.
LEMMA LeaveReady ==
    ASSUME NEW n, NEW q, Ready(n, q), TimerIn(q) <=> buf.timer = "due",
           NEW a \in Tasks, buf.pending = <<>> \/ (a # Timer /\ job[a].op # "close"), Leave(a, q)
    PROVE  Done(n, chunks)
<1>1. /\ n \in Nat /\ q \in Seq(Tasks) /\ OnceTimer(q)
      /\ chunks \in Seq(Chunk) /\ buf \in Buffer /\ job \in [Callers -> Job]
      /\ buf.timer = "off" <=> buf.pending = <<>>
  BY DEF Ready
<1>2. buf' = buf
  <2>1. CASE a = Timer \/ (a # Timer /\ job[a].op = "close")
    <3>1. buf.timer = "off" /\ buf' = [buf EXCEPT !.timer = "off"]
      BY <1>1, <2>1 DEF Leave
    <3> QED BY <1>1, <3>1 DEF Buffer
  <2>2. CASE ~(a = Timer \/ (a # Timer /\ job[a].op = "close"))
    BY <2>2 DEF Leave
  <2> QED BY <2>1, <2>2
<1>3. /\ holder' = Nobody /\ lockQueue' = q /\ inflight' = NoEntry /\ UNCHANGED chunks
      /\ job' = IF a = Timer THEN job ELSE [job EXCEPT ![a] = Idle]
  BY DEF Leave, Released
<1>4. job' \in [Callers -> Job]
  BY <1>1, <1>3 DEF Job, Idle
<1>5. /\ inflight'.text = <<>> /\ Len(inflight'.text) = 0 /\ Follows(inflight'.text, n)
      /\ Labelled(chunks', inflight'.text, inflight'.speaker) /\ n + 0 = n
  BY <1>1, <1>3, NoEntryText
<1>6. Len(chunks) \in Nat
  BY <1>1
<1> QED BY <1>1, <1>2, <1>3, <1>4, <1>5, <1>6 DEF Done, Ready

-----------------------------------------------------------------------------
(* The entries that have been sent.                                        *)

Entry == [speaker : Label, text : Text, cut : BOOLEAN]

\* The last chunk of the first n entries of es.
LastOf(es, n) == IF n = 0 THEN 0 ELSE Last(es[n].text)

\* es has sent the chunks up to number n.
Sent(es, n) ==
    /\ es \in Seq(Entry) /\ n \in Nat
    /\ LastOf(es, Len(es)) = n
    /\ \A k \in DOMAIN es : /\ Follows(es[k].text, LastOf(es, k - 1))
                            /\ Labelled(chunks, es[k].text, es[k].speaker)

LEMMA TextEnds ==
    ASSUME NEW text \in Text
    PROVE  Len(text) \in Nat \ {0} /\ Len(text) \in DOMAIN text /\ Last(text) \in Nat
<1>1. text \in Seq(Nat) /\ text # <<>>
  BY DEF Text
<1>2. Len(text) \in Nat \ {0} /\ DOMAIN text = 1..Len(text)
  BY <1>1
<1>3. Len(text) \in DOMAIN text
  BY <1>2
<1> QED BY <1>1, <1>2, <1>3 DEF Last

LEMMA WhatIsSent ==
    ASSUME BufferInv
    PROVE  Sent(entries, After(Len(entries)))
<1>1. entries \in Seq(Entry)
  BY DEF BufferInv, TypeInv, TypeOK, Entry
<1>2. Len(entries) \in Nat /\ DOMAIN entries = 1..Len(entries)
  BY <1>1
<1>3. After(Len(entries)) \in Nat
  <2>1. CASE Len(entries) = 0
    BY <2>1 DEF After
  <2>2. CASE Len(entries) # 0
    <3>1. Len(entries) \in 1..Len(entries)
      BY <1>2, <2>2
    <3>2. entries[Len(entries)].text \in Text
      <4>1. entries[Len(entries)] \in Entry
        BY <1>1, <3>1
      <4> QED BY <4>1 DEF Entry
    <3> QED BY <2>2, <3>2, TextEnds DEF After
  <2> QED BY <2>1, <2>2
<1>4. \A k \in DOMAIN entries : Follows(entries[k].text, LastOf(entries, k - 1))
  BY DEF BufferInv, NothingLost, After, LastOf
<1>5. \A k \in DOMAIN entries : Labelled(chunks, entries[k].text, entries[k].speaker)
  BY DEF BufferInv, AllLabelled
<1>6. LastOf(entries, Len(entries)) = After(Len(entries))
  BY DEF After, LastOf
<1> QED BY <1>1, <1>3, <1>4, <1>5, <1>6 DEF Sent

\* The callback of one entry more has ended.
LEMMA OneEntryMore ==
    ASSUME NEW n, Sent(entries, n), NEW e \in Entry,
           Follows(e.text, n), Labelled(chunks, e.text, e.speaker)
    PROVE  Sent(Append(entries, e), n + Len(e.text))
<1>1. entries \in Seq(Entry) /\ n \in Nat /\ LastOf(entries, Len(entries)) = n
  BY DEF Sent
<1>2. PICK es : es = Append(entries, e)
  OBVIOUS
<1>3. /\ es \in Seq(Entry) /\ Len(es) = Len(entries) + 1 /\ Len(entries) \in Nat
      /\ DOMAIN entries = 1..Len(entries) /\ DOMAIN es = 1..(Len(entries) + 1)
      /\ es[Len(entries) + 1] = e /\ \A i \in DOMAIN entries : es[i] = entries[i]
  BY <1>1, <1>2
<1>4. e.text \in Text
  BY DEF Entry
<1>5. /\ Len(e.text) \in Nat \ {0} /\ Len(e.text) \in DOMAIN e.text
  BY <1>4, TextEnds
<1>6. Last(e.text) = n + Len(e.text) /\ n + Len(e.text) \in Nat
  <2>1. \A i \in DOMAIN e.text : e.text[i] = n + i
    BY DEF Follows
  <2>2. e.text[Len(e.text)] = n + Len(e.text)
    BY <1>5, <2>1
  <2>3. n + Len(e.text) \in Nat
    BY <1>1, <1>5
  <2> QED BY <2>2, <2>3 DEF Last
<1>7. LastOf(es, Len(es)) = n + Len(e.text)
  BY <1>3, <1>6 DEF LastOf
<1>8. \A k \in 0..Len(entries) : LastOf(es, k) = LastOf(entries, k)
  BY <1>3 DEF LastOf
<1>9. ASSUME NEW k \in DOMAIN es
      PROVE  Follows(es[k].text, LastOf(es, k - 1)) /\ Labelled(chunks, es[k].text, es[k].speaker)
  <2>1. CASE k \in DOMAIN entries
    <3>1. k - 1 \in 0..Len(entries)
      BY <1>3, <2>1
    <3>2. es[k] = entries[k] /\ LastOf(es, k - 1) = LastOf(entries, k - 1)
      BY <1>3, <1>8, <2>1, <3>1
    <3> QED BY <2>1, <3>2 DEF Sent
  <2>2. CASE k \notin DOMAIN entries
    <3>1. k = Len(entries) + 1 /\ k - 1 = Len(entries) /\ Len(entries) \in 0..Len(entries)
      BY <1>3, <2>2
    <3>2. LastOf(es, k - 1) = n
      BY <1>1, <1>8, <3>1
    <3>3. es[k] = e
      BY <1>3, <3>1
    <3> QED BY <3>2, <3>3
  <2> QED BY <2>1, <2>2
<1>10. Sent(es, n + Len(e.text))
  BY <1>3, <1>6, <1>7, <1>9 DEF Sent
<1> QED BY <1>2, <1>10

\* The invariant, after a critical section.
LEMMA DoneKeeps ==
    ASSUME NEW n, Sent(entries', n), Done(n, chunks), chunks \in Seq(Chunk),
           fed' \in 0..MaxChunks, forced' \in 0..MaxForced
    PROVE  BufferInv'
<1>1. TypeOK'
  BY DEF TypeOK, Sent, Done, Entry, Buffer, Flight
<1>2. TypeInv'
  BY <1>1 DEF TypeInv, HeldIsEmpty, TimerWaits, Done
<1>3. /\ entries' \in Seq(Entry) /\ n \in Nat /\ After(Len(entries))' = n
      /\ \A k \in DOMAIN entries' : Follows(entries'[k].text, After(k - 1)')
  BY DEF Sent, LastOf, After
<1>4. NothingLost'
  BY <1>3 DEF NothingLost, Done
<1>5. /\ Len(chunks) <= Len(chunks') /\ \A i \in DOMAIN chunks : chunks'[i] = chunks[i]
      /\ Len(chunks) \in Nat /\ Len(chunks') \in Nat /\ DOMAIN chunks = 1..Len(chunks)
  BY DEF Done
<1>6. \A text, s : Labelled(chunks, text, s) => Labelled(chunks', text, s)
  BY <1>5 DEF Labelled
<1>7. AllLabelled'
  BY <1>6 DEF AllLabelled, Sent, Done
<1> QED BY <1>2, <1>4, <1>7 DEF BufferInv

-----------------------------------------------------------------------------
(* The actions.                                                            *)

LEMMA InitBuffer ==
    ASSUME Init
    PROVE  BufferInv
<1>1. DOMAIN <<>> = {} /\ Len(<<>>) = 0 /\ \A S : <<>> \in Seq(S)
  OBVIOUS
<1>2. TypeOK
  BY <1>1, BufferAssumption DEF Init, TypeOK, Label, Job, Idle
<1>3. TypeInv
  BY <1>1, <1>2 DEF Init, TypeInv, HeldIsEmpty, TimerWaits, OnceTimer, TimerIn
<1>4. After(Len(entries)) = 0 /\ Len(inflight.text) = 0
  BY <1>1, NoEntryText DEF Init, After
<1>5. NothingLost
  BY <1>1, <1>4, NoEntryText DEF Init, NothingLost
<1>6. AllLabelled
  BY <1>1, NoEntryText DEF Init, AllLabelled, Labelled
<1> QED BY <1>3, <1>5, <1>6 DEF BufferInv

\* Only the waiters and what they wait for have changed.
LEMMA OnlyWaiters ==
    ASSUME BufferInv, UNCHANGED <<chunks, buf, holder, inflight, entries>>,
           fed' \in 0..MaxChunks, forced' \in 0..MaxForced, job' \in [Callers -> Job],
           NEW c \in Callers, lockQueue' = Append(lockQueue, c)
    PROVE  BufferInv'
<1>1. TypeOK /\ HeldIsEmpty /\ TimerWaits
  BY DEF BufferInv, TypeInv
<1>2. c \in Tasks /\ c # Timer
  BY BufferAssumption DEF Tasks
<1>3. lockQueue \in Seq(Tasks)
  BY <1>1 DEF TypeOK
<1>4. /\ lockQueue' \in Seq(Tasks)
      /\ TimerIn(lockQueue') <=> TimerIn(lockQueue)
      /\ OnceTimer(lockQueue) => OnceTimer(lockQueue')
  BY <1>2, <1>3, OneMore
<1>5. TypeInv'
  BY <1>1, <1>4 DEF TypeInv, TypeOK, HeldIsEmpty, TimerWaits
<1>6. NothingLost'
  BY DEF BufferInv, NothingLost, After
<1>7. AllLabelled'
  BY DEF BufferInv, AllLabelled
<1> QED BY <1>5, <1>6, <1>7 DEF BufferInv

LEMMA FeedKeeps ==
    ASSUME BufferInv, NEW c \in Callers, NEW k \in Chunk, Feed(c, k)
    PROVE  BufferInv'
<1>1. job \in [Callers -> Job] /\ fed \in 0..MaxChunks /\ forced \in 0..MaxForced
  BY DEF BufferInv, TypeInv, TypeOK
<1>2. [op |-> "commit", chunk |-> k] \in Job
  BY DEF Job
<1>3. job' \in [Callers -> Job]
  BY <1>1, <1>2 DEF Feed
<1>4. fed' \in 0..MaxChunks /\ forced' \in 0..MaxForced
  BY <1>1, BufferAssumption DEF Feed
<1>5. UNCHANGED <<chunks, buf, holder, inflight, entries>> /\ lockQueue' = Append(lockQueue, c)
  BY DEF Feed
<1> QED BY <1>3, <1>4, <1>5, OnlyWaiters

LEMMA ForceKeeps ==
    ASSUME BufferInv, NEW c \in Callers, NEW op \in {"flush", "close"}, ForceFlush(c, op)
    PROVE  BufferInv'
<1>1. job \in [Callers -> Job] /\ fed \in 0..MaxChunks /\ forced \in 0..MaxForced
  BY DEF BufferInv, TypeInv, TypeOK
<1>2. [op |-> op] \in Job
  BY DEF Job
<1>3. job' \in [Callers -> Job]
  BY <1>1, <1>2 DEF ForceFlush
<1>4. fed' \in 0..MaxChunks /\ forced' \in 0..MaxForced
  BY <1>1, BufferAssumption DEF ForceFlush
<1>5. UNCHANGED <<chunks, buf, holder, inflight, entries>> /\ lockQueue' = Append(lockQueue, c)
  BY DEF ForceFlush
<1> QED BY <1>3, <1>4, <1>5, OnlyWaiters

LEMMA TimerKeeps ==
    ASSUME BufferInv, TimerFires
    PROVE  BufferInv'
<1>1. TypeOK /\ HeldIsEmpty /\ TimerWaits
  BY DEF BufferInv, TypeInv
<1>2. buf \in Buffer /\ lockQueue \in Seq(Tasks) /\ Timer \in Tasks
  BY <1>1 DEF TypeOK, Buffer, Tasks
<1>3. ~TimerIn(lockQueue) /\ buf.timer = "armed"
  BY <1>1 DEF TimerWaits, TimerFires
<1>4. /\ buf' \in Buffer /\ buf'.timer = "due" /\ buf'.pending = buf.pending
      /\ buf'.speaker = buf.speaker
  BY <1>2 DEF TimerFires, Buffer
<1>5. lockQueue' \in Seq(Tasks) /\ TimerIn(lockQueue') /\ OnceTimer(lockQueue')
  BY <1>2, <1>3, OneMore DEF TimerFires
<1>6. UNCHANGED <<chunks, fed, forced, holder, job, inflight, entries>>
  BY DEF TimerFires
<1>7. TypeInv'
  BY <1>1, <1>3, <1>4, <1>5, <1>6 DEF TypeInv, TypeOK, HeldIsEmpty, TimerWaits, Buffer
<1>8. NothingLost'
  BY <1>4, <1>6 DEF BufferInv, NothingLost, After
<1>9. AllLabelled'
  BY <1>4, <1>6 DEF BufferInv, AllLabelled
<1> QED BY <1>7, <1>8, <1>9 DEF BufferInv

LEMMA EnterKeeps ==
    ASSUME BufferInv, Enter
    PROVE  BufferInv'
<1>1. TypeOK /\ HeldIsEmpty /\ TimerWaits /\ NothingLost /\ AllLabelled
  BY DEF BufferInv, TypeInv
<1>n. PICK n : n = After(Len(entries))
  OBVIOUS
<1>q. PICK rest : rest = Tail(lockQueue)
  OBVIOUS
<1>a. PICK a : a = Head(lockQueue)
  OBVIOUS
<1>2. holder = Nobody /\ lockQueue # <<>> /\ UNCHANGED <<fed, forced, entries>>
  BY DEF Enter
<1>3. inflight = NoEntry
  BY <1>1, <1>2 DEF TypeOK
<1>4. Sent(entries, n) /\ n \in Nat
  BY <1>n, WhatIsSent DEF Sent
<1>5. lockQueue \in Seq(Tasks)
  BY <1>1 DEF TypeOK
<1>6. /\ a \in Tasks /\ rest \in Seq(Tasks)
      /\ OnceTimer(lockQueue) => OnceTimer(rest)
      /\ a # Timer => (TimerIn(rest) <=> TimerIn(lockQueue))
      /\ a = Timer => TimerIn(lockQueue)
  BY <1>2, <1>5, <1>a, <1>q, BehindHead
<1>7. chunks \in Seq(Chunk) /\ buf \in Buffer /\ job \in [Callers -> Job]
  BY <1>1 DEF TypeOK, Buffer
<1>8. /\ Follows(buf.pending, n) /\ n + Len(buf.pending) = Len(chunks)
      /\ Labelled(chunks, buf.pending, buf.speaker)
  <2>1. n + Len(inflight.text) = n
    BY <1>3, <1>4, NoEntryText
  <2> QED BY <1>1, <1>n, <2>1 DEF NothingLost, AllLabelled
<1>9. Ready(n, rest)
  BY <1>1, <1>4, <1>6, <1>7, <1>8 DEF Ready, TimerWaits
<1>10. HasText \/ a # Timer
  BY <1>1, <1>6 DEF TimerWaits, HasText
<1>11. a # Timer => (TimerIn(rest) <=> buf.timer = "due")
  BY <1>1, <1>6 DEF TimerWaits
<1>12. Done(n, chunks)
  <2>1. CASE HasText /\ BeginFlush(a, buf, rest) /\ UNCHANGED <<chunks, job>>
    BY <1>6, <1>9, <2>1, FlushReady
  <2>2. CASE /\ a # Timer /\ job[a].op = "commit"
             /\ HasText => ~SpeakerChanged(job[a].chunk)
             /\ Commit(a, rest)
    <3>1. a \in Callers
      BY <1>6, <2>2 DEF Tasks
    <3> QED BY <1>9, <1>11, <2>2, <3>1, CommitReady
  <2>3. CASE ~HasText /\ Leave(a, rest)
    <3>1. buf.pending = <<>>
      BY <2>3 DEF HasText
    <3> QED BY <1>6, <1>9, <1>10, <1>11, <2>3, <3>1, LeaveReady
  <2> QED BY <1>a, <1>q, <2>1, <2>2, <2>3 DEF Enter
<1>13. Sent(entries', n)
  BY <1>2, <1>4
<1>14. fed' \in 0..MaxChunks /\ forced' \in 0..MaxForced
  BY <1>1, <1>2 DEF TypeOK
<1> QED BY <1>7, <1>12, <1>13, <1>14, DoneKeeps

\* The callback is over, cut short or not.
LEMMA ResumeKeeps ==
    ASSUME BufferInv, inflight # NoEntry, NEW cut \in BOOLEAN, entries' = Ended(cut),
           Resume(holder), UNCHANGED <<fed, forced>>
    PROVE  BufferInv'
<1>1. TypeOK /\ HeldIsEmpty /\ TimerWaits /\ NothingLost /\ AllLabelled
  BY DEF BufferInv, TypeInv
<1>2. holder # Nobody /\ holder \in Tasks /\ inflight \in Flight
  BY <1>1 DEF TypeOK, Flight
<1>e. PICK e : e = [speaker |-> inflight.speaker, text |-> inflight.text, cut |-> cut]
  OBVIOUS
<1>3. e \in Entry /\ e.text = inflight.text /\ e.speaker = inflight.speaker /\ e.text \in Text
  BY <1>2, <1>e DEF Entry, Flight
<1>m. PICK m : m = After(Len(entries))
  OBVIOUS
<1>n. PICK n : n = m + Len(e.text)
  OBVIOUS
<1>4. Sent(entries', n)
  <2>1. Sent(entries, m)
    BY <1>m, WhatIsSent
  <2>2. Follows(e.text, m) /\ Labelled(chunks, e.text, e.speaker)
    BY <1>1, <1>3, <1>m DEF NothingLost, AllLabelled
  <2>3. Sent(Append(entries, e), m + Len(e.text))
    BY <1>3, <2>1, <2>2, OneEntryMore
  <2> QED BY <1>e, <1>n, <2>3 DEF Ended
<1>5. chunks \in Seq(Chunk) /\ buf \in Buffer /\ job \in [Callers -> Job] /\ lockQueue \in Seq(Tasks)
  BY <1>1 DEF TypeOK, Buffer
<1>6. buf.pending = <<>>
  BY <1>1, <1>2 DEF HeldIsEmpty
<1>7. /\ Follows(buf.pending, n) /\ n + Len(buf.pending) = Len(chunks)
      /\ Labelled(chunks, buf.pending, buf.speaker)
  BY <1>1, <1>3, <1>m, <1>n DEF NothingLost, AllLabelled
<1>8. Ready(n, lockQueue)
  <2>1. n \in Nat
    BY <1>4 DEF Sent
  <2> QED BY <1>1, <1>5, <1>7, <2>1 DEF Ready, TimerWaits
<1>9. TimerIn(lockQueue) <=> buf.timer = "due"
  BY <1>1 DEF TimerWaits
<1>10. Done(n, chunks)
  <2>1. CASE holder # Timer /\ job[holder].op = "commit" /\ Commit(holder, lockQueue)
    <3>1. holder \in Callers /\ ~HasText
      BY <1>2, <1>6, <2>1 DEF Tasks, HasText
    <3> QED BY <1>8, <1>9, <2>1, <3>1, CommitReady
  <2>2. CASE Leave(holder, lockQueue)
    BY <1>2, <1>6, <1>8, <1>9, <2>2, LeaveReady
  <2> QED BY <2>1, <2>2 DEF Resume
<1>11. fed' \in 0..MaxChunks /\ forced' \in 0..MaxForced
  BY <1>1 DEF TypeOK
<1> QED BY <1>4, <1>5, <1>10, <1>11, DoneKeeps

LEMMA StepKeeps ==
    ASSUME BufferInv, [Next]_vars
    PROVE  BufferInv'
<1>1. CASE UNCHANGED vars
  BY <1>1 DEF vars, BufferInv, TypeInv, TypeOK, HeldIsEmpty, TimerWaits, NothingLost, After,
              AllLabelled
<1>2. CASE \E c \in Callers, k \in Chunk : Feed(c, k)
  BY <1>2, FeedKeeps
<1>3. CASE \E c \in Callers, op \in {"flush", "close"} : ForceFlush(c, op)
  BY <1>3, ForceKeeps
<1>4. CASE TimerFires
  BY <1>4, TimerKeeps
<1>5. CASE Enter
  BY <1>5, EnterKeeps
<1>6. CASE CallbackReturns
  <2>1. inflight # NoEntry /\ entries' = Ended(FALSE) /\ Resume(holder) /\ UNCHANGED <<fed, forced>>
    BY <1>6 DEF CallbackReturns
  <2> QED BY <2>1, ResumeKeeps
<1>7. CASE CallbackCancelled
  <2>1. entries' = Ended(TRUE) /\ Resume(holder) /\ UNCHANGED <<fed, forced>>
    BY <1>7 DEF CallbackCancelled
  <2>2. inflight # NoEntry
    BY <1>7 DEF CallbackCancelled, NoEntry
  <2> QED BY <2>1, <2>2, ResumeKeeps
<1> QED BY <1>1, <1>2, <1>3, <1>4, <1>5, <1>6, <1>7 DEF Next

-----------------------------------------------------------------------------
LEMMA BufferAlways == Spec => []BufferInv
<1>1. Init => BufferInv
  BY InitBuffer
<1>2. BufferInv /\ [Next]_vars => BufferInv'
  BY StepKeeps
<1> QED BY <1>1, <1>2, PTL DEF Spec

(* BufferTypes: the buffer's fields, the waiters for its lock, the entry in  *)
(* flight and the entries sent keep their types.                             *)
THEOREM BufferTypes == Spec => []TypeOK
<1>1. BufferInv => TypeOK
  BY DEF BufferInv, TypeInv
<1> QED BY <1>1, BufferAlways, PTL

(* NoChunkLost: the entries sent, the one in flight and the pending text are *)
(* the committed chunks, each once and in order, however the flushes of      *)
(* feed(), close() and the timer interleave at the lock.                     *)
THEOREM NoChunkLost == Spec => []NothingLost
<1>1. BufferInv => NothingLost
  BY DEF BufferInv
<1> QED BY <1>1, BufferAlways, PTL

(* OneSpeakerPerEntry: an entry never holds a chunk labelled with another    *)
(* speaker than the entry's own.                                             *)
THEOREM OneSpeakerPerEntry == Spec => []OneSpeaker
<1>1. BufferInv => OneSpeaker
  BY DEF BufferInv, AllLabelled, Labelled, OneSpeaker
<1> QED BY <1>1, BufferAlways, PTL

(* OneTimer: there is a flush timer exactly while text is pending, and its   *)
(* task waits for the lock once, exactly when its sleep is over: the flush   *)
(* paths that cancel the timer and the commits that start it leave no text   *)
(* without one and no second one.                                            *)
THEOREM OneTimer == Spec => []TimerWaits
<1>1. BufferInv => TimerWaits
  BY DEF BufferInv, TypeInv
<1> QED BY <1>1, BufferAlways, PTL
=============================================================================
