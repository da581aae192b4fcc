-------------------------- MODULE TranscriptBuffer --------------------------
(***************************************************************************)
(* The transcript buffer of src/src/audio/buffer.py: final chunks of       *)
(* speech are committed under an asyncio lock and flushed in batches, on a *)
(* change of speaker, on a word count, on the end of an utterance, on      *)
(* close() or by a timer.                                                  *)
(*                                                                         *)
(* Tasks are the callers of feed() and close(), and the timer task.  The   *)
(* lock is held across the flush callback, so the callback's suspension is *)
(* the only point inside the lock where another task may run.  A chunk is  *)
(* its speaker and its number of words.  Partial chunks and empty chunks   *)
(* without speech_final change no state and are left out.                  *)
(*                                                                         *)
(* A definition marked (mutant) is a plausible bug that a property must    *)
(* catch; no specification uses it.                                        *)
(***************************************************************************)
EXTENDS Naturals, Sequences, SequencesExt

CONSTANTS
    Callers,           \* tasks that call feed() and close()
    Speakers,          \* speaker labels
    NoSpeaker,         \* None: Deepgram gave no label
    Nobody,            \* no task
    Timer,             \* the timer task
    WordCount,         \* FLUSH_WORD_COUNT
    CallbackWaits,     \* may a flush callback wait for something (TRUE), or not (FALSE)?
    MaxChunks,         \* bound on the number of final chunks
    MaxForced          \* bound on the number of forced flushes

ASSUME BufferAssumption ==
    /\ WordCount \in Nat \ {0}
    /\ CallbackWaits \subseteq BOOLEAN /\ CallbackWaits # {}
    /\ MaxChunks \in Nat /\ MaxForced \in Nat
    /\ NoSpeaker \notin Speakers
    /\ Timer # Nobody /\ {Timer, Nobody} \intersect Callers = {}

VARIABLES
    chunks,     \* history: every chunk committed to the buffer, in order
    fed,        \* calls of feed() with a final chunk
    forced,     \* forced flushes
    buf,        \* [speaker, pending, timer]: the buffer's own fields
    holder,     \* the task that holds the lock
    lockQueue,  \* tasks that wait for the lock, or are about to take it
    job,        \* what each caller is doing
    inflight,   \* the entry whose callback has not returned, or NoEntry
    entries     \* history: the entries whose callback has ended, cut short or not

vars == <<chunks, fed, forced, buf, holder, lockQueue, job, inflight, entries>>

Tasks == Callers \union {Timer}
Label == Speakers \union {NoSpeaker}
Chunk == [speaker : Label, words : 1..WordCount]
Text == {t \in Seq(Nat) : t # <<>>}  \* numbers of chunks
NoEntry == [speaker |-> NoSpeaker, text |-> <<>>, waits |-> FALSE]

\* A caller is idle, wants to commit a chunk, or only to flush.
Job == [op : {"idle", "flush", "close"}] \union [op : {"commit"}, chunk : Chunk]
Idle == [op |-> "idle"]

TypeOK ==
    /\ chunks \in Seq(Chunk)
    /\ fed \in 0..MaxChunks /\ forced \in 0..MaxForced
    /\ buf \in [speaker : Label, pending : Seq(Nat), timer : {"off", "armed", "due"}]
    /\ holder \in Tasks \union {Nobody}
    /\ lockQueue \in Seq(Tasks)
    /\ job \in [Callers -> Job]
    /\ IF holder = Nobody THEN inflight = NoEntry
       ELSE inflight \in [speaker : Label, text : Text, waits : CallbackWaits]
    /\ entries \in Seq([speaker : Label, text : Text, cut : BOOLEAN])

Init ==
    /\ chunks = <<>> /\ fed = 0 /\ forced = 0
    /\ buf = [speaker |-> NoSpeaker, pending |-> <<>>, timer |-> "off"]
    /\ holder = Nobody
    /\ lockQueue = <<>>
    /\ job = [c \in Callers |-> Idle]
    /\ inflight = NoEntry
    /\ entries = <<>>

\* Other tasks run only when the running one waits.
OthersMayRun == inflight = NoEntry \/ inflight.waits

-----------------------------------------------------------------------------
\* feed() with a final chunk, up to "async with self._lock".
Feed(c, k) ==
    /\ OthersMayRun
    /\ job[c] = Idle /\ fed < MaxChunks
    /\ fed' = fed + 1
    /\ job' = [job EXCEPT ![c] = [op |-> "commit", chunk |-> k]]
    /\ lockQueue' = Append(lockQueue, c)
    /\ UNCHANGED <<chunks, forced, buf, holder, inflight, entries>>

\* feed() of the empty chunk that ends an utterance, and close(): _flush().
ForceFlush(c, op) ==
    /\ OthersMayRun
    /\ job[c] = Idle /\ forced < MaxForced
    /\ forced' = forced + 1
    /\ job' = [job EXCEPT ![c] = [op |-> op]]
    /\ lockQueue' = Append(lockQueue, c)
    /\ UNCHANGED <<chunks, fed, buf, holder, inflight, entries>>

\* _timer_flush after its sleep of FLUSH_INTERVAL_S: a task that is ready runs
\* before any timer does.
TimerFires ==
    /\ OthersMayRun
    /\ buf.timer = "armed"
    /\ holder = Nobody => lockQueue = <<>>
    /\ buf' = [buf EXCEPT !.timer = "due"]
    /\ lockQueue' = Append(lockQueue, Timer)
    /\ UNCHANGED <<chunks, fed, forced, holder, job, inflight, entries>>

-----------------------------------------------------------------------------
Words(text, cs) == FoldLeft(LAMBDA n, i : n + cs[i].words, 0, text)

StillPending(b) == [b EXCEPT !.timer = "off"]  \* (mutant) clear() is missing

\* _cancel_timer and _pending_text.clear() in _do_flush.
Taken(b) == [b EXCEPT !.pending = <<>>, !.timer = "off"]

\* _do_flush up to the call of the callback: the timer task, of which there is
\* one at most, is cancelled (whatever task flushes, the timer itself included)
\* and the pending text is taken.
BeginFlush(a, b, waiters) ==
    /\ inflight' \in {[speaker |-> b.speaker, text |-> b.pending, waits |-> w] : w \in CallbackWaits}
    /\ buf' = Taken(b)
    /\ lockQueue' = RemoveFirst(waiters, Timer)
    /\ holder' = a

KeepsTimerOff(b) == b.timer  \* (mutant) _start_timer is missing

\* _start_timer when the first pending text is committed.
TimerAfterCommit(b) == IF b.pending = <<>> THEN "armed" ELSE b.timer

Full(words) == words >= WordCount

\* feed() from the assignment of _current_speaker on, and the release.
Commit(c, waiters) ==
    LET k == job[c].chunk
        cs == Append(chunks, k)
        b == [speaker |-> IF k.speaker # NoSpeaker THEN k.speaker ELSE buf.speaker,
              pending |-> Append(buf.pending, Len(cs)),
              timer |-> TimerAfterCommit(buf)]
    IN  /\ chunks' = cs
        /\ \/ /\ Full(Words(b.pending, cs))
              /\ BeginFlush(c, b, waiters)
              /\ job' = [job EXCEPT ![c] = [op |-> "flush"]]
           \/ /\ ~Full(Words(b.pending, cs))
              /\ buf' = b
              /\ job' = [job EXCEPT ![c] = Idle]
              /\ holder' = Nobody /\ lockQueue' = waiters /\ inflight' = NoEntry

\* "async with self._lock" is left, by return or by exception.
Released(a) == Nobody

\* The end of "async with self._lock"; close() goes on to cancel the timer.
Leave(a, waiters) ==
    /\ holder' = Released(a) /\ lockQueue' = waiters /\ inflight' = NoEntry
    /\ buf' = IF \/ a = Timer
                 \/ a # Timer /\ job[a].op = "close"
              THEN [buf EXCEPT !.timer = "off"] ELSE buf
    /\ job' = IF a = Timer THEN job ELSE [job EXCEPT ![a] = Idle]
    /\ UNCHANGED chunks

AnySpeaker(k) == FALSE  \* (mutant) speakers are not told apart

\* feed(): "Speaker changed - flush previous speaker's text first".
SpeakerChanged(k) == k.speaker # NoSpeaker /\ k.speaker # buf.speaker

FlushAnyway == TRUE  \* (mutant) no test for pending text

HasText == buf.pending # <<>>

\* A task takes the lock and runs its critical section up to the callback.
Enter ==
    /\ holder = Nobody /\ lockQueue # <<>>
    /\ LET a == Head(lockQueue)
           rest == Tail(lockQueue)
           commits == a # Timer /\ job[a].op = "commit"
           flushes == HasText /\ (commits => SpeakerChanged(job[a].chunk))
       IN  \/ flushes /\ BeginFlush(a, buf, rest) /\ UNCHANGED <<chunks, job>>
           \/ ~flushes /\ commits /\ Commit(a, rest)
           \/ ~flushes /\ ~commits /\ Leave(a, rest)
    /\ UNCHANGED <<fed, forced, entries>>

\* What a task does once its flush is over.
Resume(a) ==
    IF a # Timer /\ job[a].op = "commit" THEN Commit(a, lockQueue) ELSE Leave(a, lockQueue)

\* The entry in flight, once its callback is over.
Ended(cut) == Append(entries, [speaker |-> inflight.speaker, text |-> inflight.text, cut |-> cut])

\* The callback returns, or raises an Exception, which _do_flush swallows.
\* The timer task, which _cancel_timer has cancelled, gets this far only if the
\* callback never waits.
CallbackReturns ==
    /\ inflight # NoEntry
    /\ holder = Timer => ~inflight.waits
    /\ entries' = Ended(FALSE)
    /\ Resume(holder)
    /\ UNCHANGED <<fed, forced>>

\* The callback waits for the first time in a task that is being cancelled:
\* CancelledError leaves it and _do_flush, and _timer_flush swallows it.
CallbackCancelled ==
    /\ holder = Timer
    /\ inflight.waits
    /\ entries' = Ended(TRUE)
    /\ Resume(holder)
    /\ UNCHANGED <<fed, forced>>

Next ==
    \/ \E c \in Callers, k \in Chunk : Feed(c, k)
    \/ \E c \in Callers, op \in {"flush", "close"} : ForceFlush(c, op)
    \/ TimerFires
    \/ Enter
    \/ CallbackReturns
    \/ CallbackCancelled

Spec == Init /\ [][Next]_vars

\* The event loop runs ready tasks and timers, and the callback ends.
Fairness == WF_vars(TimerFires) /\ WF_vars(Enter) /\ WF_vars(CallbackReturns \/ CallbackCancelled)

FairSpec == Spec /\ Fairness
-----------------------------------------------------------------------------
\* text is the chunks that follow chunk number n.
Follows(text, n) == text = [i \in DOMAIN text |-> n + i]

\* The last chunk of the first n entries.
After(n) == IF n = 0 THEN 0 ELSE Last(entries[n].text)

(* NothingLost: the entries handed to the callback, the one in flight and    *)
(* the pending text are together the committed chunks, each once and in      *)
(* order (each begins with the chunk that follows the last one of the text   *)
(* before it), whatever mixes of flushes, timers and callers there are.      *)
NothingLost ==
    LET sent == After(Len(entries)) + Len(inflight.text)
    IN  /\ \A n \in DOMAIN entries : Follows(entries[n].text, After(n - 1))
        /\ Follows(inflight.text, After(Len(entries)))
        /\ Follows(buf.pending, sent)
        /\ sent + Len(buf.pending) = Len(chunks)

(* OneSpeaker: an entry's label is the label of each of its chunks that has  *)
(* one: words of two speakers never share an entry, even when another task   *)
(* waits to commit while a flush is in progress.                             *)
OneSpeaker ==
    \A n \in DOMAIN entries : \A i \in DOMAIN entries[n].text :
        chunks[entries[n].text[i]].speaker \in {NoSpeaker, entries[n].speaker}

(* EveryChunkFlushed: under Fairness each committed chunk reaches the        *)
(* callback, without waiting for more speech, and every feed() and close()   *)
(* returns: the several flush paths that cancel and restart the timer leave  *)
(* no pending text without one, and the lock that is held across the         *)
(* callback is always released, cancellation included.                       *)
EveryChunkFlushed ==
    /\ \A i \in 1..MaxChunks :
         (Len(chunks) >= i) ~>
             \E n \in DOMAIN entries : i \in {entries[n].text[j] : j \in DOMAIN entries[n].text}
    /\ \A c \in Callers : (job[c] # Idle) ~> (job[c] = Idle)
=============================================================================
