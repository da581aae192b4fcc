----------------------------- MODULE AgentRuntime -----------------------------
(***************************************************************************)
(* One AgentRuntime (src/src/engine/runtime.py) driven by AgentRunner      *)
(* (src/src/engine/runner.py): the conversation _messages, the steering    *)
(* queue, and the compaction of the conversation by                        *)
(* src/src/engine/context/compactor.py.                                    *)
(*                                                                         *)
(* The runs of an agent are tasks of one event loop and share these        *)
(* fields.  A run can be overtaken wherever it waits: for the LLM's stream *)
(* (phase "calling"), for a tool ("tool"), for the summary of a compaction *)
(* ("compacting") and for the listeners that get its last output           *)
(* ("closing").  CommandQueue shows that two runs of a session may overlap *)
(* when lanes are contended, so MaxOverlap is a parameter: 1 is what the   *)
(* session lane promises.                                                  *)
(*                                                                         *)
(* Every message that was ever appended has a number, its place in log.    *)
(* An element of _messages is the set of numbers it stands for: one        *)
(* message, or the middle of the conversation that a compaction replaced   *)
(* by a summary (or, if the LLM fails, by a note that says so).  Token     *)
(* counts are data: any conversation longer than the protected parts may   *)
(* be over its budget or not.  Pruning only shortens tool results.  The    *)
(* agents of meetings have no MemoryManager, and the agent hooks that      *)
(* exist (logging, and a flush of that manager) do not wait.               *)
(*                                                                         *)
(* A definition marked (mutant) is a plausible bug that a property must    *)
(* catch; no specification uses it.                                        *)
(***************************************************************************)
EXTENDS Naturals, Sequences, FiniteSets, Functions

CONSTANTS
    MaxOverlap,     \* runs of this agent that may execute at the same time
    ProtectedHead,  \* PROTECTED_HEAD
    ProtectedTail,  \* PROTECTED_TAIL
    MaxRuns,        \* bound on the number of runs
    MaxToolCalls,   \* bound on the number of tool calls
    MaxChunks       \* bound on the number of steered chunks

ASSUME RuntimeAssumption ==
    /\ MaxOverlap \in Nat \ {0}
    /\ ProtectedHead \in Nat \ {0} /\ ProtectedTail \in Nat \ {0}
    /\ MaxRuns \in Nat /\ MaxToolCalls \in Nat /\ MaxChunks \in Nat

VARIABLES
    log,         \* history: every message appended to _messages
    messages,    \* _messages, as sets of numbers of log
    steering,    \* _steering_queue: numbers of chunks
    injected,    \* history: the number of chunks steered in
    steerable,   \* is inject_transcript registered as steer callback?
    overlapped,  \* history: have two runs executed at the same time?
    phase,       \* run -> what it waits for
    spoke,       \* run -> has run_text any text?
    worked,      \* run -> has the runner collected a tool call?
    snapshot,    \* run -> the list that its compaction has read
    transcript   \* the runs in transcript.jsonl, in order

vars == <<log, messages, steering, injected, steerable, overlapped, phase, spoke,
          worked, snapshot, transcript>>

Runs == 1..MaxRuns
Kind == {"input", "tool_use", "tool_result", "steering", "answer"}
Message == [kind : Kind, run : Runs, chunks : Seq(Nat)]
Phase == {"none", "calling", "tool", "compacting", "closing", "end", "error"}

Executing == {r \in Runs : phase[r] \in {"calling", "tool", "compacting", "closing"}}

TypeOK ==
    /\ log \in Seq(Message)
    /\ messages \in Seq(SUBSET (1..Len(log)))
    /\ steering \in Seq(1..injected)
    /\ injected \in 0..MaxChunks
    /\ steerable \in BOOLEAN /\ overlapped \in BOOLEAN
    /\ phase \in [Runs -> Phase]
    /\ spoke \in [Runs -> BOOLEAN] /\ worked \in [Runs -> BOOLEAN]
    /\ snapshot \in [Runs -> Seq(SUBSET (1..Len(log)))]
    /\ transcript \in Seq(Runs)

Init ==
    /\ log = <<>> /\ messages = <<>>
    /\ steering = <<>> /\ injected = 0 /\ steerable = FALSE /\ overlapped = FALSE
    /\ phase = [r \in Runs |-> "none"]
    /\ spoke = [r \in Runs |-> FALSE] /\ worked = [r \in Runs |-> FALSE]
    /\ snapshot = [r \in Runs |-> <<>>]
    /\ transcript = <<>>

Msg(k, r, cs) == [kind |-> k, run |-> r, chunks |-> cs]

\* The next n messages of the log, as elements of _messages.
Newest(n) == [i \in 1..n |-> {Len(log) + i}]

-----------------------------------------------------------------------------
DigestShort(ms) ==  \* (mutant) the tail is one message shorter than protected
    SubSeq(ms, 1, ProtectedHead)
        \o <<UNION {ms[i] : i \in (ProtectedHead + 1)..(Len(ms) - ProtectedTail + 1)}>>
        \o SubSeq(ms, Len(ms) - ProtectedTail + 2, Len(ms))

\* _compact: head + [summary of the middle] + tail.
Digest(ms) ==
    SubSeq(ms, 1, ProtectedHead)
        \o <<UNION {ms[i] : i \in (ProtectedHead + 1)..(Len(ms) - ProtectedTail)}>>
        \o SubSeq(ms, Len(ms) - ProtectedTail + 1, Len(ms))

\* _manage_context of run r on the list ms: it is in budget, or too short to
\* compact, and the LLM is called; or the summary is asked for.
ManageContext(r, ms) ==
    /\ messages' = ms
    /\ \/ /\ phase' = [phase EXCEPT ![r] = "calling"]
          /\ UNCHANGED snapshot
       \/ /\ Len(ms) > ProtectedHead + ProtectedTail
          /\ phase' = [phase EXCEPT ![r] = "compacting"]
          /\ snapshot' = [snapshot EXCEPT ![r] = ms]

\* run() up to its first wait: the input joins the conversation.
Open(r) ==
    /\ log' = Append(log, Msg("input", r, <<>>))
    /\ ManageContext(r, messages \o Newest(1))

\* handle_run up to its first wait.
Begin(r) ==
    /\ phase[r] = "none"
    /\ \A q \in Runs : q < r => phase[q] # "none"
    /\ Cardinality(Executing) < MaxOverlap
    /\ overlapped' = (overlapped \/ Executing # {})
    /\ steerable' = TRUE
    /\ Open(r)
    /\ UNCHANGED <<steering, injected, spoke, worked, transcript>>

\* inject_transcript, called back by the queue while a run is active.
Inject ==
    /\ injected < MaxChunks
    /\ steerable /\ Executing # {}
    /\ injected' = injected + 1
    /\ steering' = Append(steering, injected + 1)
    /\ UNCHANGED <<overlapped, log, messages, steerable, phase, spoke, worked, snapshot, transcript>>

\* The stream yields text or not, and then a tool call: the tool is awaited.
CallTool(r, text) ==
    /\ phase[r] = "calling"
    /\ Cardinality({i \in DOMAIN log : log[i].kind = "tool_use"})
         + Cardinality({q \in Runs : phase[q] = "tool"}) < MaxToolCalls
    /\ phase' = [phase EXCEPT ![r] = "tool"]
    /\ spoke' = [spoke EXCEPT ![r] = @ \/ text]
    /\ UNCHANGED <<overlapped, log, messages, steering, injected, steerable, worked, snapshot, transcript>>

SteeringFirst(r) ==  \* (mutant) drained before the result is appended
    <<Msg("tool_use", r, <<>>)>>
        \o (IF steering = <<>> THEN <<>> ELSE <<Msg("steering", r, steering)>>)
        \o <<Msg("tool_result", r, <<>>)>>

SteeringAsSystem(r) ==  \* (mutant) the update gets a role that no message has
    <<Msg("tool_use", r, <<>>), Msg("tool_result", r, <<>>)>>
        \o (IF steering = <<>> THEN <<>> ELSE <<Msg("system", r, steering)>>)

\* The messages of a tool call: the call, its result and, if there are any, all
\* pending chunks merged into one update (_drain_steering).
ToolMessages(r) ==
    <<Msg("tool_use", r, <<>>), Msg("tool_result", r, <<>>)>>
        \o (IF steering = <<>> THEN <<>> ELSE <<Msg("steering", r, steering)>>)

DrainedOne ==  \* (mutant) one get_nowait instead of a loop
    IF steering = <<>> THEN <<>> ELSE Tail(steering)

\* _steering_queue after _drain_steering.
Drained == <<>>

\* The tool returns, or raises, which becomes its result.  The rest of the
\* stream is given up: after this the LLM is called anew.
ToolReturns(r) ==
    /\ phase[r] = "tool"
    /\ log' = log \o ToolMessages(r)
    /\ steering' = Drained
    /\ worked' = [worked EXCEPT ![r] = TRUE]
    /\ ManageContext(r, messages \o Newest(Len(ToolMessages(r))))
    /\ UNCHANGED <<overlapped, injected, steerable, spoke, transcript>>

\* The summary, or the failure to make one, comes back: the list that the
\* compaction has read, with its middle replaced, becomes the conversation.
CompactionReturns(r) ==
    /\ phase[r] = "compacting"
    /\ messages' = Digest(snapshot[r])
    /\ snapshot' = [snapshot EXCEPT ![r] = <<>>]
    /\ phase' = [phase EXCEPT ![r] = "calling"]
    /\ UNCHANGED <<overlapped, log, steering, injected, steerable, spoke, worked, transcript>>

\* The stream ends: the text of all calls of the run is its answer.
Answer(r, text) ==
    LET said == spoke[r] \/ text
        ms == IF said THEN <<Msg("answer", r, <<>>)>> ELSE <<>>
    IN  /\ phase[r] = "calling"
        /\ phase' = [phase EXCEPT ![r] = "closing"]
        /\ spoke' = [spoke EXCEPT ![r] = said]
        /\ log' = log \o ms
        /\ messages' = messages \o Newest(Len(ms))
        /\ UNCHANGED <<overlapped, steering, injected, steerable, worked, snapshot, transcript>>

PersistsSpeech(r) == spoke[r]  \* (mutant) tool calls alone are not persisted

\* "if full_response or tool_calls".
Persists(r) == spoke[r] \/ worked[r]

\* handle_run after the agent's last output: the transcript is persisted.  The
\* queue then removes the steer callback of the session.
Close(r) ==
    /\ phase[r] = "closing"
    /\ phase' = [phase EXCEPT ![r] = "end"]
    /\ transcript' = IF Persists(r) THEN Append(transcript, r) ELSE transcript
    /\ steerable' = FALSE
    /\ UNCHANGED <<overlapped, log, messages, steering, injected, spoke, worked, snapshot>>

\* The stream raises: handle_run emits the error and returns.
StreamFails(r) ==
    /\ phase[r] = "calling"
    /\ phase' = [phase EXCEPT ![r] = "error"]
    /\ steerable' = FALSE
    /\ UNCHANGED <<overlapped, log, messages, steering, injected, spoke, worked, snapshot, transcript>>

\* Every run of the bound has ended.
Finished == (\A r \in Runs : phase[r] \in {"end", "error"}) /\ UNCHANGED vars

Next ==
    \/ \E r \in Runs : Begin(r) \/ ToolReturns(r) \/ CompactionReturns(r)
                         \/ Close(r) \/ StreamFails(r)
    \/ \E r \in Runs, text \in BOOLEAN : CallTool(r, text) \/ Answer(r, text)
    \/ Inject
    \/ Finished

Spec == Init /\ [][Next]_vars
-----------------------------------------------------------------------------
(* RecentKept: the last PROTECTED_TAIL messages are in the conversation as   *)
(* they are ("recent, never compacted", compactor.py:27).                    *)
RecentKept ==
    \A n \in DOMAIN log :
        n > Len(log) - ProtectedTail => \E i \in DOMAIN messages : messages[i] = {n}

\* The messages that a conversation stands for.
Stands(ms) == UNION {ms[i] : i \in DOMAIN ms}

(* NothingForgotten: as long as the runs of the agent do not overlap, every  *)
(* message that was appended to the conversation is still in it or stood for *)
(* by a summary, and the recent ones are there as they are, through repeated *)
(* compactions.                                                              *)
NothingForgotten == ~overlapped => Stands(messages) = DOMAIN log /\ RecentKept

(* InOrder: summaries and messages stand in the order in which they were     *)
(* appended and none stands twice, also when the compactions of two runs     *)
(* replace each other's lists; and whatever runs interleave, the result of a *)
(* tool call stands directly behind its call, or behind the summary that     *)
(* swallowed the call, in each conversation that goes to the LLM.            *)
InOrder ==
    /\ \A i, j \in DOMAIN messages :
         i < j => \A a \in messages[i], b \in messages[j] : a < b
    /\ \A i \in DOMAIN messages : \A n \in messages[i] :
         messages[i] = {n} /\ log[n].kind = "tool_result" =>
             i > 1 /\ n - 1 \in messages[i - 1] /\ log[n - 1].kind = "tool_use"

Rising(cs) == \A i, j \in DOMAIN cs : i < j => cs[i] < cs[j]

(* SteeringComplete: every injected chunk is in an update that a tool        *)
(* boundary merged into the conversation or still waits; the chunks stand    *)
(* once and in the order in which they were injected, within an update, from *)
(* one update to a later one and from the updates to those that wait,        *)
(* whichever runs drained them.                                              *)
SteeringComplete ==
    /\ \A c \in 1..injected :
         c \in Range(steering) \/ \E n \in DOMAIN log : c \in Range(log[n].chunks)
    /\ Rising(steering) /\ \A n \in DOMAIN log : Rising(log[n].chunks)
    /\ \A n \in DOMAIN log : \A c \in Range(log[n].chunks) :
         /\ c \in 1..injected
         /\ \A d \in Range(steering) : c < d
         /\ \A m \in DOMAIN log : n < m => \A d \in Range(log[m].chunks) : c < d

(* TranscriptCovers: a run that ended and left an answer or a tool result in *)
(* the conversation is in the persisted transcript, exactly once.            *)
TranscriptCovers ==
    \A n \in DOMAIN log :
        log[n].kind \in {"tool_result", "answer"} /\ phase[log[n].run] = "end" =>
            \E i \in DOMAIN transcript : \A j \in DOMAIN transcript :
                transcript[j] = log[n].run <=> i = j
=============================================================================
