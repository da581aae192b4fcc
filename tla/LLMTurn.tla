------------------------------- MODULE LLMTurn -------------------------------
(***************************************************************************)
(* What goes to an LLM and what comes back: the token budget, the pruner   *)
(* and the compactor of src/src/engine/context, the message conversion and *)
(* the streams of the providers of src/src/engine/llm, and what the loop   *)
(* of AgentRuntime.run does with their events.                             *)
(*                                                                         *)
(* One run at a time uses the conversation: AgentRuntime has the           *)
(* interleavings of several.  Lengths are real ones, in characters; a      *)
(* response of the LLM is a member of Responses, whose calls arrive in     *)
(* pieces, interleaved as the index of a piece permits.                    *)
(*                                                                         *)
(* A definition marked (mutant) is a plausible bug that a property must    *)
(* catch; no specification uses it.                                        *)
(***************************************************************************)
EXTENDS Integers, Sequences

CONSTANTS
    Providers,      \* those a model name may resolve to
    Responses,      \* what the LLM may answer
    InputChars,     \* lengths of an input
    ResultChars,    \* lengths of a tool's result
    SummaryChars,   \* lengths of a summary
    Budget,         \* messages_remaining of the budget, in tokens
    ProtectedHead,  \* PROTECTED_HEAD
    ProtectedTail,  \* PROTECTED_TAIL
    MaxRuns,        \* bound on runs
    MaxCalls        \* bound on tool calls

Finish == {"tool_calls", "stop", "length"}

ASSUME TurnAssumption ==
    /\ Providers # {} /\ Providers \subseteq {"litellm", "openai", "anthropic"}
    /\ \A r \in Responses :
         /\ DOMAIN r = {"calls", "finish"}
         /\ r.calls \in Seq([pieces : Nat \ {0}, valid : BOOLEAN])
         /\ r.finish \in Finish
    /\ InputChars \union ResultChars \union SummaryChars \subseteq Nat \ {0}
    /\ Budget \in Nat \ {0}
    /\ ProtectedHead \in Nat \ {0} /\ ProtectedTail \in Nat \ {0}
    /\ MaxRuns \in Nat /\ MaxCalls \in Nat

VARIABLES
    provider,  \* what LLMRouter.resolve gave the agent for its model
    messages,  \* _messages: kind, length and number of the call
    phase,     \* what the run waits for
    response,  \* the response that is streamed
    arrived,   \* the pieces of each of its calls that have arrived
    assembly,  \* current_tool_calls, or Claude's one current tool
    executed,  \* the call that a tool is executed for
    calls,     \* calls executed so far
    runs       \* runs begun so far

vars == <<provider, messages, phase, response, arrived, assembly, executed, calls, runs>>

None == [calls |-> <<>>, finish |-> "stop"]
NoCall == [index |-> 0, args |-> 0]
Message == [kind : {"text", "answer", "use", "result", "summary"}, chars : Nat,
            call : 0..MaxCalls, state : {"whole", "trimmed", "cleared"}]

TypeOK ==
    /\ provider \in Providers
    /\ messages \in Seq(Message)
    /\ phase \in {"idle", "streaming", "executing"}
    /\ response \in Responses \union {None}
    /\ DOMAIN arrived = DOMAIN response.calls
    /\ \A i \in DOMAIN arrived : arrived[i] \in 0..response.calls[i].pieces
    /\ DOMAIN assembly \subseteq DOMAIN arrived
    /\ executed.index \in {0} \union DOMAIN response.calls
    /\ calls \in 0..MaxCalls /\ runs \in 0..MaxRuns

Init ==
    /\ provider \in Providers
    /\ messages = <<>> /\ phase = "idle"
    /\ response = None /\ arrived = <<>> /\ assembly = <<>> /\ executed = NoCall
    /\ calls = 0 /\ runs = 0

Msg(kind, chars, call) == [kind |-> kind, chars |-> chars, call |-> call, state |-> "whole"]
-----------------------------------------------------------------------------
\* The numbers of pruner.py, token_counter.py and compactor.py.  JsonChars stands for
\* the JSON around the content of a block.
HeadChars == 500
TailChars == 300
MinTrimChars == 1500
PlaceholderChars == 43
MarkerChars == 32
CharsPerToken == 4
JsonChars == 80
NoteChars == 110

Max2(a, b) == IF a > b THEN a ELSE b
Min2(a, b) == IF a < b THEN a ELSE b

\* count, and what count_messages adds for a message.
Count(chars) == IF chars = 0 THEN 0 ELSE Max2(1, chars \div CharsPerToken)

MessageTokens(m) ==
    4 + Count(IF m.kind \in {"use", "result"} THEN m.chars + JsonChars ELSE m.chars)

\* The sum of a sequence of numbers.
Total(s) ==
    LET sum[n \in 0..Len(s)] == IF n = 0 THEN 0 ELSE sum[n - 1] + s[n]
    IN  sum[Len(s)]

Tokens(ms) == Total([i \in DOMAIN ms |-> MessageTokens(ms[i])])

Prunable(m) == m.kind = "result"

\* _soft_trim_message.
Trimmed(m) ==
    IF Prunable(m) /\ m.chars > MinTrimChars
    THEN [m EXCEPT !.chars = HeadChars + MarkerChars + TailChars, !.state = "trimmed"] ELSE m

\* _hard_clear_message.
Cleared(m) == [m EXCEPT !.chars = PlaceholderChars, !.state = "cleared"]

ClearedUpTo(ms, n) ==
    [i \in DOMAIN ms |-> IF i <= n /\ Prunable(ms[i]) THEN Cleared(ms[i]) ELSE ms[i]]

OverSoft(ms) == 10 * Tokens(ms) > 7 * Budget
OverHard(ms) == 10 * Tokens(ms) > 9 * Budget

NewestCleared(ms) ==  \* (mutant) newest first
    [i \in DOMAIN ms |->
        IF Prunable(ms[i]) /\ OverHard([j \in DOMAIN ms |->
                                IF j > i /\ Prunable(ms[j]) THEN Cleared(ms[j]) ELSE ms[j]])
        THEN Cleared(ms[i]) ELSE ms[i]]

\* The loop of the hard clear: oldest first, until it fits.
HardCleared(ms) ==
    LET results == {i \in DOMAIN ms : Prunable(ms[i])}
        enough == {n \in results : ~OverHard(ClearedUpTo(ms, n))}
    IN  ClearedUpTo(ms, IF enough = {} THEN Len(ms)
                        ELSE CHOOSE n \in enough : \A k \in enough : n <= k)

SoftTrimmed(ms) == [i \in DOMAIN ms |-> Trimmed(ms[i])]

\* ContextPruner.prune.
Pruned(ms) ==
    IF ~OverSoft(ms) THEN ms
    ELSE IF OverHard(SoftTrimmed(ms)) THEN HardCleared(SoftTrimmed(ms)) ELSE SoftTrimmed(ms)

Middle(ms) == SubSeq(ms, ProtectedHead + 1, Len(ms) - ProtectedTail)

Around(ms, m) ==
    SubSeq(ms, 1, ProtectedHead) \o <<m>> \o SubSeq(ms, Len(ms) - ProtectedTail + 1, Len(ms))

\* The text the summarizer would get: tool results cut to 200 characters, and of a
\* call its name only.
SummarizedChars(ms) ==
    Total([i \in DOMAIN ms |-> IF ms[i].kind \in {"use", "result"} THEN Min2(ms[i].chars, 200)
                               ELSE ms[i].chars])

\* compact_if_needed: the lists that may come out, by what the LLM makes of the middle.
Compacted(ms) ==
    IF \/ 100 * Tokens(ms) <= 85 * Budget
       \/ Len(ms) <= ProtectedHead + ProtectedTail
       \/ Count(SummarizedChars(Middle(ms))) < 100
    THEN {ms}
    ELSE {Around(ms, Msg("summary", n, 0)) : n \in SummaryChars \union {NoteChars}}

CallLLMKept(ms) ==  \* (mutant) the calls of the last response are kept
    /\ messages' \in Compacted(Pruned(ms))
    /\ phase' = "streaming"
    /\ response' \in Responses
    /\ arrived' = [i \in DOMAIN response'.calls |-> 0]
    /\ assembly' = assembly
    /\ executed' = NoCall

\* _manage_context, and the call of stream(): the next response begins.
CallLLM(ms) ==
    /\ messages' \in Compacted(Pruned(ms))
    /\ phase' = "streaming"
    /\ response' \in Responses
    /\ arrived' = [i \in DOMAIN response'.calls |-> 0]
    /\ assembly' = <<>>
    /\ executed' = NoCall
-----------------------------------------------------------------------------
\* What _convert_messages of the OpenAI and LiteLLM providers makes of a message, and
\* what Claude gets as it is.
Converted(m) ==
    [role |-> CASE m.kind \in {"use", "answer"} -> "assistant"
                [] m.kind = "result" -> "tool"
                [] OTHER -> "user",
     holds |-> IF m.kind \in {"use", "result"} THEN m.kind ELSE "text",
     call |-> m.call]

Request(ms) == [i \in DOMAIN ms |-> Converted(ms[i])]

CallAppended(n, m) ==  \* (mutant) the result goes before its call
    <<Msg("result", m, n), Msg("use", 1, n)>>

\* The two messages that a tool's execution adds.
CallMessages(n, chars) == <<Msg("use", 1, n), Msg("result", chars, n)>>
-----------------------------------------------------------------------------
\* run() begins.
Begin ==
    /\ phase = "idle" /\ runs < MaxRuns
    /\ runs' = runs + 1
    /\ \E chars \in InputChars : CallLLM(Append(messages, Msg("text", chars, 0)))
    /\ UNCHANGED <<provider, calls>>

\* Whether a piece of call i may arrive now: Claude's blocks come one by one.
MayArrive(i) ==
    /\ arrived[i] < response.calls[i].pieces
    /\ provider = "anthropic" => \A j \in 1..(i - 1) : arrived[j] = response.calls[j].pieces

AssembledLast(i) ==  \* (mutant) the index of a piece is not looked at
    IF DOMAIN assembly = {} THEN [j \in {i} |-> [index |-> i, args |-> 1]]
    ELSE LET last == CHOOSE j \in DOMAIN assembly : \A k \in DOMAIN assembly : j >= k
         IN  [assembly EXCEPT ![last].args = @ + 1]

\* current_tool_calls after a piece of call i: the first carries id and name.
Assembled(i) ==
    IF i \in DOMAIN assembly THEN [assembly EXCEPT ![i].args = @ + 1]
    ELSE [j \in DOMAIN assembly \union {i} |->
             IF j = i THEN [index |-> i, args |-> 1] ELSE assembly[j]]

PieceArrives(i) ==
    /\ phase = "streaming"
    /\ i \in DOMAIN response.calls /\ MayArrive(i)
    /\ arrived' = [arrived EXCEPT ![i] = @ + 1]
    /\ assembly' = Assembled(i)
    /\ UNCHANGED <<provider, messages, phase, response, executed, calls, runs>>

AllArrived == \A i \in DOMAIN arrived : arrived[i] = response.calls[i].pieces

\* The finish reason arrives, once all pieces have: or the response is cut off in its
\* last call, by max_tokens.
Finishes ==
    IF response.finish = "length"
    THEN \A i \in DOMAIN arrived : i < Len(arrived) => arrived[i] = response.calls[i].pieces
    ELSE AllArrived

\* The call whose tool_use event the run gets first, and with which it gives up the
\* stream.  The OpenAI provider emits calls for "tool_calls" only, LiteLLM for "stop"
\* too; Claude's stream yields a call when its block ends, cut off or not.
Emitted(a) ==
    IF \/ DOMAIN a = {}
       \/ provider = "openai" /\ response.finish # "tool_calls"
       \/ provider = "litellm" /\ response.finish = "length"
    THEN {}
    ELSE {CHOOSE i \in DOMAIN a : \A j \in DOMAIN a : i <= j}

\* Claude's first block ends before the next begins; the others emit at the end.
EmitsNow ==
    IF provider = "anthropic"
    THEN 1 \in DOMAIN arrived /\ (arrived[1] = response.calls[1].pieces \/ Finishes)
    ELSE Finishes

\* json.loads of the arguments: the whole input, or {} if they are no JSON.
Input(i) ==
    IF assembly[i].args = response.calls[i].pieces /\ response.calls[i].valid
    THEN assembly[i].args ELSE 0

\* The run gets a tool_use event and awaits the tool; the rest of the stream is lost.
CallTool ==
    /\ phase = "streaming" /\ EmitsNow
    /\ calls < MaxCalls
    /\ \E i \in Emitted(assembly) :
         /\ phase' = "executing"
         /\ executed' = [index |-> assembly[i].index, args |-> Input(i)]
    /\ UNCHANGED <<provider, messages, response, arrived, assembly, calls, runs>>

\* The tool returns, with transcript to steer in or not, and the LLM is called again.
ToolReturns ==
    /\ phase = "executing"
    /\ calls' = calls + 1
    /\ \E chars \in ResultChars, steered \in BOOLEAN :
         CallLLM(messages \o CallMessages(calls + 1, chars)
                          \o (IF steered THEN <<Msg("text", 200, 0)>> ELSE <<>>))
    /\ UNCHANGED <<provider, runs>>

\* A "stop" event without a call before it: the answer joins the conversation.
Stop ==
    /\ phase = "streaming" /\ Finishes
    /\ Emitted(assembly) = {}
    /\ phase' = "idle"
    /\ messages' \in {messages, Append(messages, Msg("answer", 400, 0))}
    /\ response' = None /\ arrived' = <<>> /\ assembly' = <<>>
    /\ UNCHANGED <<provider, executed, calls, runs>>

\* The stream raises: the run ends, and its input stays without an answer.
StreamFails ==
    /\ phase = "streaming"
    /\ phase' = "idle"
    /\ response' = None /\ arrived' = <<>> /\ assembly' = <<>>
    /\ UNCHANGED <<provider, messages, executed, calls, runs>>

\* The bounds are reached.
Finished == phase = "idle" /\ runs = MaxRuns /\ UNCHANGED vars

Next ==
    \/ Begin
    \/ \E i \in DOMAIN arrived : PieceArrives(i)
    \/ CallTool \/ ToolReturns \/ Stop \/ StreamFails
    \/ Finished

Spec == Init /\ [][Next]_vars
-----------------------------------------------------------------------------
Cut(m) == m.state = "cleared"

\* The tokens of the messages that are no summaries.
CountedTokens(ms) ==
    Total([i \in DOMAIN ms |-> IF ms[i].kind = "summary" THEN 0 ELSE MessageTokens(ms[i])])

(* BudgetKept: the LLM is called with a conversation that fits in 90 % of    *)
(* the budget, or there is nothing left to clear, also of what an earlier    *)
(* call cleared, trimmed or compacted; and what is cleared is older than     *)
(* every result that is not, through conversations that grow and shrink.  A  *)
(* summary is not counted: it comes after the pruning and may be longer than *)
(* what it replaces.                                                         *)
BudgetKept ==
    /\ phase = "streaming" /\ 10 * CountedTokens(messages) > 9 * Budget =>
         \A i \in DOMAIN messages : Prunable(messages[i]) => Cut(messages[i])
    /\ \A i, j \in DOMAIN messages :
         i < j /\ Prunable(messages[i]) /\ Cut(messages[j]) => Cut(messages[i])

(* RequestPaired: in every request that goes to an LLM a tool message stands *)
(* directly behind the assistant message with its call, and that one before  *)
(* a tool message, unless a compaction has cut between the two.              *)
RequestPaired ==
    LET r == Request(messages)
    IN  \A i \in DOMAIN r :
          /\ r[i].role = "tool" =>
               i > 1 /\ (messages[i - 1].kind = "summary"
                         \/ r[i - 1] = [role |-> "assistant", holds |-> "use", call |-> r[i].call])
          /\ r[i].holds = "use" =>
               i < Len(r) /\ (messages[i + 1].kind = "summary"
                              \/ r[i + 1] = [role |-> "tool", holds |-> "result", call |-> r[i].call])

(* CallIntact: a tool is executed for the first call of the response, with   *)
(* the input that the LLM gave or none at all, however the pieces of several *)
(* calls interleave and wherever the response is cut off.                    *)
CallIntact ==
    phase = "executing" =>
        /\ executed.index = 1
        /\ executed.args \in {0, response.calls[1].pieces}
        /\ executed.args = 0 <=> ~response.calls[1].valid \/ arrived[1] < response.calls[1].pieces
=============================================================================
