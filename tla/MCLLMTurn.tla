------------------------------ MODULE MCLLMTurn ------------------------------
(* Instances of LLMTurn for TLC. *)
EXTENDS LLMTurn

Call(n) == [pieces |-> n, valid |-> TRUE]

\* An answer, two calls, one whose arguments are no JSON, calls that are announced as
\* "stop", and calls that max_tokens cuts off.
SomeResponses ==
    {[calls |-> <<>>, finish |-> "stop"],
     [calls |-> <<Call(2), Call(1)>>, finish |-> "tool_calls"],
     [calls |-> <<[pieces |-> 1, valid |-> FALSE]>>, finish |-> "tool_calls"],
     [calls |-> <<Call(1)>>, finish |-> "stop"],
     [calls |-> <<Call(2)>>, finish |-> "length"]}
=============================================================================
