---------------------------- MODULE SessionInbox ----------------------------
(***************************************************************************)
(* What the command queue promises, without timers, runs or lanes: each    *)
(* session has an inbox.  A message is accepted into the inbox (where an   *)
(* overflow may cost messages of that inbox and of no other) or injected   *)
(* into the turn in progress.                                              *)
(* A turn takes the whole inbox.  Once the inbox service is closed no turn *)
(* begins.                                                                 *)
(***************************************************************************)
EXTENDS Naturals, FiniteSets

CONSTANTS Sessions, MaxMessages

VARIABLES
    accepted,  \* messages accepted so far: they are numbered 1..accepted
    open,      \* turns may begin
    inbox,     \* session -> messages that wait for the next turn
    turns,     \* session -> the message sets that its turns took
    injected,  \* messages that went into a turn in progress
    lost       \* messages given up by an overflow

vars == <<accepted, open, inbox, turns, injected, lost>>

Init ==
    /\ accepted = 0
    /\ open = TRUE
    /\ inbox = [s \in Sessions |-> {}]
    /\ turns = [s \in Sessions |-> {}]
    /\ injected = {}
    /\ lost = {}

Accept(s) ==
    LET m == accepted + 1
    IN  /\ accepted < MaxMessages
        /\ accepted' = m
        /\ \E gone \in SUBSET (inbox[s] \union {m}) :
             /\ inbox' = [inbox EXCEPT ![s] = (@ \union {m}) \ gone]
             /\ lost' = lost \union gone
        /\ UNCHANGED <<open, turns, injected>>

Inject ==
    /\ accepted < MaxMessages
    /\ accepted' = accepted + 1
    /\ injected' = injected \union {accepted + 1}
    /\ UNCHANGED <<open, inbox, turns, lost>>

TakeTurn(s) ==
    /\ open
    /\ inbox[s] # {}
    /\ turns' = [turns EXCEPT ![s] = @ \union {inbox[s]}]
    /\ inbox' = [inbox EXCEPT ![s] = {}]
    /\ UNCHANGED <<accepted, open, injected, lost>>

Close ==
    /\ open
    /\ open' = FALSE
    /\ UNCHANGED <<accepted, inbox, turns, injected, lost>>

Next ==
    \/ \E s \in Sessions : Accept(s) \/ TakeTurn(s)
    \/ Inject
    \/ Close

\* What may happen to messages.
Safety == Init /\ [][Next]_vars

\* A session whose inbox is not empty gets its turn.
Spec == Safety /\ \A s \in Sessions : WF_vars(TakeTurn(s))
=============================================================================
