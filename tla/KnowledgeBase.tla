---------------------------- MODULE KnowledgeBase ----------------------------
(***************************************************************************)
(* The knowledge base that agents share: the notes of the vault, and the   *)
(* counters of the feedback database.  Agents reach them by tools, of      *)
(* which vault_write, vault_read and term_feedback run to their end on the *)
(* event loop, while the others await a process of their own or a server,  *)
(* up to a timeout.  Scripts write to the same vault from processes of     *)
(* theirs, and any process may die half way.                               *)
(*                                                                         *)
(* A note's content is the sequence of the texts in it: a text is the      *)
(* number of the call that gave it first, or SeedText.  The command lines  *)
(* and the servers are external.                                           *)
(*                                                                         *)
(* A definition marked (mutant) is a plausible bug that a property must    *)
(* catch; no specification uses it.                                        *)
(***************************************************************************)
EXTENDS Integers, Sequences, FiniteSets, Functions

CONSTANTS
    Agents,      \* agents whose runs interleave
    Notes,       \* pairs of a kind and a name that agents may write
    SlugOf,      \* slugify of each name
    SeedTerms,   \* SEED_TERMS, as a sequence of names
    SeedOthers,  \* the patterns and concepts of seed_patterns_concepts.py
    Terms,       \* terms that feedback is given on
    MaxCalls,    \* bound on tool calls, those of term_feedback included
    Days,        \* days on which notes are written
    MaxSeedings, \* bound on starts of the seeding script
    MaxCrashes   \* bound on crashes of a process

Kinds == {"papers", "terms", "insights", "patterns", "concepts"}
SeedText == 0

ASSUME KnowledgeAssumption ==
    /\ Notes \subseteq Kinds \X DOMAIN SlugOf
    /\ SeedOthers \subseteq {"patterns", "concepts"} \X DOMAIN SlugOf
    /\ SeedTerms \in Seq(DOMAIN SlugOf) /\ SeedTerms # <<>>
    /\ MaxCalls \in Nat /\ Days \subseteq Nat \ {0}
    /\ MaxSeedings \in Nat /\ MaxCrashes \in Nat

VARIABLES
    files,    \* the notes on the disk: their texts, and whether they are whole
    calls,    \* the tool calls made, each with its agent, tool, file, text and state
    process,  \* for a call with a process: what that has come to
    rows,     \* the table term_feedback: times_used of each row
    uses,     \* of each term, the calls of term_feedback: told, and begun
    seeder,   \* the process of seed_terms.py
    counts    \* crashes, seedings and feedback, for the bounds

vars == <<files, calls, process, rows, uses, seeder, counts>>
noteVars == <<files, calls, process>>
feedbackVars == <<rows, uses>>

Asking == {"ask", "web", "scan"}
Tools == {"vault_write", "create", "append"} \union Asking
States == {"running", "written", "failed", "timed_out", "answered", "lost"}
Seeder == [state : {"off", "checking", "writing"}, next : 1..(Len(SeedTerms) + 1), raced : BOOLEAN]
-----------------------------------------------------------------------------
\* Where the five writers of vault/writer.py put a note: papers and insights have
\* the day in the name of the file, and of a name there is only its slug.
PaperFile(title, day) == <<"papers", day, SlugOf[title]>>
TermFile(term) == <<"terms", 0, SlugOf[term]>>
InsightFile(title, day) == <<"insights", day, SlugOf[title]>>
PatternFile(name) == <<"patterns", 0, SlugOf[name]>>
ConceptFile(name) == <<"concepts", 0, SlugOf[name]>>

\* The files that a note may go to, by the day.
FilesOf(kind, name) ==
    CASE kind = "papers" -> {PaperFile(name, day) : day \in Days}
      [] kind = "terms" -> {TermFile(name)}
      [] kind = "insights" -> {InsightFile(name, day) : day \in Days}
      [] kind = "patterns" -> {PatternFile(name)}
      [] kind = "concepts" -> {ConceptFile(name)}

Targets == UNION {FilesOf(n[1], n[2]) : n \in Notes}
Files == Kinds \X (Days \union {0}) \X Range(SlugOf)
NoFile == <<>>

Texts(f) == IF f \in DOMAIN files THEN Range(files[f].texts) ELSE {}

TypeOK ==
    /\ DOMAIN files \subseteq Files
    /\ \A f \in DOMAIN files : files[f] \in [texts : Seq(0..MaxCalls), whole : BOOLEAN]
    /\ calls \in Seq([agent : Agents, tool : Tools, file : Files \union {NoFile}, text : 1..MaxCalls, state : States])
    /\ DOMAIN process \subseteq DOMAIN calls
    /\ Range(process) \subseteq {"works", "ok", "error"}
    /\ DOMAIN rows \subseteq Terms /\ Range(rows) \subseteq Nat
    /\ uses \in [Terms -> [told : Nat, begun : Nat]]
    /\ seeder \in Seeder
    /\ counts \in [crashes : 0..MaxCrashes, seedings : 0..MaxSeedings, uses : 0..MaxCalls]

Init ==
    /\ files = <<>> /\ calls = <<>> /\ process = <<>>
    /\ rows = <<>> /\ uses = [t \in Terms |-> [told |-> 0, begun |-> 0]]
    /\ seeder = [state |-> "off", next |-> 1, raced |-> FALSE]
    /\ counts = [crashes |-> 0, seedings |-> 0, uses |-> 0]

\* The file holds these texts now.
Holding(f, texts, whole) ==
    [g \in DOMAIN files \union {f} |->
        IF g = f THEN [texts |-> texts, whole |-> whole] ELSE files[g]]

\* An agent's write meets the seeding between the check for a file and its write.
Raced(f) ==
    [seeder EXCEPT !.raced =
        @ \/ (seeder.state = "writing" /\ f = TermFile(SeedTerms[seeder.next]))]
-----------------------------------------------------------------------------
Waits(a) == \E c \in DOMAIN calls : calls[c].agent = a /\ calls[c].state = "running"

\* The calls that a text was given with.
Given(text) == {d \in DOMAIN calls : calls[d].text = text}

\* What an agent may write: something new, or once more what it was always told it
\* failed to.
TextsOf(a, f) ==
    {Len(calls) + 1} \union
        {calls[c].text : c \in {d \in DOMAIN calls :
            /\ calls[d].agent = a /\ calls[d].file = f /\ calls[d].tool \notin Asking
            /\ \A e \in Given(calls[d].text) : calls[e].state \in {"failed", "timed_out"}}}

Call(a, tool, f, text, state) ==
    Append(calls, [agent |-> a, tool |-> tool, file |-> f, text |-> text, state |-> state])

MayCall(a) == ~Waits(a) /\ Len(calls) + counts.uses < MaxCalls

\* _write_md: write_text replaces the file.  If the disk is full, what was there is
\* gone all the same.
Replaced(f, text, ok) == Holding(f, IF ok THEN <<text>> ELSE <<>>, ok)

\* vault_write with all fields.
VaultWrite(a) ==
    /\ MayCall(a)
    /\ \E f \in Targets, ok \in BOOLEAN : \E text \in TextsOf(a, f) :
         /\ files' = Replaced(f, text, ok)
         /\ calls' = Call(a, "vault_write", f, text, IF ok THEN "written" ELSE "failed")
         /\ seeder' = Raced(f)
    /\ UNCHANGED <<process, feedbackVars, counts>>

\* vault_write with a field missing or a path that is none of the five, and the other
\* tools if their program is not installed: nothing changes.
Refuses(a) ==
    /\ MayCall(a)
    /\ calls' = Call(a, "vault_write", NoFile, Len(calls) + 1, "failed")
    /\ UNCHANGED <<files, process, feedbackVars, seeder, counts>>
-----------------------------------------------------------------------------
\* A process is started for the call that is made now.
Started == [c \in DOMAIN process \union {Len(calls) + 1} |->
               IF c \in DOMAIN process THEN process[c] ELSE "works"]

\* obsidian_create, with append or not.
ObsidianCreate(a) ==
    /\ MayCall(a)
    /\ \E f \in Targets, tool \in {"create", "append"} : \E text \in TextsOf(a, f) :
         calls' = Call(a, tool, f, text, "running")
    /\ process' = Started
    /\ UNCHANGED <<files, feedbackVars, seeder, counts>>

\* A tool that changes no note awaits an answer.
Asks(a, tool) ==
    /\ MayCall(a)
    /\ calls' = Call(a, tool, NoFile, Len(calls) + 1, "running")
    /\ process' = Started
    /\ UNCHANGED <<files, feedbackVars, seeder, counts>>

\* qmd_search, and the recall of a sub-agent.
QmdSearch(a) == Asks(a, "ask")

\* web_search: Tavily is asked first, or DuckDuckGo at once if there is no key.
WebSearch(a) == Asks(a, "web") \/ Asks(a, "ask")

\* blog_scan: "scan" first, then "articles".
BlogScan(a) == Asks(a, "scan")

\* rss_fetch, and likewise paper_fetch, summarize_url and the other commands.
RssFetch(a) == Asks(a, "ask")

\* The process of a call does its work, or fails; it does not know whether somebody
\* still waits for it, and it may never end.
ProcessEnds(c) ==
    /\ c \in DOMAIN process /\ process[c] = "works"
    /\ LET f == calls[c].file
           before == IF f \in DOMAIN files THEN files[f] ELSE [texts |-> <<>>, whole |-> TRUE]
       IN  \/ /\ calls[c].tool \notin Asking
              /\ process' = [process EXCEPT ![c] = "ok"]
              /\ files' = IF calls[c].tool = "create" THEN Replaced(f, calls[c].text, TRUE)
                          ELSE Holding(f, Append(before.texts, calls[c].text), before.whole)
              /\ seeder' = Raced(f)
           \/ /\ process' = [process EXCEPT ![c] = "error"]
              /\ UNCHANGED <<files, seeder>>
           \/ /\ calls[c].tool \in Asking
              /\ process' = [process EXCEPT ![c] = "ok"]
              /\ UNCHANGED <<files, seeder>>
    /\ UNCHANGED <<calls, feedbackVars, counts>>

ReportAnyway(c) == "written"  \* (mutant) the return code is not looked at

ReportCode(c) == process[c]  \* (mutant) what the process returned is passed on

\* An agent that asks gets a text in any case: the answer, or what went wrong.
Report(c) ==
    IF calls[c].tool \in Asking THEN "answered"
    ELSE IF process[c] = "ok" THEN "written" ELSE "failed"

Running(c) == c \in DOMAIN calls /\ calls[c].state = "running"

\* A second question follows: DuckDuckGo's, when Tavily has answered nothing, fails or
\* times out (_tavily_search returns None then); "articles", when "scan" is done.
\* (DuckDuckGo is asked by HTTP: the package that _ddg_search tries first, which would
\* ask it without an await, is no dependency of the program.)
SecondFollows(c) ==
    \/ calls[c].tool = "web" /\ process[c] \in {"works", "error"}
    \/ calls[c].tool = "scan" /\ process[c] = "ok"

AsksAgain(c) ==
    /\ Running(c) /\ SecondFollows(c)
    /\ calls' = [calls EXCEPT ![c].tool = "ask"]
    /\ process' = [process EXCEPT ![c] = "works"]
    /\ UNCHANGED <<files, feedbackVars, seeder, counts>>

\* communicate() returns, and the tool with it.
Returns(c) ==
    /\ Running(c) /\ ~SecondFollows(c)
    /\ process[c] # "works"
    /\ calls' = [calls EXCEPT ![c].state = Report(c)]
    /\ process' = [d \in DOMAIN process \ {c} |-> process[d]]
    /\ UNCHANGED <<files, feedbackVars, seeder, counts>>

HasTimeoutSearch(tool) == tool = "ask"  \* (mutant) the CLI has no timeout

HasTimeout(tool) == TRUE

\* The timeout: QMD's process is killed, the obsidian CLI's is left to itself.  (So are
\* those of the other commands, which then change no note; an HTTP call ends.)
TimesOut(c) ==
    /\ Running(c) /\ ~SecondFollows(c)
    /\ process[c] = "works"
    /\ HasTimeout(calls[c].tool)
    /\ calls' = [calls EXCEPT ![c].state = IF calls[c].tool \in Asking THEN "answered" ELSE "timed_out"]
    /\ process' = IF calls[c].tool \in Asking
                  THEN [d \in DOMAIN process \ {c} |-> process[d]] ELSE process
    /\ UNCHANGED <<files, feedbackVars, seeder, counts>>
-----------------------------------------------------------------------------
\* _ensure_row.
WithRow(t) == [u \in DOMAIN rows \union {t} |-> IF u \in DOMAIN rows THEN rows[u] ELSE 0]

\* bump_used: the row is committed first, then the counter.  (bump_suggested and
\* bump_dismissed do the same with columns of their own.)
Bumped(t) == [WithRow(t) EXCEPT ![t] = @ + 1]

\* term_feedback: the database may be locked by another process, before the row or
\* after it.
TermFeedback(a, t) ==
    /\ MayCall(a)
    /\ counts' = [counts EXCEPT !.uses = @ + 1]
    /\ \/ rows' = Bumped(t) /\ uses' = [uses EXCEPT ![t] = [told |-> @.told + 1, begun |-> @.begun + 1]]
       \/ rows' \in {rows, WithRow(t)} /\ uses' = [uses EXCEPT ![t].begun = @ + 1]
    /\ UNCHANGED <<noteVars, seeder>>
-----------------------------------------------------------------------------
MayCrash == counts.crashes < MaxCrashes
Crashed == [counts EXCEPT !.crashes = @ + 1]

\* Nobody is told any more; the processes that were started go on.
Forgotten(cs) == [c \in DOMAIN cs |-> IF cs[c].state = "running" THEN [cs[c] EXCEPT !.state = "lost"] ELSE cs[c]]

\* The server's process dies: at any time, or while it writes a note or a counter.
ServerDies ==
    /\ MayCrash
    /\ \/ /\ counts' = Crashed
          /\ calls' = Forgotten(calls)
          /\ UNCHANGED <<files, feedbackVars, seeder>>
       \/ \E a \in Agents, f \in Targets :
            /\ MayCall(a)
            /\ counts' = Crashed
            /\ files' = Replaced(f, Len(calls) + 1, FALSE)
            /\ calls' = Forgotten(Call(a, "vault_write", f, Len(calls) + 1, "running"))
            /\ seeder' = Raced(f)
            /\ UNCHANGED feedbackVars
       \/ \E a \in Agents, t \in Terms :
            /\ MayCall(a)
            /\ counts' = [Crashed EXCEPT !.uses = @ + 1]
            /\ rows' \in {WithRow(t), Bumped(t)}
            /\ uses' = [uses EXCEPT ![t].begun = @ + 1]
            /\ calls' = Forgotten(calls)
            /\ UNCHANGED <<files, seeder>>
    /\ UNCHANGED <<process>>
-----------------------------------------------------------------------------
\* seed_terms.py is started.
SeedingStarts ==
    /\ seeder.state = "off" /\ counts.seedings < MaxSeedings
    /\ seeder' = [state |-> "checking", next |-> 1, raced |-> FALSE]
    /\ counts' = [counts EXCEPT !.seedings = @ + 1]
    /\ UNCHANGED <<noteVars, feedbackVars>>

NeverExists(f) == FALSE  \* (mutant) the test for an existing file is missing

\* target.exists(), for a torn file too.
Exists(f) == f \in DOMAIN files

NextSeed ==
    IF seeder.next = Len(SeedTerms) THEN [seeder EXCEPT !.state = "off", !.next = @ + 1]
    ELSE [seeder EXCEPT !.state = "checking", !.next = @ + 1]

\* load_seed_terms looks for the file of the next term.
SeedChecks ==
    /\ seeder.state = "checking"
    /\ seeder' = IF Exists(TermFile(SeedTerms[seeder.next])) THEN NextSeed
                 ELSE [seeder EXCEPT !.state = "writing", !.raced = FALSE]
    /\ UNCHANGED <<noteVars, feedbackVars, counts>>

\* It writes the term, whatever is there by now.
SeedWrites ==
    /\ seeder.state = "writing"
    /\ files' = Replaced(TermFile(SeedTerms[seeder.next]), SeedText, TRUE)
    /\ seeder' = NextSeed
    /\ UNCHANGED <<calls, process, feedbackVars, counts>>

\* The script dies, perhaps in the middle of a term.
SeederDies ==
    /\ seeder.state # "off"
    /\ MayCrash /\ counts' = Crashed
    /\ files' \in {files} \union
           (IF seeder.state = "writing"
            THEN {Replaced(TermFile(SeedTerms[seeder.next]), SeedText, FALSE)} ELSE {})
    /\ seeder' = [seeder EXCEPT !.state = "off", !.next = 1]
    /\ UNCHANGED <<calls, process, feedbackVars>>

\* seed_patterns_concepts.py writes its notes without looking.
SeedOther ==
    /\ \E n \in SeedOthers : \E f \in FilesOf(n[1], n[2]) : files' = Replaced(f, SeedText, TRUE)
    /\ UNCHANGED <<calls, process, feedbackVars, seeder, counts>>
-----------------------------------------------------------------------------
ToolActs(a) ==
    \/ VaultWrite(a) \/ Refuses(a) \/ ObsidianCreate(a)
    \/ QmdSearch(a) \/ WebSearch(a) \/ BlogScan(a) \/ RssFetch(a)
    \/ \E t \in Terms : TermFeedback(a, t)

ProcessActs(c) == ProcessEnds(c) \/ AsksAgain(c) \/ Returns(c) \/ TimesOut(c)

Scripts == SeedingStarts \/ SeedChecks \/ SeedWrites \/ SeederDies \/ SeedOther

Next ==
    \/ \E a \in Agents : ToolActs(a)
    \/ \E c \in DOMAIN calls : ProcessActs(c)
    \/ ServerDies
    \/ Scripts

Spec == Init /\ [][Next]_vars

\* The event loop resumes a call whose process has ended and fires its timer if not.
\* Nothing makes a process end.
Fairness ==
    \A c \in 1..MaxCalls : WF_vars(Returns(c)) /\ WF_vars(TimesOut(c)) /\ WF_vars(AsksAgain(c))

FairSpec == Spec /\ Fairness
-----------------------------------------------------------------------------
Overwrites(c) == calls[c].tool \in {"vault_write", "create"}

\* Another call may have replaced the note since.
Covered(c) ==
    \E d \in DOMAIN calls \ {c} :
        /\ calls[d].file = calls[c].file /\ Overwrites(d)
        /\ d > c \/ calls[d].tool = "create"

\* The process of a call with this text may have done, or do, what nobody was told.
Unsure(text) ==
    \E d \in DOMAIN calls : calls[d].text = text /\ calls[d].state \in {"timed_out", "lost"}

Times(text, f) ==
    IF f \in DOMAIN files
    THEN Cardinality({i \in DOMAIN files[f].texts : files[f].texts[i] = text}) ELSE 0

(* ReportsTrue: what a tool told its agent is so.  A note reported as        *)
(* written has its text, unless another call or a script may have replaced   *)
(* it since, or it was torn; a text that only failed calls gave is in no     *)
(* note, and none is there twice, unless a call with it timed out or was     *)
(* lost in a crash: its process may still do what the agent does again.  And *)
(* the counters have every feedback that was confirmed, and none that was    *)
(* not begun.                                                                *)
ReportsTrue ==
    /\ \A c \in DOMAIN calls :
         LET f == calls[c].file
             n == Times(calls[c].text, f)
         IN  f # NoFile =>
               /\ calls[c].state = "written" =>
                    \/ n > 0 \/ Covered(c) \/ SeedText \in Texts(f)
                    \/ f \in DOMAIN files /\ ~files[f].whole
               /\ calls[c].state = "failed" /\ Given(calls[c].text) = {c} => n = 0
               /\ n <= 1 \/ Unsure(calls[c].text)
    /\ \A t \in Terms :
         LET n == IF t \in DOMAIN rows THEN rows[t] ELSE 0
         IN  uses[t].told <= n /\ n <= uses[t].begun

(* SeedsYield: load_seed_terms replaces no note that is there when it comes  *)
(* to it ("Skips terms that already exist on disk", load_seeds.py:4), also   *)
(* when two names have one slug, unless an agent's write falls between the   *)
(* check and the write; and when it has come to its end, every seed term     *)
(* has its note.                                                             *)
SeedsYield ==
    /\ [][\A f \in DOMAIN files :
            f[1] = "terms" /\ files'[f] # files[f] /\ files'[f].texts = <<SeedText>> => seeder.raced]_vars
    /\ [](seeder.next > Len(SeedTerms) =>
            \A i \in DOMAIN SeedTerms : TermFile(SeedTerms[i]) \in DOMAIN files)

(* CallsReturn: every tool call returns, even if the process or the server   *)
(* that it waits for hangs, and if a second one does after the first.        *)
CallsReturn == \A a \in Agents : Waits(a) ~> ~Waits(a)
=============================================================================
