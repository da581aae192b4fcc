---------------------------- MODULE Orchestrator ----------------------------
(***************************************************************************)
(* Delegation to sub-agents: src/src/engine/orchestrator.py, and the part  *)
(* of src/src/gateway/router.py that chooses the sub-agent and the skills  *)
(* of a prompt.                                                            *)
(*                                                                         *)
(* route_to_agent tests its refusals, takes a slot and builds the runtime  *)
(* without an await, so that much is one step of its caller.  The          *)
(* sub-agent then suspends in its recall, its LLM's stream and its tools.  *)
(* A caller awaits its sub-agent and so has one at a time: a run id is     *)
(* the caller that waits for it.                                           *)
(*                                                                         *)
(* A definition marked (mutant) is a plausible bug that a property must    *)
(* catch; no specification uses it.                                        *)
(***************************************************************************)
EXTENDS Naturals, FiniteSets

CONSTANTS
    Callers,        \* who may be waiting for a sub-agent: connections
    MaxSubagents,   \* MAX_CONCURRENT_SUBAGENTS
    MaxChars,       \* MAX_SUBAGENT_RESPONSE_CHARS
    DeltaSizes,     \* lengths of a text_delta
    Workspaces,     \* personas that have a directory under workspaces/
    SkillsOf,       \* persona -> the names of its skills
    Tools           \* names in the tool registry

ASSUME OrchestratorAssumption ==
    /\ MaxSubagents \in Nat \ {0}
    /\ MaxChars \in Nat
    /\ DeltaSizes \subseteq Nat \ {0}
    /\ DOMAIN SkillsOf = Workspaces

VARIABLES
    activeRuns,  \* _active_runs
    subagents    \* caller -> its sub-agent's runtime, or NoSubagent

orchestratorVars == <<activeRuns, subagents>>

-----------------------------------------------------------------------------
\* What a prompt may ask for, and the subjects its words may touch: those of the
\* keyword lists of _infer_agent_from_prompt and _resolve_prompt_skills.
Topics == {"education", "career", "medicine"}
PromptAgents == {"software-engineer", "ai-educator", "doctor"}
AgentTarget == PromptAgents \union {"auto"}

\* _infer_agent_from_prompt: educators' keywords are looked for first.
Inferred(topics, persona) ==
    IF topics \intersect {"education", "career"} # {} THEN "ai-educator"
    ELSE IF "medicine" \in topics THEN "doctor"
    ELSE IF persona \in PromptAgents THEN persona ELSE "software-engineer"

\* _resolve_prompt_agent, for the agents that the client can name.
ResolvedAgent(requested, topics, persona) ==
    IF requested # "auto" THEN requested ELSE Inferred(topics, persona)

\* _resolve_prompt_skills: keywords name skills for the educator only.
ResolvedSkills(agent, topics) ==
    IF agent # "ai-educator" THEN {}
    ELSE (IF "education" \in topics THEN {"curriculum-architect"} ELSE {})
         \union (IF "career" \in topics THEN {"resume-studio"} ELSE {})

-----------------------------------------------------------------------------
Subagent == [persona : Workspaces,
             skills : SUBSET UNION {SkillsOf[p] : p \in Workspaces},
             tools : SUBSET Tools, chars : 0..MaxChars]

NoSubagent == [tools |-> {}]

OrchestratorTypeOK ==
    /\ activeRuns \subseteq Callers
    /\ subagents \in [Callers -> Subagent \union {NoSubagent}]

OrchestratorInit ==
    /\ activeRuns = {}
    /\ subagents = [c \in Callers |-> NoSubagent]

\* _create_subagent_runtime: the hinted skills if the persona has any of them,
\* or else all.
OfferedSkills(persona, hints) ==
    IF hints \intersect SkillsOf[persona] = {} THEN SkillsOf[persona]
    ELSE hints \intersect SkillsOf[persona]

\* _wire_tools: every persona that can be delegated to has the allowlist None.
WiredTools == Tools \ {"route_to_agent"}

Room == Cardinality(activeRuns) < MaxSubagents

\* The refusals at the head of route_to_agent: nothing is changed.
Refused(agent) == agent \notin Workspaces \/ ~Room

\* route_to_agent up to its first suspension.  The delegation context is put in the
\* memory context, which the recall at the head of the run replaces.
Delegate(c, agent, hints) ==
    /\ ~Refused(agent)
    /\ subagents[c] = NoSubagent
    /\ activeRuns' = activeRuns \union {c}
    /\ subagents' = [subagents EXCEPT ![c] =
           [persona |-> agent, skills |-> OfferedSkills(agent, hints),
            tools |-> WiredTools, chars |-> 0]]

\* The runtime cannot be built (no model for the persona): the slot taken is
\* given back by the finally clause in the same step.
DelegationFails(c, agent) ==
    /\ ~Refused(agent)
    /\ subagents[c] = NoSubagent
    /\ UNCHANGED orchestratorVars

Works(c) == subagents[c] # NoSubagent

\* A tool of the sub-agent runs: none of them delegates.
UseTool(c, t) ==
    /\ Works(c)
    /\ t \in subagents[c].tools
    /\ UNCHANGED orchestratorVars

UncheckedDelta(c, n) ==  \* (mutant) the limit is tested before the delta is added
    subagents[c].chars <= MaxChars

Fits(c, n) == subagents[c].chars + n <= MaxChars

\* A text_delta that fits is collected.
Collect(c, n) ==
    /\ Works(c)
    /\ Fits(c, n)
    /\ subagents' = [subagents EXCEPT ![c].chars = @ + n]
    /\ UNCHANGED activeRuns

\* The finally clause of route_to_agent.
Discarded(c, outcome) == activeRuns \ {c}

\* _run_subagent returns: the stream is done, or a delta did not fit and the
\* response is cut off, or the run raised and the reply says so.
SubagentEnds(c, outcome) ==
    /\ Works(c)
    /\ outcome = "truncated" => \E n \in DeltaSizes : ~Fits(c, n)
    /\ activeRuns' = Discarded(c, outcome)
    /\ subagents' = [subagents EXCEPT ![c] = NoSubagent]

Outcomes == {"done", "truncated", "error"}

SubagentActs(c) ==
    \/ \E t \in Tools : UseTool(c, t)
    \/ \E n \in DeltaSizes : Collect(c, n)
=============================================================================
