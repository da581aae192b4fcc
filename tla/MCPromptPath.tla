---------------------------- MODULE MCPromptPath ----------------------------
(* Instances of PromptPath for TLC. *)
EXTENDS PromptPath

\* The workspaces and some of the skills that the repository ships.
Skills ==
    [p \in Workspaces |->
        CASE p = "software-engineer" -> {"term-suggest", "meeting-prep"}
          [] p = "ai-educator" -> {"curriculum-architect", "resume-studio"}
          [] OTHER -> {"context-routing"}]

\* A prompt that names the doctor, who has no workspace, and one whose words lead
\* it to the educator, away from the doctor.
SomePrompts ==
    {[agent |-> "doctor", topics |-> {}], [agent |-> "auto", topics |-> {"career", "medicine"}]}
=============================================================================
