--------------------------- MODULE MCKnowledgeBase ---------------------------
(* Instances of KnowledgeBase for TLC. *)
EXTENDS KnowledgeBase

\* slugify drops what is no letter, digit or hyphen.
Slugs == [n \in {"C++", "C#", "RAG", "Saga"} |-> IF n \in {"C++", "C#"} THEN "c" ELSE n]

\* Two names that the agents' notes share a file for.
SomeNotes == {<<"terms", "C++">>, <<"terms", "C#">>}
SomeSeeds == <<"C#", "C++">>
SomeOthers == {<<"patterns", "Saga">>}
=============================================================================
