---------------------------- MODULE MCAgentTurns ----------------------------
(* Three calls, and the answers and results that the code tells apart. *)
EXTENDS AgentTurns

Poor == [tool |-> "write", arg |-> "poor page"]
Good == [tool |-> "write", arg |-> "good page"]
Shell == [tool |-> "bash", arg |-> "mutating"]

MCCalls == {Poor, Good, Shell}

Prose(abandons, claims) ==
    [brace |-> FALSE, json |-> FALSE, calls |-> {}, abandons |-> abandons, claims |-> claims]
Json(calls) ==
    [brace |-> TRUE, json |-> TRUE, calls |-> calls, abandons |-> FALSE, claims |-> FALSE]
Fenced(calls) ==
    [brace |-> FALSE, json |-> FALSE, calls |-> calls, abandons |-> FALSE, claims |-> FALSE]

MCTexts ==
    {Prose(FALSE, FALSE), Prose(TRUE, FALSE), Prose(FALSE, TRUE)}
        \cup {Json(c) : c \in {{}, {Poor}, {Shell}, {Good, Shell}}}
        \cup {Fenced({Good}), Fenced({Poor, Shell})}

MCResults == {{"success"}, {"wrote"}, {"error"}, {"exception", "completed"}}

MCWishes == {{}, {"tool"}, {"tool", "mutation"}, {"tool", "mutation", "polished"}}
=============================================================================
