---------------------------- MODULE MCTransport ----------------------------
(* One call of each kind; an answer of at most two events, each with the   *)
(* facts that decide how the call goes on.                                  *)
EXTENDS Transport

MCEvents ==
    [chat |-> {{"text"}, {"id", "handoff"}, {"handoff"}, {"done"}},
     image |-> {{"id"}, {"handoff"}, {"asset"}, {"id", "sediment"}, {"sediment"},
                {"id", "input"}, {"done"}},
     research |-> {{"text"}, {"report"}, {"widget"}, {"id", "handoff"}, {"failed"},
                   {"id", "message", "widget"}, {"message", "plan"}, {"done"}}]
=============================================================================
