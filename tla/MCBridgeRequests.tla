--------------------------- MODULE MCBridgeRequests ---------------------------
(* Two requests, one or two accounts: one server for each kind of contention. *)
EXTENDS BridgeRequests, TLC

CONSTANTS r1, r2, a1, a2

Serving(k1, k2, accounts, strategy, named, saves) ==
    [kinds |-> (r1 :> k1) @@ (r2 :> k2), accounts |-> accounts, strategy |-> strategy,
     named |-> named, saves |-> saves]

MCServers ==
    {Serving("edit", "vision", <<a1>>, "auto", {}, {<<"upload", a1>>}),
     Serving("chat", "chat", <<a1>>, "auto", {a1}, {<<"chat", a1>>}),
     Serving("image", "image", <<a1, a2>>, "failover", {}, {}),
     Serving("chatImage", "research", <<a1>>, "sticky", {}, {}),
     Serving("stream", "agentStream", <<a1, a2>>, "round-robin", {}, {})}
=============================================================================
