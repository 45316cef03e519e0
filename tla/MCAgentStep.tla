------------------------------ MODULE MCAgentStep ------------------------------
(* Instances of AgentStep for TLC. *)
EXTENDS AgentStep

Offer(tool, text) == [tool |-> tool, text |-> text]

Node(offers, policy) ==
    [offers |-> offers, policy |-> policy, scope |-> "invocation", repeat |-> FALSE,
     tries |-> 2, auth |-> "fail", outside |-> "fail", cap |-> 2]

(* Files under confirmation; patches and requests under the repeat policy or *)
(* a content-wide approval; a remote tool that asks, with and without        *)
(* redactable arguments; calls without side effects; a policy that denies.   *)
Files    == Node({Offer("write", "a"), Offer("write", "b")}, "confirm")
Patches  == [Node({Offer("patch", "a")}, "allowed") EXCEPT !.repeat = TRUE]
Requests == [Node({Offer("http", "secret"), Offer("command", "c")}, "confirm") EXCEPT !.scope = "content"]
Strict   == [Node({Offer("mcp", "a")}, "allowed") EXCEPT !.auth = "fail"]
Remotes  == [Node({Offer("mcp", "a")}, "allowed") EXCEPT !.repeat = TRUE, !.auth = "wait"]
Private  == [Node({Offer("mcp", "secret")}, "allowed") EXCEPT !.repeat = TRUE, !.auth = "degrade"]
Queries  == [Node({Offer("query", "a")}, "none") EXCEPT !.repeat = TRUE, !.outside = "clarify"]
Asks     == [Node({Offer("ask", "secret"), Offer("get", "secret"), Offer("search", "s")}, "none") EXCEPT !.outside = "clamp"]
Denied   == Node({Offer("command", "c")}, "none")

MCSetups == {Files, Patches, Requests, Strict, Remotes, Private, Queries, Asks, Denied}
MCAsks   == {Asks}
MCStrict == {Strict}
MCFiles  == {Files}

=============================================================================
