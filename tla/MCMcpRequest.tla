---------------------------- MODULE MCMcpRequest ----------------------------
EXTENDS McpRequest

CONSTANTS id1, id2

MCIds == {id1, id2}

GoodCall == [params |-> TRUE, name |-> "windbg.eval", arguments |-> TRUE, command |-> TRUE]
Message(id, method, call) == [jsonrpc |-> "2.0", id |-> id, method |-> method, call |-> call]
Post(body) == [path |-> "/mcp", origin |-> Absent, protocol |-> Absent,
               method |-> "POST", body |-> body]

BadCalls ==
  {[GoodCall EXCEPT !.params = FALSE], [GoodCall EXCEPT !.arguments = FALSE],
   [GoodCall EXCEPT !.command = FALSE]}
  \cup {[GoodCall EXCEPT !.name = name] : name \in {"other", Absent}}

\* Each check of the router passed or failed on its own, with and without an
\* id, and each check before the router with a call and with no JSON at all.
SomeRequests ==
  {Post(b) : b \in {NotJson}
     \cup {Message(id, method, GoodCall) : id \in {id1, id2, NullId, Absent},
             method \in Methods \cup {Absent}}
     \cup {Message(id, "tools/call", call) : id \in {id1, Absent}, call \in BadCalls}
     \cup {[Message(id, "tools/call", GoodCall) EXCEPT !.jsonrpc = v] :
             id \in {id1, Absent}, v \in {"other", Absent}}}
  \cup UNION {{[Post(b) EXCEPT !.path = "other"],
               [Post(b) EXCEPT !.origin = "remote"],
               [Post(b) EXCEPT !.origin = "local", !.protocol = "unsupported"],
               [Post(b) EXCEPT !.protocol = "supported", !.method = "GET"],
               [Post(b) EXCEPT !.method = "other"]} :
              b \in {NotJson} \cup {Message(id, "tools/call", GoodCall) : id \in {id1, Absent}}}
=============================================================================
