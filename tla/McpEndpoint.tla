------------------------------ MODULE McpEndpoint ------------------------------
(***************************************************************************)
(* Requests to the MCP endpoint behind its guard (packages/ts-             *)
(* host/src/mcp/mcp-server.ts): the tools are resolved for the user of the *)
(* request, which may take resources; a server and a transport are built   *)
(* for the request alone; a tool that bridges to the handler of the agent  *)
(* runs one turn without memory (mcp/bridge.ts).                           *)
(*                                                                         *)
(* External: the resolver of the agent, its handler, the MCP SDK.  The     *)
(* client may close the connection between any two steps.                  *)
(***************************************************************************)
EXTENDS Naturals

CONSTANTS McpRequests

VARIABLES
  mcp,     (* mcp[r]: a request, from the handler of the endpoint to the end   *)
  tool     (* tool[r]: the call of a tool: its turn, and what it answered      *)

mcpVars == <<mcp, tool>>

Init ==
  /\ mcp = [r \in McpRequests |-> [pc |-> "new", holds |-> FALSE, releases |-> 0, listening |-> FALSE, closed |-> FALSE]]
  /\ tool = [r \in McpRequests |-> [pc |-> "none", cancelled |-> FALSE, error |-> FALSE]]

--------------------------------------------------------------------------------
(* Any method but POST is answered at once; else the tools are resolved: a *)
(* list that is there, or a call of the resolver.                          *)
Received(r) ==
  /\ mcp[r].pc = "new"
  /\ \E next \in {"refused", "resolving", "building"} : mcp' = [mcp EXCEPT ![r].pc = next]
  /\ UNCHANGED tool

(* The resolver returns a list, or a list with a release; or it throws.    *)
Resolved(r) ==
  /\ mcp[r].pc = "resolving"
  /\ \/ \E takes \in BOOLEAN : mcp' = [mcp EXCEPT ![r].pc = "building", ![r].holds = takes]
     \/ mcp' = [mcp EXCEPT ![r].pc = "rejected"]
  /\ UNCHANGED tool

Free(m) == [m EXCEPT !.holds = FALSE, !.releases = IF m.holds THEN @ + 1 ELSE @]

(* Mutant: the resources are given back when the request has been handled, *)
(* as well as when the response closes.                                    *)
FreeEarly(m) == [m EXCEPT !.releases = IF m.holds THEN @ + 1 ELSE @]

Handled(m) == m

(* buildMcpServer and the transport are there, and only then does the      *)
(* handler listen to the close of the response: a tool registered twice    *)
(* makes it throw before.                                                  *)
Built(r) ==
  /\ mcp[r].pc = "building"
  /\ \/ mcp' = [mcp EXCEPT ![r].pc = "serving", ![r].listening = ~mcp[r].closed]
     \/ mcp' = [mcp EXCEPT ![r].pc = "rejected"]
  /\ UNCHANGED tool

(* A tool of the request is called: the bridge runs one turn of the handler *)
(* with a fresh task, no progress and the signal of the call.              *)
CallTool(r) ==
  /\ mcp[r].pc = "serving" /\ tool[r].pc = "none"
  /\ tool' = [tool EXCEPT ![r].pc = "running"]
  /\ UNCHANGED mcp

(* The handler answers, fails or throws; the server answers the call.  A   *)
(* failed turn is an error of the tool.                                    *)
ToolEnds(r) ==
  /\ tool[r].pc = "running"
  /\ \E failed \in BOOLEAN : tool' = [tool EXCEPT ![r].pc = "ended", ![r].error = failed]
  /\ UNCHANGED mcp

(* The response closes, because it was sent or because the client left: the *)
(* transport cancels the tool that runs, and the resources are given back. *)
Closed(r) ==
  IF mcp[r].listening
  THEN /\ mcp' = [mcp EXCEPT ![r] = [Free(@) EXCEPT !.pc = "served", !.closed = TRUE, !.listening = FALSE]]
       /\ tool' = IF tool[r].pc = "running" THEN [tool EXCEPT ![r].cancelled = TRUE] ELSE tool
  ELSE mcp' = [mcp EXCEPT ![r].closed = TRUE] /\ UNCHANGED tool

Answered(r) ==
  /\ mcp[r].pc = "serving" /\ tool[r].pc # "running" /\ ~mcp[r].closed
  /\ mcp' = [mcp EXCEPT ![r] = [Free(Handled(@)) EXCEPT !.pc = "served", !.closed = TRUE, !.listening = FALSE]]
  /\ UNCHANGED tool

Leave(r) == mcp[r].pc \notin {"new", "served"} /\ ~mcp[r].closed /\ Closed(r)

Next == \E r \in McpRequests :
  Received(r) \/ Resolved(r) \/ Built(r) \/ CallTool(r) \/ ToolEnds(r) \/ Answered(r) \/ Leave(r)

Spec == Init /\ [][Next]_mcpVars

--------------------------------------------------------------------------------
(* What a served request took is given back once, when its response closes, *)
(* and not while one of its tools may use it without being cancelled.      *)
ServedRequestsRelease ==
  \A r \in McpRequests :
    /\ mcp[r].releases <= 1
    /\ mcp[r].listening => ~mcp[r].closed /\ mcp[r].releases = 0
    /\ mcp[r].releases = 1 => mcp[r].closed /\ ~mcp[r].holds /\ (tool[r].pc = "running" => tool[r].cancelled)

(* mcp/types.ts: the host calls release "when the response closes".        *)
ClosedMeansReleased ==
  \A r \in McpRequests : mcp[r].closed /\ mcp[r].pc \in {"serving", "served", "rejected"} => ~mcp[r].holds
================================================================================
