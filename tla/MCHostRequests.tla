----------------------------- MODULE MCHostRequests ----------------------------
(***************************************************************************)
(* What a request meets in the host, part by part: the guards, the billing *)
(* of a turn, the MCP endpoint and the dispatch to skills.  The parts      *)
(* share nothing, and one behaviour explores one.                          *)
(***************************************************************************)
EXTENDS Admission

CONSTANTS BillingCalls, CacheTtl, RequestTimeout, Horizon, McpRequests, Registered, Gated

(* Durations of the cache and of the request, in ticks, and the bound.      *)
ASSUME BillingAssumption == CacheTtl \in Nat /\ RequestTimeout \in Nat /\ Horizon \in Nat

VARIABLES part, account, cache, fetch, kept, bill, time, left, mcp, tool, protocol, enabled, marker, pausedBy, stated

Account == INSTANCE Billing
Endpoint == INSTANCE McpEndpoint
Skills == INSTANCE SkillDispatch

(* There is a skill that is the default one (registry.ts:58).  The words   *)
(* of the model for no owner and for no skill are no ids.                  *)
ASSUME IdsAssumption == Skills!Default \in Skills!Ids /\ {"none", "unmarked", "unavailable"} \cap Skills!Ids = {}

accountVars == <<account, cache, fetch, kept, bill, time, left>>
endpointVars == <<mcp, tool>>
skillVars == <<protocol, enabled, marker, pausedBy, stated>>
allVars == <<part, admissionVars, accountVars, endpointVars, skillVars>>

Complete == [required |-> TRUE, jwt |-> TRUE, opaque |-> TRUE, billing |-> TRUE, memo |-> TRUE]
MCSettings == {Complete, [Complete EXCEPT !.required = FALSE], [Complete EXCEPT !.billing = FALSE],
               [Complete EXCEPT !.memo = FALSE], [Complete EXCEPT !.jwt = FALSE], [Complete EXCEPT !.opaque = FALSE],
               [Complete EXCEPT !.jwt = FALSE, !.opaque = FALSE]}
Accounts == {Account!Healthy, [Account!Healthy EXCEPT !.feature = "granted"], [Account!Healthy EXCEPT !.feature = "missing"],
             [status |-> "inactive", tokens |-> 1, feature |-> "granted"],
             [status |-> "payment_failed", tokens |-> 0, feature |-> "missing"]}
MCRegistered == <<"chat", "report", "search">>

MCInit ==
  /\ part \in {"guards", "billing", "mcp", "skills"}
  /\ Init /\ (part # "guards" => config = Complete)
  /\ Account!Init /\ account \in (IF part = "billing" THEN Accounts ELSE {Account!Healthy})
  /\ Endpoint!Init
  /\ Skills!Init /\ (part # "skills" => enabled = {} /\ protocol = "a2a")

MCNext ==
  /\ UNCHANGED part
  /\ \/ part = "guards" /\ Next /\ UNCHANGED <<accountVars, endpointVars, skillVars>>
     \/ part = "billing" /\ Account!Next /\ UNCHANGED <<admissionVars, endpointVars, skillVars>>
     \/ part = "mcp" /\ Endpoint!Next /\ UNCHANGED <<admissionVars, accountVars, skillVars>>
     \/ part = "skills" /\ Skills!Next /\ UNCHANGED <<admissionVars, accountVars, endpointVars>>

MCSpec == MCInit /\ [][MCNext]_allVars /\ Fairness

(* Permissions and denials are recent, and a denial names a condition that *)
(* fails (billing/client.ts, access.ts).                                   *)
DecisionsAreRight == Account!DecisionsAreRight

(* What an MCP request took is given back once (mcp-server.ts).            *)
ServedRequestsRelease == Endpoint!ServedRequestsRelease

(* It is given back when the response closes (mcp/types.ts:60).            *)
ClosedMeansReleased == Endpoint!ClosedMeansReleased

(* The answer to a question reaches the skill that asked, if it asked with a *)
(* state (dispatch.ts).                                                    *)
AnswersReachTheirSkill == Skills!AnswersReachTheirSkill
================================================================================
