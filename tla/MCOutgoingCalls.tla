---------------------------- MODULE MCOutgoingCalls ----------------------------
(***************************************************************************)
(* A call of a remote agent and the token of a background client, which    *)
(* share nothing: one behaviour explores one of them.                      *)
(***************************************************************************)
EXTENDS RelayCall, ServiceToken

VARIABLE part

allVars == <<part, relayVars, tokenVars>>

MCInit ==
  /\ part \in {"relay", "token"}
  /\ RelayInit /\ (part # "relay" => /\ req = [protocol |-> "1.0", streaming |-> FALSE, resume |-> FALSE, idle |-> FALSE,
                                               deadline |-> FALSE]
                                     /\ agent.task["old"] = "paused")
  /\ TokenInit

MCNext ==
  /\ UNCHANGED part
  /\ \/ part = "relay" /\ RelayNext /\ UNCHANGED tokenVars
     \/ part = "token" /\ TokenNext /\ UNCHANGED relayVars

MCSpec == MCInit /\ [][MCNext]_allVars /\ RelayFairness /\ TokenFairness

(* Calls of remote agents with a limit, and calls for a token, end, although *)
(* the agent or the provider may never answer.                             *)
CallsEnd == LimitedCallsEnd /\ EveryCallEnds
================================================================================
