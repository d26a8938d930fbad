------------------------------- MODULE MCHarness -------------------------------
(***************************************************************************)
(* The shared runtime, the scheduler of the turns of a session and the     *)
(* limiter, which share nothing: one behaviour explores one of them.       *)
(***************************************************************************)
EXTENDS HarnessRuntime, SessionScheduler, ConcurrencyLimiter

VARIABLE part

allVars == <<vars, sessionVars, limiterVars, part>>

MCInit ==
  /\ part \in {"runtime", "sessions", "limiter"}
  /\ Init /\ SessionInit /\ LimiterInit
  /\ part # "sessions" => \A j, k \in Jobs : session[j] = session[k]

MCNext ==
  /\ UNCHANGED part
  /\ \/ part = "runtime" /\ Next /\ UNCHANGED <<sessionVars, limiterVars>>
     \/ part = "sessions" /\ SessionNext /\ UNCHANGED <<vars, limiterVars>>
     \/ part = "limiter" /\ LimiterNext /\ UNCHANGED <<vars, sessionVars>>

MCSpec == MCInit /\ [][MCNext]_allVars /\ Fairness /\ SessionFairness /\ LimiterFairness

(* Every call of the runtime, every close, every turn and every operation  *)
(* ends, whatever the outcome of the earlier ones.                         *)
EverythingEnds == EverythingSettles /\ EveryJobRuns /\ EveryJobAdmitted
================================================================================
