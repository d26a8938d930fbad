---------------------------- MODULE SessionScheduler ----------------------------
(***************************************************************************)
(* PerSessionScheduler (packages/ts-host/src/dsh/session-scheduler.ts):    *)
(* the turns of one session run one after the other, in the order of their *)
(* run() calls, and turns of different sessions do not wait for each       *)
(* other.  The map keeps the last promise of a session that has any.       *)
(***************************************************************************)
CONSTANTS Jobs, Sessions, NoJob

ASSUME JobsAssumption == NoJob \notin Jobs

VARIABLES
  tails,     (* tails[s]: the job whose promise is the tail of s, or NoJob    *)
  previous,  (* previous[j]: the job whose promise j waits for, or NoJob      *)
  stage,     (* stage[j]: where the run() of j is                             *)
  session,   (* session[j]: the session that j was run for                    *)
  before     (* observation: the jobs of its session that were unfinished     *)
             (* when the run() of j was called                                *)

sessionVars == <<tails, previous, stage, session, before>>

Unfinished(s) == {j \in Jobs : stage[j] \in {"queued", "running"} /\ session[j] = s}

SessionTypeOK ==
  /\ tails \in [Sessions -> Jobs \cup {NoJob}]
  /\ previous \in [Jobs -> Jobs \cup {NoJob}] /\ \A j \in Jobs : previous[j] # j
  /\ stage \in [Jobs -> {"new", "queued", "running", "released"}]
  /\ session \in [Jobs -> Sessions] /\ before \in [Jobs -> SUBSET Jobs]

SessionInit ==
  /\ tails = [s \in Sessions |-> NoJob]
  /\ previous = [j \in Jobs |-> NoJob]
  /\ stage = [j \in Jobs |-> "new"]
  /\ session \in [Jobs -> Sessions]
  /\ before = [j \in Jobs |-> {}]

LastPromise(j, s) == tails[s]

(* run(): the promise of this job becomes the tail before anything suspends. *)
Run(j, s) ==
  /\ stage[j] = "new" /\ session[j] = s
  /\ previous' = [previous EXCEPT ![j] = LastPromise(j, s)]
  /\ tails' = [tails EXCEPT ![s] = j]
  /\ stage' = [stage EXCEPT ![j] = "queued"]
  /\ before' = [before EXCEPT ![j] = Unfinished(s)]
  /\ UNCHANGED session

Turn(j) == previous[j] # NoJob => stage[previous[j]] = "released"

BeginTurn(j) ==
  /\ stage[j] = "queued"
  /\ Turn(j)
  /\ stage' = [stage EXCEPT ![j] = "running"]
  /\ UNCHANGED <<tails, previous, session, before>>

(* Mutant: every job clears the tail.                                      *)
ClearAlways(j, s) == NoJob

TailAfter(j, s) == IF tails[s] = j THEN NoJob ELSE tails[s]
StageAfter(j, s) == "released"

(* finally: release, whether the operation failed or not, and clear the tail *)
(* unless a later run() has replaced it.                                   *)
Settle(j, s) ==
  /\ stage[j] = "running" /\ session[j] = s
  /\ stage' = [stage EXCEPT ![j] = StageAfter(j, s)]
  /\ tails' = [tails EXCEPT ![s] = TailAfter(j, s)]
  /\ UNCHANGED <<previous, session, before>>

SessionNext == \E j \in Jobs : BeginTurn(j) \/ \E s \in Sessions : Run(j, s) \/ Settle(j, s)

SessionSafety == SessionInit /\ [][SessionNext]_sessionVars

(* Promise reactions run; an operation is assumed to settle.               *)
SessionFairness == \A j \in Jobs : WF_sessionVars(BeginTurn(j) \/ \E s \in Sessions : Settle(j, s))

SessionSpec == SessionSafety /\ SessionFairness

--------------------------------------------------------------------------------
Earlier(j) == \A k \in before[j] : stage[k] = "released"

(* A job runs when the jobs of its session that were there before it have  *)
(* finished: turns keep the order of their run() calls.                    *)
RunsInOrder == \A j \in Jobs : stage[j] \in {"running", "released"} => Earlier(j)

(* Two turns of one session never run at once.                             *)
OneTurnPerSession ==
  \A j, k \in Jobs :
    stage[j] = "running" /\ stage[k] = "running" /\ session[j] = session[k] => j = k

(* The map holds a tail exactly for the sessions with an unfinished job: it *)
(* does not grow with the sessions the process has seen.                   *)
TailsOfLiveSessions == \A s \in Sessions : tails[s] # NoJob <=> Unfinished(s) # {}

(* A job waits only while an earlier job of its own session is unfinished: *)
(* sessions never block each other.                                        *)
SessionsIndependent == \A j \in Jobs : stage[j] = "queued" /\ Earlier(j) => Turn(j)

(* Sessions are kept apart: in the map, and in what a job waits for.       *)
SessionsApart == TailsOfLiveSessions /\ SessionsIndependent

(* The turns of a session are serialized in order, and sessions kept apart. *)
TurnsSerialized == RunsInOrder /\ SessionsApart

(* The inductive invariant: the tail of a session came after all its other *)
(* unfinished jobs, a job waits for the one that came just before it, and of *)
(* two unfinished jobs of a session one came before the other.             *)
TailIsLast ==
  \A s \in Sessions :
    /\ tails[s] = NoJob => Unfinished(s) = {}
    /\ tails[s] # NoJob => /\ tails[s] \in Unfinished(s)
                           /\ \A k \in Unfinished(s) : k # tails[s] => k \in before[tails[s]]

WaitsForTheOneBefore ==
  \A j \in Jobs : stage[j] # "new" =>
    /\ previous[j] # NoJob => stage[previous[j]] # "new" /\ previous[j] \in before[j]
    /\ \A k \in before[j] : /\ stage[k] = "released" \/ (previous[j] # NoJob
                               /\ (k = previous[j] \/ k \in before[previous[j]]))
                            /\ stage[k] # "new"

Ordered ==
  \A s \in Sessions : \A j, k \in Unfinished(s) : j = k \/ j \in before[k] \/ k \in before[j]

SessionInv == SessionTypeOK /\ RunsInOrder /\ TailIsLast /\ WaitsForTheOneBefore /\ Ordered

(* Every turn gets its turn, also after failed turns of its session.       *)
EveryJobRuns == \A j \in Jobs : stage[j] = "queued" ~> stage[j] = "released"
================================================================================
