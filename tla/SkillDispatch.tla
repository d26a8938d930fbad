----------------------------- MODULE SkillDispatch -----------------------------
(***************************************************************************)
(* The dispatch of turns to the skills of an agent (packages/ts-host/src/  *)
(* skills/dispatch.ts) over the turns of one thread: by the intent of the  *)
(* request, by the owner of a dialogue that was paused, by the matchers,   *)
(* or to the default skill; the requirement of a skill is asserted before  *)
(* its handler runs.  The registry (skills/registry.ts, skills/loader.ts)  *)
(* is built when the process starts; the thread outlives the process.      *)
(*                                                                         *)
(* External: the skills.  The state of the thread is what the host stores  *)
(* of the last answer (TurnExecution, AguiTurn).  Over A2A the thread is a *)
(* task, which ends when it completes or fails; over AG-UI it goes on.     *)
(***************************************************************************)
EXTENDS Naturals, Sequences

CONSTANTS
  Registered,   \* the providers, in the order of their registration: ids, the first is the default
  Gated         \* those with a billing requirement

VARIABLES
  protocol,  (* of the thread                                                      *)
  enabled,   (* the ids the registry was built with                                *)
  marker,    (* SKILL_STATE_KEY in the stored state, "unmarked" without it, "none" *)
             (* when there is no state                                             *)
  pausedBy,  (* observation: the skill whose question is unanswered                *)
  stated     (* observation: it asked with a state                                 *)

skillVars == <<protocol, enabled, marker, pausedBy, stated>>

Ids == {Registered[i] : i \in 1 .. Len(Registered)}
Default == Registered[1]

(* loadSkillProvidersFromEnv, createSkillRegistry: an id that no provider  *)
(* has, like a module that does not load, stops the start of the process;  *)
(* the default skill is on without being named.                            *)
Starts(ids) == ids \subseteq Ids
Registry(ids) == IF Starts(ids) THEN {Default} \cup ids ELSE {}
Environments == SUBSET (Ids \cup {"mistyped"})

Init ==
  /\ protocol \in {"a2a", "agui"} /\ enabled \in {Registry(ids) : ids \in Environments}
  /\ marker = "none" /\ pausedBy = "none" /\ stated = FALSE

--------------------------------------------------------------------------------
(* selectSkill: matching is the set of skills whose matcher says yes; one  *)
(* that throws says no.                                                    *)
FirstMatch(matching) ==
  LET hits == {i \in 2 .. Len(Registered) : Registered[i] \in matching \cap enabled} IN
  IF hits = {} THEN Default ELSE Registered[CHOOSE i \in hits : \A k \in hits : i <= k]

Selected(intent, matching) ==
  CASE intent # "none" -> IF intent \in enabled THEN intent ELSE "unavailable"
    [] intent = "none" /\ marker \in enabled -> marker
    [] intent = "none" /\ marker \notin enabled -> FirstMatch(matching)

(* What the handler answers: with no state, one of its own, or the one it  *)
(* was given with all its keys.                                            *)
Answers == [status : {"input-required", "completed", "failed"}, state : {"none", "own", "given"}]

(* Mutant: a marker that is already in the state is kept.                  *)
KeepMarker(skill, answer) == IF answer.state = "given" /\ marker \in Ids THEN marker ELSE skill

OwnMarker(skill, answer) == skill

(* Mutant: an answer without a state leaves that of the turn before.       *)
OldState == marker

NoState == "none"

(* What is stored: the dispatcher marks the state of a question only; the  *)
(* state of a failed answer is dropped, and an A2A task that ended has no  *)
(* next turn.                                                              *)
MarkerAfter(skill, answer) ==
  CASE answer.state = "none" \/ answer.status = "failed" -> NoState
    [] answer.state # "none" /\ answer.status = "input-required" -> OwnMarker(skill, answer)
    [] answer.state # "none" /\ answer.status = "completed" ->
         IF protocol = "a2a" THEN NoState ELSE IF answer.state = "given" /\ marker # "none" THEN marker ELSE "unmarked"

Permitted(skill, ctx, paid) == skill \in Gated => ctx /\ paid

(* The turn ends with this answer, which replaces the state.               *)
Answered(skill, answer) ==
  /\ marker' = MarkerAfter(skill, answer)
  /\ pausedBy' = IF answer.status = "input-required" THEN skill ELSE "none"
  /\ stated' = (answer.status = "input-required" /\ answer.state # "none")

Failure == [status |-> "failed", state |-> "none"]

(* An error is a failed answer of an A2A turn; an AG-UI turn ends without  *)
(* storing anything.                                                       *)
Throws(skill) ==
  \/ protocol = "a2a" /\ Answered(skill, Failure)
  \/ protocol = "agui" /\ UNCHANGED <<marker, pausedBy, stated>>

(* One turn.  A skill that is not available, or a requirement without a    *)
(* context, fails it; billing that refuses throws, and so may the handler. *)
Turn ==
  /\ enabled # {}
  /\ \E intent \in Ids \cup {"none", "unknown"}, matching \in SUBSET Ids, ctx, paid \in BOOLEAN :
       LET skill == Selected(intent, matching) IN
       \/ (skill = "unavailable" \/ (skill \in Gated /\ ~ctx)) /\ Answered(skill, Failure)
       \/ skill \in Gated /\ ctx /\ ~paid /\ Throws(skill)
       \/ /\ skill # "unavailable" /\ Permitted(skill, ctx, paid)
          /\ Throws(skill) \/ \E answer \in Answers : Answered(skill, answer)

Restart == enabled' \in {Registry(ids) : ids \in Environments} /\ UNCHANGED <<marker, pausedBy, stated>>

Next == UNCHANGED protocol /\ ((Turn /\ UNCHANGED enabled) \/ Restart)

--------------------------------------------------------------------------------
(* The answer to a question that came with a state goes to the skill that  *)
(* asked it, whatever the matchers say, whichever skills asked before and  *)
(* however the process was restarted since, unless its owner was switched  *)
(* off.  A question without a state has no owner: its answer is routed     *)
(* anew, and never to the skill of an earlier question.                    *)
AnswersReachTheirSkill ==
  pausedBy # "none" => \A matching \in SUBSET Ids :
    Selected("none", matching) =
      IF ~stated THEN FirstMatch(matching) ELSE IF pausedBy \in enabled THEN pausedBy ELSE FirstMatch(matching)
================================================================================
