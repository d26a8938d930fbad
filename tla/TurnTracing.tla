------------------------------ MODULE TurnTracing ------------------------------
(***************************************************************************)
(* The tracing of turns (packages/ts-host/src/observability/langfuse.ts):  *)
(* the first turns of the process load the packages and start the SDK, the *)
(* handle is kept in a slot of the process, and every turn runs inside an  *)
(* observation that ends before the batch is flushed.  A turn may call     *)
(* another agent inside an observation of its own; each message of the     *)
(* call looks at the slot again for the identity it carries.               *)
(*                                                                         *)
(* External: the packages, which may fail to load or to start, also for    *)
(* one of two callers, the exporter, and the turns.  The calls of the      *)
(* loaded library do not throw.                                            *)
(***************************************************************************)
EXTENDS Naturals

CONSTANTS TracedTurns

VARIABLES
  configured,  (* keys are set and tracing is not switched off                 *)
  slot,        (* the handle of the process: "unset", "off" or "on"            *)
  started,     (* observation: how often the SDK was started                   *)
  trace        (* trace[t]: a turn, the observation it has, what was done      *)

tracingVars == <<configured, slot, started, trace>>

(* call is the observation of its call to another agent, carried the one   *)
(* whose identity the last message bore, gaveUp that its start failed.     *)
NewTurn == [pc |-> "new", handle |-> FALSE, runs |-> 0, span |-> "none", scope |-> FALSE, gaveUp |-> FALSE,
            call |-> "none", tries |-> 0, carried |-> "none", flushed |-> FALSE]

Init == configured \in BOOLEAN /\ slot = "unset" /\ started = 0 /\ trace = [t \in TracedTurns |-> NewTurn]

--------------------------------------------------------------------------------
(* run() begins inside the turn span, which is active and in the request   *)
(* scope, or without any.                                                  *)
Opened(r, handle) ==
  [r EXCEPT !.pc = "running", !.handle = handle, !.runs = r.runs + 1,
            !.span = IF handle THEN "open" ELSE "none", !.scope = handle]

(* ensureOtel up to its first await.                                       *)
Begin(t) ==
  /\ trace[t].pc = "new"
  /\ CASE slot # "unset"                 -> trace' = [trace EXCEPT ![t] = Opened(@, slot = "on")] /\ UNCHANGED slot
       [] slot = "unset" /\ ~configured  -> trace' = [trace EXCEPT ![t] = Opened(@, FALSE)] /\ slot' = "off"
       [] slot = "unset" /\ configured   -> trace' = [trace EXCEPT ![t].pc = "loading"] /\ UNCHANGED slot
  /\ UNCHANGED <<configured, started>>

(* The packages are there: the SDK is started.                             *)
Start(t) ==
  /\ trace[t].pc = "loading"
  /\ trace' = [trace EXCEPT ![t].pc = "starting"] /\ started' = started + 1
  /\ UNCHANGED <<configured, slot>>

(* After the optional package for LangChain the handle is stored, and the  *)
(* identity of the trace is made from what the request carries.            *)
Keep(t) ==
  /\ trace[t].pc = "starting"
  /\ slot' = "on" /\ trace' = [trace EXCEPT ![t] = Opened(@, TRUE)]
  /\ UNCHANGED <<configured, started>>

(* A package does not load or the SDK does not start.                      *)
GiveUp(t) ==
  /\ trace[t].pc = "loading"
  /\ slot' = "off" /\ trace' = [trace EXCEPT ![t] = [Opened(@, FALSE) EXCEPT !.gaveUp = TRUE]]
  /\ UNCHANGED <<configured, started>>

(* withRemoteA2aObservability: the slot is read again; the call has a span *)
(* of its own, with the session of the turn if it has one.                 *)
OpenCall(t) ==
  /\ trace[t].pc = "running" /\ trace[t].call = "none"
  /\ trace' = [trace EXCEPT ![t].call = IF slot # "on" THEN "untraced" ELSE IF trace[t].scope THEN "in turn" ELSE "alone"]
  /\ UNCHANGED <<configured, slot, started>>

(* The identity of the innermost active span, to whom the slot is seen as on. *)
CarrierUnder(r, seen) ==
  CASE seen # "on" -> "none"
    [] seen = "on" /\ r.call \in {"in turn", "alone"} -> "call"
    [] seen = "on" /\ r.call = "untraced" -> IF r.span = "open" THEN "turn" ELSE "none"

(* Mutant: the bundle of the relay has a slot of its own, which nothing sets. *)
OwnSlot(r) == CarrierUnder(r, "unset")

(* injectTraceContext looks at the slot once more.                         *)
Carrier(r) == CarrierUnder(r, slot)

(* A message of the call is built: the first, and one more when the agent  *)
(* does not know the task any longer.                                      *)
Send(t) ==
  /\ trace[t].pc = "running" /\ trace[t].call # "none" /\ trace[t].tries < 2
  /\ trace' = [trace EXCEPT ![t].tries = @ + 1, ![t].carried = Carrier(trace[t])]
  /\ UNCHANGED <<configured, slot, started>>

(* Mutant: the span of a turn that fails is not closed before the flush.   *)
OnlyOnSuccess(r, result) == IF result = "returned" THEN "ended" ELSE r.span

SpanAfter(r, result) == IF r.span = "open" THEN "ended" ELSE r.span

(* run() returns or throws, with its calls: its outcome is that of the turn. *)
RunEnds(t) ==
  /\ trace[t].pc = "running"
  /\ \E result \in {"returned", "threw"} :
       trace' = [trace EXCEPT ![t].pc = IF trace[t].handle THEN "flushing" ELSE "done",
                              ![t].span = SpanAfter(trace[t], result)]
  /\ UNCHANGED <<configured, slot, started>>

(* The finally: forceFlush of the handle the turn began with; its failure is *)
(* ignored.                                                                *)
Flush(t) ==
  /\ trace[t].pc = "flushing"
  /\ trace' = [trace EXCEPT ![t].pc = "done", ![t].flushed = TRUE]
  /\ UNCHANGED <<configured, slot, started>>

Next ==
  \E t \in TracedTurns :
    Begin(t) \/ Start(t) \/ Keep(t) \/ GiveUp(t) \/ OpenCall(t) \/ Send(t) \/ RunEnds(t) \/ Flush(t)

Safety == Init /\ [][Next]_tracingVars

--------------------------------------------------------------------------------
(* Tracing never changes a turn: it runs once, also when the packages fail *)
(* for it or the handle is replaced while it runs; a turn that began with a *)
(* handle has closed its span before the flush of that handle, and one that *)
(* began without has none; without keys nothing is started or sent.        *)
RunsAsWithout ==
  \A t \in TracedTurns :
    LET r == trace[t] IN
    /\ r.runs = IF r.pc \in {"new", "loading", "starting"} THEN 0 ELSE 1
    /\ r.pc = "done" => (r.handle <=> r.flushed)
    /\ r.pc \in {"flushing", "done"} => r.span = IF r.handle THEN "ended" ELSE "none"
    /\ ~configured => started = 0 /\ ~r.handle /\ r.carried = "none"

(* The starts of the turns that began together had different outcomes.     *)
StartsDisagree == \E u, v \in TracedTurns : trace[u].gaveUp /\ trace[v].handle

(* Every message of a call in a traced turn carries the identity of that   *)
(* call, also one that is sent again later, and those of an untraced turn  *)
(* carry none.  The slot is looked at when the turn begins, when the call  *)
(* is opened and before every message, and only turns that started the     *)
(* tracing at the same time, one with and one without success, can have    *)
(* changed it in between.                                                  *)
CallsKeepTheirTrace ==
  \A t \in TracedTurns :
    LET r == trace[t] IN
    r.tries > 0 /\ r.carried # (IF r.handle THEN "call" ELSE "none") => StartsDisagree
================================================================================
