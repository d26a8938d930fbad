---------------------------- MODULE TurnPartsProofs ----------------------------
(***************************************************************************)
(* What happens around the turns of the TypeScript host, and the turns of  *)
(* the Python host, for any turns, projects, chats and handlers.           *)
(*                                                                         *)
(* Tracing: what has been done for a turn follows from where it is, and    *)
(* without keys nothing is loaded at all (TracingInv); the slot and a call *)
(* that lost its trace tell of the starts of other turns (SlotInv).        *)
(*                                                                         *)
(* History: a path that was shown belongs to a chat which is still at its  *)
(* place (HistoryInv), and the names of the chat-backend being unambiguous, *)
(* each segment of it is parsed and found again (Opens).                   *)
(*                                                                         *)
(* Python: the place of a state among the artifacts tells its age until the *)
(* task ends, since only an artifact of a completed turn takes the place of *)
(* another (OwnInv).  The queue holds exactly what has been emitted and not *)
(* published, then the end, so that the stream is whole at every moment and *)
(* complete when the drain has ended (WholeInv).                           *)
(*                                                                         *)
(* Files: what is held of a file is the beginning of its text up to the    *)
(* end of a line, so that the next window continues it (WindowRead); each  *)
(* file of the turn, named or on its lists, is read or fails once, in its  *)
(* place (ReadInv), and the characters of the texts and the budget that is *)
(* left are those there were (TextsInv).                                   *)
(***************************************************************************)
EXTENDS MCTurns, Selection, Integers, SequenceTheorems, FiniteSetTheorems, WellFoundedInduction, TLAPS

--------------------------------------------------------------------------------
(* The tracing.                                                            *)
Fields ==
  [pc : {"new", "loading", "starting", "running", "flushing", "done"}, handle : BOOLEAN, runs : {0, 1},
   span : {"none", "open", "ended"}, scope : BOOLEAN, gaveUp : BOOLEAN,
   call : {"none", "in turn", "alone", "untraced"}, tries : 0 .. 2, carried : {"none", "turn", "call"}, flushed : BOOLEAN]

(* What a turn has been through tells what tracing has done for it.        *)
Traced(r) ==
  /\ r \in Fields
  /\ r.pc \in {"new", "loading", "starting"} =>
       r.runs = 0 /\ ~r.handle /\ ~r.gaveUp /\ r.call = "none" /\ r.tries = 0 /\ r.carried = "none" /\ ~r.flushed
  /\ r.pc \in {"running", "flushing", "done"} => r.runs = 1
  /\ r.pc = "running" => r.span = (IF r.handle THEN "open" ELSE "none") /\ r.scope = r.handle /\ ~r.flushed
  /\ r.pc = "flushing" => r.handle /\ r.span = "ended"
  /\ r.pc = "done" => r.span = (IF r.handle THEN "ended" ELSE "none") /\ r.flushed = r.handle

(* Nothing is loaded or sent without keys.                                 *)
Untraced(r) == r.pc \notin {"loading", "starting"} /\ ~r.handle /\ r.carried = "none"

TracingInv ==
  /\ slot \in {"unset", "off", "on"} /\ configured \in BOOLEAN
  /\ trace \in [TracedTurns -> Fields] /\ \A t \in TracedTurns : Traced(trace[t])
  /\ ~configured => started = 0 /\ slot # "on" /\ \A t \in TracedTurns : Untraced(trace[t])

LEMMA TraceStep ==
  ASSUME TracingInv, NEW t \in TracedTurns, NEW r, trace' = [trace EXCEPT ![t] = r], Traced(r),
         slot' \in {"unset", "off", "on"}, UNCHANGED configured,
         ~configured => started' = 0 /\ slot' # "on" /\ Untraced(r)
  PROVE  TracingInv'
<1>1. r \in Fields
  BY DEF Traced
<1>2. trace' \in [TracedTurns -> Fields] /\ \A u \in TracedTurns : trace'[u] = IF u = t THEN r ELSE trace[u]
  BY <1>1 DEF TracingInv
<1>3. \A u \in TracedTurns : Traced(trace'[u]) /\ (~configured => Untraced(trace'[u]))
  BY <1>2 DEF TracingInv
<1> QED  BY <1>2, <1>3 DEF TracingInv

LEMMA OpenedFacts ==
  ASSUME NEW r, Traced(r), r.pc \in {"new", "loading", "starting"}, NEW handle \in BOOLEAN
  PROVE  /\ Traced(Tracing!Opened(r, handle))
         /\ ~handle => Untraced(Tracing!Opened(r, handle))
<1> DEFINE o == Tracing!Opened(r, handle)
           span == IF handle THEN "open" ELSE "none"
<1>1. r \in Fields /\ r.runs = 0 /\ r.call = "none" /\ r.carried = "none" /\ ~r.flushed
  BY DEF Traced
<1>2. o = [r EXCEPT !.pc = "running", !.handle = handle, !.runs = 1, !.span = span, !.scope = handle]
  <2>1. r.runs + 1 = 1
    BY <1>1
  <2> QED  BY <2>1 DEF Tracing!Opened
<1>3. span \in {"open", "none"}
  OBVIOUS
<1> HIDE DEF span, o
<1>4. /\ o.pc = "running" /\ o.handle = handle /\ o.runs = 1 /\ o.span = span
      /\ o.scope = handle /\ o.call = "none" /\ o.carried = "none" /\ ~o.flushed /\ o \in Fields
  BY <1>1, <1>2, <1>3 DEF Fields
<1>5. Traced(o) /\ (~handle => Untraced(o))
  BY <1>3, <1>4 DEF Traced, Untraced, span
<1> QED  BY <1>5 DEF o

LEMMA TracingStep == TracingInv /\ [Tracing!Next]_tracingVars => TracingInv'
<1> SUFFICES ASSUME TracingInv, [Tracing!Next]_tracingVars  PROVE TracingInv'
  OBVIOUS
<1>1. CASE UNCHANGED tracingVars
  BY <1>1 DEF tracingVars, TracingInv
<1>2. ASSUME NEW t \in TracedTurns, Tracing!Begin(t)  PROVE TracingInv'
  <2>1. Traced(trace[t]) /\ trace[t].pc = "new" /\ UNCHANGED <<configured, started>>
    BY <1>2 DEF TracingInv, Tracing!Begin
  <2>2. CASE slot # "unset"
    <3>1. trace' = [trace EXCEPT ![t] = Tracing!Opened(trace[t], slot = "on")] /\ UNCHANGED slot
      BY <1>2, <2>2 DEF Tracing!Begin, TracingInv
    <3>2. (slot = "on") \in BOOLEAN
      OBVIOUS
    <3>3. /\ Traced(Tracing!Opened(trace[t], slot = "on"))
          /\ slot # "on" => Untraced(Tracing!Opened(trace[t], slot = "on"))
      BY <2>1, <3>2, OpenedFacts
    <3> QED  BY <2>1, <3>1, <3>3, TraceStep DEF TracingInv
  <2>3. CASE slot = "unset" /\ ~configured
    <3>1. trace' = [trace EXCEPT ![t] = Tracing!Opened(trace[t], FALSE)] /\ slot' = "off"
      BY <1>2, <2>3 DEF Tracing!Begin, TracingInv
    <3>2. Traced(Tracing!Opened(trace[t], FALSE)) /\ Untraced(Tracing!Opened(trace[t], FALSE))
      BY <2>1, OpenedFacts
    <3> QED  BY <2>1, <3>1, <3>2, TraceStep DEF TracingInv
  <2>4. CASE slot = "unset" /\ configured
    <3> DEFINE r == [trace[t] EXCEPT !.pc = "loading"]
    <3>1. trace' = [trace EXCEPT ![t] = r] /\ UNCHANGED slot
      BY <1>2, <2>4 DEF Tracing!Begin, TracingInv
    <3>2. Traced(r)
      BY <2>1 DEF Traced, Fields
    <3> HIDE DEF r
    <3> QED  BY <2>1, <2>4, <3>1, <3>2, TraceStep DEF TracingInv
  <2> QED  BY <2>2, <2>3, <2>4 DEF TracingInv
<1>3. ASSUME NEW t \in TracedTurns, Tracing!Start(t)  PROVE TracingInv'
  <2> DEFINE r == [trace[t] EXCEPT !.pc = "starting"]
  <2>1. trace' = [trace EXCEPT ![t] = r] /\ Traced(trace[t]) /\ trace[t].pc = "loading" /\ UNCHANGED <<configured, slot>>
    BY <1>3 DEF TracingInv, Tracing!Start
  <2>2. Traced(r)
    BY <2>1 DEF Traced, Fields
  <2>3. configured
    BY <2>1 DEF TracingInv, Untraced
  <2> HIDE DEF r
  <2> QED  BY <2>1, <2>2, <2>3, TraceStep DEF TracingInv
<1>4. ASSUME NEW t \in TracedTurns, Tracing!Keep(t)  PROVE TracingInv'
  <2>1. /\ trace' = [trace EXCEPT ![t] = Tracing!Opened(trace[t], TRUE)] /\ slot' = "on"
        /\ Traced(trace[t]) /\ trace[t].pc = "starting" /\ UNCHANGED <<configured, started>>
    BY <1>4 DEF TracingInv, Tracing!Keep
  <2>2. configured
    BY <2>1 DEF TracingInv, Untraced
  <2> QED  BY <2>1, <2>2, OpenedFacts, TraceStep
<1>5. ASSUME NEW t \in TracedTurns, Tracing!GiveUp(t)  PROVE TracingInv'
  <2> DEFINE o == Tracing!Opened(trace[t], FALSE)
             r == [o EXCEPT !.gaveUp = TRUE]
  <2>1. /\ trace' = [trace EXCEPT ![t] = r] /\ slot' = "off"
        /\ Traced(trace[t]) /\ trace[t].pc = "loading" /\ UNCHANGED <<configured, started>>
    BY <1>5 DEF TracingInv, Tracing!GiveUp
  <2>2. configured
    BY <2>1 DEF TracingInv, Untraced
  <2>3. Traced(o) /\ o.pc = "running"
    <3>1. trace[t] \in Fields
      BY <2>1 DEF Traced
    <3> QED  BY <2>1, <3>1, OpenedFacts DEF Tracing!Opened, Fields
  <2> HIDE DEF o
  <2>4. Traced(r)
    BY <2>3 DEF Traced, Fields
  <2> HIDE DEF r
  <2> QED  BY <2>1, <2>2, <2>4, TraceStep
<1>6. ASSUME NEW t \in TracedTurns, Tracing!OpenCall(t)  PROVE TracingInv'
  <2> DEFINE call == IF slot # "on" THEN "untraced" ELSE IF trace[t].scope THEN "in turn" ELSE "alone"
             r == [trace[t] EXCEPT !.call = call]
  <2>1. /\ trace' = [trace EXCEPT ![t] = r] /\ Traced(trace[t]) /\ trace[t].pc = "running"
        /\ UNCHANGED <<configured, slot, started>>
    BY <1>6 DEF TracingInv, Tracing!OpenCall
  <2>2. Traced(r) /\ (Untraced(trace[t]) => Untraced(r))
    BY <2>1 DEF Traced, Untraced, Fields
  <2> HIDE DEF r
  <2> QED  BY <2>1, <2>2, TraceStep DEF TracingInv
<1>send. ASSUME NEW t \in TracedTurns, Tracing!Send(t)  PROVE TracingInv'
  <2> DEFINE carried == Tracing!Carrier(trace[t])
             tries == trace[t].tries + 1
             r == [trace[t] EXCEPT !.tries = tries, !.carried = carried]
  <2>1. /\ trace' = [trace EXCEPT ![t] = r] /\ Traced(trace[t]) /\ trace[t].pc = "running"
        /\ trace[t].call # "none" /\ trace[t].tries < 2 /\ UNCHANGED <<configured, slot, started>>
    BY <1>send DEF TracingInv, Tracing!Send
  <2>2. tries \in 0 .. 2
    <3>1. trace[t].tries \in 0 .. 2 /\ trace[t].tries < 2
      BY <2>1 DEF Traced, Fields
    <3> QED  BY <3>1
  <2>3. carried \in {"none", "turn", "call"} /\ (slot # "on" => carried = "none")
    BY <2>1 DEF Tracing!Carrier, Tracing!CarrierUnder, Traced, Fields
  <2> HIDE DEF tries, carried
  <2>4. Traced(r) /\ (slot # "on" /\ Untraced(trace[t]) => Untraced(r))
    BY <2>1, <2>2, <2>3 DEF Traced, Untraced, Fields
  <2> HIDE DEF r
  <2> QED  BY <2>1, <2>4, TraceStep DEF TracingInv
<1>7. ASSUME NEW t \in TracedTurns, Tracing!RunEnds(t)  PROVE TracingInv'
  <2>1. PICK result \in {"returned", "threw"} :
          trace' = [trace EXCEPT ![t].pc = IF trace[t].handle THEN "flushing" ELSE "done",
                                 ![t].span = Tracing!SpanAfter(trace[t], result)]
    BY <1>7 DEF Tracing!RunEnds
  <2> DEFINE pc == IF trace[t].handle THEN "flushing" ELSE "done"
             span == Tracing!SpanAfter(trace[t], result)
             r == [trace[t] EXCEPT !.pc = pc, !.span = span]
  <2>2. /\ trace' = [trace EXCEPT ![t] = r] /\ Traced(trace[t]) /\ trace[t].pc = "running"
        /\ UNCHANGED <<configured, slot, started>>
    BY <1>7, <2>1 DEF TracingInv, Tracing!RunEnds
  <2>3. Traced(r) /\ (Untraced(trace[t]) => Untraced(r))
    <3>0. span = IF trace[t].handle THEN "ended" ELSE "none"
      BY <2>2 DEF Traced, Fields, Tracing!SpanAfter
    <3>1. /\ r \in Fields /\ r.call = trace[t].call /\ r.carried = trace[t].carried /\ r.pc = pc /\ r.handle = trace[t].handle
          /\ r.runs = trace[t].runs /\ r.span = span /\ r.flushed = trace[t].flushed
      BY <2>2, <3>0 DEF Traced, Fields
    <3> HIDE DEF r, span
    <3> QED  BY <2>2, <3>0, <3>1 DEF Traced, Untraced, Fields
  <2> HIDE DEF r
  <2> QED  BY <2>2, <2>3, TraceStep DEF TracingInv
<1>8. ASSUME NEW t \in TracedTurns, Tracing!Flush(t)  PROVE TracingInv'
  <2> DEFINE r == [trace[t] EXCEPT !.pc = "done", !.flushed = TRUE]
  <2>1. /\ trace' = [trace EXCEPT ![t] = r] /\ Traced(trace[t]) /\ trace[t].pc = "flushing"
        /\ UNCHANGED <<configured, slot, started>>
    BY <1>8 DEF TracingInv, Tracing!Flush
  <2>2. Traced(r) /\ (Untraced(trace[t]) => Untraced(r))
    BY <2>1 DEF Traced, Untraced, Fields
  <2> HIDE DEF r
  <2> QED  BY <2>1, <2>2, TraceStep DEF TracingInv
<1> QED  BY <1>1, <1>2, <1>3, <1>4, <1>5, <1>6, <1>send, <1>7, <1>8 DEF Tracing!Next

LEMMA TracingStart == MCInit => TracingInv
<1>1. Traced(Tracing!NewTurn) /\ Untraced(Tracing!NewTurn) /\ Tracing!NewTurn \in Fields
  BY DEF Tracing!NewTurn, Traced, Untraced, Fields
<1> QED  BY <1>1 DEF MCInit, Tracing!Init, TracingInv

(* Where a turn is tells that it was run once and flushed its own handle.  *)
LEMMA RunsOnce == TracingInv => Tracing!RunsAsWithout
<1> SUFFICES ASSUME TracingInv, NEW t \in TracedTurns
             PROVE  LET r == trace[t] IN
                      /\ r.runs = IF r.pc \in {"new", "loading", "starting"} THEN 0 ELSE 1
                      /\ r.pc = "done" => (r.handle <=> r.flushed)
                      /\ r.pc \in {"flushing", "done"} => r.span = IF r.handle THEN "ended" ELSE "none"
                      /\ ~configured => started = 0 /\ ~r.handle /\ r.carried = "none"
  BY DEF Tracing!RunsAsWithout
<1>1. Traced(trace[t]) /\ (~configured => started = 0 /\ Untraced(trace[t]))
  BY DEF TracingInv
<1> QED  BY <1>1 DEF Traced, Untraced, Fields

(* Whose start the other turns can be told by: someone's failed, or gave a *)
(* handle.                                                                 *)
SomeoneGaveUp == \E u \in TracedTurns : trace[u].gaveUp
SomeoneHolds == \E u \in TracedTurns : trace[u].handle

(* What a turn looks like while the slot is s: a call that lost the trace, *)
(* or found one, tells of the starts of others.                            *)
Excused(r, s, gaveUp, holds) ==
  /\ r.pc \in {"running", "flushing", "done"} => s # "unset" /\ (r.handle \/ ~configured \/ gaveUp)
  /\ r.handle /\ (r.call = "untraced" \/ (r.tries > 0 /\ r.carried # "call")) => gaveUp
  /\ ~r.handle /\ r.carried # "none" => holds

SlotInv ==
  /\ slot = "off" /\ configured => SomeoneGaveUp
  /\ slot = "on" => SomeoneHolds
  /\ \A t \in TracedTurns : Excused(trace[t], slot, SomeoneGaveUp, SomeoneHolds)

LEMMA SlotStep ==
  ASSUME TracingInv, SlotInv, NEW t \in TracedTurns, NEW r, trace' = [trace EXCEPT ![t] = r], UNCHANGED configured,
         trace[t].handle => r.handle, trace[t].gaveUp => r.gaveUp,
         \/ slot' = slot
         \/ slot' = "off" /\ (~configured \/ r.gaveUp)
         \/ slot' = "on" /\ r.handle,
         Excused(r, slot', SomeoneGaveUp \/ r.gaveUp, SomeoneHolds \/ r.handle)
  PROVE  SlotInv'
<1>1. \A u \in TracedTurns : trace'[u] = IF u = t THEN r ELSE trace[u]
  BY DEF TracingInv
<1>2. (SomeoneGaveUp \/ r.gaveUp => SomeoneGaveUp') /\ (SomeoneHolds \/ r.handle => SomeoneHolds')
  BY <1>1 DEF SomeoneGaveUp, SomeoneHolds
<1>3. (slot' = "off" /\ configured => SomeoneGaveUp') /\ (slot' = "on" => SomeoneHolds')
  BY <1>2 DEF SlotInv
<1>4. ASSUME NEW u \in TracedTurns  PROVE Excused(trace'[u], slot', SomeoneGaveUp', SomeoneHolds')
  <2>1. CASE u = t
    BY <1>1, <1>2, <2>1 DEF Excused
  <2>2. CASE u # t
    BY <1>1, <1>2, <2>2 DEF SlotInv, Excused
  <2> QED  BY <2>1, <2>2
<1>5. \A u \in TracedTurns : Excused(trace[u], slot, SomeoneGaveUp, SomeoneHolds)'
  BY <1>4 DEF Excused
<1> QED  BY <1>3, <1>5 DEF SlotInv

(* A turn that opens had no call yet.                                      *)
LEMMA OpenedFields ==
  ASSUME NEW r, Traced(r), r.pc \in {"new", "loading", "starting"}, NEW handle \in BOOLEAN
  PROVE  LET o == Tracing!Opened(r, handle) IN
           /\ o.pc = "running" /\ o.handle = handle /\ ~o.gaveUp
           /\ o.call = "none" /\ o.tries = 0 /\ o.carried = "none"
<1>1. r \in Fields /\ r.call = "none" /\ ~r.gaveUp /\ r.tries = 0 /\ r.carried = "none"
  BY DEF Traced
<1> QED  BY <1>1 DEF Tracing!Opened, Fields

(* The end of a turn changes nothing of what its call was.                 *)
SameCall(q, r) ==
  /\ r.handle = q.handle /\ r.gaveUp = q.gaveUp
  /\ r.call = q.call /\ r.tries = q.tries /\ r.carried = q.carried

LEMMA EndStep ==
  ASSUME TracingInv, SlotInv, NEW t \in TracedTurns, NEW r, trace' = [trace EXCEPT ![t] = r], slot' = slot,
         UNCHANGED configured, trace[t].pc \in {"running", "flushing"}, SameCall(trace[t], r)
  PROVE  SlotInv'
<1>1. Excused(trace[t], slot, SomeoneGaveUp, SomeoneHolds)
  BY DEF SlotInv
<1>2. Excused(r, slot', SomeoneGaveUp \/ r.gaveUp, SomeoneHolds \/ r.handle)
  BY <1>1 DEF Excused, SameCall
<1>3. (trace[t].handle => r.handle) /\ (trace[t].gaveUp => r.gaveUp)
  BY DEF SameCall
<1> QED  BY <1>2, <1>3, SlotStep

LEMMA SlotKept == TracingInv /\ SlotInv /\ [Tracing!Next]_tracingVars => SlotInv'
<1> SUFFICES ASSUME TracingInv, SlotInv, [Tracing!Next]_tracingVars  PROVE SlotInv'
  OBVIOUS
<1>same. CASE UNCHANGED tracingVars
  BY <1>same DEF tracingVars, SlotInv, SomeoneGaveUp, SomeoneHolds, Excused
<1>begin. ASSUME NEW t \in TracedTurns, Tracing!Begin(t)  PROVE SlotInv'
  <2> DEFINE o(h) == Tracing!Opened(trace[t], h)
  <2>1. /\ Traced(trace[t]) /\ trace[t].pc = "new" /\ UNCHANGED configured
        /\ ~trace[t].handle /\ ~trace[t].gaveUp /\ slot \in {"unset", "off", "on"}
    BY <1>begin DEF TracingInv, Traced, Tracing!Begin
  <2>2. \A h \in BOOLEAN : /\ o(h).pc = "running" /\ o(h).handle = h /\ ~o(h).gaveUp
                           /\ o(h).call = "none" /\ o(h).tries = 0 /\ o(h).carried = "none"
    BY <2>1, OpenedFields
  <2> HIDE DEF o
  <2>cached. CASE slot # "unset"
    <3>1. trace' = [trace EXCEPT ![t] = o(slot = "on")] /\ slot' = slot
      BY <1>begin, <2>cached DEF Tracing!Begin, TracingInv, o
    <3>2. (slot = "on") \in BOOLEAN
      OBVIOUS
    <3>3. /\ o(slot = "on").pc = "running" /\ o(slot = "on").handle = (slot = "on") /\ ~o(slot = "on").gaveUp
          /\ o(slot = "on").call = "none" /\ o(slot = "on").tries = 0 /\ o(slot = "on").carried = "none"
      BY <2>2, <3>2
    <3>4. slot # "on" /\ configured => SomeoneGaveUp
      BY <2>1, <2>cached DEF SlotInv
    <3>5. Excused(o(slot = "on"), slot', SomeoneGaveUp \/ o(slot = "on").gaveUp, SomeoneHolds \/ o(slot = "on").handle)
      <4> DEFINE r == o(slot = "on")
      <4>1. r.pc = "running" /\ r.call = "none" /\ r.tries = 0 /\ r.carried = "none" /\ r.handle = (slot = "on")
        BY <3>3
      <4> HIDE DEF r
      <4>2. (r.handle \/ ~configured \/ SomeoneGaveUp) /\ slot' # "unset"
        BY <2>cached, <3>1, <3>4, <4>1
      <4>3. Excused(r, slot', SomeoneGaveUp \/ r.gaveUp, SomeoneHolds \/ r.handle)
        BY <4>1, <4>2 DEF Excused
      <4> QED  BY <4>3 DEF r
    <3> QED  BY <2>1, <3>1, <3>5, SlotStep
  <2>off. CASE slot = "unset" /\ ~configured
    <3>1. trace' = [trace EXCEPT ![t] = o(FALSE)] /\ slot' = "off"
      BY <1>begin, <2>off DEF Tracing!Begin, TracingInv, o
    <3>2. Excused(o(FALSE), slot', SomeoneGaveUp \/ o(FALSE).gaveUp, SomeoneHolds \/ o(FALSE).handle)
      BY <2>2, <2>off, <3>1 DEF Excused
    <3> QED  BY <2>1, <2>off, <3>1, <3>2, SlotStep
  <2>load. CASE slot = "unset" /\ configured
    <3> DEFINE r == [trace[t] EXCEPT !.pc = "loading"]
    <3>1. trace' = [trace EXCEPT ![t] = r] /\ slot' = slot
      BY <1>begin, <2>load DEF Tracing!Begin, TracingInv
    <3>2. r.pc = "loading" /\ ~r.handle /\ r.carried = "none"
      BY <2>1 DEF Traced, Fields
    <3> HIDE DEF r
    <3>3. Excused(r, slot', SomeoneGaveUp \/ r.gaveUp, SomeoneHolds \/ r.handle)
      BY <3>2 DEF Excused
    <3> QED  BY <2>1, <3>1, <3>3, SlotStep
  <2> QED  BY <2>cached, <2>off, <2>load DEF TracingInv
<1>start. ASSUME NEW t \in TracedTurns, Tracing!Start(t)  PROVE SlotInv'
  <2> DEFINE r == [trace[t] EXCEPT !.pc = "starting"]
  <2>1. trace' = [trace EXCEPT ![t] = r] /\ slot' = slot /\ UNCHANGED configured /\ Traced(trace[t]) /\ trace[t].pc = "loading"
    BY <1>start DEF TracingInv, Tracing!Start
  <2>2. /\ r.pc = "starting" /\ ~r.handle /\ r.carried = "none" /\ ~trace[t].handle /\ ~trace[t].gaveUp
    BY <2>1 DEF Traced, Fields
  <2> HIDE DEF r
  <2>3. Excused(r, slot', SomeoneGaveUp \/ r.gaveUp, SomeoneHolds \/ r.handle)
    BY <2>2 DEF Excused
  <2> QED  BY <2>1, <2>2, <2>3, SlotStep
<1>keep. ASSUME NEW t \in TracedTurns, Tracing!Keep(t)  PROVE SlotInv'
  <2> DEFINE r == Tracing!Opened(trace[t], TRUE)
  <2>1. /\ trace' = [trace EXCEPT ![t] = r] /\ slot' = "on" /\ UNCHANGED configured
        /\ Traced(trace[t]) /\ trace[t].pc = "starting"
    BY <1>keep DEF TracingInv, Tracing!Keep
  <2>2. r.pc = "running" /\ r.handle /\ r.call = "none" /\ r.tries = 0 /\ ~trace[t].gaveUp
    BY <2>1, OpenedFields DEF Traced
  <2> HIDE DEF r
  <2>3. Excused(r, slot', SomeoneGaveUp \/ r.gaveUp, SomeoneHolds \/ r.handle)
    BY <2>1, <2>2 DEF Excused
  <2> QED  BY <2>1, <2>2, <2>3, SlotStep
<1>giveUp. ASSUME NEW t \in TracedTurns, Tracing!GiveUp(t)  PROVE SlotInv'
  <2> DEFINE o == Tracing!Opened(trace[t], FALSE)
             r == [o EXCEPT !.gaveUp = TRUE]
  <2>1. /\ trace' = [trace EXCEPT ![t] = r] /\ slot' = "off" /\ UNCHANGED configured
        /\ Traced(trace[t]) /\ trace[t].pc = "loading"
    BY <1>giveUp DEF TracingInv, Tracing!GiveUp
  <2>2. o \in Fields /\ o.pc = "running" /\ ~o.handle /\ o.carried = "none" /\ ~trace[t].handle
    BY <2>1, OpenedFields, OpenedFacts DEF Traced
  <2> HIDE DEF o
  <2>3. r.pc = "running" /\ ~r.handle /\ r.carried = "none" /\ r.gaveUp
    BY <2>2 DEF Fields
  <2> HIDE DEF r
  <2>4. Excused(r, slot', SomeoneGaveUp \/ r.gaveUp, SomeoneHolds \/ r.handle)
    BY <2>1, <2>3 DEF Excused
  <2> QED  BY SlotStep, <2>4, <2>3, <2>1, <2>2
<1>open. ASSUME NEW t \in TracedTurns, Tracing!OpenCall(t)  PROVE SlotInv'
  <2> DEFINE q == trace[t]
             call == IF slot # "on" THEN "untraced" ELSE IF q.scope THEN "in turn" ELSE "alone"
             r == [q EXCEPT !.call = call]
  <2>1. trace' = [trace EXCEPT ![t] = r] /\ slot' = slot /\ UNCHANGED configured /\ q \in Fields /\ q.pc = "running"
    BY <1>open DEF TracingInv, Traced, Tracing!OpenCall
  <2>2. Excused(q, slot, SomeoneGaveUp, SomeoneHolds) /\ (q.handle => configured)
    BY DEF SlotInv, TracingInv, Untraced
  <2>3. r.call = call /\ \A f \in {"pc", "handle", "gaveUp", "tries", "carried"} : r[f] = q[f]
    BY <2>1 DEF Fields
  <2>lost. call = "untraced" /\ q.handle => SomeoneGaveUp
    BY <2>1, <2>2 DEF SlotInv, TracingInv, Excused
  <2> HIDE DEF r, call, q
  <2>same. /\ r.pc = q.pc /\ r.handle = q.handle /\ r.gaveUp = q.gaveUp /\ r.tries = q.tries /\ r.carried = q.carried
    BY <2>3
  <2>6. Excused(r, slot', SomeoneGaveUp \/ r.gaveUp, SomeoneHolds \/ r.handle)
    BY <2>same, <2>lost, <2>3, <2>2, <2>1 DEF Excused
  <2>7. (trace[t].handle => r.handle) /\ (trace[t].gaveUp => r.gaveUp)
    BY <2>same DEF q
  <2> QED  BY <2>1, <2>6, <2>7, SlotStep
<1>send. ASSUME NEW t \in TracedTurns, Tracing!Send(t)  PROVE SlotInv'
  <2> DEFINE q == trace[t]
             carried == Tracing!Carrier(q)
             r == [q EXCEPT !.tries = q.tries + 1, !.carried = carried]
  <2>1. /\ trace' = [trace EXCEPT ![t] = r] /\ slot' = slot /\ UNCHANGED configured
        /\ q \in Fields /\ q.pc = "running" /\ q.call # "none"
    BY <1>send DEF TracingInv, Traced, Tracing!Send
  <2>2. /\ Excused(q, slot, SomeoneGaveUp, SomeoneHolds) /\ (q.handle => configured)
        /\ slot \in {"unset", "off", "on"} /\ q.span = (IF q.handle THEN "open" ELSE "none")
    BY <2>1 DEF SlotInv, TracingInv, Untraced, Traced
  <2>lost. q.handle /\ carried # "call" => SomeoneGaveUp
    <3>1. CASE slot # "on"
      BY <2>1, <2>2, <3>1 DEF SlotInv, Excused
    <3>2. CASE slot = "on" /\ q.call \in {"in turn", "alone"}
      BY <3>2 DEF Tracing!Carrier, Tracing!CarrierUnder
    <3>3. CASE q.call = "untraced"
      BY <2>2, <3>3 DEF Excused
    <3> QED  BY <2>1, <3>1, <3>2, <3>3 DEF Fields
  <2>found. ~q.handle /\ carried # "none" => SomeoneHolds
    <3>1. slot # "on" => carried = "none"
      BY <2>1 DEF Tracing!Carrier, Tracing!CarrierUnder
    <3> QED  BY <3>1 DEF SlotInv
  <2> HIDE DEF carried
  <2>3. /\ r.pc = q.pc /\ r.handle = q.handle /\ r.gaveUp = q.gaveUp
        /\ r.call = q.call /\ r.carried = carried
    BY <2>1 DEF Fields
  <2>4. trace' = [trace EXCEPT ![t] = r] /\ (trace[t].handle => r.handle) /\ (trace[t].gaveUp => r.gaveUp)
    BY <2>1, <2>3
  <2> HIDE DEF r, q
  <2>5. Excused(r, slot', SomeoneGaveUp \/ r.gaveUp, SomeoneHolds \/ r.handle)
    BY <2>1, <2>2, <2>3, <2>lost, <2>found DEF Excused
  <2> QED  BY <2>1, <2>4, <2>5, SlotStep
<1>ends. ASSUME NEW t \in TracedTurns, Tracing!RunEnds(t)  PROVE SlotInv'
  <2>1. PICK result \in {"returned", "threw"} :
          trace' = [trace EXCEPT ![t].pc = IF trace[t].handle THEN "flushing" ELSE "done",
                                 ![t].span = Tracing!SpanAfter(trace[t], result)]
    BY <1>ends DEF Tracing!RunEnds
  <2> DEFINE pc == IF trace[t].handle THEN "flushing" ELSE "done"
             r == [trace[t] EXCEPT !.pc = pc, !.span = Tracing!SpanAfter(trace[t], result)]
  <2>2. /\ trace' = [trace EXCEPT ![t] = r] /\ slot' = slot /\ UNCHANGED configured
        /\ trace[t] \in Fields /\ trace[t].pc = "running"
    BY <1>ends, <2>1 DEF TracingInv, Tracing!RunEnds
  <2>3. SameCall(trace[t], r)
    BY <2>2 DEF Fields, SameCall
  <2> HIDE DEF r
  <2> QED  BY <2>2, <2>3, EndStep
<1>flush. ASSUME NEW t \in TracedTurns, Tracing!Flush(t)  PROVE SlotInv'
  <2> DEFINE r == [trace[t] EXCEPT !.pc = "done", !.flushed = TRUE]
  <2>1. /\ trace' = [trace EXCEPT ![t] = r] /\ slot' = slot /\ UNCHANGED configured
        /\ trace[t] \in Fields /\ trace[t].pc = "flushing"
    BY <1>flush DEF TracingInv, Tracing!Flush
  <2>2. SameCall(trace[t], r)
    BY <2>1 DEF Fields, SameCall
  <2> HIDE DEF r
  <2> QED  BY <2>1, <2>2, EndStep
<1> QED  BY <1>same, <1>begin, <1>start, <1>keep, <1>giveUp, <1>open, <1>send, <1>ends, <1>flush DEF Tracing!Next

(* A message that lost its call, or found one, tells of two starts.        *)
LEMMA LostMeansDisagreement == TracingInv /\ SlotInv => Tracing!CallsKeepTheirTrace
<1> SUFFICES ASSUME TracingInv, SlotInv, NEW t \in TracedTurns, trace[t].tries > 0,
                    trace[t].carried # (IF trace[t].handle THEN "call" ELSE "none")
             PROVE  Tracing!StartsDisagree
  BY DEF Tracing!CallsKeepTheirTrace
<1>1. Excused(trace[t], slot, SomeoneGaveUp, SomeoneHolds) /\ Traced(trace[t]) /\ trace[t] \in Fields
  BY DEF SlotInv, TracingInv
<1>2. CASE trace[t].handle
  BY <1>1, <1>2 DEF Excused, SomeoneGaveUp, Tracing!StartsDisagree
<1>3. CASE ~trace[t].handle
  <2>1. SomeoneHolds /\ configured
    BY <1>1, <1>3 DEF Excused, TracingInv, Untraced
  <2>2. SomeoneGaveUp
    BY <1>1, <1>3, <2>1 DEF Excused, Traced, Fields
  <2> QED  BY <2>1, <2>2 DEF SomeoneGaveUp, SomeoneHolds, Tracing!StartsDisagree
<1> QED  BY <1>1, <1>2, <1>3 DEF Fields

(* For any number of turns, whatever the packages do and whenever the      *)
(* handle of the process changes: a turn runs once, as it would without    *)
(* tracing, and a message of its call bears the identity of the call if it *)
(* is traced and none otherwise, unless turns that began together started  *)
(* the tracing with different outcomes: ensureOtel, withTurnObservability, *)
(* withRemoteA2aObservability, injectTraceContext.                         *)
THEOREM TracingSafe == MCSpec => []TracingIsTransparent
<1>1. MCInit => TracingInv /\ SlotInv
  <2>1. MCInit => SlotInv
    BY DEF MCInit, Tracing!Init, Tracing!NewTurn, SlotInv, Excused
  <2> QED  BY <2>1, TracingStart
<1>2. [MCNext]_allVars => [Tracing!Next]_tracingVars
  BY DEF MCNext, allVars, tracingVars
<1>3. TracingInv /\ [MCNext]_allVars => TracingInv'
  BY <1>2, TracingStep
<1>4. TracingInv /\ SlotInv /\ [MCNext]_allVars => SlotInv'
  BY <1>2, SlotKept
<1>5. TracingInv /\ SlotInv => TracingIsTransparent
  BY RunsOnce, LostMeansDisagreement DEF TracingIsTransparent
<1> QED  BY <1>1, <1>3, <1>4, <1>5, PTL DEF MCSpec

--------------------------------------------------------------------------------
(* The history of chats.                                                   *)
(* What a path opens, when the chats are at place and those of sl have a slug. *)
FoundIn(sl, all, name) == {x \in all : name = x \/ (x \in sl /\ name = SlugOf[x])}
ChatsIn(pl, sl, name) == {t \in Threads : pl[t] \in FoundIn(sl, ProjectIds, name)}
OpenedIn(pl, sl, path) ==
  LET p == History!Parsed(path) IN
  CASE p.kind = "project"        -> FoundIn(sl, ProjectIds, p.project)
    [] p.kind = "thread"         -> FoundIn(sl, Threads, p.thread)
    [] p.kind = "project-thread" -> FoundIn(sl, ChatsIn(pl, sl, p.project), p.thread)
    [] OTHER                     -> {p.kind}
Opens(pl, sl, e) ==
  /\ OpenedIn(pl, sl, e.path) = {e.of}
  /\ e.of \in Threads /\ pl[e.of] \in sl => History!Parsed(e.path).kind = "project-thread"

HistoryInv ==
  /\ place \in [Threads -> ProjectIds \cup {NoProject}]
  /\ slugged \in SUBSET (ProjectIds \cup Threads)
  /\ \A e \in shown : Opens(place, slugged, e)

LEMMA OpensIsOpened == HistoryInv => ShownPathsOpen
BY DEF HistoryInv, ShownPathsOpen, History!ShownPathsOpen, Opens, OpenedIn, History!Opened, History!Found, FoundIn,
       History!InProject, ChatsIn

(* Names: the slug of a project or chat, or its id, finds it alone.        *)
LEMMA FoundAlone ==
  ASSUME NEW all \in {ProjectIds, Threads}, NEW few \in SUBSET all, NEW x \in few
  PROVE  /\ FoundIn(slugged, few, History!Seg(x)) = {x}
         /\ x \in slugged => FoundIn(slugged, few, SlugOf[x]) = {x}
<1>1. \A y \in few : (SlugOf[x] \in {y, SlugOf[y]} => x = y) /\ (SlugOf[y] \in {x, SlugOf[x]} => x = y)
  BY NamesAssumption DEF NamesAssumption
<1> QED  BY <1>1 DEF FoundIn, History!Seg

LEMMA ProjectAlone ==
  ASSUME NEW x \in ProjectIds
  PROVE  /\ FoundIn(slugged, ProjectIds, History!Seg(x)) = {x}
         /\ x \in slugged => FoundIn(slugged, ProjectIds, SlugOf[x]) = {x}
BY FoundAlone

LEMMA ChatAlone ==
  ASSUME NEW x \in Threads
  PROVE  /\ FoundIn(slugged, Threads, History!Seg(x)) = {x}
         /\ \A n : x \in ChatsIn(place, slugged, n) => FoundIn(slugged, ChatsIn(place, slugged, n), History!Seg(x)) = {x}
<1>1. \A n : ChatsIn(place, slugged, n) \in SUBSET Threads
  BY DEF ChatsIn
<1> QED  BY <1>1, FoundAlone

(* Paths: the first anchor is where they begin.                            *)
LEMMA FirstAnchor ==
  ASSUME NEW path, Len(path) \in Nat \ {0}, path[1] \in History!Anchors
  PROVE  History!Anchor(path) = 1
<1> DEFINE anchors == {i \in 1 .. Len(path) : path[i] \in History!Anchors}
           first == CHOOSE i \in anchors : \A k \in anchors : i <= k
<1>1. 1 \in anchors /\ \A k \in anchors : k \in Nat /\ 1 <= k
  OBVIOUS
<1>2. first \in anchors /\ \A k \in anchors : first <= k
  BY <1>1
<1>3. first = 1
  BY <1>1, <1>2
<1> QED  BY <1>1, <1>3 DEF History!Anchor

(* A path is taken for a kind, a project and a chat.                       *)
Is(path, kind, project, thread) ==
  /\ History!Parsed(path).kind = kind
  /\ History!Parsed(path).project = project /\ History!Parsed(path).thread = thread

LEMMA ParsedAt ==
  ASSUME NEW path, path # <<>>, Len(path) \in Nat \ {0}, path[1] \in {"threads", "projects"}
  PROVE  /\ path[1] = "threads" /\ Len(path) = 1 => Is(path, "threads", "none", "none")
         /\ path[1] = "threads" /\ Len(path) > 1 => Is(path, "thread", "none", path[2])
         /\ path[1] = "projects" /\ Len(path) = 1 => Is(path, "projects", "none", "none")
         /\ path[1] = "projects" /\ Len(path) = 2 => Is(path, "project", path[2], "none")
         /\ path[1] = "projects" /\ Len(path) = 3 /\ path[3] = "threads" => Is(path, "project-threads", path[2], "none")
         /\ path[1] = "projects" /\ Len(path) > 3 /\ path[3] = "threads" => Is(path, "project-thread", path[2], path[4])
<1> DEFINE i == History!Anchor(path)
           n == Len(path) - i
<1>1. i = 1
  BY FirstAnchor DEF History!Anchors
<1>2. i > 0 /\ i # 0 /\ n = Len(path) - 1 /\ n \in Nat /\ i + 1 = 2 /\ i + 2 = 3 /\ i + 3 = 4
  BY <1>1
<1>3. ASSUME path[1] = "threads", Len(path) = 1  PROVE Is(path, "threads", "none", "none")
  BY <1>1, <1>2, <1>3 DEF History!Parsed, Is
<1>4. ASSUME path[1] = "threads", Len(path) > 1  PROVE Is(path, "thread", "none", path[2])
  BY <1>1, <1>2, <1>4 DEF History!Parsed, Is
<1>5. ASSUME path[1] = "projects", Len(path) = 1  PROVE Is(path, "projects", "none", "none")
  BY <1>1, <1>2, <1>5 DEF History!Parsed, Is
<1>6. ASSUME path[1] = "projects", Len(path) = 2  PROVE Is(path, "project", path[2], "none")
  BY <1>1, <1>2, <1>6 DEF History!Parsed, Is
<1>7. ASSUME path[1] = "projects", Len(path) = 3, path[3] = "threads"
      PROVE  Is(path, "project-threads", path[2], "none")
  BY <1>1, <1>2, <1>7 DEF History!Parsed, Is
<1>8. ASSUME path[1] = "projects", Len(path) > 3, path[3] = "threads"
      PROVE  Is(path, "project-thread", path[2], path[4])
  BY <1>1, <1>2, <1>8 DEF History!Parsed, Is
<1> QED  BY <1>3, <1>4, <1>5, <1>6, <1>7, <1>8

LEMMA ParsedAs ==
  /\ Is(<<>>, "root", "none", "none") /\ Is(<<"other">>, "unknown", "none", "none")
  /\ Is(<<"projects">>, "projects", "none", "none") /\ Is(<<"threads">>, "threads", "none", "none")
  /\ \A n : Is(<<"projects", n>>, "project", n, "none") /\ Is(<<"threads", n>>, "thread", "none", n)
  /\ \A n : Is(<<"projects", n, "threads">>, "project-threads", n, "none")
  /\ \A n, m : Is(<<"projects", n, "threads", m>>, "project-thread", n, m)
<1>1. ASSUME NEW path, path = <<>>  PROVE Is(path, "root", "none", "none")
  <2>1. History!Anchor(path) = 0
    BY <1>1 DEF History!Anchor
  <2> QED  BY <1>1, <2>1 DEF History!Parsed, Is
<1>2. ASSUME NEW path, path = <<"other">>  PROVE Is(path, "unknown", "none", "none")
  <2>1. History!Anchor(path) = 0
    BY <1>2 DEF History!Anchor, History!Anchors
  <2>2. path # <<>>
    BY <1>2
  <2> QED  BY <2>1, <2>2 DEF History!Parsed, Is
<1>3. ASSUME NEW path, path = <<"projects">>  PROVE Is(path, "projects", "none", "none")
  <2>1. path # <<>> /\ Len(path) = 1 /\ path[1] = "projects"
    BY <1>3
  <2> QED  BY <2>1, ParsedAt
<1>4. ASSUME NEW path, path = <<"threads">>  PROVE Is(path, "threads", "none", "none")
  <2>1. path # <<>> /\ Len(path) = 1 /\ path[1] = "threads"
    BY <1>4
  <2> QED  BY <2>1, ParsedAt
<1>5. ASSUME NEW n, NEW path, path = <<"projects", n>>  PROVE Is(path, "project", n, "none")
  <2>1. path # <<>> /\ Len(path) = 2 /\ path[1] = "projects" /\ path[2] = n
    BY <1>5
  <2> QED  BY <2>1, ParsedAt
<1>6. ASSUME NEW n, NEW path, path = <<"threads", n>>  PROVE Is(path, "thread", "none", n)
  <2>1. path # <<>> /\ Len(path) = 2 /\ path[1] = "threads" /\ path[2] = n
    BY <1>6
  <2> QED  BY <2>1, ParsedAt
<1>7. ASSUME NEW n, NEW path, path = <<"projects", n, "threads">>  PROVE Is(path, "project-threads", n, "none")
  <2>1. path # <<>> /\ Len(path) = 3 /\ path[1] = "projects" /\ path[2] = n /\ path[3] = "threads"
    BY <1>7
  <2> QED  BY <2>1, ParsedAt
<1>8. ASSUME NEW n, NEW m, NEW path, path = <<"projects", n, "threads", m>>  PROVE Is(path, "project-thread", n, m)
  <2>1. path # <<>> /\ Len(path) = 4 /\ path[1] = "projects" /\ path[2] = n /\ path[3] = "threads" /\ path[4] = m
    BY <1>8
  <2> QED  BY <2>1, ParsedAt
<1> QED  BY <1>1, <1>2, <1>3, <1>4, <1>5, <1>6, <1>7, <1>8

LEMMA AppendedAs ==
  ASSUME NEW n, NEW m
  PROVE  /\ Is(Append(<<"projects", n, "threads">>, m), "project-thread", n, m)
         /\ Is(Append(<<"threads">>, m), "thread", "none", m)
<1> DEFINE S == {"projects", "threads", n, m}
<1>1. ASSUME NEW s \in Seq(S)
      PROVE  Len(Append(s, m)) = Len(s) + 1 /\ Append(s, m)[Len(s) + 1] = m /\ \A i \in 1 .. Len(s) : Append(s, m)[i] = s[i]
  BY AppendProperties
<1>2. Is(Append(<<"projects", n, "threads">>, m), "project-thread", n, m)
  <2> DEFINE s == <<"projects", n, "threads">>
             path == Append(s, m)
  <2>1. s \in Seq(S) /\ Len(s) = 3 /\ s[1] = "projects" /\ s[2] = n /\ s[3] = "threads"
    OBVIOUS
  <2> HIDE DEF s
  <2>2. path[1] = "projects" /\ path[2] = n /\ path[3] = "threads" /\ path[4] = m /\ Len(path) = 4
    <3>1. Len(path) = Len(s) + 1 /\ path[Len(s) + 1] = m /\ \A i \in 1 .. Len(s) : path[i] = s[i]
      BY <1>1, <2>1
    <3> QED  BY <2>1, <3>1
  <2>3. path # <<>>
    BY <2>2
  <2> HIDE DEF path
  <2>4. Is(path, "project-thread", n, m)
    BY <2>2, <2>3, ParsedAt
  <2> QED  BY <2>4 DEF path, s
<1>3. Is(Append(<<"threads">>, m), "thread", "none", m)
  <2> DEFINE s == <<"threads">>
             path == Append(s, m)
  <2>1. s \in Seq(S) /\ Len(s) = 1 /\ s[1] = "threads"
    OBVIOUS
  <2> HIDE DEF s
  <2>2. path[1] = "threads" /\ path[2] = m /\ Len(path) = 2
    <3>1. Len(path) = Len(s) + 1 /\ path[Len(s) + 1] = m /\ \A i \in 1 .. Len(s) : path[i] = s[i]
      BY <1>1, <2>1
    <3> QED  BY <2>1, <3>1
  <2>3. path # <<>>
    BY <2>2
  <2> HIDE DEF path
  <2>4. Is(path, "thread", "none", m)
    BY <2>2, <2>3, ParsedAt
  <2> QED  BY <2>4 DEF path, s
<1> QED  BY <1>2, <1>3

(* What the paths of the answers open.                                     *)
LEMMA OpenedAs ==
  ASSUME NEW path
  PROVE  LET p == History!Parsed(path) IN
         /\ p.kind \in {"projects", "threads", "project-threads"} => OpenedIn(place, slugged, path) = {p.kind}
         /\ p.kind = "project" => OpenedIn(place, slugged, path) = FoundIn(slugged, ProjectIds, p.project)
         /\ p.kind = "thread" => OpenedIn(place, slugged, path) = FoundIn(slugged, Threads, p.thread)
         /\ p.kind = "project-thread" =>
              OpenedIn(place, slugged, path) = FoundIn(slugged, ChatsIn(place, slugged, p.project), p.thread)
BY DEF OpenedIn

LEMMA EntryOpens ==
  ASSUME NEW path, NEW x, OpenedIn(place, slugged, path) = {x},
         x \in Threads /\ place[x] \in slugged => History!Parsed(path).kind = "project-thread"
  PROVE  Opens(place, slugged, History!Entry(path, x))
<1> DEFINE e == History!Entry(path, x)
<1>1. e.path = path /\ e.of = x
  BY DEF History!Entry
<1> HIDE DEF e
<1>2. Opens(place, slugged, e)
  BY <1>1 DEF Opens
<1> QED  BY <1>2 DEF e

LEMMA DirsOpen ==
  /\ \A a \in History!Anchors : Opens(place, slugged, History!Entry(<<a>>, a))
  /\ \A n : Opens(place, slugged, History!Entry(<<"projects", n, "threads">>, "project-threads"))
  /\ \A e \in History!Dirs(ProjectIds) : Opens(place, slugged, e)
<1>1. Threads \cap (ProjectIds \cup {"projects", "threads", "project-threads"}) = {}
  BY NamesAssumption DEF NamesAssumption
<1>2. ASSUME NEW path, History!Parsed(path).kind \in {"projects", "threads", "project-threads"}
      PROVE  Opens(place, slugged, History!Entry(path, History!Parsed(path).kind))
  <2>1. OpenedIn(place, slugged, path) = {History!Parsed(path).kind} /\ History!Parsed(path).kind \notin Threads
    BY <1>1, <1>2, OpenedAs
  <2> QED  BY <2>1, EntryOpens
<1>3. \A a \in History!Anchors : Opens(place, slugged, History!Entry(<<a>>, a))
  <2>1. History!Parsed(<<"projects">>).kind = "projects" /\ History!Parsed(<<"threads">>).kind = "threads"
    BY ParsedAs DEF Is
  <2> QED  BY <1>2, <2>1 DEF History!Anchors
<1>4. ASSUME NEW n  PROVE Opens(place, slugged, History!Entry(<<"projects", n, "threads">>, "project-threads"))
  <2>1. History!Parsed(<<"projects", n, "threads">>).kind = "project-threads"
    BY ParsedAs DEF Is
  <2> QED  BY <1>2, <2>1
<1>5. ASSUME NEW x \in ProjectIds  PROVE Opens(place, slugged, History!Entry(History!ProjectDir(x), x))
  <2>1. /\ History!Parsed(History!ProjectDir(x)).kind = "project"
        /\ History!Parsed(History!ProjectDir(x)).project = History!Seg(x)
    BY ParsedAs DEF Is, History!ProjectDir
  <2>2. OpenedIn(place, slugged, History!ProjectDir(x)) = {x}
    <3>1. FoundIn(slugged, ProjectIds, History!Seg(x)) = {x}
      BY ProjectAlone
    <3>2. OpenedIn(place, slugged, History!ProjectDir(x)) = FoundIn(slugged, ProjectIds, History!Seg(x))
      BY <2>1, OpenedAs
    <3> QED  BY <3>1, <3>2
  <2> QED  BY <1>1, <2>2, EntryOpens
<1> QED  BY <1>3, <1>4, <1>5 DEF History!Dirs

LEMMA ChatsOpen ==
  ASSUME HistoryInv
  PROVE  /\ \A n : \A e \in History!Files(<<"projects", n, "threads">>, History!InProject(n)) : Opens(place, slugged, e)
         /\ \A e \in History!Files(<<"threads">>, History!Loose) : Opens(place, slugged, e)
         /\ \A t \in Threads : Opens(place, slugged, History!Entry(History!HitPath(t), t))
<1>1. ASSUME NEW n, NEW t \in ChatsIn(place, slugged, n), NEW path, Is(path, "project-thread", n, History!Seg(t))
      PROVE  Opens(place, slugged, History!Entry(path, t))
  <2>1. History!Parsed(path).kind = "project-thread"
    BY <1>1 DEF Is
  <2>2. OpenedIn(place, slugged, path) = FoundIn(slugged, ChatsIn(place, slugged, n), History!Seg(t))
    BY <1>1, <2>1, OpenedAs DEF Is
  <2>3. FoundIn(slugged, ChatsIn(place, slugged, n), History!Seg(t)) = {t}
    BY ChatAlone DEF ChatsIn
  <2> QED  BY <2>1, <2>2, <2>3, EntryOpens
<1>2. ASSUME NEW t \in Threads, place[t] \notin slugged, NEW path, Is(path, "thread", "none", History!Seg(t))
      PROVE  Opens(place, slugged, History!Entry(path, t))
  <2>1. OpenedIn(place, slugged, path) = FoundIn(slugged, Threads, History!Seg(t))
    BY <1>2, OpenedAs DEF Is
  <2>2. FoundIn(slugged, Threads, History!Seg(t)) = {t}
    BY ChatAlone DEF ChatsIn
  <2> QED  BY <1>2, <2>1, <2>2, EntryOpens
<1>3. ASSUME NEW n, NEW e \in History!Files(<<"projects", n, "threads">>, History!InProject(n))
      PROVE  Opens(place, slugged, e)
  <2>1. PICK t \in History!InProject(n) : e = History!Entry(Append(<<"projects", n, "threads">>, History!Seg(t)), t)
    BY <1>3 DEF History!Files
  <2>2. t \in ChatsIn(place, slugged, n)
    BY <2>1 DEF ChatsIn, FoundIn, History!InProject, History!Found
  <2>3. Is(Append(<<"projects", n, "threads">>, History!Seg(t)), "project-thread", n, History!Seg(t))
    BY AppendedAs
  <2> QED  BY <1>1, <2>1, <2>2, <2>3
<1>4. ASSUME NEW e \in History!Files(<<"threads">>, History!Loose)  PROVE Opens(place, slugged, e)
  <2>1. PICK t \in History!Loose : e = History!Entry(Append(<<"threads">>, History!Seg(t)), t)
    BY <1>4 DEF History!Files
  <2>2. t \in Threads /\ place[t] \notin slugged
    BY <2>1, NamesAssumption DEF HistoryInv, History!Loose, NamesAssumption
  <2>3. Is(Append(<<"threads">>, History!Seg(t)), "thread", "none", History!Seg(t))
    BY AppendedAs
  <2> QED  BY <1>2, <2>1, <2>2, <2>3
<1>5. ASSUME NEW t \in Threads  PROVE Opens(place, slugged, History!Entry(History!HitPath(t), t))
  <2>1. CASE place[t] \in slugged
    <3>1. place[t] \in ProjectIds
      BY <2>1, NamesAssumption DEF HistoryInv, NamesAssumption
    <3>2. FoundIn(slugged, ProjectIds, SlugOf[place[t]]) = {place[t]}
      BY <2>1, <3>1, ProjectAlone
    <3>3. t \in ChatsIn(place, slugged, SlugOf[place[t]])
      BY <3>2 DEF ChatsIn
    <3>4. Is(History!HitPath(t), "project-thread", SlugOf[place[t]], History!Seg(t))
      BY <2>1, ParsedAs DEF History!HitPath
    <3> QED  BY <1>1, <3>3, <3>4
  <2>2. CASE place[t] \notin slugged
    <3>1. Is(History!HitPath(t), "thread", "none", History!Seg(t))
      BY <2>2, ParsedAs DEF History!HitPath
    <3> QED  BY <1>2, <2>2, <3>1
  <2> QED  BY <2>1, <2>2
<1> QED  BY <1>3, <1>4, <1>5

(* Every answer, to a question about any path.                             *)
LEMMA AnswersOpen ==
  ASSUME HistoryInv, NEW path,
         NEW e \in History!Listed(path) \cup History!Rendered(path) \cup History!Globbed(path) \cup History!Grepped(path)
  PROVE  Opens(place, slugged, e)
<1> DEFINE n == History!Parsed(path).project
<1>1. CASE e \in History!Listed(path)
  <2>1. \/ e \in {History!Entry(<<a>>, a) : a \in History!Anchors}
        \/ e \in History!Dirs(ProjectIds)
        \/ e \in {History!Entry(<<"projects", n, "threads">>, "project-threads")}
        \/ e \in History!Files(<<"projects", n, "threads">>, History!InProject(n))
        \/ e \in History!Files(<<"threads">>, History!Loose)
    BY <1>1 DEF History!Listed
  <2> QED  BY <2>1, DirsOpen, ChatsOpen
<1>2. CASE e \in History!Rendered(path)
  <2>1. \/ e \in History!Dirs(ProjectIds)
        \/ e = History!Entry(<<"threads">>, "threads")
        \/ e \in History!Files(<<"projects", n, "threads">>, History!InProject(n))
        \/ e \in History!Files(<<"threads">>, History!Loose)
    BY <1>2 DEF History!Rendered
  <2> QED  BY <2>1, DirsOpen, ChatsOpen DEF History!Anchors
<1>3. CASE e \in History!Globbed(path)
  <2>1. \/ e \in History!Dirs(ProjectIds)
        \/ e \in History!Files(<<"projects", n, "threads">>, History!InProject(n))
        \/ e \in History!Files(<<"threads">>, History!Loose)
    BY <1>3 DEF History!Globbed
  <2> QED  BY <2>1, DirsOpen, ChatsOpen
<1>4. CASE e \in History!Grepped(path)
  <2>1. PICK t \in Threads : e = History!Entry(History!HitPath(t), t)
    BY <1>4 DEF History!Grepped, History!InProject, History!Loose
  <2> QED  BY <2>1, ChatsOpen
<1> QED  BY <1>1, <1>2, <1>3, <1>4

LEMMA HistoryStep == HistoryInv /\ [History!Next]_historyVars => HistoryInv'
<1> SUFFICES ASSUME HistoryInv, [History!Next]_historyVars  PROVE HistoryInv'
  OBVIOUS
<1>1. CASE UNCHANGED historyVars
  BY <1>1 DEF historyVars, HistoryInv
<1>2. CASE History!Ask
  <2>1. PICK path \in History!Paths :
          shown' \in {History!Listed(path), History!Rendered(path), History!Globbed(path), History!Grepped(path)}
    BY <1>2 DEF History!Ask
  <2>2. UNCHANGED <<place, slugged>>
    BY <1>2 DEF History!Ask
  <2>3. \A e \in shown' : Opens(place, slugged, e)
    BY <2>1, AnswersOpen
  <2> QED  BY <2>2, <2>3 DEF HistoryInv
<1>3. CASE History!Change
  BY <1>3 DEF History!Change, HistoryInv
<1> QED  BY <1>1, <1>2, <1>3 DEF History!Next

(* Whatever chats and projects are called, and whatever is renamed or moved *)
(* between two questions: a path that is shown opens what it stands for    *)
(* (chat-store-backend.ts).                                                *)
THEOREM PathsSafe == MCSpec => []ShownPathsOpen
<1>1. MCInit => HistoryInv
  BY DEF MCInit, History!Init, HistoryInv
<1>2. HistoryInv /\ [MCNext]_allVars => HistoryInv'
  <2>1. [MCNext]_allVars => [History!Next]_historyVars
    BY DEF MCNext, allVars, historyVars
  <2> QED  BY <2>1, HistoryStep
<1> QED  BY <1>1, <1>2, OpensIsOpened, PTL DEF MCSpec

--------------------------------------------------------------------------------
(* Numbers: a set has a least one, and one with a bound a greatest.        *)
LEMMA Least ==
  ASSUME NEW T, T \subseteq Nat, T # {}
  PROVE  \E x \in T : \A y \in T : x <= y
<1> DEFINE R == {ss \in Nat \X Nat : ss[1] < ss[2]}
<1>1. IsWellFoundedOn(R, Nat)
  BY NatLessThanWellFounded DEF OpToRel
<1>2. ASSUME NEW x \in Nat, NEW y \in Nat  PROVE <<x, y>> \in R <=> x < y
  OBVIOUS
<1> HIDE DEF R
<1>3. PICK x \in T : \A y \in T : ~ (<<y, x>> \in R)
  BY <1>1, WFMin
<1>4. ASSUME NEW y \in T  PROVE x <= y
  <2>1. x \in Nat /\ y \in Nat /\ ~ (<<y, x>> \in R)
    BY <1>3
  <2> QED  BY <1>2, <2>1
<1> QED  BY <1>4

LEMMA Greatest ==
  ASSUME NEW n \in Nat, NEW T, T \subseteq 1 .. n, T # {}
  PROVE  \E x \in T : \A y \in T : x >= y
<1> DEFINE U == {m \in Nat : \A x \in T : x <= m}
<1>1. n \in U
  BY DEF U
<1>2. PICK m \in U : \A k \in U : m <= k
  BY <1>1, Least
<1>3. m \in T
  <2>1. SUFFICES ASSUME m \notin T  PROVE FALSE
    OBVIOUS
  <2>2. PICK t \in T : TRUE
    OBVIOUS
  <2>3. m - 1 \in Nat /\ \A x \in T : x <= m - 1
    BY <1>2, <2>1, <2>2
  <2> QED  BY <1>2, <2>3
<1> QED  BY <1>2, <1>3

--------------------------------------------------------------------------------
(* The turns of the Python host: what they leave to each other.            *)
Statuses == {"none", "submitted", "completed", "input-required", "working", "failed", "canceled", "unspecified"}
Stages == {"none", "running", "finishing", "closing", "unwinding", "agui"}
StateOf == Nat \cup {None}
Artifact == [id : {"result", "input-required", "working"} \X Nat, state : StateOf]
PyTurn == [n : Nat, stage : Stages, prior : StateOf, status : Statuses, saves : BOOLEAN, cancel : BOOLEAN]

LEMMA StateFacts ==
  ASSUME NEW a \in Seq(Artifact)
  PROVE  /\ Python!LastState(a) \in StateOf /\ Python!FirstState(a) \in StateOf
         /\ Python!Bearing(a) # {} => Python!Max(Python!Bearing(a)) \in Python!Bearing(a)
<1> DEFINE S == Python!Bearing(a)
<1>0. \A i \in 1 .. Len(a) : a[i] \in Artifact
  OBVIOUS
<1>1. S \subseteq 1 .. Len(a) /\ \A i \in S : a[i].state \in StateOf
  BY <1>0 DEF Python!Bearing, Artifact
<1>2. Len(a) \in Nat /\ 1 .. Len(a) \subseteq Nat
  OBVIOUS
<1> HIDE DEF S
<1>3. ASSUME S # {}  PROVE Python!Max(S) \in S
  <2>1. \E x \in S : \A y \in S : x >= y
    BY <1>1, <1>2, <1>3, Greatest
  <2> QED  BY <2>1 DEF Python!Max
<1>4. ASSUME S # {}  PROVE Python!Min(S) \in S
  <2>1. \E x \in S : \A y \in S : x <= y
    <3>1. S \subseteq Nat
      BY <1>1, <1>2
    <3> QED  BY <1>4, <3>1, Least
  <2> QED  BY <2>1 DEF Python!Min
<1>5. Python!LastState(a) \in StateOf /\ Python!FirstState(a) \in StateOf
  BY <1>1, <1>3, <1>4 DEF Python!LastState, Python!FirstState, StateOf, S
<1> QED  BY <1>3, <1>5 DEF S

LEMMA AppendedState ==
  ASSUME NEW a \in Seq(Artifact), NEW x \in Artifact
  PROVE  /\ Append(a, x) \in Seq(Artifact)
         /\ Python!LastState(Append(a, x)) = IF x.state = None THEN Python!LastState(a) ELSE x.state
<1> DEFINE b == Append(a, x)
           n == Len(a) + 1
<1>1. /\ b \in Seq(Artifact) /\ Len(b) = n /\ b[n] = x /\ \A i \in 1 .. Len(a) : b[i] = a[i]
      /\ Len(a) \in Nat /\ n \in Nat
  BY AppendProperties
<1>2. DOMAIN b = 1 .. n /\ DOMAIN a = 1 .. Len(a)
  BY <1>1
<1> HIDE DEF b
<1>3. ASSUME x.state = None  PROVE Python!LastState(b) = Python!LastState(a)
  <2>1. Python!Bearing(b) = Python!Bearing(a)
    BY <1>1, <1>2, <1>3 DEF Python!Bearing
  <2>2. CASE Python!Bearing(a) = {}
    BY <2>1, <2>2 DEF Python!LastState
  <2>3. CASE Python!Bearing(a) # {}
    <3>1. Python!Max(Python!Bearing(a)) \in 1 .. Len(a)
      BY <1>2, <2>3, StateFacts DEF Python!Bearing
    <3> QED  BY <1>1, <2>1, <2>3, <3>1 DEF Python!LastState
  <2> QED  BY <2>2, <2>3
<1>4. ASSUME x.state # None  PROVE Python!LastState(b) = x.state
  <2> DEFINE S == Python!Bearing(b)
  <2>1. n \in S /\ \A i \in S : i \in Nat /\ n >= i
    BY <1>1, <1>2, <1>4 DEF Python!Bearing
  <2> HIDE DEF S
  <2>2. Python!Max(S) = n
    BY <1>1, <2>1 DEF Python!Max
  <2> QED  BY <1>1, <2>1, <2>2 DEF Python!LastState, S
<1> QED  BY <1>1, <1>3, <1>4 DEF b

LEMMA OneState ==
  ASSUME NEW x \in Artifact, x.state # None
  PROVE  <<x>> \in Seq(Artifact) /\ Python!LastState(<<x>>) = x.state
<1>1. <<>> \in Seq(Artifact) /\ Append(<<>>, x) = <<x>>
  OBVIOUS
<1> QED  BY <1>1, AppendedState

(* Artifacts bear the numbers of turns that have been, of a turn under way *)
(* only after it has added its own.                                        *)
IdsInv(a, n, stage) ==
  \A i \in 1 .. Len(a) :
    a[i].id = <<"result", 0>> \/ (a[i].id[2] <= n /\ (stage \in {"running", "finishing"} => a[i].id[2] < n))

(* A completed turn may have put its state before others: its task ends.   *)
OwnInv ==
  /\ pyTurn \in PyTurn /\ pyTask \in [status : Statuses, artifacts : Seq(Artifact)]
  /\ latest \in [saved : StateOf, atStart : StateOf]
  /\ IdsInv(pyTask.artifacts, pyTurn.n, pyTurn.stage)
  /\ \/ pyTask.status \in Python!Terminal \/ pyTurn.cancel \/ (pyTurn.stage = "closing" /\ pyTurn.status = "completed")
     \/ Python!LastState(pyTask.artifacts) = latest.saved
  /\ pyTurn.stage \in {"finishing", "closing"} => pyTurn.status \in {"completed", "input-required", "working", "failed"}
  /\ Python!EachTurnItsOwn

LEMMA StartsOwn ==
  ASSUME OwnInv, NEW stage \in {"running", "agui"}, NEW prior \in StateOf, Python!Starts(stage, prior)
  PROVE  /\ pyTurn' \in PyTurn /\ pyTurn'.n = pyTurn.n + 1 /\ pyTurn'.stage = stage /\ pyTurn'.prior = prior /\ ~pyTurn'.cancel
         /\ latest' \in [saved : StateOf, atStart : StateOf] /\ latest'.saved = latest.saved /\ latest'.atStart = latest.saved
         /\ IdsInv(pyTask.artifacts, pyTurn'.n, stage)
         /\ pyTurn.stage = "none" /\ ~pyTurn.cancel
<1>1. /\ pyTurn' = [n |-> pyTurn.n + 1, stage |-> stage, prior |-> prior, status |-> "none", saves |-> FALSE, cancel |-> FALSE]
      /\ latest' = [latest EXCEPT !.atStart = latest.saved] /\ pyTurn.n \in Nat
      /\ pyTurn.stage = "none" /\ ~pyTurn.cancel
  BY DEF OwnInv, PyTurn, Python!Starts, Python!Idle
<1>2. /\ pyTurn' \in PyTurn /\ pyTurn'.n = pyTurn.n + 1 /\ pyTurn'.stage = stage /\ pyTurn'.prior = prior /\ ~pyTurn'.cancel
  BY <1>1 DEF PyTurn, Stages, Statuses
<1>3. latest' \in [saved : StateOf, atStart : StateOf] /\ latest'.saved = latest.saved /\ latest'.atStart = latest.saved
  BY <1>1 DEF OwnInv
<1>4. \A i \in 1 .. Len(pyTask.artifacts) : pyTask.artifacts[i].id[2] \in Nat
  <2>1. pyTask.artifacts \in Seq(Artifact)
    BY DEF OwnInv
  <2>2. \A i \in 1 .. Len(pyTask.artifacts) : pyTask.artifacts[i] \in Artifact
    BY <2>1
  <2> QED  BY <2>2 DEF Artifact
<1>5. IdsInv(pyTask.artifacts, pyTurn'.n, stage)
  BY <1>1, <1>2, <1>4 DEF OwnInv, IdsInv
<1> QED  BY <1>1, <1>2, <1>3, <1>5

LEMMA ExecuteOwn ==
  ASSUME OwnInv, Python!Execute
  PROVE  OwnInv'
<1>1. pyTask.artifacts \in Seq(Artifact) /\ pyTask.status \notin Python!Terminal
  BY DEF OwnInv, Python!Execute
<1>2. Python!ReadPriorState(pyTask.artifacts) \in StateOf
  BY <1>1, StateFacts DEF Python!ReadPriorState
<1>3. /\ pyTurn' \in PyTurn /\ pyTurn'.n = pyTurn.n + 1 /\ pyTurn'.stage = "running" /\ ~pyTurn'.cancel
      /\ pyTurn'.prior = Python!LastState(pyTask.artifacts)
      /\ latest' \in [saved : StateOf, atStart : StateOf] /\ latest'.saved = latest.saved /\ latest'.atStart = latest.saved
      /\ IdsInv(pyTask.artifacts, pyTurn'.n, "running") /\ pyTurn.stage = "none" /\ ~pyTurn.cancel
  BY <1>2, StartsOwn DEF Python!Execute, Python!ReadPriorState
<1>4. pyTask' \in [status : Statuses, artifacts : Seq(Artifact)] /\ pyTask'.artifacts = pyTask.artifacts
  BY DEF OwnInv, Python!Execute, Statuses
<1>5. Python!LastState(pyTask.artifacts) = latest.saved
  BY <1>1, <1>3 DEF OwnInv
<1>6. scope' = pyTurn'.n
  BY DEF Python!Execute, Python!RequestScope
<1> QED  BY <1>3, <1>4, <1>5, <1>6 DEF OwnInv, Python!EachTurnItsOwn

(* The artifact of a turn: at its place, or at the end.                    *)
LEMMA AddOwn ==
  ASSUME OwnInv, Python!AddArtifact
  PROVE  OwnInv'
<1> DEFINE a == pyTask.artifacts
           state == IF pyTurn.saves THEN pyTurn.n ELSE None
           x == [id |-> Python!ArtifactId(pyTurn.status), state |-> state]
<1>1. /\ pyTurn.stage = "finishing" /\ pyTurn' = [pyTurn EXCEPT !.stage = "closing"] /\ UNCHANGED scope
      /\ pyTurn \in PyTurn /\ a \in Seq(Artifact)
  BY DEF Python!AddArtifact, OwnInv
<1>2. /\ pyTurn' \in PyTurn /\ pyTurn'.stage = "closing" /\ pyTurn'.n = pyTurn.n /\ pyTurn'.prior = pyTurn.prior
      /\ pyTurn'.status = pyTurn.status /\ pyTurn'.cancel = pyTurn.cancel
  BY <1>1 DEF PyTurn, Stages
<1>3. CASE pyTask.status \in Python!Terminal
  <2>1. UNCHANGED <<pyTask, latest>>
    BY <1>3 DEF Python!AddArtifact
  <2> QED  BY <1>1, <1>2, <1>3, <2>1 DEF OwnInv, IdsInv, Python!EachTurnItsOwn
<1>4. CASE pyTask.status \notin Python!Terminal
  <2>1. /\ pyTask' = [pyTask EXCEPT !.artifacts = Python!Merged(a, x)]
        /\ latest' = IF pyTurn.saves THEN [latest EXCEPT !.saved = pyTurn.n] ELSE latest
    BY <1>4 DEF Python!AddArtifact
  <2>2. /\ pyTurn.status \in {"completed", "input-required", "working"} /\ pyTurn.n \in Nat /\ pyTurn.saves \in BOOLEAN
        /\ \A i \in 1 .. Len(a) : a[i] \in Artifact
    BY <1>1 DEF OwnInv, Python!AddArtifact, PyTurn
  <2> DEFINE id == Python!ArtifactId(pyTurn.status)
  <2>3. /\ id \in {"result", "input-required", "working"} \X Nat
        /\ pyTurn.status = "completed" => id = <<"result", 0>>
        /\ pyTurn.status # "completed" => id[1] # "result" /\ id[2] = pyTurn.n
    BY <2>2 DEF Python!ArtifactId
  <2>4. state \in StateOf /\ x.id = id /\ x.state = state
    BY <2>2 DEF StateOf
  <2> HIDE DEF id, x
  <2>5. x \in Artifact
    BY <2>3, <2>4 DEF x, id, Artifact
  <2>6. /\ latest' \in [saved : StateOf, atStart : StateOf] /\ latest'.atStart = latest.atStart
        /\ latest'.saved = IF pyTurn.saves THEN pyTurn.n ELSE latest.saved
    BY <2>1, <2>2 DEF OwnInv, StateOf
  <2>7. pyTask' = [status |-> pyTask.status, artifacts |-> Python!Merged(a, x)]
    BY <2>1 DEF OwnInv
  <2>8. CASE \E i \in DOMAIN a : a[i].id = x.id
    <3> DEFINE b == [i \in DOMAIN a |-> IF a[i].id = x.id THEN x ELSE a[i]]
    <3>1. Python!Merged(a, x) = b
      BY <2>8 DEF Python!Merged
    <3>2. b \in Seq(Artifact) /\ Len(b) = Len(a) /\ \A i \in 1 .. Len(a) : b[i].id = a[i].id
      BY <1>1, <2>2, <2>5
    <3>3. pyTurn.status = "completed"
      BY <1>1, <2>2, <2>3, <2>4, <2>8 DEF OwnInv, IdsInv
    <3> HIDE DEF b
    <3>4. IdsInv(b, pyTurn.n, "closing")
      BY <3>2 DEF OwnInv, IdsInv
    <3> QED  BY <1>1, <1>2, <2>6, <2>7, <3>1, <3>2, <3>3, <3>4 DEF OwnInv, Python!EachTurnItsOwn
  <2>9. CASE ~ \E i \in DOMAIN a : a[i].id = x.id
    <3> DEFINE b == Append(a, x)
    <3>1. Python!Merged(a, x) = b
      BY <2>9 DEF Python!Merged
    <3>2. b \in Seq(Artifact) /\ Python!LastState(b) = IF x.state = None THEN Python!LastState(a) ELSE x.state
      BY <1>1, <2>5, AppendedState
    <3>3. Len(b) = Len(a) + 1 /\ b[Len(a) + 1] = x /\ Len(a) \in Nat /\ \A i \in 1 .. Len(a) : b[i] = a[i]
      BY <1>1, <2>5, AppendProperties
    <3> HIDE DEF b
    <3>4. IdsInv(b, pyTurn.n, "closing")
      BY <2>2, <2>3, <2>4, <3>3 DEF OwnInv, IdsInv
    <3>5. \/ pyTurn.cancel \/ pyTurn.status = "completed" \/ Python!LastState(b) = latest'.saved
      BY <1>1, <1>4, <2>2, <2>4, <2>6, <3>2, StatesAssumption DEF OwnInv, StatesAssumption
    <3> QED  BY <1>1, <1>2, <2>6, <2>7, <3>1, <3>2, <3>4, <3>5 DEF OwnInv, Python!EachTurnItsOwn
  <2> QED  BY <2>8, <2>9
<1> QED  BY <1>3, <1>4

LEMMA AguiOwn ==
  ASSUME OwnInv, Python!AguiLoad \/ Python!AguiSave
  PROVE  OwnInv'
<1>1. CASE Python!AguiLoad
  <2>1. pyTask.artifacts \in Seq(Artifact) /\ UNCHANGED <<pyTask, scope>>
    BY <1>1 DEF OwnInv, Python!AguiLoad
  <2>2. None \in StateOf /\ Python!ReadPriorStateFromTask(pyTask.artifacts) \in StateOf
    BY <2>1, StateFacts DEF StateOf, Python!ReadPriorStateFromTask
  <2>3. PICK prior \in StateOf : Python!Starts("agui", prior)
    BY <1>1, <2>2 DEF Python!AguiLoad
  <2>4. /\ pyTurn' \in PyTurn /\ pyTurn'.stage = "agui" /\ ~pyTurn'.cancel
        /\ latest' \in [saved : StateOf, atStart : StateOf] /\ latest'.saved = latest.saved
        /\ IdsInv(pyTask.artifacts, pyTurn'.n, "agui") /\ pyTurn.stage = "none" /\ ~pyTurn.cancel
    BY <2>3, StartsOwn
  <2> QED  BY <2>1, <2>4 DEF OwnInv, Python!EachTurnItsOwn
<1>2. CASE Python!AguiSave
  <2>1. /\ pyTurn.stage = "agui" /\ pyTurn' = [pyTurn EXCEPT !.stage = "none"] /\ pyTurn \in PyTurn
        /\ pyTurn.n \in Nat
    BY <1>2 DEF OwnInv, Python!AguiSave, PyTurn
  <2>2. pyTurn' \in PyTurn /\ pyTurn'.stage = "none" /\ pyTurn'.n = pyTurn.n /\ pyTurn'.cancel = pyTurn.cancel
    BY <2>1 DEF PyTurn, Stages
  <2>3. CASE UNCHANGED <<pyTask, latest>>
    BY <2>1, <2>2, <2>3 DEF OwnInv, IdsInv, Python!EachTurnItsOwn
  <2>4. CASE /\ pyTask' = [status |-> "unspecified", artifacts |-> << [id |-> <<"result", 0>>, state |-> pyTurn.n] >>]
             /\ latest' = [latest EXCEPT !.saved = pyTurn.n]
    <3> DEFINE x == [id |-> <<"result", 0>>, state |-> pyTurn.n]
    <3>1. x \in Artifact /\ x.state = pyTurn.n /\ x.state # None /\ x.id = <<"result", 0>>
      BY <2>1, StatesAssumption DEF Artifact, StateOf, StatesAssumption
    <3>2. pyTask' = [status |-> "unspecified", artifacts |-> <<x>>]
      BY <2>4
    <3> HIDE DEF x
    <3>3. <<x>> \in Seq(Artifact) /\ Python!LastState(<<x>>) = pyTurn.n
      BY <3>1, OneState
    <3>4. IdsInv(<<x>>, pyTurn.n, "none")
      BY <3>1 DEF IdsInv
    <3>5. latest' \in [saved : StateOf, atStart : StateOf] /\ latest'.saved = pyTurn.n
      BY <2>1, <2>4 DEF OwnInv, StateOf
    <3>6. pyTask' \in [status : Statuses, artifacts : Seq(Artifact)] /\ pyTask'.artifacts = <<x>>
      BY <3>2, <3>3 DEF Statuses
    <3> QED  BY <2>2, <3>3, <3>4, <3>5, <3>6 DEF OwnInv, Python!EachTurnItsOwn
  <2> QED  BY <1>2, <2>3, <2>4 DEF Python!AguiSave
<1> QED  BY <1>1, <1>2

(* What else a turn does: its stage changes, and at its end the status.    *)
LEMMA StageOwn ==
  ASSUME OwnInv, pyTurn' \in PyTurn, pyTurn'.n = pyTurn.n, pyTurn'.prior = pyTurn.prior,
         UNCHANGED latest, pyTask' \in [status : Statuses, artifacts : Seq(Artifact)], pyTask'.artifacts = pyTask.artifacts,
         \/ pyTurn'.stage \in {"none", "unwinding"}
         \/ pyTurn.stage = "running" /\ pyTurn'.stage = "finishing" /\ UNCHANGED scope
             /\ pyTurn'.status \in {"completed", "input-required", "working", "failed"},
         \/ pyTask'.status \in Python!Terminal \/ pyTurn'.cancel
         \/ Python!LastState(pyTask.artifacts) = latest.saved
  PROVE  OwnInv'
BY DEF OwnInv, IdsInv, Python!EachTurnItsOwn

LEMMA RestOwn ==
  ASSUME OwnInv,
         \/ Python!HandlerReturns \/ Python!Finalize \/ Python!CancelProducer \/ Python!Unwound \/ Python!Cancel
         \/ Python!Emit \/ Python!Drain \/ Python!Keepalive \/ Python!DrainEnds
  PROVE  OwnInv'
<1>0. pyTurn \in PyTurn /\ pyTask \in [status : Statuses, artifacts : Seq(Artifact)]
  BY DEF OwnInv
<1>1. CASE Python!HandlerReturns
  <2>1. PICK status \in {"completed", "input-required", "working", "failed"} : \E saves \in BOOLEAN :
          pyTurn' = [pyTurn EXCEPT !.stage = "finishing", !.status = status, !.saves = saves]
    BY <1>1 DEF Python!HandlerReturns
  <2>2. /\ pyTurn' \in PyTurn /\ pyTurn'.n = pyTurn.n /\ pyTurn'.prior = pyTurn.prior /\ pyTurn'.cancel = pyTurn.cancel
        /\ pyTurn'.stage = "finishing" /\ pyTurn'.status = status
    BY <1>0, <2>1 DEF PyTurn, Stages, Statuses
  <2>3. pyTurn.stage = "running" /\ UNCHANGED <<pyTask, scope, latest>>
    BY <1>1 DEF Python!HandlerReturns
  <2> QED  BY <1>0, <2>2, <2>3, StageOwn DEF OwnInv
<1>2. CASE Python!Finalize
  <2>1. /\ pyTurn' = [pyTurn EXCEPT !.stage = "none"] /\ UNCHANGED latest
        /\ pyTask' = IF pyTask.status \in Python!Terminal THEN pyTask ELSE [pyTask EXCEPT !.status = pyTurn.status]
        /\ pyTurn.stage = "closing" \/ (pyTurn.stage = "finishing" /\ pyTurn.status = "failed")
    BY <1>2 DEF Python!Finalize
  <2>turn. /\ pyTurn' \in PyTurn /\ pyTurn'.n = pyTurn.n /\ pyTurn'.prior = pyTurn.prior /\ pyTurn'.cancel = pyTurn.cancel
           /\ pyTurn'.stage = "none" /\ pyTurn.status \in Statuses
    BY <1>0, <2>1 DEF PyTurn, Stages
  <2>task. /\ pyTask' \in [status : Statuses, artifacts : Seq(Artifact)] /\ pyTask'.artifacts = pyTask.artifacts
           /\ pyTask.status \in Python!Terminal => pyTask'.status \in Python!Terminal
           /\ pyTask.status \notin Python!Terminal => pyTask'.status = pyTurn.status
    BY <1>0, <2>1, <2>turn
  <2>terminal. "completed" \in Python!Terminal
    BY DEF Python!Terminal
  <2> QED  BY <2>1, <2>turn, <2>task, <2>terminal, StageOwn DEF OwnInv
<1>3. CASE Python!CancelProducer
  <2>1. pyTurn' = [pyTurn EXCEPT !.stage = "unwinding", !.cancel = TRUE] /\ UNCHANGED <<pyTask, latest>>
    BY <1>3 DEF Python!CancelProducer
  <2>2. /\ pyTurn' \in PyTurn /\ pyTurn'.n = pyTurn.n /\ pyTurn'.prior = pyTurn.prior /\ pyTurn'.cancel
        /\ pyTurn'.stage = "unwinding"
    BY <1>0, <2>1 DEF PyTurn, Stages
  <2> QED  BY <1>0, <2>1, <2>2, StageOwn
<1>4. CASE Python!Unwound
  <2>1. pyTurn' = [pyTurn EXCEPT !.stage = "none"] /\ UNCHANGED <<pyTask, latest>> /\ pyTurn.stage = "unwinding"
    BY <1>4 DEF Python!Unwound
  <2>2. /\ pyTurn' \in PyTurn /\ pyTurn'.n = pyTurn.n /\ pyTurn'.prior = pyTurn.prior /\ pyTurn'.cancel = pyTurn.cancel
        /\ pyTurn'.stage = "none"
    BY <1>0, <2>1 DEF PyTurn, Stages
  <2> QED  BY <1>0, <2>1, <2>2, StageOwn DEF OwnInv
<1>5. CASE Python!Cancel
  <2>1. /\ pyTurn' = [pyTurn EXCEPT !.cancel = FALSE] /\ UNCHANGED <<latest, scope>>
        /\ pyTask' = [pyTask EXCEPT !.status = "canceled"]
    BY <1>5 DEF Python!Cancel
  <2>2. /\ pyTurn' \in PyTurn /\ pyTurn'.n = pyTurn.n /\ pyTurn'.prior = pyTurn.prior
        /\ pyTurn'.stage = pyTurn.stage /\ pyTurn'.status = pyTurn.status
    BY <1>0, <2>1 DEF PyTurn
  <2>3. /\ pyTask' \in [status : Statuses, artifacts : Seq(Artifact)] /\ pyTask'.artifacts = pyTask.artifacts
        /\ pyTask'.status \in Python!Terminal
    BY <1>0, <2>1 DEF Statuses, Python!Terminal
  <2> QED  BY <2>1, <2>2, <2>3 DEF OwnInv, Python!EachTurnItsOwn
<1>6. CASE Python!Emit \/ Python!Drain \/ Python!Keepalive \/ Python!DrainEnds
  <2>1. UNCHANGED <<pyTask, pyTurn, scope, latest>>
    BY <1>6 DEF Python!Emit, Python!Drain, Python!Keepalive, Python!DrainEnds
  <2> QED  BY <2>1 DEF OwnInv, Python!EachTurnItsOwn
<1> QED  BY <1>1, <1>2, <1>3, <1>4, <1>5, <1>6

LEMMA OwnStep == OwnInv /\ [Python!Next]_pythonVars => OwnInv'
<1> SUFFICES ASSUME OwnInv, [Python!Next]_pythonVars  PROVE OwnInv'
  OBVIOUS
<1>1. CASE UNCHANGED pythonVars
  BY <1>1 DEF pythonVars, OwnInv, Python!EachTurnItsOwn
<1>2. CASE Python!A2aTurn
  BY <1>2, ExecuteOwn, AddOwn, RestOwn DEF Python!A2aTurn
<1> QED  BY <1>1, <1>2, AguiOwn DEF Python!Next

LEMMA OwnInit == Python!Init => OwnInv
<1> SUFFICES ASSUME Python!Init  PROVE OwnInv
  OBVIOUS
<1>1. /\ pyTask = [status |-> "none", artifacts |-> <<>>] /\ latest = [saved |-> None, atStart |-> None]
      /\ pyTurn = [n |-> 0, stage |-> "none", prior |-> None, status |-> "none", saves |-> FALSE, cancel |-> FALSE]
  BY DEF Python!Init
<1>2. Python!LastState(<<>>) = None /\ <<>> \in Seq(Artifact)
  BY DEF Python!LastState, Python!Bearing
<1>3. None \in StateOf
  BY DEF StateOf
<1> QED  BY <1>1, <1>2, <1>3 DEF OwnInv, PyTurn, Stages, Statuses, IdsInv, Python!EachTurnItsOwn

(* Over A2A and AG-UI, through cancellations and tasks that are put in the *)
(* place of others: an A2A turn is given the state that was saved last, and *)
(* acts for its own request (a2a_executor.py).                             *)
THEOREM TurnsOwnSafe == MCSpec => []EachTurnItsOwn
<1>1. MCInit => OwnInv
  BY OwnInit DEF MCInit
<1>2. OwnInv /\ [MCNext]_allVars => OwnInv'
  <2>1. [MCNext]_allVars => [Python!Next]_pythonVars
    BY DEF MCNext, allVars, pythonVars
  <2> QED  BY <2>1, OwnStep
<1>3. OwnInv => EachTurnItsOwn
  BY DEF OwnInv, EachTurnItsOwn
<1> QED  BY <1>1, <1>2, <1>3, PTL DEF MCSpec

--------------------------------------------------------------------------------
(* The turns of the Python host: what they publish.                        *)
Kinds == {"task", "working", "open", "close", "artifact", "outcome", "canceled", "stop", "node", "text"}
PyEvent == Kinds \X Nat
HandlerEvent == {"node", "text"} \X Nat

HandledIn(s) == {i \in 1 .. Len(s) : s[i][1] \in {"node", "text"}}
KindIn(s, kind) == {i \in 1 .. Len(s) : s[i][1] = kind}
Numbers(s, i) == {s[j][2] : j \in {k \in HandledIn(s) : k < i}}
Taken(s) == Numbers(s, Len(s) + 1)

Whole(s, em) ==
  /\ \A i \in HandledIn(s) : s[i][2] \in 1 .. Len(em) /\ s[i] = em[s[i][2]] /\ Numbers(s, i) = 1 .. s[i][2] - 1
  /\ \A i \in KindIn(s, "outcome") \cup KindIn(s, "artifact") : Numbers(s, i) = 1 .. Len(em)
  /\ \A i \in KindIn(s, "text") : (\E j \in KindIn(s, "open") : j < i) /\ \A j \in KindIn(s, "close") : i < j
  /\ KindIn(s, "outcome") # {} /\ KindIn(s, "open") # {} =>
       \E j \in KindIn(s, "close") : \A i \in KindIn(s, "outcome") : j < i
  /\ \A kind \in {"open", "close", "outcome"} : \A i, j \in KindIn(s, kind) : i = j

LEMMA WholeIs == Whole(pyEvents, emitted) /\ pyEvents \in Seq(PyEvent) => AnswerIsWhole
<1> SUFFICES ASSUME Whole(pyEvents, emitted), pyEvents \in Seq(PyEvent)  PROVE AnswerIsWhole
  OBVIOUS
<1>1. /\ Python!Handled = HandledIn(pyEvents) /\ \A kind : Python!At(kind) = KindIn(pyEvents, kind)
      /\ \A i : Python!Before(i) = Numbers(pyEvents, i)
  BY DEF Python!Handled, HandledIn, Python!At, KindIn, Python!Before, Numbers
<1> QED  BY <1>1 DEF Whole, AnswerIsWhole, Python!AnswerIsWhole

(* One event more.                                                         *)
LEMMA OneMoreEvent ==
  ASSUME NEW s \in Seq(PyEvent), NEW e \in PyEvent
  PROVE  LET b == Append(s, e)  n == Len(s) + 1 IN
         /\ b \in Seq(PyEvent) /\ Len(b) = n /\ n \in Nat /\ b[n] = e /\ \A i \in 1 .. Len(s) : b[i] = s[i]
         /\ \A kind : KindIn(b, kind) = IF e[1] = kind THEN KindIn(s, kind) \cup {n} ELSE KindIn(s, kind)
         /\ HandledIn(b) = IF e[1] \in {"node", "text"} THEN HandledIn(s) \cup {n} ELSE HandledIn(s)
         /\ \A i \in 1 .. n : Numbers(b, i) = Numbers(s, i)
         /\ Taken(b) = IF e[1] \in {"node", "text"} THEN Taken(s) \cup {e[2]} ELSE Taken(s)
         /\ HandledIn(s) \subseteq 1 .. Len(s) /\ \A kind : KindIn(s, kind) \subseteq 1 .. Len(s)
<1> DEFINE b == Append(s, e)
           n == Len(s) + 1
<1>1. b \in Seq(PyEvent) /\ Len(b) = n /\ n \in Nat /\ Len(s) \in Nat /\ b[n] = e /\ \A i \in 1 .. Len(s) : b[i] = s[i]
  BY AppendProperties
<1> HIDE DEF b
<1>2. 1 .. n = 1 .. Len(s) \cup {n} /\ n \notin 1 .. Len(s)
  BY <1>1
<1>3. \A kind : KindIn(b, kind) = IF e[1] = kind THEN KindIn(s, kind) \cup {n} ELSE KindIn(s, kind)
  BY <1>1, <1>2 DEF KindIn
<1>4. HandledIn(b) = IF e[1] \in {"node", "text"} THEN HandledIn(s) \cup {n} ELSE HandledIn(s)
  BY <1>1, <1>2 DEF HandledIn
<1>5. HandledIn(s) \subseteq 1 .. Len(s) /\ \A kind : KindIn(s, kind) \subseteq 1 .. Len(s)
  BY DEF HandledIn, KindIn
<1>6. ASSUME NEW i \in 1 .. n  PROVE Numbers(b, i) = Numbers(s, i)
  <2>1. {k \in HandledIn(b) : k < i} = {k \in HandledIn(s) : k < i}
    BY <1>1, <1>4, <1>5
  <2>2. \A k \in HandledIn(s) : b[k] = s[k]
    BY <1>1, <1>5
  <2> QED  BY <2>1, <2>2 DEF Numbers
<1>7. Taken(b) = IF e[1] \in {"node", "text"} THEN Taken(s) \cup {e[2]} ELSE Taken(s)
  <2>1. {k \in HandledIn(b) : k < Len(b) + 1} = HandledIn(b) /\ {k \in HandledIn(s) : k < Len(s) + 1} = HandledIn(s)
    BY <1>1, <1>2, <1>4, <1>5
  <2>2. Taken(b) = {b[j][2] : j \in HandledIn(b)} /\ Taken(s) = {s[j][2] : j \in HandledIn(s)}
    BY <2>1 DEF Taken, Numbers
  <2>3. \A k \in HandledIn(s) : b[k] = s[k]
    BY <1>1, <1>5
  <2> QED  BY <1>1, <1>4, <2>2, <2>3
<1> QED  BY <1>1, <1>3, <1>4, <1>5, <1>6, <1>7 DEF b

LEMMA KindGrows ==
  ASSUME NEW s \in Seq(PyEvent), NEW e \in PyEvent
  PROVE  /\ Append(s, e) \in Seq(PyEvent)
         /\ \A kind : e[1] # kind => KindIn(Append(s, e), kind) = KindIn(s, kind)
         /\ KindIn(Append(s, e), e[1]) # {}
         /\ Taken(Append(s, e)) = IF e[1] \in {"node", "text"} THEN Taken(s) \cup {e[2]} ELSE Taken(s)
<1>1. /\ Append(s, e) \in Seq(PyEvent)
      /\ \A kind : KindIn(Append(s, e), kind) = IF e[1] = kind THEN KindIn(s, kind) \cup {Len(s) + 1} ELSE KindIn(s, kind)
      /\ Taken(Append(s, e)) = IF e[1] \in {"node", "text"} THEN Taken(s) \cup {e[2]} ELSE Taken(s)
  BY OneMoreEvent
<1> QED  BY <1>1

(* When an event may be published.                                         *)
Fitting(s, e, em) ==
  /\ e[1] \in {"node", "text"} =>
       /\ e[2] \in 1 .. Len(em) /\ e = em[e[2]] /\ Taken(s) = 1 .. e[2] - 1
       /\ KindIn(s, "outcome") = {} /\ KindIn(s, "artifact") = {}
  /\ e[1] = "text" => KindIn(s, "open") # {} /\ KindIn(s, "close") = {}
  /\ e[1] = "open" => KindIn(s, "open") = {} /\ KindIn(s, "outcome") = {}
  /\ e[1] = "close" => KindIn(s, "close") = {}
  /\ e[1] \in {"artifact", "outcome"} => Taken(s) = 1 .. Len(em)
  /\ e[1] = "outcome" => KindIn(s, "outcome") = {} /\ (KindIn(s, "open") # {} => KindIn(s, "close") # {})

LEMMA StaysWhole ==
  ASSUME NEW s \in Seq(PyEvent), NEW e \in PyEvent, NEW em, Whole(s, em), Fitting(s, e, em)
  PROVE  Whole(Append(s, e), em)
<1> DEFINE b == Append(s, e)
           n == Len(s) + 1
<1>1. /\ Len(b) = n /\ n \in Nat /\ Len(s) \in Nat /\ b[n] = e /\ \A i \in 1 .. Len(s) : b[i] = s[i] /\ i < n
      /\ \A kind : KindIn(b, kind) = IF e[1] = kind THEN KindIn(s, kind) \cup {n} ELSE KindIn(s, kind)
      /\ HandledIn(b) = IF e[1] \in {"node", "text"} THEN HandledIn(s) \cup {n} ELSE HandledIn(s)
      /\ \A i \in 1 .. Len(s) : Numbers(b, i) = Numbers(s, i)
      /\ Numbers(b, n) = Taken(s)
      /\ HandledIn(s) \subseteq 1 .. Len(s) /\ \A kind : KindIn(s, kind) \subseteq 1 .. Len(s)
  <2>1. /\ Len(b) = n /\ n \in Nat /\ b[n] = e /\ \A i \in 1 .. Len(s) : b[i] = s[i]
        /\ \A kind : KindIn(b, kind) = IF e[1] = kind THEN KindIn(s, kind) \cup {n} ELSE KindIn(s, kind)
        /\ HandledIn(b) = IF e[1] \in {"node", "text"} THEN HandledIn(s) \cup {n} ELSE HandledIn(s)
        /\ \A i \in 1 .. n : Numbers(b, i) = Numbers(s, i)
        /\ HandledIn(s) \subseteq 1 .. Len(s) /\ \A kind : KindIn(s, kind) \subseteq 1 .. Len(s)
    BY OneMoreEvent
  <2>2. Len(s) \in Nat /\ n \in 1 .. n /\ 1 .. Len(s) \subseteq 1 .. n /\ \A i \in 1 .. Len(s) : i < n
    OBVIOUS
  <2>3. Numbers(s, n) = Taken(s)
    BY DEF Taken
  <2> HIDE DEF b, n
  <2>4. Numbers(b, n) = Taken(s) /\ \A i \in 1 .. Len(s) : Numbers(b, i) = Numbers(s, i)
    BY <2>1, <2>2, <2>3
  <2> QED  BY <2>1, <2>2, <2>4
<1> HIDE DEF b, n
<1>2. ASSUME NEW i \in HandledIn(b)
      PROVE  b[i][2] \in 1 .. Len(em) /\ b[i] = em[b[i][2]] /\ Numbers(b, i) = 1 .. b[i][2] - 1
  <2>1. CASE i \in HandledIn(s)
    BY <1>1, <2>1 DEF Whole
  <2>2. CASE i \notin HandledIn(s)
    BY <1>1, <1>2, <2>2 DEF Fitting
  <2> QED  BY <2>1, <2>2
<1>3. ASSUME NEW kind \in {"outcome", "artifact"}, NEW i \in KindIn(b, kind)  PROVE Numbers(b, i) = 1 .. Len(em)
  <2>1. CASE i \in KindIn(s, kind)
    BY <1>1, <2>1 DEF Whole
  <2>2. CASE i \notin KindIn(s, kind)
    <3>1. i = n /\ e[1] = kind
      BY <1>1, <1>3, <2>2
    <3> QED  BY <1>1, <3>1 DEF Fitting
  <2> QED  BY <2>1, <2>2
<1>4. ASSUME NEW i \in KindIn(b, "text")
      PROVE  (\E j \in KindIn(b, "open") : j < i) /\ \A j \in KindIn(b, "close") : i < j
  <2>1. CASE i \in KindIn(s, "text")
    BY <1>1, <2>1 DEF Whole
  <2>2. CASE i \notin KindIn(s, "text")
    BY <1>1, <1>4, <2>2 DEF Fitting
  <2> QED  BY <2>1, <2>2
<1>5. ASSUME KindIn(b, "outcome") # {}, KindIn(b, "open") # {}
      PROVE  \E j \in KindIn(b, "close") : \A i \in KindIn(b, "outcome") : j < i
  <2>1. CASE e[1] = "outcome"
    <3>1. KindIn(b, "outcome") = {n} /\ KindIn(b, "open") = KindIn(s, "open") /\ KindIn(b, "close") = KindIn(s, "close")
      BY <1>1, <2>1 DEF Fitting
    <3>2. PICK j \in KindIn(s, "close") : TRUE
      BY <1>5, <2>1, <3>1 DEF Fitting
    <3> QED  BY <1>1, <3>1, <3>2
  <2>2. CASE e[1] # "outcome"
    <3>1. KindIn(b, "outcome") = KindIn(s, "outcome") /\ KindIn(s, "close") \subseteq KindIn(b, "close")
      BY <1>1, <2>2
    <3>2. KindIn(s, "open") # {}
      BY <1>1, <1>5, <3>1 DEF Fitting
    <3> QED  BY <1>5, <3>1, <3>2 DEF Whole
  <2> QED  BY <2>1, <2>2
<1>6. ASSUME NEW kind \in {"open", "close", "outcome"}, NEW i \in KindIn(b, kind), NEW j \in KindIn(b, kind)  PROVE i = j
  <2>1. CASE e[1] = kind
    <3>1. KindIn(s, kind) = {}
      BY <2>1 DEF Fitting
    <3> QED  BY <1>1, <1>6, <2>1, <3>1
  <2>2. CASE e[1] # kind
    BY <1>1, <1>6, <2>2 DEF Whole
  <2> QED  BY <2>1, <2>2
<1>7. Whole(b, em)
  BY <1>2, <1>3, <1>4, <1>5, <1>6 DEF Whole
<1> QED  BY <1>7 DEF b

(* A stream that is going on: up to its m-th event, no end of it, and the *)
(* answer opened or not.                                                   *)
Live(s, em, m, answering) ==
  /\ s \in Seq(PyEvent) /\ Whole(s, em) /\ Taken(s) = 1 .. m
  /\ \A kind \in {"outcome", "artifact", "close"} : KindIn(s, kind) = {}
  /\ answering <=> KindIn(s, "open") # {}

EmittedInv(em) == em \in Seq(HandlerEvent) /\ \A m \in 1 .. Len(em) : em[m][2] = m

LEMMA StaysLive ==
  ASSUME NEW s, NEW em, EmittedInv(em), NEW m \in 0 .. Len(em), NEW answering \in BOOLEAN, Live(s, em, m, answering)
  PROVE  /\ Live(Append(s, <<"working", 0>>), em, m, answering)
         /\ ~answering => Live(Append(s, <<"open", 0>>), em, m, TRUE)
         /\ m < Len(em) /\ (em[m + 1][1] = "text" => answering) => Live(Append(s, em[m + 1]), em, m + 1, answering)
<1>0. s \in Seq(PyEvent) /\ Whole(s, em)
  BY DEF Live
<1>1. Live(Append(s, <<"working", 0>>), em, m, answering)
  <2> DEFINE e == <<"working", 0>>
  <2>1. e \in PyEvent /\ e[1] = "working"
    BY DEF PyEvent, Kinds
  <2> HIDE DEF e
  <2>2. Fitting(s, e, em)
    BY <2>1 DEF Fitting
  <2>3. Whole(Append(s, e), em)
    BY <1>0, <2>1, <2>2, StaysWhole
  <2>4. /\ Append(s, e) \in Seq(PyEvent) /\ Taken(Append(s, e)) = Taken(s)
        /\ \A kind \in {"outcome", "artifact", "close", "open"} : KindIn(Append(s, e), kind) = KindIn(s, kind)
    BY <1>0, <2>1, KindGrows
  <2>5. Live(Append(s, e), em, m, answering)
    BY <2>3, <2>4 DEF Live
  <2> QED  BY <2>5 DEF e
<1>2. ASSUME ~answering  PROVE Live(Append(s, <<"open", 0>>), em, m, TRUE)
  <2> DEFINE e == <<"open", 0>>
  <2>1. e \in PyEvent /\ e[1] = "open"
    BY DEF PyEvent, Kinds
  <2> HIDE DEF e
  <2>2. Fitting(s, e, em)
    BY <1>2, <2>1 DEF Fitting, Live
  <2>3. Whole(Append(s, e), em)
    BY <1>0, <2>1, <2>2, StaysWhole
  <2>4. /\ Append(s, e) \in Seq(PyEvent) /\ Taken(Append(s, e)) = Taken(s) /\ KindIn(Append(s, e), "open") # {}
        /\ \A kind \in {"outcome", "artifact", "close"} : KindIn(Append(s, e), kind) = KindIn(s, kind)
    BY <1>0, <2>1, KindGrows
  <2>5. Live(Append(s, e), em, m, TRUE)
    BY <2>3, <2>4 DEF Live
  <2> QED  BY <2>5 DEF e
<1>3. ASSUME m < Len(em), em[m + 1][1] = "text" => answering  PROVE Live(Append(s, em[m + 1]), em, m + 1, answering)
  <2> DEFINE e == em[m + 1]
  <2>1. m + 1 \in 1 .. Len(em) /\ m \in Nat /\ Len(em) \in Nat /\ m + 1 - 1 = m
    BY <1>3 DEF EmittedInv
  <2>2. e \in HandlerEvent /\ e[2] = m + 1
    BY <2>1 DEF EmittedInv
  <2>3. e \in PyEvent /\ e[1] \in {"node", "text"} /\ e = em[e[2]] /\ (e[1] = "text" => answering)
    BY <1>3, <2>2 DEF HandlerEvent, PyEvent, Kinds
  <2>4. Taken(s) = 1 .. e[2] - 1 /\ e[2] \in 1 .. Len(em)
    BY <2>1, <2>2 DEF Live
  <2> HIDE DEF e
  <2>5. Fitting(s, e, em)
    BY <2>3, <2>4 DEF Fitting, Live
  <2>6. Whole(Append(s, e), em)
    BY <1>0, <2>3, <2>5, StaysWhole
  <2>7. /\ Append(s, e) \in Seq(PyEvent) /\ Taken(Append(s, e)) = Taken(s) \cup {e[2]}
        /\ \A kind \in {"outcome", "artifact", "close", "open"} : KindIn(Append(s, e), kind) = KindIn(s, kind)
    BY <1>0, <2>3, KindGrows
  <2>8. Taken(Append(s, e)) = 1 .. m + 1
    <3>1. (1 .. m) \cup {m + 1} = 1 .. m + 1
      BY <2>1
    <3> QED  BY <2>2, <2>7, <3>1 DEF Live
  <2>9. Live(Append(s, e), em, m + 1, answering)
    BY <2>6, <2>7, <2>8 DEF Live
  <2> QED  BY <2>9 DEF e
<1> QED  BY <1>1, <1>2, <1>3

(* What is in the queue: the rest of what the handler emitted, and when it *)
(* has returned the end.                                                   *)
StopEvent == <<"stop", 0>>
Waiting(q, em, n, going) ==
  /\ Len(q) = Len(em) - n + (IF going THEN 0 ELSE 1)
  /\ \A j \in 1 .. Len(em) - n : q[j] = em[n + j]
  /\ ~going => q[Len(q)] = StopEvent

LEMMA StopFacts == StopEvent \in PyEvent /\ StopEvent[1] = "stop" /\ \A e \in HandlerEvent : e # StopEvent /\ e \in PyEvent
<1>1. StopEvent \in PyEvent /\ StopEvent[1] = "stop"
  BY DEF StopEvent, PyEvent, Kinds
<1>2. ASSUME NEW e \in HandlerEvent  PROVE e # StopEvent /\ e \in PyEvent
  <2>1. e[1] \in {"node", "text"} /\ e \in PyEvent
    BY DEF HandlerEvent, PyEvent, Kinds
  <2> QED  BY <1>1, <2>1
<1> QED  BY <1>1, <1>2

LEMMA HeadWaits ==
  ASSUME NEW q \in Seq(PyEvent), NEW em, EmittedInv(em), NEW n \in 0 .. Len(em), NEW going \in BOOLEAN,
         Waiting(q, em, n, going), q # <<>>
  PROVE  /\ Head(q) = StopEvent => n = Len(em) /\ ~going
         /\ Head(q) # StopEvent =>
              /\ n < Len(em) /\ Head(q) = em[n + 1] /\ n + 1 \in 0 .. Len(em)
              /\ Tail(q) \in Seq(PyEvent) /\ Waiting(Tail(q), em, n + 1, going)
<1>1. Len(em) \in Nat /\ n \in Nat /\ Len(q) \in Nat /\ Len(q) > 0 /\ Head(q) = q[1] /\ n <= Len(em)
  BY DEF EmittedInv
<1>2. ASSUME n < Len(em)  PROVE Head(q) = em[n + 1] /\ Head(q) # StopEvent
  <2>1. 1 \in 1 .. Len(em) - n /\ n + 1 \in 1 .. Len(em)
    BY <1>1, <1>2
  <2>2. q[1] = em[n + 1]
    BY <2>1 DEF Waiting
  <2>3. em[n + 1] \in HandlerEvent
    BY <2>1 DEF EmittedInv
  <2> QED  BY <1>1, <2>2, <2>3, StopFacts
<1>3. ASSUME ~ (n < Len(em))  PROVE n = Len(em) /\ ~going /\ Head(q) = StopEvent
  <2>1. n = Len(em) /\ ~going /\ Len(q) = 1
    BY <1>1, <1>3 DEF Waiting
  <2> QED  BY <1>1, <2>1 DEF Waiting
<1>4. ASSUME n < Len(em)  PROVE Tail(q) \in Seq(PyEvent) /\ Waiting(Tail(q), em, n + 1, going)
  <2> DEFINE t == Tail(q)
  <2>1. t \in Seq(PyEvent) /\ Len(t) = Len(q) - 1 /\ \A j \in 1 .. Len(t) : t[j] = q[j + 1]
    BY <1>1
  <2> HIDE DEF t
  <2>2. Len(t) = Len(em) - (n + 1) + (IF going THEN 0 ELSE 1)
    BY <1>1, <2>1 DEF Waiting
  <2>3. ASSUME NEW j \in 1 .. Len(em) - (n + 1)  PROVE t[j] = em[n + 1 + j]
    <3>1. j \in 1 .. Len(t) /\ j + 1 \in 1 .. Len(em) - n /\ n + (j + 1) = n + 1 + j
      BY <1>1, <1>4, <2>2
    <3> QED  BY <2>1, <3>1 DEF Waiting
  <2>4. ASSUME ~going  PROVE t[Len(t)] = StopEvent
    <3>1. Len(t) \in 1 .. Len(t) /\ Len(t) + 1 = Len(q)
      BY <1>1, <1>4, <2>1, <2>2, <2>4
    <3> QED  BY <2>1, <2>4, <3>1 DEF Waiting
  <2>5. Waiting(t, em, n + 1, going)
    BY <2>2, <2>3, <2>4 DEF Waiting
  <2> QED  BY <2>1, <2>5 DEF t
<1> QED  BY <1>1, <1>2, <1>3, <1>4

LEMMA QueueGrows ==
  ASSUME NEW q \in Seq(PyEvent), NEW em, EmittedInv(em), NEW n \in 0 .. Len(em), Waiting(q, em, n, TRUE)
  PROVE  /\ Append(q, StopEvent) \in Seq(PyEvent) /\ Waiting(Append(q, StopEvent), em, n, FALSE)
         /\ \A e \in HandlerEvent : Append(q, e) \in Seq(PyEvent) /\ Waiting(Append(q, e), Append(em, e), n, TRUE)
<1>1. Len(em) \in Nat /\ n \in Nat /\ Len(q) = Len(em) - n /\ Len(q) \in Nat /\ n <= Len(em)
  BY DEF EmittedInv, Waiting
<1>2. Append(q, StopEvent) \in Seq(PyEvent) /\ Waiting(Append(q, StopEvent), em, n, FALSE)
  <2> DEFINE b == Append(q, StopEvent)
  <2>1. b \in Seq(PyEvent) /\ Len(b) = Len(q) + 1 /\ b[Len(q) + 1] = StopEvent /\ \A j \in 1 .. Len(q) : b[j] = q[j]
    BY StopFacts, AppendProperties
  <2> HIDE DEF b
  <2>2. Waiting(b, em, n, FALSE)
    BY <1>1, <2>1 DEF Waiting
  <2> QED  BY <2>1, <2>2 DEF b
<1>3. ASSUME NEW e \in HandlerEvent
      PROVE  Append(q, e) \in Seq(PyEvent) /\ Waiting(Append(q, e), Append(em, e), n, TRUE)
  <2> DEFINE b == Append(q, e)
             c == Append(em, e)
  <2>1. b \in Seq(PyEvent) /\ Len(b) = Len(q) + 1 /\ b[Len(q) + 1] = e /\ \A j \in 1 .. Len(q) : b[j] = q[j]
    BY StopFacts, AppendProperties
  <2>2. Len(c) = Len(em) + 1 /\ c[Len(em) + 1] = e /\ \A j \in 1 .. Len(em) : c[j] = em[j]
    BY AppendProperties DEF EmittedInv
  <2> HIDE DEF b, c
  <2>3. Len(b) = Len(c) - n + 0
    BY <1>1, <2>1, <2>2
  <2>4. ASSUME NEW j \in 1 .. Len(c) - n  PROVE b[j] = c[n + j]
    <3>1. CASE j = Len(q) + 1
      <4>1. n + j = Len(em) + 1
        BY <1>1, <3>1
      <4> QED  BY <2>1, <2>2, <3>1, <4>1
    <3>2. CASE j # Len(q) + 1
      <4>1. j \in 1 .. Len(q) /\ j \in 1 .. Len(em) - n /\ n + j \in 1 .. Len(em)
        BY <1>1, <2>2, <3>2
      <4> QED  BY <2>1, <2>2, <4>1 DEF Waiting
    <3> QED  BY <3>1, <3>2
  <2>5. Waiting(b, c, n, TRUE)
    BY <2>3, <2>4 DEF Waiting
  <2> QED  BY <2>1, <2>5 DEF b, c
<1> QED  BY <1>2, <1>3

(* Of what a handler goes on to emit nothing has been published.           *)
LEMMA EmittedGrows ==
  ASSUME NEW em, EmittedInv(em), NEW e \in HandlerEvent, e[2] = Len(em) + 1
  PROVE  /\ EmittedInv(Append(em, e))
         /\ \A s, m, answering : Live(s, em, m, answering) => Live(s, Append(em, e), m, answering)
<1> DEFINE c == Append(em, e)
<1>1. c \in Seq(HandlerEvent) /\ Len(c) = Len(em) + 1 /\ c[Len(em) + 1] = e /\ Len(em) \in Nat /\ \A j \in 1 .. Len(em) : c[j] = em[j]
  BY AppendProperties DEF EmittedInv
<1> HIDE DEF c
<1>2. EmittedInv(c)
  <2>1. \A m \in 1 .. Len(c) : c[m][2] = m
    BY <1>1 DEF EmittedInv
  <2> QED  BY <1>1, <2>1 DEF EmittedInv
<1>3. ASSUME NEW s, NEW m, NEW answering, Live(s, em, m, answering)  PROVE Live(s, c, m, answering)
  <2>1. KindIn(s, "outcome") \cup KindIn(s, "artifact") = {} /\ Whole(s, em)
    BY <1>3 DEF Live
  <2>2. \A i \in HandledIn(s) : s[i][2] \in 1 .. Len(c) /\ s[i] = c[s[i][2]] /\ Numbers(s, i) = 1 .. s[i][2] - 1
    BY <1>1, <2>1 DEF Whole
  <2>3. Whole(s, c)
    BY <2>1, <2>2 DEF Whole
  <2> QED  BY <1>3, <2>3 DEF Live
<1> QED  BY <1>2, <1>3 DEF c

(* The stream of a turn: live while the drain is at work, then finished,   *)
(* with all of what was emitted and an end of the answer.                  *)
DrainInv ==
  pyTask.status \notin Python!Terminal /\ drain.on =>
    \E n \in 0 .. Len(emitted) :
      Live(pyEvents, emitted, n, drain.text) /\ Waiting(queue, emitted, n, pyTurn.stage = "running")

Complete(s, em) ==
  /\ Taken(s) = 1 .. Len(em) /\ KindIn(s, "outcome") = {}
  /\ KindIn(s, "open") # {} => KindIn(s, "close") # {}

WholeInv ==
  /\ EmittedInv(emitted) /\ queue \in Seq(PyEvent) /\ pyEvents \in Seq(PyEvent)
  /\ drain \in [on : BOOLEAN, working : BOOLEAN, text : BOOLEAN]
  /\ Whole(pyEvents, emitted)
  /\ drain.on => pyTurn.stage \in {"running", "finishing", "unwinding"}
  /\ pyTurn.stage = "running" => drain.on
  /\ pyTurn.stage \in {"running", "finishing", "closing"} => ~pyTurn.cancel /\ pyTask.status \notin Python!Terminal
  /\ DrainInv
  /\ pyTurn.stage \in {"finishing", "closing"} /\ ~drain.on => Complete(pyEvents, emitted)

(* A turn that begins.                                                     *)
LEMMA NothingYet ==
  /\ EmittedInv(<<>>) /\ <<>> \in Seq(PyEvent) /\ Whole(<<>>, <<>>)
  /\ Live(<< <<"task", 0>> >>, <<>>, 0, FALSE) /\ Waiting(<<>>, <<>>, 0, TRUE)
<1>1. EmittedInv(<<>>) /\ <<>> \in Seq(PyEvent) /\ Len(<<>>) = 0
  BY DEF EmittedInv
<1>2. HandledIn(<<>>) = {} /\ \A kind : KindIn(<<>>, kind) = {}
  BY DEF HandledIn, KindIn
<1>3. Whole(<<>>, <<>>) /\ Taken(<<>>) = {}
  BY <1>2 DEF Whole, Taken, Numbers
<1> DEFINE e == <<"task", 0>>
<1>4. e \in PyEvent /\ e[1] = "task" /\ Append(<<>>, e) = <<e>>
  BY DEF PyEvent, Kinds
<1> HIDE DEF e
<1>5. Fitting(<<>>, e, <<>>)
  BY <1>4 DEF Fitting
<1>6. Whole(Append(<<>>, e), <<>>)
  BY <1>1, <1>3, <1>4, <1>5, StaysWhole
<1>7. /\ Append(<<>>, e) \in Seq(PyEvent) /\ Taken(Append(<<>>, e)) = {}
      /\ \A kind \in {"outcome", "artifact", "close", "open"} : KindIn(Append(<<>>, e), kind) = {}
  BY <1>1, <1>2, <1>3, <1>4, KindGrows
<1>8. 1 .. 0 = {}
  OBVIOUS
<1>9. Live(<<e>>, <<>>, 0, FALSE)
  BY <1>4, <1>6, <1>7, <1>8 DEF Live
<1>10. Waiting(<<>>, <<>>, 0, TRUE)
  BY <1>1 DEF Waiting
<1> QED  BY <1>1, <1>3, <1>9, <1>10 DEF e

LEMMA BeginsWhole ==
  ASSUME OwnInv, WholeInv, Python!Execute \/ Python!AguiLoad
  PROVE  WholeInv'
<1>0. /\ pyTask \in [status : Statuses, artifacts : Seq(Artifact)]
      /\ pyTurn.stage \in {"running", "finishing", "unwinding"} \/ drain.on = FALSE
      /\ drain \in [on : BOOLEAN, working : BOOLEAN, text : BOOLEAN]
  BY DEF OwnInv, WholeInv
<1>1. CASE Python!Execute
  <2>1. /\ pyTurn' = [n |-> pyTurn.n + 1, stage |-> "running", prior |-> Python!ReadPriorState(pyTask.artifacts),
                      status |-> "none", saves |-> FALSE, cancel |-> FALSE]
        /\ emitted' = <<>> /\ queue' = <<>> /\ pyEvents' = << <<"task", 0>> >>
        /\ drain' = [on |-> TRUE, working |-> FALSE, text |-> FALSE]
        /\ pyTask.status \notin Python!Terminal
        /\ pyTask' = IF pyTask.status = "none" THEN [pyTask EXCEPT !.status = "submitted"] ELSE pyTask
    BY <1>1 DEF Python!Execute, Python!Starts
  <2>2. /\ pyTurn'.stage = "running" /\ ~pyTurn'.cancel
        /\ drain' \in [on : BOOLEAN, working : BOOLEAN, text : BOOLEAN] /\ drain'.on /\ drain'.text = FALSE
    BY <2>1
  <2>3. pyTask'.status \notin Python!Terminal
    BY <1>0, <2>1 DEF Python!Terminal
  <2>4. 0 \in 0 .. Len(emitted')
    BY <2>1
  <2>5. /\ EmittedInv(emitted') /\ queue' \in Seq(PyEvent)
        /\ Live(pyEvents', emitted', 0, drain'.text) /\ Waiting(queue', emitted', 0, pyTurn'.stage = "running")
    BY <2>1, <2>2, NothingYet
  <2>6. DrainInv'
    BY <2>4, <2>5 DEF DrainInv
  <2>7. pyEvents' \in Seq(PyEvent) /\ Whole(pyEvents', emitted')
    BY <2>5 DEF Live
  <2> QED  BY <2>2, <2>3, <2>5, <2>6, <2>7 DEF WholeInv
<1>2. CASE Python!AguiLoad
  <2>1. /\ pyTurn.stage = "none" /\ pyTurn'.stage = "agui"
        /\ emitted' = <<>> /\ queue' = <<>> /\ pyEvents' = <<>> /\ drain' = drain
    BY <1>2 DEF Python!AguiLoad, Python!Starts, Python!Idle
  <2>2. drain'.on = FALSE
    BY <1>0, <2>1
  <2>3. DrainInv'
    BY <2>2 DEF DrainInv
  <2> QED  BY <1>0, <2>1, <2>2, <2>3, NothingYet DEF WholeInv
<1> QED  BY <1>1, <1>2

(* The handler emits, and comes to its end.                                *)
LEMMA Returns ==
  ASSUME pyTurn \in PyTurn, Python!HandlerReturns
  PROVE  /\ pyTurn.stage = "running" /\ pyTurn'.stage = "finishing" /\ pyTurn'.cancel = pyTurn.cancel
         /\ queue' = Append(queue, StopEvent) /\ UNCHANGED <<pyTask, drain, pyEvents, emitted>>
<1>1. pyTurn'.stage = "finishing" /\ pyTurn'.cancel = pyTurn.cancel
  <2>1. PICK status \in {"completed", "input-required", "working", "failed"} : \E saves \in BOOLEAN :
          pyTurn' = [pyTurn EXCEPT !.stage = "finishing", !.status = status, !.saves = saves]
    BY Zenon DEF Python!HandlerReturns
  <2> QED  BY <2>1 DEF PyTurn
<1>2. pyTurn.stage = "running" /\ queue' = Append(queue, Python!Stop) /\ UNCHANGED <<pyTask, scope, creator, drain, pyEvents, emitted, latest>>
  BY Zenon DEF Python!HandlerReturns
<1> QED  BY <1>1, <1>2 DEF Python!Stop, StopEvent

LEMMA HandlerWhole ==
  ASSUME OwnInv, WholeInv, Python!Emit \/ Python!HandlerReturns
  PROVE  WholeInv'
<1>0. /\ pyTurn.stage = "running" /\ drain.on /\ pyTask.status \notin Python!Terminal /\ ~pyTurn.cancel
      /\ UNCHANGED <<pyTask, drain, pyEvents>> /\ queue \in Seq(PyEvent) /\ EmittedInv(emitted) /\ pyTurn \in PyTurn
      /\ drain \in [on : BOOLEAN, working : BOOLEAN, text : BOOLEAN]
  <2>1. CASE Python!Emit
    BY <2>1 DEF OwnInv, WholeInv, Python!Emit
  <2>2. CASE Python!HandlerReturns
    BY <2>2, Returns DEF OwnInv, WholeInv
  <2> QED  BY <2>1, <2>2
<1>1. PICK n \in 0 .. Len(emitted) : Live(pyEvents, emitted, n, drain.text) /\ Waiting(queue, emitted, n, TRUE)
  BY <1>0 DEF WholeInv, DrainInv
<1>2. CASE Python!Emit
  <2>1. PICK kind \in {"node", "text"} :
          /\ queue' = Append(queue, <<kind, Len(emitted) + 1>>) /\ emitted' = Append(emitted, <<kind, Len(emitted) + 1>>)
    BY <1>2 DEF Python!Emit
  <2> DEFINE e == <<kind, Len(emitted) + 1>>
  <2>2. e \in HandlerEvent /\ e[2] = Len(emitted) + 1 /\ Len(emitted) \in Nat
    BY <1>0 DEF HandlerEvent, EmittedInv
  <2>3. queue' = Append(queue, e) /\ emitted' = Append(emitted, e) /\ pyTurn' = pyTurn
    BY <1>2, <2>1 DEF Python!Emit
  <2> HIDE DEF e
  <2>4. EmittedInv(emitted') /\ Live(pyEvents, emitted', n, drain.text)
    BY <1>0, <1>1, <2>2, <2>3, EmittedGrows
  <2>5. queue' \in Seq(PyEvent) /\ Waiting(queue', emitted', n, TRUE)
    BY <1>0, <1>1, <2>2, <2>3, QueueGrows
  <2>6. n \in 0 .. Len(emitted')
    <3>1. Len(emitted') = Len(emitted) + 1
      BY <1>0, <2>2, <2>3, AppendProperties DEF EmittedInv
    <3> QED  BY <2>2, <3>1
  <2>7. DrainInv'
    BY <1>0, <2>3, <2>4, <2>5, <2>6 DEF DrainInv
  <2>8. pyEvents \in Seq(PyEvent) /\ Whole(pyEvents, emitted')
    BY <2>4 DEF Live
  <2> QED  BY <1>0, <2>3, <2>4, <2>5, <2>7, <2>8 DEF WholeInv
<1>3. CASE Python!HandlerReturns
  <2>1. queue' = Append(queue, StopEvent) /\ emitted' = emitted /\ pyTurn'.stage = "finishing" /\ pyTurn'.cancel = pyTurn.cancel
    BY <1>0, <1>3, Returns
  <2>3. queue' \in Seq(PyEvent) /\ Waiting(queue', emitted, n, FALSE)
    BY <1>0, <1>1, <2>1, QueueGrows
  <2>4. DrainInv'
    BY <1>0, <1>1, <2>1, <2>3 DEF DrainInv
  <2>5. pyEvents \in Seq(PyEvent) /\ Whole(pyEvents, emitted)
    BY <1>1 DEF Live
  <2> QED  BY <1>0, <2>1, <2>3, <2>4, <2>5 DEF WholeInv
<1> QED  BY <1>2, <1>3

(* The drain takes an event; of a task that has ended nothing is published. *)
LEMMA Published ==
  ASSUME NEW s, NEW em, EmittedInv(em), NEW n \in 0 .. Len(em), NEW answering \in BOOLEAN, NEW working \in BOOLEAN,
         Live(s, em, n, answering), n < Len(em)
  PROVE  LET e == em[n + 1] IN
         Live(s \o ((IF working THEN <<>> ELSE << <<"working", 0>> >>)
                    \o (IF e[1] = "text" THEN IF answering THEN <<>> ELSE << <<"open", 0>> >> ELSE <<>>) \o <<e>>),
              em, n + 1, answering \/ e[1] = "text")
<1> DEFINE e == em[n + 1]
           w == <<"working", 0>>
           o == <<"open", 0>>
           W == IF working THEN <<>> ELSE <<w>>
           O == IF e[1] = "text" THEN IF answering THEN <<>> ELSE <<o>> ELSE <<>>
           t == answering \/ e[1] = "text"
<1>1. s \in Seq(PyEvent) /\ w \in PyEvent /\ o \in PyEvent
  BY DEF Live, PyEvent, Kinds
<1>2. e \in PyEvent
  <2>1. n + 1 \in 1 .. Len(em)
    BY DEF EmittedInv
  <2>2. e \in HandlerEvent
    BY <2>1 DEF EmittedInv
  <2> QED  BY <2>2, StopFacts
<1>3. /\ Live(Append(s, w), em, n, answering)
      /\ \A a : Live(a, em, n, answering) /\ ~answering => Live(Append(a, o), em, n, TRUE)
      /\ \A a : Live(a, em, n, t) => Live(Append(a, e), em, n + 1, t)
  <2>1. Live(Append(s, w), em, n, answering)
    BY StaysLive
  <2>2. ASSUME NEW a, Live(a, em, n, answering), ~answering  PROVE Live(Append(a, o), em, n, TRUE)
    BY <2>2, StaysLive
  <2>3. ASSUME NEW a, Live(a, em, n, t)  PROVE Live(Append(a, e), em, n + 1, t)
    <3>1. t \in BOOLEAN /\ (e[1] = "text" => t)
      OBVIOUS
    <3> HIDE DEF t
    <3> QED  BY <2>3, <3>1, StaysLive
  <2> QED  BY <2>1, <2>2, <2>3
<1> HIDE DEF w, o, e
<1>4. W \in Seq(PyEvent) /\ O \in Seq(PyEvent) /\ <<e>> \in Seq(PyEvent)
  BY <1>1, <1>2
<1>5. Live(s \o W, em, n, answering) /\ s \o W \in Seq(PyEvent)
  <2>1. (working => s \o W = s) /\ (~working => s \o W = Append(s, w))
    BY <1>1
  <2>2. W \in Seq(PyEvent)
    BY <1>4
  <2> HIDE DEF W
  <2>3. s \o W \in Seq(PyEvent)
    BY <1>1, <2>2
  <2> QED  BY <1>3, <2>1, <2>3
<1>6. Live((s \o W) \o O, em, n, t) /\ (s \o W) \o O \in Seq(PyEvent)
  <2> DEFINE a == s \o W
  <2>1. a \in Seq(PyEvent) /\ Live(a, em, n, answering)
    BY <1>5
  <2> HIDE DEF a, W
  <2>2. CASE e[1] = "text" /\ ~answering
    <3>1. a \o O = Append(a, o) /\ t = TRUE
      BY <1>1, <2>1, <2>2
    <3>2. Live(Append(a, o), em, n, TRUE)
      BY <1>3, <2>1, <2>2
    <3>3. a \o O \in Seq(PyEvent)
      BY <3>1, <3>2 DEF Live
    <3> QED  BY <3>1, <3>2, <3>3 DEF a
  <2>3. CASE ~ (e[1] = "text" /\ ~answering)
    <3>1. a \o O = a /\ t = answering
      BY <2>1, <2>3
    <3> QED  BY <2>1, <3>1 DEF a
  <2> QED  BY <2>2, <2>3
<1> HIDE DEF W, O, t
<1>7. Live(((s \o W) \o O) \o <<e>>, em, n + 1, t)
  <2> DEFINE a == (s \o W) \o O
  <2>1. a \in Seq(PyEvent) /\ Live(a, em, n, t)
    BY <1>6
  <2> HIDE DEF a
  <2>2. a \o <<e>> = Append(a, e)
    BY <1>2, <2>1
  <2>3. Live(a \o <<e>>, em, n + 1, t)
    BY <1>3, <2>1, <2>2
  <2> QED  BY <2>3 DEF a
<1>8. ((s \o W) \o O) \o <<e>> = s \o (W \o O \o <<e>>)
  <2>1. W \o O \in Seq(PyEvent)
    BY <1>4
  <2>2. (s \o W) \o O = s \o (W \o O)
    BY <1>1, <1>4, ConcatAssociative
  <2>3. (s \o (W \o O)) \o <<e>> = s \o ((W \o O) \o <<e>>)
    BY <1>1, <1>4, <2>1, ConcatAssociative
  <2> QED  BY <2>2, <2>3
<1>9. Live(s \o (W \o O \o <<e>>), em, n + 1, t)
  BY <1>7, <1>8
<1> QED  BY <1>9 DEF W, O, t, e, w, o

LEMMA DrainWhole ==
  ASSUME OwnInv, WholeInv, Python!Drain
  PROVE  WholeInv'
<1> DEFINE e == Head(queue)
<1>0. /\ drain.on /\ queue # <<>> /\ e # StopEvent /\ queue' = Tail(queue)
      /\ UNCHANGED <<pyTask, pyTurn, emitted>>
      /\ queue \in Seq(PyEvent) /\ EmittedInv(emitted)
      /\ drain \in [on : BOOLEAN, working : BOOLEAN, text : BOOLEAN]
      /\ drain' = [drain EXCEPT !.working = TRUE, !.text = drain.text \/ e[1] = "text"]
  BY DEF WholeInv, Python!Drain, Python!Stop, StopEvent
<1>1. queue' \in Seq(PyEvent)
  BY <1>0
<1>2. drain' \in [on : BOOLEAN, working : BOOLEAN, text : BOOLEAN] /\ drain'.on /\ drain'.text = (drain.text \/ e[1] = "text")
  BY <1>0
<1>3. CASE pyTask.status \in Python!Terminal
  <2>1. pyEvents' = pyEvents
    BY <1>3 DEF Python!Drain, Python!Publish
  <2>2. DrainInv'
    BY <1>0, <1>3 DEF DrainInv
  <2> QED  BY <1>0, <1>1, <1>2, <1>3, <2>1, <2>2 DEF WholeInv
<1>4. CASE pyTask.status \notin Python!Terminal
  <2>1. PICK n \in 0 .. Len(emitted) : Live(pyEvents, emitted, n, drain.text) /\ Waiting(queue, emitted, n, pyTurn.stage = "running")
    BY <1>0, <1>4 DEF WholeInv, DrainInv
  <2>2. n < Len(emitted) /\ e = emitted[n + 1] /\ n + 1 \in 0 .. Len(emitted) /\ Waiting(queue', emitted, n + 1, pyTurn.stage = "running")
    <3> DEFINE run == pyTurn.stage = "running"
    <3>1. run \in BOOLEAN /\ Waiting(queue, emitted, n, run)
      BY <2>1
    <3> HIDE DEF run
    <3>2. n < Len(emitted) /\ e = emitted[n + 1] /\ n + 1 \in 0 .. Len(emitted) /\ Waiting(Tail(queue), emitted, n + 1, run)
      BY <1>0, <3>1, HeadWaits
    <3> QED  BY <1>0, <3>2 DEF run
  <2>3. pyEvents' = pyEvents \o ((IF drain.working THEN <<>> ELSE << <<"working", 0>> >>)
                    \o (IF e[1] = "text" THEN IF drain.text THEN <<>> ELSE << <<"open", 0>> >> ELSE <<>>) \o <<e>>)
    BY <1>4 DEF Python!Drain, Python!Publish, Python!Working, Python!Opening
  <2>4. drain.text \in BOOLEAN /\ drain.working \in BOOLEAN
    BY <1>0
  <2> HIDE DEF e
  <2>5. Live(pyEvents', emitted, n + 1, drain.text \/ e[1] = "text")
    BY <1>0, <2>1, <2>2, <2>3, <2>4, Published
  <2>6. DrainInv'
    BY <1>0, <1>2, <2>2, <2>5 DEF DrainInv
  <2>7. pyEvents' \in Seq(PyEvent) /\ Whole(pyEvents', emitted)
    BY <2>5 DEF Live
  <2> QED  BY <1>0, <1>1, <1>2, <2>6, <2>7 DEF WholeInv
<1> QED  BY <1>3, <1>4

LEMMA KeepaliveWhole ==
  ASSUME OwnInv, WholeInv, Python!Keepalive
  PROVE  WholeInv'
<1>0. /\ drain.on /\ UNCHANGED <<pyTask, pyTurn, queue, emitted>>
      /\ queue \in Seq(PyEvent) /\ EmittedInv(emitted)
      /\ drain \in [on : BOOLEAN, working : BOOLEAN, text : BOOLEAN]
      /\ drain' = [drain EXCEPT !.working = TRUE]
  BY DEF WholeInv, Python!Keepalive
<1>1. drain' \in [on : BOOLEAN, working : BOOLEAN, text : BOOLEAN] /\ drain'.on /\ drain'.text = drain.text
  BY <1>0
<1>2. CASE pyTask.status \in Python!Terminal
  <2>1. pyEvents' = pyEvents
    BY <1>2 DEF Python!Keepalive, Python!Publish
  <2>2. DrainInv'
    BY <1>0, <1>2 DEF DrainInv
  <2> QED  BY <1>0, <1>1, <1>2, <2>1, <2>2 DEF WholeInv
<1>3. CASE pyTask.status \notin Python!Terminal
  <2>1. PICK n \in 0 .. Len(emitted) : Live(pyEvents, emitted, n, drain.text) /\ Waiting(queue, emitted, n, pyTurn.stage = "running")
    BY <1>0, <1>3 DEF WholeInv, DrainInv
  <2> DEFINE w == <<"working", 0>>
  <2>2. pyEvents' = pyEvents \o <<w>> /\ pyEvents \in Seq(PyEvent) /\ drain.text \in BOOLEAN
    BY <1>0, <1>3 DEF Python!Keepalive, Python!Publish, WholeInv
  <2>3. Live(Append(pyEvents, w), emitted, n, drain.text)
    BY <1>0, <2>1, <2>2, StaysLive
  <2>4. pyEvents' = Append(pyEvents, w)
    <3>1. w \in PyEvent
      BY DEF PyEvent, Kinds
    <3> HIDE DEF w
    <3> QED  BY <2>2, <3>1
  <2>5. DrainInv'
    BY <1>0, <1>1, <2>1, <2>3, <2>4 DEF DrainInv
  <2>6. pyEvents' \in Seq(PyEvent) /\ Whole(pyEvents', emitted)
    BY <2>3, <2>4 DEF Live
  <2> QED  BY <1>0, <1>1, <2>5, <2>6 DEF WholeInv
<1> QED  BY <1>2, <1>3

(* It comes to the end: the answer has its own, if there is one.           *)
LEMMA Closed ==
  ASSUME NEW s, NEW em, EmittedInv(em), NEW answering \in BOOLEAN, Live(s, em, Len(em), answering)
  PROVE  LET b == s \o (IF answering THEN << <<"close", 0>> >> ELSE <<>>) IN
         b \in Seq(PyEvent) /\ Whole(b, em) /\ Complete(b, em)
<1> DEFINE e == <<"close", 0>>
<1>1. e \in PyEvent /\ e[1] = "close" /\ s \in Seq(PyEvent) /\ Whole(s, em)
  BY DEF Live, PyEvent, Kinds
<1> HIDE DEF e
<1>2. ASSUME answering  PROVE LET b == s \o <<e>> IN b \in Seq(PyEvent) /\ Whole(b, em) /\ Complete(b, em)
  <2>1. s \o <<e>> = Append(s, e)
    BY <1>1
  <2>2. Fitting(s, e, em)
    BY <1>1 DEF Fitting, Live
  <2>3. Whole(Append(s, e), em)
    BY <1>1, <2>2, StaysWhole
  <2>4. /\ Append(s, e) \in Seq(PyEvent) /\ Taken(Append(s, e)) = Taken(s) /\ KindIn(Append(s, e), "close") # {}
        /\ KindIn(Append(s, e), "outcome") = KindIn(s, "outcome")
    BY <1>1, KindGrows
  <2> QED  BY <2>1, <2>3, <2>4 DEF Live, Complete
<1>3. ASSUME ~answering  PROVE LET b == s \o <<>> IN b \in Seq(PyEvent) /\ Whole(b, em) /\ Complete(b, em)
  <2>1. s \o <<>> = s
    BY <1>1
  <2> QED  BY <1>1, <1>3, <2>1 DEF Live, Complete
<1> QED  BY <1>2, <1>3 DEF e

LEMMA DrainEndsWhole ==
  ASSUME OwnInv, WholeInv, Python!DrainEnds
  PROVE  WholeInv'
<1>0. /\ drain.on /\ queue # <<>> /\ Head(queue) = StopEvent /\ queue' = <<>>
      /\ UNCHANGED <<pyTask, pyTurn, emitted>> /\ queue \in Seq(PyEvent) /\ EmittedInv(emitted)
      /\ drain \in [on : BOOLEAN, working : BOOLEAN, text : BOOLEAN]
      /\ drain' = [drain EXCEPT !.on = FALSE]
  BY DEF WholeInv, Python!DrainEnds, Python!Stop, StopEvent
<1>1. drain' \in [on : BOOLEAN, working : BOOLEAN, text : BOOLEAN] /\ ~drain'.on /\ queue' \in Seq(PyEvent)
  <2>1. drain' \in [on : BOOLEAN, working : BOOLEAN, text : BOOLEAN] /\ ~drain'.on
    BY <1>0
  <2> QED  BY <1>0, <2>1, NothingYet
<1>2. DrainInv'
  BY <1>1 DEF DrainInv
<1>3. CASE pyTask.status \in Python!Terminal
  <2>1. pyEvents' = pyEvents
    BY <1>3 DEF Python!DrainEnds, Python!Publish
  <2> QED  BY <1>0, <1>1, <1>2, <1>3, <2>1 DEF WholeInv
<1>4. CASE pyTask.status \notin Python!Terminal
  <2>1. PICK n \in 0 .. Len(emitted) : Live(pyEvents, emitted, n, drain.text) /\ Waiting(queue, emitted, n, pyTurn.stage = "running")
    BY <1>0, <1>4 DEF WholeInv, DrainInv
  <2>2. n = Len(emitted) /\ ~ (pyTurn.stage = "running")
    <3> DEFINE run == pyTurn.stage = "running"
    <3>1. run \in BOOLEAN /\ Waiting(queue, emitted, n, run)
      BY <2>1
    <3> HIDE DEF run
    <3>2. n = Len(emitted) /\ ~run
      BY <1>0, <3>1, HeadWaits
    <3> QED  BY <3>2 DEF run
  <2>3. pyEvents' = pyEvents \o (IF drain.text THEN << <<"close", 0>> >> ELSE <<>>) /\ drain.text \in BOOLEAN
    BY <1>0, <1>4 DEF Python!DrainEnds, Python!Publish
  <2>4. pyEvents' \in Seq(PyEvent) /\ Whole(pyEvents', emitted) /\ Complete(pyEvents', emitted)
    BY <1>0, <2>1, <2>2, <2>3, Closed
  <2> QED  BY <1>0, <1>1, <1>2, <2>2, <2>4 DEF WholeInv
<1> QED  BY <1>3, <1>4

(* The end of the turn.                                                    *)
LEMMA EndsWhole ==
  ASSUME OwnInv, WholeInv, Python!AddArtifact \/ Python!Finalize
  PROVE  WholeInv'
<1>0. /\ pyTurn.stage \in {"finishing", "closing"} /\ ~drain.on /\ pyTask.status \notin Python!Terminal /\ ~pyTurn.cancel
      /\ UNCHANGED <<queue, drain, emitted>> /\ pyTurn \in PyTurn /\ pyEvents \in Seq(PyEvent)
      /\ Whole(pyEvents, emitted) /\ Complete(pyEvents, emitted)
  BY DEF OwnInv, WholeInv, Python!AddArtifact, Python!Finalize, Python!Drained
<1>1. DrainInv'
  BY <1>0 DEF DrainInv
<1>2. CASE Python!AddArtifact
  <2> DEFINE e == <<"artifact", 0>>
  <2>1. e \in PyEvent /\ e[1] = "artifact" /\ pyEvents' = pyEvents \o <<e>>
    BY <1>0, <1>2 DEF Python!AddArtifact, Python!Publish, PyEvent, Kinds
  <2> HIDE DEF e
  <2>2. pyEvents' = Append(pyEvents, e)
    BY <1>0, <2>1
  <2>3. Fitting(pyEvents, e, emitted)
    BY <1>0, <2>1 DEF Fitting, Complete
  <2>4. Whole(pyEvents', emitted)
    BY <1>0, <2>1, <2>2, <2>3, StaysWhole
  <2>5. /\ pyEvents' \in Seq(PyEvent) /\ Taken(pyEvents') = Taken(pyEvents)
        /\ \A kind \in {"open", "close", "outcome"} : KindIn(pyEvents', kind) = KindIn(pyEvents, kind)
    <3>1. /\ Append(pyEvents, e) \in Seq(PyEvent) /\ Taken(Append(pyEvents, e)) = Taken(pyEvents)
          /\ \A kind \in {"open", "close", "outcome"} : KindIn(Append(pyEvents, e), kind) = KindIn(pyEvents, kind)
      BY <1>0, <2>1, KindGrows
    <3> QED  BY <2>2, <3>1
  <2>6. Complete(pyEvents', emitted)
    BY <1>0, <2>5 DEF Complete
  <2>7. pyTurn' = [pyTurn EXCEPT !.stage = "closing"]
    BY <1>2 DEF Python!AddArtifact
  <2>8. pyTurn'.stage = "closing" /\ pyTurn'.cancel = pyTurn.cancel
    BY <1>0, <2>7 DEF PyTurn
  <2>9. pyTask'.status = pyTask.status
    BY <1>2 DEF Python!AddArtifact, OwnInv
  <2> QED  BY <1>0, <1>1, <2>4, <2>5, <2>6, <2>8, <2>9 DEF WholeInv
<1>3. CASE Python!Finalize
  <2> DEFINE e == <<"outcome", 0>>
  <2>1. e \in PyEvent /\ e[1] = "outcome" /\ pyEvents' = pyEvents \o <<e>>
    BY <1>0, <1>3 DEF Python!Finalize, Python!Publish, PyEvent, Kinds
  <2> HIDE DEF e
  <2>2. pyEvents' = Append(pyEvents, e)
    BY <1>0, <2>1
  <2>3. Fitting(pyEvents, e, emitted)
    BY <1>0, <2>1 DEF Fitting, Complete
  <2>4. Whole(pyEvents', emitted) /\ pyEvents' \in Seq(PyEvent)
    BY <1>0, <2>1, <2>2, <2>3, StaysWhole, KindGrows
  <2>5. pyTurn' = [pyTurn EXCEPT !.stage = "none"]
    BY <1>3 DEF Python!Finalize
  <2>6. pyTurn'.stage = "none"
    BY <1>0, <2>5 DEF PyTurn
  <2> QED  BY <1>0, <1>1, <2>4, <2>6 DEF WholeInv
<1> QED  BY <1>2, <1>3

(* A cancellation, and the end of an AG-UI turn.                           *)
LEMMA CancelsWhole ==
  ASSUME OwnInv, WholeInv, Python!CancelProducer \/ Python!Unwound \/ Python!Cancel \/ Python!AguiSave
  PROVE  WholeInv'
<1>0. /\ pyTurn \in PyTurn /\ pyEvents \in Seq(PyEvent) /\ queue \in Seq(PyEvent) /\ EmittedInv(emitted)
      /\ drain \in [on : BOOLEAN, working : BOOLEAN, text : BOOLEAN] /\ Whole(pyEvents, emitted)
  BY DEF OwnInv, WholeInv
<1>1. CASE Python!CancelProducer /\ pyTurn.stage = "running"
  <2>1. /\ queue' = Append(queue, StopEvent) /\ pyTurn' = [pyTurn EXCEPT !.stage = "unwinding", !.cancel = TRUE]
        /\ UNCHANGED <<pyTask, drain, pyEvents, emitted>> /\ drain.on /\ pyTask.status \notin Python!Terminal
    BY <1>1 DEF Python!CancelProducer, Python!Stop, StopEvent, WholeInv
  <2>2. pyTurn'.stage = "unwinding"
    BY <1>0, <2>1 DEF PyTurn
  <2>3. PICK n \in 0 .. Len(emitted) : Live(pyEvents, emitted, n, drain.text) /\ Waiting(queue, emitted, n, TRUE)
    BY <1>1, <2>1 DEF WholeInv, DrainInv
  <2>4. queue' \in Seq(PyEvent) /\ Waiting(queue', emitted, n, FALSE)
    BY <1>0, <2>1, <2>3, QueueGrows
  <2>5. DrainInv'
    BY <2>1, <2>2, <2>3, <2>4 DEF DrainInv
  <2> QED  BY <1>0, <2>1, <2>2, <2>4, <2>5 DEF WholeInv
<1>2. CASE Python!CancelProducer /\ pyTurn.stage # "running"
  <2>1. /\ queue' = <<>> /\ pyTurn' = [pyTurn EXCEPT !.stage = "unwinding", !.cancel = TRUE]
        /\ drain' = [drain EXCEPT !.on = FALSE] /\ UNCHANGED <<pyEvents, emitted>>
    BY <1>2 DEF Python!CancelProducer
  <2>2. /\ pyTurn'.stage = "unwinding" /\ ~drain'.on /\ queue' \in Seq(PyEvent)
        /\ drain' \in [on : BOOLEAN, working : BOOLEAN, text : BOOLEAN]
    <3>1. pyTurn'.stage = "unwinding"
      BY <1>0, <2>1 DEF PyTurn
    <3>2. ~drain'.on /\ drain' \in [on : BOOLEAN, working : BOOLEAN, text : BOOLEAN]
      BY <1>0, <2>1
    <3> QED  BY <2>1, <3>1, <3>2, NothingYet
  <2>3. DrainInv'
    BY <2>2 DEF DrainInv
  <2> QED  BY <1>0, <2>1, <2>2, <2>3 DEF WholeInv
<1>3. CASE Python!Unwound \/ Python!AguiSave
  <2>1. pyTurn' = [pyTurn EXCEPT !.stage = "none"] /\ UNCHANGED <<queue, drain, pyEvents, emitted>> /\ ~drain.on
    BY <1>3 DEF Python!Unwound, Python!AguiSave, WholeInv
  <2>2. pyTurn'.stage = "none"
    BY <1>0, <2>1 DEF PyTurn
  <2>3. DrainInv'
    BY <2>1 DEF DrainInv
  <2> QED  BY <1>0, <2>1, <2>2, <2>3 DEF WholeInv
<1>4. CASE Python!Cancel
  <2> DEFINE e == <<"canceled", 0>>
  <2>1. e \in PyEvent /\ e[1] = "canceled" /\ pyEvents' = pyEvents \o <<e>> /\ UNCHANGED <<queue, drain, emitted>>
    BY <1>4 DEF Python!Cancel, Python!Publish, PyEvent, Kinds
  <2> HIDE DEF e
  <2>2. pyEvents' = Append(pyEvents, e)
    BY <1>0, <2>1
  <2>3. Fitting(pyEvents, e, emitted)
    BY <2>1 DEF Fitting
  <2>4. Whole(pyEvents', emitted) /\ pyEvents' \in Seq(PyEvent)
    BY <1>0, <2>1, <2>2, <2>3, StaysWhole, KindGrows
  <2>5. /\ pyTurn' = [pyTurn EXCEPT !.cancel = FALSE] /\ pyTask' = [pyTask EXCEPT !.status = "canceled"]
        /\ pyTurn.stage \notin {"running", "finishing", "closing"}
    BY <1>4 DEF Python!Cancel, WholeInv
  <2>6. pyTurn'.stage = pyTurn.stage /\ pyTask'.status \in Python!Terminal
    BY <1>0, <2>5 DEF PyTurn, OwnInv, Python!Terminal
  <2>7. DrainInv'
    BY <2>6 DEF DrainInv
  <2> QED  BY <1>0, <2>1, <2>4, <2>5, <2>6, <2>7 DEF WholeInv
<1> QED  BY <1>1, <1>2, <1>3, <1>4

LEMMA WholeStep == OwnInv /\ WholeInv /\ [Python!Next]_pythonVars => WholeInv'
<1> SUFFICES ASSUME OwnInv, WholeInv, [Python!Next]_pythonVars  PROVE WholeInv'
  OBVIOUS
<1>1. CASE UNCHANGED pythonVars
  <2>1. DrainInv'
    BY <1>1 DEF pythonVars, WholeInv, DrainInv
  <2> QED  BY <1>1, <2>1 DEF pythonVars, WholeInv
<1>2. CASE Python!A2aTurn
  BY <1>2, BeginsWhole, HandlerWhole, DrainWhole, KeepaliveWhole, DrainEndsWhole, EndsWhole, CancelsWhole DEF Python!A2aTurn
<1> QED  BY <1>1, <1>2, BeginsWhole, CancelsWhole DEF Python!Next

LEMMA WholeInit == Python!Init => WholeInv
<1> SUFFICES ASSUME Python!Init  PROVE WholeInv
  OBVIOUS
<1>1. /\ pyTurn = [n |-> 0, stage |-> "none", prior |-> None, status |-> "none", saves |-> FALSE, cancel |-> FALSE]
      /\ drain = [on |-> FALSE, working |-> FALSE, text |-> FALSE] /\ queue = <<>> /\ pyEvents = <<>> /\ emitted = <<>>
  BY DEF Python!Init
<1>2. DrainInv
  BY <1>1 DEF DrainInv
<1> QED  BY <1>1, <1>2, NothingYet DEF WholeInv

(* However the drain of a turn and its handler interleave, and wherever a   *)
(* cancellation interrupts them: what was emitted is in the stream, once    *)
(* and in order, and all of it before the outcome (a2a_progress.py).        *)
THEOREM AnswerSafe == MCSpec => []AnswerIsWhole
<1>1. MCInit => OwnInv /\ WholeInv
  BY OwnInit, WholeInit DEF MCInit
<1>2. OwnInv /\ WholeInv /\ [MCNext]_allVars => OwnInv' /\ WholeInv'
  <2>1. [MCNext]_allVars => [Python!Next]_pythonVars
    BY DEF MCNext, allVars, pythonVars
  <2> QED  BY <2>1, OwnStep, WholeStep
<1>3. WholeInv => AnswerIsWhole
  BY WholeIs DEF WholeInv
<1> QED  BY <1>1, <1>2, <1>3, PTL DEF MCSpec

--------------------------------------------------------------------------------
(* What is picked from a sequence.                                        *)
(* The ranks of numbers are 1, 2 and so on, without a gap.                 *)
LEMMA RanksAreOnto ==
  ASSUME NEW n \in Nat, NEW I \in SUBSET (1 .. n)
  PROVE  /\ IsFiniteSet(I) /\ Cardinality(I) \in Nat
         /\ \A i \in I : Rank(i, I) \in 1 .. Cardinality(I)
         /\ \A i, j \in I : i < j => Rank(i, I) < Rank(j, I)
         /\ \A k \in 1 .. Cardinality(I) : \E i \in I : Rank(i, I) = k
<1> DEFINE c == Cardinality(I)
           Upto(i) == {j \in I : j <= i}
           spot == [i \in I |-> Cardinality(Upto(i))]
<1>1. IsFiniteSet(I) /\ c \in Nat
  <2>1. IsFiniteSet(1 .. n)
    BY FS_Interval
  <2> QED  BY <2>1, FS_Subset, FS_CardinalityType
<1>2. ASSUME NEW i \in I  PROVE IsFiniteSet(Upto(i)) /\ spot[i] \in 1 .. c /\ spot[i] = Cardinality(Upto(i))
  <2>1. Upto(i) \in SUBSET I /\ i \in Upto(i)
    OBVIOUS
  <2> HIDE DEF Upto
  <2>2. IsFiniteSet(Upto(i)) /\ Cardinality(Upto(i)) <= c
    BY <1>1, <2>1, FS_Subset
  <2>3. Cardinality(Upto(i)) \in Nat /\ Cardinality(Upto(i)) # 0
    BY <2>1, <2>2, FS_CardinalityType, FS_EmptySet
  <2> QED  BY <1>1, <2>2, <2>3
<1>3. ASSUME NEW i \in I, NEW j \in I, i < j  PROVE spot[i] < spot[j]
  <2>1. Upto(i) \in SUBSET Upto(j) /\ j \in Upto(j) /\ j \notin Upto(i)
    <3>1. \A l \in I : l \in Int
      OBVIOUS
    <3>2. \A l \in I : l <= i => l <= j
      BY <1>3, <3>1
    <3>3. Upto(i) \in SUBSET Upto(j)
      BY <3>2
    <3>4. i \in Int /\ j \in Int
      BY <3>1
    <3>5. j <= j /\ ~(j <= i)
      BY <1>3, <3>4
    <3> QED  BY <3>3, <3>5
  <2> HIDE DEF Upto
  <2>2. Cardinality(Upto(i)) <= Cardinality(Upto(j)) /\ Cardinality(Upto(i)) # Cardinality(Upto(j))
    BY <1>2, <2>1, FS_Subset
  <2>3. spot[i] \in Nat /\ spot[j] \in Nat
    BY <1>2
  <2> HIDE DEF spot
  <2> QED  BY <1>2, <2>2, <2>3
<1>4. \A i \in I : Rank(i, I) = spot[i]
  BY DEF Rank
<1> HIDE DEF Upto
<1>5. spot \in [I -> 1 .. c]
  BY <1>2
<1> HIDE DEF spot
<1>6. \A i, j \in I : spot[i] = spot[j] => i = j
  <2>1. SUFFICES ASSUME NEW i \in I, NEW j \in I, spot[i] = spot[j], i # j  PROVE FALSE
    OBVIOUS
  <2>2. spot[i] < spot[j] \/ spot[j] < spot[i]
    BY <1>3, <2>1
  <2> QED  BY <1>5, <2>1, <2>2
<1>7. \A k \in 1 .. c : \E i \in I : spot[i] = k
  <2>1. SUFFICES ASSUME NEW k \in 1 .. c, \A i \in I : spot[i] # k  PROVE FALSE
    OBVIOUS
  <2> DEFINE D == 1 .. c
  <2>2. Cardinality(D) = c /\ IsFiniteSet(D) /\ k \in D
    BY <1>1, FS_Interval
  <2>3. spot \in [I -> D \ {k}]
    BY <1>5, <2>1
  <2> HIDE DEF D
  <2>4. IsFiniteSet(D \ {k}) /\ Cardinality(D \ {k}) < c
    BY <1>1, <2>2, FS_RemoveElement
  <2>5. \E i, j \in I : i # j /\ spot[i] = spot[j]
    BY <1>1, <2>3, <2>4, FS_PigeonHole
  <2> QED  BY <1>6, <2>5
<1> QED  BY <1>1, <1>3, <1>4, <1>5, <1>7

(* What is picked is picked from the positions one by one, in their order. *)
LEMMA PickFacts ==
  ASSUME NEW n \in Nat, NEW I \in SUBSET (1 .. n), NEW s
  PROVE  \E p \in [1 .. Cardinality(I) -> I] :
           /\ \A k, l \in 1 .. Cardinality(I) : k < l => p[k] < p[l]
           /\ \A i \in I : \E k \in 1 .. Cardinality(I) : p[k] = i
           /\ Pick(s, I) = [k \in 1 .. Cardinality(I) |-> s[p[k]]]
           /\ Cardinality(I) \in Nat
<1> DEFINE c == Cardinality(I)
           p == [k \in 1 .. c |-> CHOOSE i \in I : Rank(i, I) = k]
<1>1. /\ c \in Nat /\ \A i \in I : Rank(i, I) \in 1 .. c
      /\ \A i, j \in I : i < j => Rank(i, I) < Rank(j, I)
      /\ \A k \in 1 .. c : \E i \in I : Rank(i, I) = k
  BY RanksAreOnto
<1>2. \A k \in 1 .. c : p[k] \in I /\ Rank(p[k], I) = k
  BY <1>1
<1>3. p \in [1 .. c -> I]
  BY <1>2
<1>4. Pick(s, I) = [k \in 1 .. c |-> s[p[k]]]
  BY DEF Pick
<1> HIDE DEF p, c
<1>0. \A i \in I : i \in Int
  OBVIOUS
<1>5. ASSUME NEW k \in 1 .. c, NEW l \in 1 .. c, k < l  PROVE p[k] < p[l]
  <2>0. p[k] \in I /\ p[l] \in I /\ Rank(p[k], I) = k /\ Rank(p[l], I) = l
    BY <1>2
  <2>1. p[k] \in Int /\ p[l] \in Int
    BY <1>0, <2>0
  <2>3. k \in Int /\ l \in Int
    BY <1>1
  <2>2. ~(p[l] < p[k]) /\ p[l] # p[k]
    BY <1>1, <1>5, <2>0, <2>1, <2>3
  <2> QED  BY <2>1, <2>2
<1>6. ASSUME NEW i \in I  PROVE \E k \in 1 .. c : p[k] = i
  <2> DEFINE k == Rank(i, I)
  <2>1. k \in 1 .. c /\ p[k] \in I /\ Rank(p[k], I) = k
    BY <1>1, <1>2
  <2>2. p[k] = i
    <3>1. p[k] \in Int /\ i \in Int
      BY <1>0, <2>1
    <3>2. k \in Int /\ Rank(i, I) = k
      BY <1>1
    <3> HIDE DEF k
    <3>3. p[k] < i => k < k
      BY <1>1, <2>1, <3>2
    <3>4. i < p[k] => k < k
      BY <1>1, <2>1, <3>2
    <3> QED  BY <3>1, <3>2, <3>3, <3>4
  <2> QED  BY <2>1, <2>2
<1> QED  BY <1>1, <1>3, <1>4, <1>5, <1>6 DEF c

--------------------------------------------------------------------------------
(* The files of a turn.                                                    *)
LEMMA CountedSame == \A S : Attachments!Cardinality(S) = Cardinality(S)
BY DEF Attachments!Cardinality, Cardinality

LEMMA PickedSame == \A s, I : Attachments!Pick(s, I) = Pick(s, I)
BY Zenon DEF Attachments!Pick, Attachments!Rank, Attachments!Cardinality, Pick, Rank, Cardinality

Distinct(s) == \A i, j \in DOMAIN s : s[i] = s[j] => i = j

(* Of what occurs several times, the first is picked.                      *)
LEMMA PickedOnce ==
  ASSUME NEW S, NEW s \in Seq(S), NEW R, NEW I \in SUBSET DOMAIN s,
         \A i \in I : Attachments!First(s, i) /\ s[i] \in R
  PROVE  Attachments!Pick(s, I) \in Seq(R) /\ Distinct(Attachments!Pick(s, I))
<1> DEFINE c == Cardinality(I)
           picked == Pick(s, I)
<1>1. I \in SUBSET (1 .. Len(s)) /\ Len(s) \in Nat
  OBVIOUS
<1>2. PICK p \in [1 .. c -> I] :
        /\ \A k, l \in 1 .. c : k < l => p[k] < p[l]
        /\ picked = [k \in 1 .. c |-> s[p[k]]]
        /\ c \in Nat
  BY <1>1, PickFacts
<1> HIDE DEF c, picked
<1>3. picked \in Seq(R)
  <2>1. \A k \in 1 .. c : s[p[k]] \in R
    OBVIOUS
  <2> QED  BY <1>2, <2>1
<1>4. Distinct(picked)
  <2>1. DOMAIN picked = 1 .. c /\ \A k \in 1 .. c : picked[k] = s[p[k]]
    BY <1>2
  <2>2. ASSUME NEW k \in 1 .. c, NEW l \in 1 .. c, k < l  PROVE picked[k] # picked[l]
    <3>1. p[k] < p[l] /\ p[k] \in I /\ p[l] \in I
      BY <1>2, <2>2
    <3>2. p[k] \in 1 .. p[l] - 1
      BY <1>1, <3>1
    <3> QED  BY <2>1, <3>1, <3>2 DEF Attachments!First
  <2>3. \A k, l \in 1 .. c : picked[k] = picked[l] => k = l
    <3>1. SUFFICES ASSUME NEW k \in 1 .. c, NEW l \in 1 .. c, picked[k] = picked[l]  PROVE k = l
      OBVIOUS
    <3>2. k \in Int /\ l \in Int
      BY <1>2
    <3>3. ~(k < l) /\ ~(l < k)
      BY <2>2, <3>1
    <3> QED  BY <3>2, <3>3
  <2> QED  BY <2>1, <2>3 DEF Distinct
<1> QED  BY <1>3, <1>4, PickedSame DEF picked

LEMMA ListedAll ==
  ASSUME NEW S, IsFiniteSet(S)
  PROVE  Attachments!SetToSeq(S) \in Seq(S)
<1>1. Cardinality(S) \in Nat /\ ExistsBijection(1 .. Cardinality(S), S)
  BY FS_CardinalityType
<1>2. \E f \in [1 .. Cardinality(S) -> S] : Attachments!IsInjective(f)
  BY <1>1 DEF ExistsBijection, Bijection, Injection, IsInjective, Attachments!IsInjective
<1>3. Attachments!SetToSeq(S) \in [1 .. Cardinality(S) -> S]
  BY <1>2, CountedSame DEF Attachments!SetToSeq
<1> QED  BY <1>1, <1>3

Named(in) == {r \in Attachments!ToSet(in[1] \o in[2]) : Attachments!IsAttachment(r)}

LEMMA ScopeIs ==
  ASSUME NEW in \in Inputs
  PROVE  /\ Attachments!Scope(in) \in Seq(Named(in)) /\ Distinct(Attachments!Scope(in))
         /\ Named(in) \subseteq DOMAIN LineEnds
<1> DEFINE refs == in[1] \o in[2]
           I == {i \in DOMAIN refs : Attachments!First(refs, i) /\ Attachments!IsAttachment(refs[i])}
<1>1. refs \in Seq(DOMAIN LineEnds \cup {Project})
  BY FilesAssumption
<1>2. \A i \in I : Attachments!First(refs, i) /\ refs[i] \in Named(in)
  BY DEF Named, Attachments!ToSet
<1>3. Attachments!Scope(in) = Attachments!Pick(refs, I)
  BY DEF Attachments!Scope
<1>4. I \in SUBSET DOMAIN refs
  OBVIOUS
<1> HIDE DEF refs, I
<1>5. Attachments!Pick(refs, I) \in Seq(Named(in)) /\ Distinct(Attachments!Pick(refs, I))
  BY <1>1, <1>2, <1>4, PickedOnce
<1>6. Named(in) \subseteq DOMAIN LineEnds
  BY DEF Named, Attachments!IsAttachment, Attachments!Refs
<1> QED  BY <1>3, <1>5, <1>6

LEMMA OnceIs ==
  ASSUME NEW S, NEW s \in Seq(S)
  PROVE  Attachments!Once(s) \in Seq(S) /\ Distinct(Attachments!Once(s))
<1> DEFINE I == {i \in DOMAIN s : Attachments!First(s, i)}
<1>1. I \in SUBSET DOMAIN s /\ \A i \in I : Attachments!First(s, i) /\ s[i] \in S
  OBVIOUS
<1>2. Attachments!Once(s) = Attachments!Pick(s, I)
  BY DEF Attachments!Once
<1> HIDE DEF I
<1> QED  BY <1>1, <1>2, PickedOnce

--------------------------------------------------------------------------------
(* The texts of the files.                                                 *)
LineSeqs == {e \in Seq(Nat \ {0}) : Len(e) > 0 /\ \A i, j \in DOMAIN e : i < j => e[i] < e[j]}
Beginning(s, n) == SubSeq(s, 1, n)
Texts == Seq(Nat)

LEMMA EndsAreLines == \A ref \in DOMAIN LineEnds : LineEnds[ref] \in LineSeqs
<1> SUFFICES ASSUME NEW ref \in DOMAIN LineEnds  PROVE LineEnds[ref] \in LineSeqs
  OBVIOUS
<1> DEFINE e == LineEnds[ref]
<1>1. e \in Seq(Nat \ {0}) \ {<<>>} /\ \A i, j \in DOMAIN e : i < j => e[i] < e[j]
  BY FilesAssumption
<1> HIDE DEF e
<1> QED  BY <1>1 DEF LineSeqs, e

LEMMA MinIs ==
  ASSUME NEW m \in Nat, NEW n \in Nat
  PROVE  Attachments!Min({m, n}) = IF m <= n THEN m ELSE n
<1>1. \E x \in {m, n} : \A y \in {m, n} : x <= y
  OBVIOUS
<1>2. Attachments!Min({m, n}) \in {m, n} /\ \A y \in {m, n} : Attachments!Min({m, n}) <= y
  BY <1>1 DEF Attachments!Min
<1> QED  BY <1>2

LEMMA TrimIs ==
  ASSUME NEW s \in Texts
  PROVE  Attachments!Trim(s) \in Texts /\ Len(Attachments!Trim(s)) <= Len(s)
<1> DEFINE solid == {i \in 1 .. Len(s) : s[i] # 0}
           a == Attachments!Min(solid)
           b == Attachments!Max(solid)
<1>1. Len(s) \in Nat /\ solid \subseteq 1 .. Len(s) /\ solid \subseteq Nat
  BY DEF Texts
<1>2. CASE solid = {}
  <2>1. Attachments!Trim(s) = <<>>
    BY <1>2 DEF Attachments!Trim
  <2> QED  BY <1>1, <2>1 DEF Texts
<1>3. CASE solid # {}
  <2>1. Attachments!Trim(s) = SubSeq(s, a, b)
    BY <1>3 DEF Attachments!Trim
  <2> HIDE DEF solid
  <2>2. a \in solid
    <3>1. \E x \in solid : \A y \in solid : x <= y
      BY <1>1, <1>3, Least
    <3> QED  BY <3>1 DEF Attachments!Min
  <2>3. b \in solid
    <3>1. \E x \in solid : \A y \in solid : x >= y
      BY <1>1, <1>3, Greatest
    <3> QED  BY <3>1 DEF Attachments!Max
  <2> HIDE DEF a, b
  <2>4. a \in 1 .. Len(s) /\ b \in 1 .. Len(s)
    BY <1>1, <2>2, <2>3
  <2>5. SubSeq(s, a, b) \in Texts /\ Len(SubSeq(s, a, b)) <= Len(s)
    BY <1>1, <2>4 DEF Texts
  <2> QED  BY <2>1, <2>5
<1> QED  BY <1>2, <1>3

LEMMA JoinedIs ==
  ASSUME NEW e \in LineSeqs
  PROVE  /\ Attachments!Joined(e, 0) \in Texts
         /\ Len(Attachments!Joined(e, 0)) = e[Len(e)] - 1
         /\ \A i \in 1 .. e[Len(e)] - 1 :
              Attachments!Joined(e, 0)[i] = IF \E k \in DOMAIN e : e[k] = i THEN 0 ELSE i
         /\ Len(e) \in Nat \ {0} /\ \A k \in 1 .. Len(e) : e[k] \in Nat \ {0} /\ e[k] <= e[Len(e)]
<1> DEFINE n == e[Len(e)]
<1>1. e \in Seq(Nat \ {0}) /\ Len(e) \in Nat \ {0} /\ n \in Nat \ {0}
  BY DEF LineSeqs
<1>2. \A k \in 1 .. Len(e) : e[k] \in Nat \ {0} /\ e[k] <= n
  <2>1. ASSUME NEW k \in 1 .. Len(e)  PROVE e[k] <= n
    <3>1. k < Len(e) => e[k] < n
      BY <1>1 DEF LineSeqs
    <3>2. e[k] \in Nat /\ k \in Nat
      BY <1>1
    <3> QED  BY <1>1, <3>1, <3>2
  <2> QED  BY <1>1, <2>1
<1>3. Attachments!Joined(e, 0) = [i \in 1 .. n - 1 |-> IF \E k \in DOMAIN e : e[k] = i THEN 0 ELSE i]
  <2>1. n - 0 - 1 = n - 1 /\ \A i \in 1 .. n - 1 : 0 + i = i
    BY <1>1
  <2> HIDE DEF n
  <2> QED  BY <2>1 DEF Attachments!Joined, n
<1> HIDE DEF n
<1>4. n - 1 \in Nat /\ \A i \in 1 .. n - 1 : (IF \E k \in DOMAIN e : e[k] = i THEN 0 ELSE i) \in Nat
  BY <1>1
<1>5. Attachments!Joined(e, 0) \in Texts /\ Len(Attachments!Joined(e, 0)) = n - 1
  BY <1>3, <1>4 DEF Texts
<1> QED  BY <1>1, <1>2, <1>3, <1>5 DEF n

(* The lines of a window, by their numbers.                                *)
LEMMA ChunkIs ==
  ASSUME NEW e \in LineSeqs, NEW m \in Nat, m < Len(e),
         NEW chunk, chunk = SubSeq(e, m + 1, Attachments!Min({Len(e), m + WindowLines + 1}))
  PROVE  LET last == Attachments!Min({Len(e), m + WindowLines})
             kept == Attachments!WindowText(chunk) IN
         /\ last \in m + 1 .. Len(e) /\ (Attachments!More(chunk) => last = m + WindowLines)
         /\ Attachments!More(chunk) <=> last < Len(e)
         /\ DOMAIN kept = 1 .. last - m /\ Len(kept) = last - m
         /\ \A k \in 1 .. last - m : kept[k] = e[m + k]
<1> DEFINE W == WindowLines
           N == Len(e)
           asked == Attachments!Min({N, m + W + 1})
           last == Attachments!Min({N, m + W})
           kept == Attachments!WindowText(chunk)
<1>1. W \in Nat \ {0} /\ N \in Nat /\ e \in Seq(Nat)
  BY FilesAssumption DEF LineSeqs
<1> HIDE DEF W, N
<1>2. m < N /\ m + W \in Nat /\ m + W + 1 \in Nat
  BY <1>1 DEF N
<1>3. asked = (IF N <= m + W + 1 THEN N ELSE m + W + 1) /\ last = IF N <= m + W THEN N ELSE m + W
  BY <1>1, <1>2, MinIs
<1> HIDE DEF asked, last
<1>4. asked \in m + 1 .. N /\ last \in m + 1 .. N /\ last <= asked
  BY <1>1, <1>2, <1>3
<1>5. chunk = SubSeq(e, m + 1, asked)
  BY DEF asked, W, N
<1>6. chunk \in Seq(Nat) /\ Len(chunk) = asked - m /\ \A k \in 1 .. asked - m : chunk[k] = e[m + k]
  <2>1. m + 1 \in 1 .. N /\ asked \in 1 .. N /\ m + 1 <= asked
    BY <1>1, <1>4
  <2>2. SubSeq(e, m + 1, asked) \in Seq(Nat) /\ Len(SubSeq(e, m + 1, asked)) = asked - m
    BY <1>1, <2>1 DEF N
  <2>3. \A k \in 1 .. asked - m : SubSeq(e, m + 1, asked)[k] = e[m + k]
    BY <1>1, <2>1 DEF N
  <2> QED  BY <1>5, <2>2, <2>3
<1>7. Attachments!More(chunk) <=> asked - m > W
  BY <1>6 DEF Attachments!More, W
<1>8. kept = SubSeq(chunk, 1, last - m)
  <2>1. Attachments!Min({asked - m, W}) = IF asked - m <= W THEN asked - m ELSE W
    BY <1>1, <1>4, MinIs
  <2>2. Attachments!Min({asked - m, W}) = last - m
    BY <1>1, <1>2, <1>3, <1>4, <2>1
  <2> QED  BY <1>6, <2>2 DEF Attachments!WindowText, W
<1>9. last - m \in 1 .. Len(chunk) /\ last - m <= asked - m
  <2>1. asked - m \in Nat /\ last - m \in Nat /\ last - m >= 1 /\ last - m <= asked - m
    BY <1>1, <1>4
  <2> QED  BY <1>6, <2>1
<1> HIDE DEF kept
<1>10. DOMAIN kept = 1 .. last - m /\ Len(kept) = last - m /\ \A k \in 1 .. last - m : kept[k] = e[m + k]
  BY <1>1, <1>6, <1>8, <1>9
<1>11. (asked - m > W <=> last < N) /\ (asked - m > W => last = m + W)
  BY <1>1, <1>2, <1>3, <1>4
<1> QED  BY <1>4, <1>7, <1>10, <1>11 DEF last, kept, N, W

LEMMA Between ==
  ASSUME NEW s \in Seq(Nat), NEW t \in Seq(Nat)
  PROVE  LET all == s \o (<<0>> \o t) IN
         /\ all \in Seq(Nat) /\ Len(all) = Len(s) + 1 + Len(t)
         /\ \A i \in 1 .. Len(s) : all[i] = s[i]
         /\ all[Len(s) + 1] = 0 /\ \A i \in 1 .. Len(t) : all[Len(s) + 1 + i] = t[i]
OBVIOUS

(* The windows that were read are the beginning of the text.               *)
LEMMA WindowRead ==
  ASSUME NEW e \in LineSeqs, NEW m \in Nat, m < Len(e), NEW last \in m + 1 .. Len(e), NEW kept,
         DOMAIN kept = 1 .. last - m, Len(kept) = last - m, \A k \in 1 .. last - m : kept[k] = e[m + k]
  PROVE  (IF m = 0 THEN <<>> ELSE Beginning(Attachments!Joined(e, 0), e[m] - 1))
           \o ((IF m = 0 THEN <<>> ELSE <<0>>) \o Attachments!Joined(kept, IF m = 0 THEN 0 ELSE e[m]))
         = Beginning(Attachments!Joined(e, 0), e[last] - 1)
<1> DEFINE full == Attachments!Joined(e, 0)
           b == IF m = 0 THEN 0 ELSE e[m]
           n == e[last]
           rest == Attachments!Joined(kept, b)
<1>1. /\ full \in Texts /\ Len(full) = e[Len(e)] - 1 /\ Len(e) \in Nat \ {0}
      /\ \A i \in 1 .. e[Len(e)] - 1 : full[i] = IF \E k \in DOMAIN e : e[k] = i THEN 0 ELSE i
      /\ \A k \in 1 .. Len(e) : e[k] \in Nat \ {0} /\ e[k] <= e[Len(e)]
  BY JoinedIs
<1>2. \A i, j \in 1 .. Len(e) : i < j => e[i] < e[j]
  BY DEF LineSeqs
<1>3. last \in 1 .. Len(e) /\ last \in Nat /\ last > m /\ DOMAIN e = 1 .. Len(e)
  BY <1>1 DEF LineSeqs
<1>4. n \in Nat \ {0} /\ n <= e[Len(e)] /\ e[Len(e)] \in Nat
  BY <1>1, <1>3
<1>5. b \in Nat /\ b < n /\ (m > 0 => b = e[m] /\ b > 0 /\ m \in 1 .. Len(e))
  BY <1>1, <1>2, <1>3
<1>6. kept[Len(kept)] = n
  BY <1>3
<1>7. rest = [i \in 1 .. n - b - 1 |-> IF \E k \in DOMAIN kept : kept[k] = b + i THEN 0 ELSE b + i]
  <2> HIDE DEF b, n
  <2> QED  BY <1>6 DEF Attachments!Joined
<1> HIDE DEF b, n, full
<1>8. ASSUME NEW i \in 1 .. n - b - 1  PROVE rest[i] = full[b + i]
  <2>1. b + i \in 1 .. e[Len(e)] - 1 /\ b + i \in Nat /\ b < b + i /\ b + i < n
    BY <1>4, <1>5
  <2>2. (\E k \in 1 .. Len(e) : e[k] = b + i) => \E k \in 1 .. last - m : e[m + k] = b + i
    <3>1. SUFFICES ASSUME NEW k \in 1 .. Len(e), e[k] = b + i  PROVE \E l \in 1 .. last - m : e[m + l] = b + i
      OBVIOUS
    <3>2. k < last
      <4>1. ~(last < k) /\ k # last
        BY <1>1, <1>2, <1>3, <1>4, <2>1, <3>1 DEF n
      <4> QED  BY <1>3, <4>1
    <3>3. k > m
      <4>1. m > 0 => ~(k < m) /\ k # m
        BY <1>1, <1>2, <1>5, <2>1, <3>1
      <4> QED  BY <4>1
    <3>4. k - m \in 1 .. last - m /\ m + (k - m) = k
      BY <1>3, <3>2, <3>3
    <3> QED  BY <3>1, <3>4
  <2>3. (\E k \in 1 .. last - m : e[m + k] = b + i) => \E k \in 1 .. Len(e) : e[k] = b + i
    <3>1. \A k \in 1 .. last - m : m + k \in 1 .. Len(e)
      BY <1>1, <1>3
    <3> QED  BY <3>1
  <2>4. rest[i] = IF \E k \in 1 .. last - m : e[m + k] = b + i THEN 0 ELSE b + i
    BY <1>7
  <2>5. full[b + i] = IF \E k \in 1 .. Len(e) : e[k] = b + i THEN 0 ELSE b + i
    BY <1>1, <1>3, <2>1
  <2> QED  BY <2>2, <2>3, <2>4, <2>5
<1>9. rest = [i \in 1 .. n - b - 1 |-> full[b + i]]
  <2> HIDE DEF rest
  <2> QED  BY <1>7, <1>8
<1> HIDE DEF rest
<1>12. \A i \in 1 .. e[Len(e)] - 1 : full[i] \in Nat
  BY <1>1 DEF Texts
<1>13. \A i \in 1 .. n - b - 1 : full[b + i] \in Nat
  <2>1. \A i \in 1 .. n - b - 1 : b + i \in 1 .. e[Len(e)] - 1
    BY <1>4, <1>5
  <2> QED  BY <1>12, <2>1
<1>14. n - b - 1 \in Nat /\ b \in Nat /\ n \in Nat
  BY <1>4, <1>5
<1>15. rest \in Seq(Nat) /\ Len(rest) = n - b - 1 /\ \A i \in 1 .. n - b - 1 : rest[i] = full[b + i]
  BY <1>9, <1>13, <1>14
<1>16. Beginning(full, n - 1) = [i \in 1 .. n - 1 |-> full[i]]
  BY <1>1, <1>4 DEF Beginning, Texts
<1>10. CASE m = 0
  <2>1. b = 0 /\ rest = [i \in 1 .. n - 1 |-> full[i]]
    BY <1>4, <1>9, <1>10 DEF b
  <2>2. <<>> \o (<<>> \o rest) = rest
    BY <1>15
  <2> QED  BY <1>10, <1>16, <2>1, <2>2 DEF full, n, b, rest
<1>11. CASE m # 0
  <2>1. m > 0 /\ b = e[m] /\ b > 0 /\ b \in 1 .. e[Len(e)] - 1
    BY <1>4, <1>5, <1>11
  <2>0. b > 0
    BY <2>1
  <2>11. b - 1 \in Nat
    BY <1>14, <2>0
  <2>10. b - 1 + 1 = b /\ b - 1 + 1 + (n - b - 1) = n - 1
    BY <1>14
  <2> DEFINE before == [i \in 1 .. b - 1 |-> full[i]]
             all == before \o (<<0>> \o rest)
  <2>2. Beginning(full, b - 1) = before
    BY <1>1, <1>4, <1>5, <2>1 DEF Beginning, Texts
  <2>3. full[b] = 0
    <3>1. m \in DOMAIN e /\ e[m] = b
      BY <1>3, <1>5, <2>1
    <3> QED  BY <1>1, <2>1, <3>1
  <2>4. \A i \in 1 .. b - 1 : full[i] \in Nat
    <3>1. \A i \in 1 .. b - 1 : i \in 1 .. e[Len(e)] - 1
      BY <1>4, <2>1
    <3> QED  BY <1>12, <3>1
  <2>5. before \in Seq(Nat) /\ Len(before) = b - 1 /\ \A i \in 1 .. b - 1 : before[i] = full[i]
    BY <2>4, <2>11
  <2> HIDE DEF before
  <2>6. /\ all \in Seq(Nat) /\ Len(all) = Len(before) + 1 + Len(rest)
        /\ \A i \in 1 .. Len(before) : all[i] = before[i]
        /\ all[Len(before) + 1] = 0 /\ \A i \in 1 .. Len(rest) : all[Len(before) + 1 + i] = rest[i]
    BY <1>15, <2>5, Between
  <2>7. Len(all) = n - 1 /\ Len(before) + 1 = b
    BY <1>15, <2>5, <2>6, <2>10
  <2>8. ASSUME NEW i \in 1 .. n - 1  PROVE all[i] = full[i]
    <3>1. CASE i < b
      <4>1. i \in 1 .. b - 1
        BY <1>14, <3>1
      <4> QED  BY <2>5, <2>6, <4>1
    <3>2. CASE i = b
      BY <2>3, <2>6, <2>7, <3>2
    <3>3. CASE i > b
      <4> DEFINE k == i - b
      <4>1. k \in 1 .. n - b - 1 /\ i = b + k
        BY <1>14, <3>3
      <4> HIDE DEF k
      <4>2. all[b + k] = rest[k]
        BY <1>15, <2>6, <2>7, <4>1
      <4>3. rest[k] = full[b + k]
        BY <1>15, <4>1
      <4> QED  BY <4>1, <4>2, <4>3
    <3>4. i < b \/ i = b \/ i > b
      BY <1>14
    <3> QED  BY <3>1, <3>2, <3>3, <3>4
  <2>9. all = [i \in 1 .. n - 1 |-> full[i]]
    <3>1. all \in Seq(Nat) /\ Len(all) = n - 1
      BY <2>6, <2>7
    <3> HIDE DEF all, n
    <3>2. DOMAIN all = 1 .. n - 1 /\ all = [i \in DOMAIN all |-> all[i]]
      BY <3>1
    <3> QED  BY <2>8, <3>2
  <2> QED  BY <1>11, <1>16, <2>1, <2>2, <2>9 DEF full, n, b, rest
<1> QED  BY <1>10, <1>11

(* The files of the turn, each once, are named or on its lists, and until  *)
(* the lists are taken up nothing is read.                                 *)
ReadText == [ref : DOMAIN LineEnds, content : Texts, truncated : BOOLEAN]
OnLists == UNION {artifacts[k] : k \in Attachments!ArtifactKinds}

ScopeInv ==
  /\ input \in Inputs /\ shelf \subseteq DOMAIN LineEnds
  /\ artifacts \in [Attachments!ArtifactKinds -> (SUBSET DOMAIN LineEnds) \cup {Attachments!NotLoaded}]
  /\ files \in Seq(DOMAIN LineEnds) /\ Distinct(files)
  /\ Attachments!ToSet(files) \subseteq Named(input) \cup OnLists /\ hits \subseteq Attachments!ToSet(files)
  /\ at \in Nat
  /\ at = 0 => Attachments!ToSet(files) \subseteq Named(input) /\ contents = <<>> /\ failures = {} /\ hits = {} /\ window = 0

(* The files before the one that is read have been read or failed, once.   *)
Earlier(seen, pos) == {seen[i] : i \in {j \in DOMAIN seen : j < pos}}

ReadInv ==
  /\ contents \in Seq(ReadText) /\ \A i, j \in DOMAIN contents : contents[i].ref = contents[j].ref => i = j
  /\ \A i \in DOMAIN contents : contents[i].ref \in Earlier(files, at) \ failures
  /\ failures \subseteq Earlier(files, at)

(* What is held of a file is the beginning of its text, whole lines of it. *)
WindowInv ==
  /\ window \in Nat /\ window < MaxWindows /\ (window = 0 => text = <<>>)
  /\ window > 0 =>
       /\ at \in DOMAIN files /\ window * WindowLines < Len(LineEnds[files[at]]) /\ Len(text) <= budget
       /\ text = Beginning(Attachments!Full(files[at]), LineEnds[files[at]][window * WindowLines] - 1)

Exact(c) ==
  LET full == Attachments!Full(c.ref) IN
  /\ \E n \in 0 .. Len(full) : c.content = Attachments!Trim(SubSeq(full, 1, n)) /\ (c.truncated <=> n < Len(full))
  /\ c.truncated => Len(c.content) < Len(full)

Blank(ref) ==
  \/ Attachments!Trim(Attachments!Full(ref)) = <<>>
  \/ \E n \in 1 .. whole : Attachments!Trim(SubSeq(Attachments!Full(ref), 1, n)) = <<>>

Characters(all) == UNION {{i} \X DOMAIN all[i].content : i \in 1 .. Len(all)}

TextsInv ==
  /\ \A i \in DOMAIN contents : Exact(contents[i])
  /\ budget \in Nat /\ whole \in Nat
  /\ IsFiniteSet(Characters(contents)) /\ Cardinality(Characters(contents)) + budget = whole
  /\ \A i \in DOMAIN files : i < at =>
       files[i] \in failures \/ (\E k \in DOMAIN contents : contents[k].ref = files[i]) \/ Blank(files[i])

FilesInv == ScopeInv /\ ReadInv /\ WindowInv /\ TextsInv

LEMMA EarlierGrows ==
  ASSUME NEW S, NEW s \in Seq(S), Distinct(s), NEW pos \in DOMAIN s
  PROVE  Earlier(s, pos + 1) = Earlier(s, pos) \cup {s[pos]} /\ s[pos] \notin Earlier(s, pos)
<1>1. DOMAIN s = 1 .. Len(s) /\ Len(s) \in Nat /\ pos \in Nat
  OBVIOUS
<1>2. \A j \in DOMAIN s : j < pos + 1 <=> j < pos \/ j = pos
  BY <1>1
<1>3. ~(pos < pos)
  BY <1>1
<1> QED  BY <1>2, <1>3 DEF Earlier, Distinct

LEMMA CharactersGrow ==
  ASSUME NEW all \in Seq(ReadText), NEW c \in ReadText, IsFiniteSet(Characters(all))
  PROVE  /\ IsFiniteSet(Characters(Append(all, c)))
         /\ Cardinality(Characters(Append(all, c))) = Cardinality(Characters(all)) + Len(c.content)
<1> DEFINE n == Len(all)
           new == {n + 1} \X DOMAIN c.content
           old == Characters(all)
<1>1. n \in Nat /\ c.content \in Seq(Nat) /\ Len(c.content) \in Nat /\ DOMAIN c.content = 1 .. Len(c.content)
  BY DEF ReadText, Texts
<1>2. Characters(Append(all, c)) = old \cup new
  <2>1. Len(Append(all, c)) = n + 1 /\ Append(all, c)[n + 1] = c /\ \A i \in 1 .. n : Append(all, c)[i] = all[i]
    OBVIOUS
  <2>2. 1 .. n + 1 = (1 .. n) \cup {n + 1}
    BY <1>1
  <2>3. \A i \in 1 .. n : {i} \X DOMAIN Append(all, c)[i].content = {i} \X DOMAIN all[i].content
    BY <2>1
  <2> QED  BY <2>1, <2>2, <2>3 DEF Characters
<1>3. old \cap new = {}
  <2>1. SUFFICES ASSUME NEW i \in 1 .. n, NEW x \in {i} \X DOMAIN all[i].content, x \in new  PROVE FALSE
    BY DEF Characters
  <2>2. x[1] = i /\ x[1] = n + 1
    BY <2>1
  <2> QED  BY <1>1, <2>2
<1>4. IsFiniteSet(new) /\ Cardinality(new) = Len(c.content)
  <2> DEFINE D == 1 .. Len(c.content)
             f == [k \in D |-> <<n + 1, k>>]
  <2>1. new = {n + 1} \X D
    BY <1>1
  <2>3. IsFiniteSet(D) /\ Cardinality(D) = Len(c.content)
    <3> DEFINE m == Len(c.content)
    <3>1. m \in Nat /\ D = 1 .. m
      BY <1>1
    <3> HIDE DEF m, D
    <3>2. IsFiniteSet(1 .. m) /\ Cardinality(1 .. m) = IF 1 > m THEN 0 ELSE m - 1 + 1
      BY <3>1, FS_Interval
    <3>3. IsFiniteSet(D) /\ Cardinality(D) = m
      BY <3>1, <3>2
    <3> QED  BY <3>3 DEF m
  <2> HIDE DEF D, new, n
  <2>4. f \in [D -> new]
    BY <2>1
  <2>5. \A k, l \in D : f[k] = f[l] => k = l
    OBVIOUS
  <2>6. \A x \in new : \E k \in D : f[k] = x
    BY <2>1
  <2> HIDE DEF f
  <2>2. f \in Bijection(D, new)
    BY <2>4, <2>5, <2>6 DEF Bijection, Injection, IsInjective, Surjection
  <2> QED  BY <2>2, <2>3, FS_Bijection DEF ExistsBijection
<1> HIDE DEF old, new
<1>5. IsFiniteSet(old) /\ Cardinality(old) \in Nat
  BY FS_CardinalityType DEF old
<1>6. IsFiniteSet(old \cup new) /\ Cardinality(old \cup new) = Cardinality(old) + Cardinality(new) - Cardinality(old \cap new)
  BY <1>4, <1>5, FS_Union
<1>7. Cardinality(old \cap new) = 0
  BY <1>3, FS_EmptySet
<1>8. Cardinality(old \cup new) = Cardinality(old) + Len(c.content)
  BY <1>1, <1>4, <1>5, <1>6, <1>7
<1> QED  BY <1>2, <1>6, <1>8 DEF old

(* A file is done: it failed, it has no text, or its text is added.        *)
Failed(ref) == failures' = failures \cup {ref} /\ UNCHANGED <<contents, budget>>
NoText(ref) == Blank(ref) /\ UNCHANGED <<contents, budget, failures>>
Added(ref, c) ==
  /\ c \in ReadText /\ c.ref = ref /\ Exact(c) /\ Len(c.content) <= budget
  /\ contents' = Append(contents, c) /\ budget' = budget - Len(c.content) /\ UNCHANGED failures

LEMMA DoneRead ==
  ASSUME ScopeInv, ReadInv, at \in DOMAIN files, at' = at + 1, UNCHANGED files,
         Failed(files[at]) \/ NoText(files[at]) \/ \E c : Added(files[at], c)
  PROVE  ReadInv'
<1> DEFINE ref == files[at]
           done == Earlier(files, at)
           seen == Earlier(files, at + 1)
<1>1. seen = done \cup {ref} /\ ref \notin done
  BY EarlierGrows DEF ScopeInv
<1>2. Earlier(files, at)' = seen
  BY DEF Earlier
<1> HIDE DEF ref, done, seen
<1>3. /\ contents \in Seq(ReadText) /\ \A i, j \in DOMAIN contents : contents[i].ref = contents[j].ref => i = j
      /\ \A i \in DOMAIN contents : contents[i].ref \in done \ failures
      /\ failures \subseteq done
  BY DEF ReadInv, done
<1>4. SUFFICES
        /\ contents' \in Seq(ReadText) /\ \A i, j \in DOMAIN contents' : contents'[i].ref = contents'[j].ref => i = j
        /\ \A i \in DOMAIN contents' : contents'[i].ref \in seen \ failures'
        /\ failures' \subseteq seen
  BY <1>2 DEF ReadInv, ReadText
<1>5. CASE Failed(files[at])
  BY <1>1, <1>3, <1>5 DEF Failed, ref
<1>6. CASE NoText(files[at])
  BY <1>1, <1>3, <1>6 DEF NoText
<1>7. ASSUME NEW c, Added(files[at], c)  PROVE <1>4!1
  <2>1. c \in ReadText /\ c.ref = ref /\ contents' = Append(contents, c) /\ failures' = failures
    BY <1>7 DEF Added, ref
  <2>2. /\ contents' \in Seq(ReadText) /\ DOMAIN contents' = DOMAIN contents \cup {Len(contents) + 1}
        /\ contents'[Len(contents) + 1] = c /\ \A i \in DOMAIN contents : contents'[i] = contents[i]
    BY <1>3, <2>1
  <2>3. \A i \in DOMAIN contents : contents[i].ref # ref
    BY <1>1, <1>3
  <2>4. \A i, j \in DOMAIN contents' : contents'[i].ref = contents'[j].ref => i = j
    BY <1>3, <2>1, <2>2, <2>3
  <2>5. \A i \in DOMAIN contents' : contents'[i].ref \in seen \ failures'
    BY <1>1, <1>3, <2>1, <2>2
  <2> QED  BY <1>1, <1>3, <2>1, <2>2, <2>4, <2>5
<1> QED  BY <1>5, <1>6, <1>7

LEMMA DoneTexts ==
  ASSUME ScopeInv, ReadInv, TextsInv, at \in DOMAIN files, at' = at + 1, UNCHANGED <<files, whole>>,
         Failed(files[at]) \/ NoText(files[at]) \/ \E c : Added(files[at], c)
  PROVE  TextsInv'
<1>1. contents \in Seq(ReadText) /\ at \in Nat /\ files \in Seq(DOMAIN LineEnds)
  BY DEF ReadInv, ScopeInv
<1>2. budget \in Nat /\ whole \in Nat /\ IsFiniteSet(Characters(contents)) /\ Cardinality(Characters(contents)) + budget = whole
  BY DEF TextsInv
<1>3. \A ref : Blank(ref)' <=> Blank(ref)
  BY DEF Blank
<1>4. \A i \in DOMAIN files : i < at + 1 => i < at \/ i = at
  BY <1>1
<1>5. SUFFICES
        /\ \A i \in DOMAIN contents' : Exact(contents'[i])
        /\ budget' \in Nat /\ IsFiniteSet(Characters(contents')) /\ Cardinality(Characters(contents')) + budget' = whole
        /\ \A i \in DOMAIN files : i < at + 1 =>
             files[i] \in failures' \/ (\E k \in DOMAIN contents' : contents'[k].ref = files[i]) \/ Blank(files[i])
  BY <1>2, <1>3 DEF TextsInv, Exact, Characters
<1>6. CASE Failed(files[at])
  BY <1>2, <1>4, <1>6 DEF Failed, TextsInv
<1>7. CASE NoText(files[at])
  BY <1>2, <1>4, <1>7 DEF NoText, TextsInv
<1>8. ASSUME NEW c, Added(files[at], c)  PROVE <1>5!1
  <2>1. /\ c \in ReadText /\ c.ref = files[at] /\ Exact(c) /\ Len(c.content) <= budget
        /\ contents' = Append(contents, c) /\ budget' = budget - Len(c.content) /\ failures' = failures
    BY <1>8 DEF Added
  <2>2. /\ DOMAIN contents' = DOMAIN contents \cup {Len(contents) + 1}
        /\ contents'[Len(contents) + 1] = c /\ \A i \in DOMAIN contents : contents'[i] = contents[i]
    BY <1>1, <2>1
  <2>3. \A i \in DOMAIN contents' : Exact(contents'[i])
    BY <2>1, <2>2 DEF TextsInv
  <2>4. /\ IsFiniteSet(Characters(contents'))
        /\ Cardinality(Characters(contents')) = Cardinality(Characters(contents)) + Len(c.content)
    BY <1>1, <1>2, <2>1, CharactersGrow
  <2>5. Len(c.content) \in Nat /\ Cardinality(Characters(contents)) \in Nat
    BY <1>2, <2>1, FS_CardinalityType DEF ReadText, Texts
  <2>6. budget' \in Nat /\ Cardinality(Characters(contents')) + budget' = whole
    BY <1>2, <2>1, <2>4, <2>5
  <2>7. ASSUME NEW i \in DOMAIN files, i < at + 1
        PROVE  files[i] \in failures' \/ (\E k \in DOMAIN contents' : contents'[k].ref = files[i]) \/ Blank(files[i])
    <3>1. CASE i = at
      BY <2>1, <2>2, <3>1
    <3>2. CASE i < at
      BY <2>1, <2>2, <3>2 DEF TextsInv
    <3> QED  BY <1>4, <2>7, <3>1, <3>2
  <2> QED  BY <2>3, <2>4, <2>6, <2>7
<1> QED  BY <1>6, <1>7, <1>8

LEMMA DoneScope ==
  ASSUME ScopeInv, at \in DOMAIN files, at' = at + 1, UNCHANGED <<input, files, artifacts, shelf, hits>>
  PROVE  ScopeInv'
<1>1. at \in Nat /\ at' \in Nat /\ at' # 0
  BY DEF ScopeInv
<1>2. OnLists' = OnLists /\ Attachments!ToSet(files)' = Attachments!ToSet(files) /\ Named(input)' = Named(input)
  BY DEF OnLists, Attachments!ToSet
<1> QED  BY <1>1, <1>2 DEF ScopeInv

LEMMA DoneFile ==
  ASSUME FilesInv, at \in DOMAIN files, at' = at + 1, window' = 0, text' = <<>>,
         UNCHANGED <<input, files, artifacts, shelf, hits, whole>>,
         Failed(files[at]) \/ NoText(files[at]) \/ \E c : Added(files[at], c)
  PROVE  FilesInv'
<1>1. WindowInv'
  BY FilesAssumption DEF WindowInv
<1> QED  BY <1>1, DoneScope, DoneRead, DoneTexts DEF FilesInv

(* A file ends with the beginning that was read of it.                     *)
LEMMA EndsDone ==
  ASSUME FilesInv, at \in DOMAIN files, UNCHANGED <<input, files, artifacts, shelf, hits, whole>>,
         NEW n \in Nat, n <= Len(Attachments!Full(files[at])), n <= budget,
         NEW truncated \in BOOLEAN, truncated <=> n < Len(Attachments!Full(files[at])), truncated => n > 0,
         Attachments!Ends(Beginning(Attachments!Full(files[at]), n), truncated)
  PROVE  FilesInv'
<1> DEFINE ref == files[at]
           full == Attachments!Full(ref)
           content == Attachments!Trim(Beginning(full, n))
           c == [ref |-> ref, content |-> content, truncated |-> truncated]
<1>1. ref \in DOMAIN LineEnds /\ LineEnds[ref] \in LineSeqs
  <2>1. ref \in DOMAIN LineEnds
    BY DEF FilesInv, ScopeInv
  <2> HIDE DEF ref
  <2> QED  BY <2>1, EndsAreLines
<1>2. full \in Texts /\ Len(full) \in Nat
  BY <1>1, JoinedIs DEF Attachments!Full, Texts
<1>3. Beginning(full, n) \in Texts /\ Len(Beginning(full, n)) = n
  BY <1>2 DEF Texts, Beginning
<1>4. content \in Texts /\ Len(content) <= n /\ Len(content) \in Nat
  BY <1>3, TrimIs DEF Texts
<1>5. budget \in Nat /\ whole \in Nat /\ budget <= whole
  <2>1. budget \in Nat /\ whole \in Nat /\ Cardinality(Characters(contents)) \in Nat
        /\ Cardinality(Characters(contents)) + budget = whole
    BY FS_CardinalityType DEF FilesInv, TextsInv
  <2> QED  BY <2>1
<1>6. at' = at + 1 /\ window' = 0 /\ text' = <<>> /\ UNCHANGED failures
  BY DEF Attachments!Ends
<1>7. IF content = <<>> THEN UNCHANGED <<contents, budget>>
      ELSE contents' = Append(contents, c) /\ budget' = budget - Len(content)
  BY DEF Attachments!Ends, Attachments!Ref
<1>8. n < Len(full) \/ n = Len(full)
  BY <1>2
<1>9. ASSUME content = <<>>  PROVE NoText(ref)
  <2>1. CASE n = Len(full)
    <3>1. Beginning(full, n) = full
      BY <1>2, <2>1 DEF Texts, Beginning
    <3> QED  BY <1>6, <1>7, <1>9, <3>1 DEF NoText, Blank
  <2>2. CASE n < Len(full)
    <3>1. n \in 1 .. whole /\ Attachments!Trim(SubSeq(full, 1, n)) = <<>>
      BY <1>5, <1>9, <2>2 DEF Beginning
    <3> QED  BY <1>6, <1>7, <1>9, <3>1 DEF NoText, Blank
  <2> QED  BY <1>8, <2>1, <2>2
<1>10. ASSUME content # <<>>  PROVE Added(ref, c)
  <2>1. c \in ReadText /\ c.ref = ref /\ c.content = content /\ c.truncated = truncated
    BY <1>1, <1>4 DEF ReadText
  <2>2. Exact(c)
    <3>1. n \in 0 .. Len(full) /\ content = Attachments!Trim(SubSeq(full, 1, n)) /\ (truncated <=> n < Len(full))
      BY <1>2 DEF Beginning
    <3>2. truncated => Len(content) < Len(full)
      BY <1>2, <1>4
    <3> QED  BY <2>1, <3>1, <3>2 DEF Exact
  <2>3. Len(content) <= budget
    BY <1>4, <1>5
  <2> QED  BY <1>6, <1>7, <1>10, <2>1, <2>2, <2>3 DEF Added
<1>11. NoText(ref) \/ \E d : Added(ref, d)
  BY <1>9, <1>10
<1> HIDE DEF full, content, c
<1> QED  BY <1>6, <1>11, DoneFile

(* A window that is read continues the beginning that is held.             *)
LEMMA ReadIs ==
  ASSUME FilesInv, at \in DOMAIN files
  PROVE  LET e == LineEnds[files[at]]
             m == window * WindowLines
             full == Attachments!Full(files[at])
             last == Attachments!Min({Len(e), m + WindowLines})
             addition == (IF window = 0 THEN <<>> ELSE <<0>>)
                           \o Attachments!Joined(Attachments!WindowText(Attachments!Asked), Attachments!ReadUpTo) IN
         /\ e \in LineSeqs /\ m \in Nat /\ last \in m + 1 .. Len(e)
         /\ text \o addition = Beginning(full, e[last] - 1)
         /\ Attachments!More(Attachments!Asked) <=> last < Len(e)
         /\ last < Len(e) => last = m + WindowLines
<1> DEFINE e == LineEnds[files[at]]
           m == window * WindowLines
           full == Attachments!Full(files[at])
           last == Attachments!Min({Len(e), m + WindowLines})
           kept == Attachments!WindowText(Attachments!Asked)
<1>1. files[at] \in DOMAIN LineEnds /\ e \in LineSeqs
  <2>1. files[at] \in DOMAIN LineEnds
    BY DEF FilesInv, ScopeInv
  <2> QED  BY <2>1, EndsAreLines
<1>2. WindowLines \in Nat \ {0} /\ window \in Nat
  BY FilesAssumption DEF FilesInv, WindowInv
<1>3. m \in Nat /\ (m = 0 <=> window = 0)
  BY <1>2
<1>4. m < Len(e)
  <2>1. Len(e) \in Nat \ {0}
    BY <1>1, JoinedIs
  <2>2. window > 0 => m < Len(e)
    BY DEF FilesInv, WindowInv
  <2> QED  BY <1>2, <1>3, <2>1, <2>2
<1>5. Attachments!Asked = SubSeq(e, m + 1, Attachments!Min({Len(e), m + WindowLines + 1}))
  <2>1. (window + 1) * WindowLines + 1 = m + WindowLines + 1
    BY <1>2
  <2> QED  BY <2>1 DEF Attachments!Asked, Attachments!Ref
<1> HIDE DEF e, m
<1>6. /\ last \in m + 1 .. Len(e) /\ (Attachments!More(Attachments!Asked) => last = m + WindowLines)
      /\ Attachments!More(Attachments!Asked) <=> last < Len(e)
      /\ DOMAIN kept = 1 .. last - m /\ Len(kept) = last - m
      /\ \A k \in 1 .. last - m : kept[k] = e[m + k]
  BY <1>1, <1>3, <1>4, <1>5, ChunkIs
<1> HIDE DEF last, kept
<1>7. (IF m = 0 THEN <<>> ELSE Beginning(Attachments!Joined(e, 0), e[m] - 1))
        \o ((IF m = 0 THEN <<>> ELSE <<0>>) \o Attachments!Joined(kept, IF m = 0 THEN 0 ELSE e[m]))
      = Beginning(Attachments!Joined(e, 0), e[last] - 1)
  BY <1>1, <1>3, <1>4, <1>6, WindowRead
<1>8. full = Attachments!Joined(e, 0)
  BY DEF Attachments!Full, e
<1>9. text = IF m = 0 THEN <<>> ELSE Beginning(full, e[m] - 1)
  BY <1>2, <1>3 DEF FilesInv, WindowInv, e, m
<1>10. Attachments!ReadUpTo = IF m = 0 THEN 0 ELSE e[m]
  BY <1>3 DEF Attachments!ReadUpTo, Attachments!Ref, e, m
<1> HIDE DEF full
<1>11. text \o ((IF window = 0 THEN <<>> ELSE <<0>>) \o Attachments!Joined(kept, Attachments!ReadUpTo))
       = Beginning(full, e[last] - 1)
  BY <1>3, <1>7, <1>8, <1>9, <1>10
<1> QED  BY <1>1, <1>3, <1>6, <1>11 DEF e, m, full, last, kept

LEMMA ReadWindowStep ==
  ASSUME FilesInv, Attachments!ReadWindow
  PROVE  FilesInv'
<1> DEFINE e == LineEnds[files[at]]
           m == window * WindowLines
           full == Attachments!Full(files[at])
           last == Attachments!Min({Len(e), m + WindowLines})
           addition == (IF window = 0 THEN <<>> ELSE <<0>>)
                         \o Attachments!Joined(Attachments!WindowText(Attachments!Asked), Attachments!ReadUpTo)
           n == e[last] - 1
           more == Attachments!More(Attachments!Asked)
           read == text \o addition
<1>1. at \in DOMAIN files /\ budget > 0 /\ UNCHANGED <<input, files, artifacts, shelf, hits, greps, whole>>
  <2>1. DOMAIN files = 1 .. Len(files)
    BY DEF FilesInv, ScopeInv
  <2> QED  BY <2>1 DEF Attachments!ReadWindow, Attachments!Reading
<1>2. \/ Len(read) > budget /\ Attachments!Ends(SubSeq(read, 1, budget), TRUE)
      \/ Len(read) <= budget /\ ~more /\ Attachments!Ends(read, FALSE)
      \/ Len(read) <= budget /\ more /\ window + 1 = MaxWindows /\ Attachments!Ends(read, TRUE)
      \/ /\ Len(read) <= budget /\ more /\ window + 1 < MaxWindows
         /\ text' = read /\ window' = window + 1 /\ UNCHANGED <<at, contents, failures, budget>>
  BY DEF Attachments!ReadWindow
<1>3. /\ e \in LineSeqs /\ m \in Nat /\ last \in m + 1 .. Len(e) /\ read = Beginning(full, n)
      /\ (more <=> last < Len(e)) /\ (last < Len(e) => last = m + WindowLines)
  BY <1>1, ReadIs
<1>4. /\ window \in Nat /\ budget \in Nat /\ WindowLines \in Nat \ {0} /\ MaxWindows \in Nat /\ WindowLines * MaxWindows > 1
      /\ m = window * WindowLines
  BY FilesAssumption DEF FilesInv, WindowInv, TextsInv
<1>5. full = Attachments!Joined(e, 0)
  BY DEF Attachments!Full
<1> HIDE DEF e, full, last, addition, n, more, read
<1>6. /\ full \in Texts /\ Len(full) = e[Len(e)] - 1 /\ Len(e) \in Nat \ {0}
      /\ \A k \in 1 .. Len(e) : e[k] \in Nat \ {0} /\ e[k] <= e[Len(e)]
  BY <1>3, <1>5, JoinedIs
<1> HIDE DEF m
<1>7. last \in 1 .. Len(e) /\ e \in Seq(Nat) /\ \A i, j \in 1 .. Len(e) : i < j => e[i] < e[j]
  BY <1>3, <1>6 DEF LineSeqs
<1>8. n \in Nat /\ Len(full) \in Nat /\ n <= Len(full) /\ (n < Len(full) <=> last < Len(e))
  <2>1. e[last] \in Nat \ {0} /\ e[Len(e)] \in Nat \ {0} /\ e[last] <= e[Len(e)]
    BY <1>6, <1>7
  <2>2. last < Len(e) => e[last] < e[Len(e)]
    BY <1>6, <1>7
  <2>3. ~(last < Len(e)) => last = Len(e)
    BY <1>6, <1>7
  <2>4. last < Len(e) \/ e[last] = e[Len(e)]
    BY <2>3
  <2> QED  BY <1>6, <2>1, <2>2, <2>4 DEF n
<1>9. read = Beginning(full, n) /\ Len(read) = n
  BY <1>3, <1>6, <1>8 DEF Beginning, Texts
<1>10. CASE Len(read) > budget /\ Attachments!Ends(SubSeq(read, 1, budget), TRUE)
  <2>1. budget < n
    BY <1>9, <1>10
  <2>2. SubSeq(read, 1, budget) = Beginning(full, budget)
    <3>1. SubSeq(full, 1, n) = [i \in 1 .. n |-> full[i]]
      BY <1>6, <1>8 DEF Texts
    <3>2. \A i \in 1 .. budget : i \in 1 .. n
      BY <1>4, <1>8, <2>1
    <3>3. SubSeq(full, 1, budget) = [i \in 1 .. budget |-> full[i]]
      BY <1>4, <1>6, <1>8, <2>1 DEF Texts
    <3>4. SubSeq(SubSeq(full, 1, n), 1, budget) = [i \in 1 .. budget |-> SubSeq(full, 1, n)[i]]
      <4> DEFINE part1 == SubSeq(full, 1, n)
      <4>1. part1 \in Seq(Nat) /\ Len(part1) = n
        BY <1>6, <1>8 DEF Texts
      <4> HIDE DEF part1
      <4>2. SubSeq(part1, 1, budget) = [i \in 1 .. budget |-> part1[i]]
        BY <1>4, <1>8, <2>1, <4>1
      <4> QED  BY <4>2 DEF part1
    <3> QED  BY <1>9, <3>1, <3>2, <3>3, <3>4 DEF Beginning
  <2>3. budget <= Len(full) /\ budget < Len(full) /\ budget > 0 /\ budget <= budget
    BY <1>1, <1>4, <1>8, <2>1
  <2>4. Attachments!Ends(Beginning(Attachments!Full(files[at]), budget), TRUE)
    BY <1>10, <2>2 DEF full
  <2> QED  BY <1>1, <1>4, <2>3, <2>4, EndsDone DEF full
<1>11. CASE Len(read) <= budget /\ ~more /\ Attachments!Ends(read, FALSE)
  <2>1. n <= budget /\ ~(n < Len(full))
    BY <1>3, <1>8, <1>9, <1>11
  <2>2. Attachments!Ends(Beginning(Attachments!Full(files[at]), n), FALSE)
    BY <1>9, <1>11 DEF full
  <2> QED  BY <1>1, <1>8, <2>1, <2>2, EndsDone DEF full
<1>12. CASE Len(read) <= budget /\ more /\ window + 1 = MaxWindows /\ Attachments!Ends(read, TRUE)
  <2>1. n <= budget /\ n < Len(full) /\ last = m + WindowLines
    BY <1>3, <1>8, <1>9, <1>12
  <2>2. last > 1
    <3>1. window * WindowLines + WindowLines = WindowLines * (window + 1)
      BY <1>4
    <3> QED  BY <1>4, <1>12, <2>1, <3>1
  <2>3. n > 0
    <3>1. e[1] < e[last] /\ e[1] \in Nat \ {0} /\ e[last] \in Nat
      BY <1>6, <1>7, <2>2
    <3> QED  BY <3>1 DEF n
  <2>4. Attachments!Ends(Beginning(Attachments!Full(files[at]), n), TRUE)
    BY <1>9, <1>12 DEF full
  <2> QED  BY <1>1, <1>8, <2>1, <2>3, <2>4, EndsDone DEF full
<1>13. CASE /\ Len(read) <= budget /\ more /\ window + 1 < MaxWindows
            /\ text' = read /\ window' = window + 1 /\ UNCHANGED <<at, contents, failures, budget>>
  <2>1. last < Len(e) /\ last = m + WindowLines
    BY <1>3, <1>13
  <2>2. window' * WindowLines = last
    BY <1>4, <1>13, <2>1
  <2>3. WindowInv'
    <3>1. window' \in Nat /\ window' < MaxWindows /\ window' > 0 /\ window' # 0
      BY <1>4, <1>13
    <3>2. text' = Beginning(Attachments!Full(files[at]), LineEnds[files[at]][last] - 1)
      BY <1>9, <1>13 DEF n, e, full
    <3>3. text' = Beginning(Attachments!Full(files[at]), LineEnds[files[at]][window' * WindowLines] - 1)
      BY <2>2, <3>2
    <3>4. at' \in DOMAIN files' /\ window' * WindowLines < Len(LineEnds[files'[at']]) /\ Len(text') <= budget'
      BY <1>1, <1>13, <2>1, <2>2 DEF e
    <3>5. files' = files /\ at' = at
      BY <1>1, <1>13
    <3> QED  BY <3>1, <3>3, <3>4, <3>5 DEF WindowInv, Attachments!Full, Attachments!Joined
  <2>4. ReadInv' /\ TextsInv'
    BY <1>1, <1>13 DEF FilesInv, ReadInv, Earlier, TextsInv, Exact, Characters, Blank
  <2>5. ScopeInv'
    <3>1. at # 0
      BY <1>1 DEF FilesInv, ScopeInv
    <3> QED  BY <1>1, <1>13, <3>1 DEF FilesInv, ScopeInv, OnLists
  <2> QED  BY <2>3, <2>4, <2>5 DEF FilesInv
<1> QED  BY <1>2, <1>10, <1>11, <1>12, <1>13

LEMMA FailsStep == FilesInv /\ Attachments!Fails => FilesInv'
<1> SUFFICES ASSUME FilesInv, Attachments!Fails  PROVE FilesInv'
  OBVIOUS
<1>1. at \in DOMAIN files
  BY DEF Attachments!Fails, Attachments!Reading, FilesInv, ScopeInv
<1>2. Failed(files[at]) /\ at' = at + 1 /\ window' = 0 /\ text' = <<>> /\ UNCHANGED <<input, files, artifacts, shelf, hits, whole>>
  BY DEF Attachments!Fails, Attachments!Ref, Failed
<1> QED  BY <1>1, <1>2, DoneFile

LEMMA ScopeSteps ==
  ASSUME FilesInv, UNCHANGED <<window, text, budget, whole, contents, failures>>, ScopeInv',
         at = 0 \/ UNCHANGED <<at, files>>, at = 0 => at' \in {0, 1}
  PROVE  FilesInv'
<1>1. at = 0 => contents = <<>> /\ failures = {} /\ window = 0
  BY DEF FilesInv, ScopeInv
<1>2. WindowInv'
  BY <1>1 DEF FilesInv, WindowInv
<1>3. ReadInv'
  BY <1>1 DEF FilesInv, ReadInv, Earlier, ReadText
<1>4. TextsInv'
  <2>1. CASE at = 0
    <3>1. files' \in Seq(DOMAIN LineEnds)
      BY DEF ScopeInv
    <3>2. \A i \in DOMAIN files' : ~(i < 0) /\ ~(i < 1)
      BY <3>1
    <3> QED  BY <1>1, <2>1, <3>2 DEF FilesInv, TextsInv, Exact, Characters
  <2>2. CASE UNCHANGED <<at, files>>
    BY <2>2 DEF FilesInv, TextsInv, Exact, Characters, Blank
  <2> QED  BY <2>1, <2>2
<1> QED  BY <1>2, <1>3, <1>4 DEF FilesInv

(* What the request and the lists say of the files.                        *)
LEMMA ScopeStays ==
  ASSUME input' = input, input \in Inputs, shelf' \subseteq DOMAIN LineEnds,
         artifacts' \in [Attachments!ArtifactKinds -> (SUBSET DOMAIN LineEnds) \cup {Attachments!NotLoaded}],
         NEW s, s = files', s \in Seq(DOMAIN LineEnds), Distinct(s),
         \/ Attachments!ToSet(s) \subseteq Named(input)
         \/ artifacts' = artifacts /\ Attachments!ToSet(s) \subseteq Named(input) \cup OnLists,
         NEW h, h = hits', h \subseteq Attachments!ToSet(s), NEW pos \in Nat, pos = at',
         pos = 0 => /\ Attachments!ToSet(s) \subseteq Named(input)
                    /\ contents' = <<>> /\ failures' = {} /\ h = {} /\ window' = 0
  PROVE  ScopeInv'
<1>1. Attachments!ToSet(files)' = Attachments!ToSet(s) /\ Named(input)' = Named(input)
  BY DEF Attachments!ToSet
<1>2. artifacts' = artifacts => OnLists' = OnLists
  BY DEF OnLists
<1>3. Attachments!ToSet(s) \subseteq Named(input) \cup OnLists'
  BY <1>2
<1> HIDE DEF OnLists
<1> QED  BY <1>1, <1>3 DEF ScopeInv

LEMMA LoadStep ==
  ASSUME FilesInv, NEW k \in Attachments!ArtifactKinds, Attachments!Load(k)
  PROVE  FilesInv'
<1>1. PICK list \in {Attachments!Listed(k), {}} : artifacts' = [artifacts EXCEPT ![k] = list]
  BY DEF Attachments!Load
<1>2. list \subseteq DOMAIN LineEnds
  BY DEF FilesInv, ScopeInv, Attachments!Listed, Attachments!OnShelf
<1>3. at = 0 /\ UNCHANGED <<input, files, shelf, hits, at, window, text, budget, whole, contents, failures>>
  BY DEF Attachments!Load
<1>4. artifacts' \in [Attachments!ArtifactKinds -> (SUBSET DOMAIN LineEnds) \cup {Attachments!NotLoaded}]
  BY <1>1, <1>2 DEF FilesInv, ScopeInv
<1>5. ScopeInv'
  BY <1>3, <1>4, ScopeStays DEF FilesInv, ScopeInv
<1> QED  BY <1>3, <1>5, ScopeSteps

LEMMA ReadersStep == FilesInv /\ Attachments!Readers => FilesInv'
<1> SUFFICES ASSUME FilesInv, Attachments!Readers  PROVE FilesInv'
  OBVIOUS
<1> DEFINE taken == UNION {artifacts[k] : k \in Attachments!Corpora}
           all == files \o Attachments!SetToSeq(taken)
           allowed == Named(input) \cup OnLists
<1>1. at = 0 /\ at' = 1 /\ UNCHANGED <<input, artifacts, shelf, hits, window, text, budget, whole, contents, failures>>
  BY DEF Attachments!Readers
<1>2. /\ input \in Inputs /\ shelf \subseteq DOMAIN LineEnds
      /\ artifacts \in [Attachments!ArtifactKinds -> (SUBSET DOMAIN LineEnds) \cup {Attachments!NotLoaded}]
      /\ files \in Seq(DOMAIN LineEnds) /\ Distinct(files)
      /\ Attachments!ToSet(files) \subseteq allowed /\ hits = {}
  BY <1>1 DEF FilesInv, ScopeInv
<1>3. CASE files' = files
  <2>1. ScopeInv'
    BY <1>1, <1>2, <1>3, ScopeStays
  <2> QED  BY <1>1, <2>1, ScopeSteps
<1>4. CASE (\A k \in Attachments!Corpora : artifacts[k] # Attachments!NotLoaded) /\ files' = Attachments!Once(all)
  <2>1. Attachments!Corpora \subseteq Attachments!ArtifactKinds
    BY DEF Attachments!Corpora, Attachments!ArtifactKinds
  <2>2. taken \subseteq DOMAIN LineEnds /\ taken \subseteq OnLists
    BY <1>2, <1>4, <2>1 DEF OnLists
  <2>3. IsFiniteSet(taken)
    BY <2>2, FilesAssumption, FS_Subset
  <2> HIDE DEF taken
  <2>4. Attachments!SetToSeq(taken) \in Seq(taken)
    BY <2>3, ListedAll
  <2> DEFINE R == allowed \cap DOMAIN LineEnds
  <2>5. files \in Seq(R)
    BY <1>2 DEF Attachments!ToSet
  <2>6. Attachments!SetToSeq(taken) \in Seq(R)
    BY <2>2, <2>4
  <2> HIDE DEF R
  <2>7. all \in Seq(R)
    BY <2>5, <2>6
  <2> HIDE DEF all
  <2>8. files' \in Seq(R) /\ Distinct(files')
    BY <1>4, <2>7, OnceIs
  <2>9. files' \in Seq(DOMAIN LineEnds) /\ Attachments!ToSet(files') \subseteq allowed
    BY <2>8 DEF R, Attachments!ToSet
  <2>10. ScopeInv'
    <3> DEFINE once == files'
    <3>1. /\ input' = input /\ input \in Inputs /\ shelf' \subseteq DOMAIN LineEnds
          /\ artifacts' \in [Attachments!ArtifactKinds -> (SUBSET DOMAIN LineEnds) \cup {Attachments!NotLoaded}]
          /\ artifacts' = artifacts /\ hits' = {} /\ at' = 1
      BY <1>1, <1>2
    <3>2. once \in Seq(DOMAIN LineEnds) /\ Distinct(once) /\ Attachments!ToSet(once) \subseteq Named(input) \cup OnLists
      BY <2>8, <2>9
    <3>3. /\ hits' \subseteq Attachments!ToSet(once) /\ at' \in Nat
          /\ at' = 0 => /\ Attachments!ToSet(once) \subseteq Named(input)
                        /\ contents' = <<>> /\ failures' = {} /\ hits' = {} /\ window' = 0
      BY <3>1
    <3> HIDE DEF once
    <3>4. once = files'
      BY DEF once
    <3> HIDE DEF allowed
    <3> QED  BY <3>1, <3>2, <3>3, <3>4, ScopeStays
  <2> QED  BY <1>1, <2>10, ScopeSteps
<1> QED  BY <1>3, <1>4 DEF Attachments!Readers

LEMMA GrepStep == FilesInv /\ Attachments!Grep => FilesInv'
<1> SUFFICES ASSUME FilesInv, Attachments!Grep  PROVE FilesInv'
  OBVIOUS
<1>1. at > 0 /\ UNCHANGED <<input, files, artifacts, shelf, at, window, text, budget, whole, contents, failures>>
  BY DEF Attachments!Grep
<1>2. hits' \subseteq Attachments!ToSet(files)
  BY DEF Attachments!Grep, Attachments!OfTheTurn
<1>3. at # 0
  BY <1>1 DEF FilesInv, ScopeInv
<1>4. ScopeInv'
  BY <1>1, <1>2, <1>3, ScopeStays DEF FilesInv, ScopeInv
<1> QED  BY <1>1, <1>3, <1>4, ScopeSteps

LEMMA ShelfStep == FilesInv /\ Attachments!Change => FilesInv'
<1> SUFFICES ASSUME FilesInv, Attachments!Change  PROVE FilesInv'
  OBVIOUS
<1>1. UNCHANGED <<input, files, artifacts, hits, at, window, text, budget, whole, contents, failures>>
  BY DEF Attachments!Change
<1>2. shelf' \subseteq DOMAIN LineEnds
  BY DEF Attachments!Change, FilesInv, ScopeInv, Attachments!Refs
<1>3. ScopeInv'
  BY <1>1, <1>2, ScopeStays DEF FilesInv, ScopeInv
<1> QED  BY <1>1, <1>3, ScopeSteps

LEMMA FilesStep == FilesInv /\ [Attachments!Next]_filesVars => FilesInv'
<1> SUFFICES ASSUME FilesInv, [Attachments!Next]_filesVars  PROVE FilesInv'
  OBVIOUS
<1>1. CASE UNCHANGED filesVars
  <2>1. ScopeInv'
    BY <1>1, ScopeStays DEF filesVars, FilesInv, ScopeInv
  <2> QED  BY <1>1, <2>1, ScopeSteps DEF filesVars
<1>2. CASE \E k \in Attachments!ArtifactKinds : Attachments!Load(k)
  BY <1>2, LoadStep
<1> QED  BY <1>1, <1>2, ReadersStep, GrepStep, ReadWindowStep, FailsStep, ShelfStep DEF Attachments!Next

LEMMA FilesInit == Attachments!Init => FilesInv
<1> SUFFICES ASSUME Attachments!Init  PROVE FilesInv
  OBVIOUS
<1>1. /\ input \in Inputs /\ files = Attachments!Scope(input)
      /\ artifacts = [k \in Attachments!ArtifactKinds |-> Attachments!NotLoaded] /\ shelf \subseteq DOMAIN LineEnds
      /\ hits = {} /\ at = 0 /\ window = 0 /\ text = <<>> /\ contents = <<>> /\ failures = {}
      /\ whole \in Budgets /\ budget = whole
  BY DEF Attachments!Init, Attachments!Refs
<1>2. /\ files \in Seq(Named(input)) /\ Distinct(files) /\ Named(input) \subseteq DOMAIN LineEnds
  BY <1>1, ScopeIs
<1>3. files \in Seq(DOMAIN LineEnds) /\ Attachments!ToSet(files) \subseteq Named(input)
  BY <1>2 DEF Attachments!ToSet
<1>4. ScopeInv
  BY <1>1, <1>2, <1>3 DEF ScopeInv
<1>5. ReadInv /\ WindowInv
  BY <1>1, FilesAssumption DEF ReadInv, WindowInv
<1>6. TextsInv
  <2>1. Characters(contents) = {}
    BY <1>1 DEF Characters
  <2>2. \A i \in DOMAIN files : ~(i < at)
    BY <1>1, <1>3
  <2>3. whole \in Nat
    BY <1>1, FilesAssumption
  <2>4. IsFiniteSet(Characters(contents)) /\ Cardinality(Characters(contents)) = 0
    BY <2>1, FS_EmptySet
  <2>5. Cardinality(Characters(contents)) + budget = whole /\ budget \in Nat
    BY <1>1, <2>3, <2>4
  <2>6. \A i \in DOMAIN contents : FALSE
    BY <1>1
  <2> QED  BY <2>2, <2>3, <2>4, <2>5, <2>6 DEF TextsInv
<1> QED  BY <1>4, <1>5, <1>6 DEF FilesInv

LEMMA FilesInvExact == FilesInv => FilesAreExact
<1> SUFFICES ASSUME FilesInv  PROVE FilesAreExact
  OBVIOUS
<1> DEFINE taken == {contents[i].ref : i \in 1 .. Len(contents)}
<1>1. contents \in Seq(ReadText) /\ Len(contents) \in Nat /\ DOMAIN contents = 1 .. Len(contents)
  BY DEF FilesInv, ReadInv
<1>2. Earlier(files, at) \subseteq Attachments!ToSet(files)
  BY DEF Earlier, Attachments!ToSet
<1>3. hits \cup taken \cup failures \subseteq Named(input) \cup OnLists /\ taken \cap failures = {}
  BY <1>1, <1>2 DEF FilesInv, ScopeInv, ReadInv
<1>4. Attachments!Cardinality(taken) = Len(contents)
  <2> DEFINE n == Len(contents)
             D == 1 .. n
             f == [i \in D |-> contents[i].ref]
  <2>1. \A i, j \in D : f[i] = f[j] => i = j
    BY <1>1 DEF FilesInv, ReadInv
  <2>2. f \in [D -> taken] /\ \A r \in taken : \E i \in D : f[i] = r
    OBVIOUS
  <2>3. f \in Bijection(D, taken)
    <3> HIDE DEF f, D, taken
    <3> QED  BY <2>1, <2>2 DEF Bijection, Injection, IsInjective, Surjection
  <2>4. IsFiniteSet(D) /\ Cardinality(D) = n
    <3>1. n \in Nat
      BY <1>1
    <3> HIDE DEF n
    <3> QED  BY <3>1, FS_Interval
  <2> HIDE DEF f, D, taken
  <2>5. Cardinality(taken) = n
    BY <2>3, <2>4, FS_Bijection DEF ExistsBijection
  <2> QED  BY <2>5, CountedSame
<1>5. Attachments!OnlyFilesOfTheTurn
  BY <1>3, <1>4 DEF Attachments!OnlyFilesOfTheTurn, Named, OnLists
<1>6. Attachments!TextsAreExact
  <2>1. Attachments!Cardinality(UNION {{i} \X DOMAIN contents[i].content : i \in 1 .. Len(contents)}) + budget = whole
    BY CountedSame DEF FilesInv, TextsInv, Characters
  <2>2. \A i \in 1 .. Len(contents) : Exact(contents[i])
    BY <1>1 DEF FilesInv, TextsInv
  <2>3. DOMAIN files = 1 .. Len(files)
    BY DEF FilesInv, ScopeInv
  <2>4. \A i \in 1 .. Len(files) : i < at =>
          files[i] \in failures \/ (\E k \in 1 .. Len(contents) : contents[k].ref = files[i]) \/ Blank(files[i])
    BY <1>1, <2>3 DEF FilesInv, TextsInv
  <2> QED  BY <2>1, <2>2, <2>4 DEF Attachments!TextsAreExact, Exact, Blank
<1> QED  BY <1>5, <1>6 DEF FilesAreExact

(* Through a request with references in any order and number, lists that   *)
(* fail, texts of any lines, windows of any height and any budget: a turn  *)
(* reads the files of its request and its lists, each once, and each text  *)
(* is the beginning of its file that fits, and called truncated exactly    *)
(* when something is missing (attachments/).                               *)
THEOREM FilesSafe == MCSpec => []FilesAreExact
<1>1. MCInit => FilesInv
  BY FilesInit DEF MCInit
<1>2. FilesInv /\ [MCNext]_allVars => FilesInv'
  <2>1. [MCNext]_allVars => [Attachments!Next]_filesVars
    BY DEF MCNext, allVars, filesVars
  <2> QED  BY <2>1, FilesStep
<1> QED  BY <1>1, <1>2, FilesInvExact, PTL DEF MCSpec
================================================================================
