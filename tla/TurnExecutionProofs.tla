-------------------------- MODULE TurnExecutionProofs --------------------------
(***************************************************************************)
(* The turns of the host for any tasks and turns: types, the keepalive, one *)
(* outcome per turn, what a turn leaves in its task, and the form of its   *)
(* stream.                                                                 *)
(***************************************************************************)
EXTENDS TurnExecution, SequenceTheorems, TLAPS

USE ConstantsAssumption

--------------------------------------------------------------------------------
(* Sequences of events.                                                    *)

NoOutcome(s) == \A i \in DOMAIN s : s[i] \notin Outcome

LEMMA Longer ==
  ASSUME NEW s \in Seq(Event), NEW t \in Seq(Event), NoOutcome(t)
  PROVE  /\ s \o t \in Seq(Event)
         /\ NoOutcome(s) => NoOutcome(s \o t)
         /\ AtMostOnce(s, Outcome) => AtMostOnce(s \o t, Outcome)
<1>1. /\ s \o t \in Seq(Event) /\ Len(s \o t) = Len(s) + Len(t)
      /\ \A i \in 1 .. Len(s) + Len(t) : (s \o t)[i] = IF i <= Len(s) THEN s[i] ELSE t[i - Len(s)]
  BY ConcatProperties
<1>2. DOMAIN s = 1 .. Len(s) /\ DOMAIN t = 1 .. Len(t) /\ DOMAIN (s \o t) = 1 .. Len(s) + Len(t)
      /\ Len(s) \in Nat /\ Len(t) \in Nat
  BY <1>1
<1>3. \A i \in DOMAIN (s \o t) : (s \o t)[i] \in Outcome => i \in DOMAIN s /\ (s \o t)[i] = s[i]
  BY <1>1, <1>2 DEF NoOutcome
<1> QED  BY <1>1, <1>3 DEF NoOutcome, AtMostOnce

LEMMA FirstOutcome ==
  ASSUME NEW s \in Seq(Event), NEW t \in Seq(Event), NoOutcome(s), AtMostOnce(t, Outcome)
  PROVE  s \o t \in Seq(Event) /\ AtMostOnce(s \o t, Outcome)
<1>1. /\ s \o t \in Seq(Event) /\ Len(s \o t) = Len(s) + Len(t)
      /\ \A i \in 1 .. Len(s) + Len(t) : (s \o t)[i] = IF i <= Len(s) THEN s[i] ELSE t[i - Len(s)]
  BY ConcatProperties
<1>2. DOMAIN s = 1 .. Len(s) /\ DOMAIN t = 1 .. Len(t) /\ DOMAIN (s \o t) = 1 .. Len(s) + Len(t)
      /\ Len(s) \in Nat /\ Len(t) \in Nat
  BY <1>1
<1>3. \A i \in DOMAIN (s \o t) : (s \o t)[i] \in Outcome =>
        i - Len(s) \in DOMAIN t /\ (s \o t)[i] = t[i - Len(s)]
  BY <1>1, <1>2 DEF NoOutcome
<1>4. ASSUME NEW i \in DOMAIN (s \o t), NEW j \in DOMAIN (s \o t), (s \o t)[i] \in Outcome, (s \o t)[j] \in Outcome
      PROVE  i = j
  <2>1. i - Len(s) = j - Len(s)
    BY <1>3, <1>4 DEF AtMostOnce
  <2> QED  BY <1>2, <2>1
<1> QED  BY <1>1, <1>4 DEF AtMostOnce

(* What turns publish before their outcome.                                *)
LEMMA Reports ==
  \A s \in {<<>>, <<"task">>, <<"working">>, <<"append">>, <<"open", "append">>, <<"last">>, <<"finished">>} :
    s \in Seq(Event) /\ NoOutcome(s)
<1>1. <<>> \in Seq(Event) /\ NoOutcome(<<>>)
  BY DEF NoOutcome
<1>2. \A e \in Event \ Outcome : <<e>> \in Seq(Event) /\ NoOutcome(<<e>>)
  BY DEF NoOutcome
<1>3. \A e \in {"task", "working", "append", "open", "last", "finished"} : e \in Event \ Outcome
  BY DEF Event, Outcome
<1>4. <<"open", "append">> \in Seq(Event) /\ NoOutcome(<<"open", "append">>)
  BY <1>3 DEF NoOutcome
<1> QED  BY <1>1, <1>2, <1>3, <1>4

--------------------------------------------------------------------------------
(* The inductive invariant.                                                *)

(* No outcome was published by a turn that is under way and not cancelled. *)
EventsInv ==
  \A x \in Turns :
    /\ AtMostOnce(events[x], Outcome)
    /\ turn[x].stage # "done" /\ turn[x].stage # "down" /\ ~turn[x].signal => NoOutcome(events[x])

(* A bus is open for turns under way only, and for none of a task whose    *)
(* present turn was cancelled.                                             *)
BusInv ==
  /\ \A x \in bus : turn[x].stage \in {"running", "settled", "left"}
  /\ \A x \in Turns : running[Of(x)] = x /\ turn[x].signal => BusOf(Of(x)) = {}

NewInv == \A x \in Turns : turn[x].stage = "new" => ~turn[x].signal /\ ~progress[x].text

(* A turn that was alone all the time: only it has changed its task.       *)
AloneInv ==
  \A x \in Turns : turn[x].alone /\ turn[x].stage \in {"running", "settled", "left"} =>
    /\ UnderWay(Of(x)) = {x}
    /\ ~turn[x].signal =>
         /\ x \in bus
         /\ stored[Of(x)].form = turn[x].prior.form /\ stored[Of(x)].state = turn[x].prior.state
         /\ stored[Of(x)].answer = IF progress[x].text THEN x ELSE turn[x].prior.answer

IInv == TypeOK /\ KeepaliveWhileRunning /\ EventsInv /\ BusInv /\ NewInv /\ AloneInv

Turn == [task : Tasks, prior : Task, signal : BOOLEAN, alone : BOOLEAN,
         stage : {"new", "running", "settled", "left", "done", "down"}, result : Results \cup {None}]
Progress == [working : BOOLEAN, text : BOOLEAN, keepalive : BOOLEAN, timer : BOOLEAN]

LEMMA InitInv == Init => IInv
<1> SUFFICES ASSUME Init  PROVE IInv
  OBVIOUS
<1>1. NoTask \in Task
  BY DEF NoTask, Task, Content
<1>2. turn \in [Turns -> Turn] /\ \A x \in Turns : turn[x].stage = "new" /\ ~turn[x].signal
  <2> DEFINE New == [task : Tasks, prior : {NoTask}, signal : {FALSE}, alone : {TRUE},
                     stage : {"new"}, result : {None}]
  <2>1. \A n \in New : n \in Turn /\ n.stage = "new" /\ ~n.signal
    BY <1>1 DEF Turn
  <2>2. turn \in [Turns -> New]
    BY DEF Init
  <2> HIDE DEF New
  <2> QED  BY <2>1, <2>2
<1>3. events \in [Turns -> Seq(Event)] /\ \A x \in Turns : events[x] = <<>>
  BY DEF Init
<1>4. TypeOK
  BY <1>1, <1>2, <1>3 DEF Init, TypeOK, Turn
<1>5. EventsInv
  BY <1>3 DEF EventsInv, AtMostOnce, NoOutcome
<1>6. KeepaliveWhileRunning /\ BusInv /\ NewInv /\ AloneInv
  BY <1>2 DEF Init, KeepaliveWhileRunning, Under, BusInv, BusOf, NewInv, AloneInv
<1> QED  BY <1>4, <1>5, <1>6 DEF IInv

--------------------------------------------------------------------------------
(* A turn that reports something other than an outcome.                    *)

LEMMA EmitStep ==
  ASSUME IInv, NEW x \in Turns, NEW p \in Progress, NEW published \in Seq(Event), NEW task \in Task,
         progress' = [progress EXCEPT ![x] = p],
         p.keepalive = progress[x].keepalive, p.timer = progress[x].keepalive,
         Publish(x, published), NoOutcome(published), Merge(x, task),
         task.form = stored[Of(x)].form, task.state = stored[Of(x)].state,
         \/ p.text = progress[x].text /\ task.answer = stored[Of(x)].answer
         \/ p.text /\ task.answer = x /\ turn[x].stage # "new",
         UNCHANGED <<running, turn, bus>>
  PROVE  IInv'
<1>1. \A y \in Turns : progress'[y] = IF y = x THEN p ELSE progress[y]
  BY DEF IInv, TypeOK
<1>2. \A y \in Turns : events'[y] = IF y = x THEN events[x] \o published ELSE events[y]
  BY DEF IInv, TypeOK, Publish
<1>3. Of(x) \in Tasks /\ stored \in [Tasks -> Task]
  BY DEF IInv, TypeOK, Of
<1>4. \A t \in Tasks : stored'[t] = IF t = Of(x) /\ x \in bus THEN task ELSE stored[t]
  BY <1>3 DEF Merge
<1>5. events[x] \in Seq(Event)
  BY DEF IInv, TypeOK
<1>6. TypeOK'
  <2>1. progress' \in [Turns -> Progress]
    BY DEF IInv, TypeOK, Progress
  <2>2. events' \in [Turns -> Seq(Event)]
    BY <1>5, Longer DEF IInv, TypeOK, Publish
  <2>3. stored' \in [Tasks -> Task]
    BY <1>3 DEF Merge
  <2> QED  BY <2>1, <2>2, <2>3 DEF IInv, TypeOK, Progress, Of
<1>7. KeepaliveWhileRunning'
  BY <1>1 DEF IInv, KeepaliveWhileRunning, Under
<1>8. EventsInv'
  BY <1>2, <1>5, Longer DEF IInv, EventsInv
<1>9. BusInv' /\ NewInv'
  BY <1>1 DEF IInv, BusInv, NewInv, BusOf, Of
<1>10. AloneInv'
  <2> SUFFICES ASSUME NEW y \in Turns, turn[y].alone, turn[y].stage \in {"running", "settled", "left"}
               PROVE  /\ UnderWay(Of(y))' = {y}
                      /\ ~turn[y].signal =>
                           /\ y \in bus
                           /\ stored'[Of(y)].form = turn[y].prior.form /\ stored'[Of(y)].state = turn[y].prior.state
                           /\ stored'[Of(y)].answer = IF progress'[y].text THEN y ELSE turn[y].prior.answer
    BY DEF AloneInv, Of
  <2>1. UnderWay(Of(y))' = UnderWay(Of(y)) /\ UnderWay(Of(y)) = {y}
    BY DEF UnderWay, Of, IInv, AloneInv
  <2>2. x \in bus /\ Of(x) = Of(y) => x = y
    BY <2>1 DEF IInv, BusInv, UnderWay
  <2>3. Of(y) \in Tasks
    BY DEF IInv, TypeOK, Of
  <2>4. ASSUME ~turn[y].signal
        PROVE  /\ y \in bus
               /\ stored'[Of(y)].form = turn[y].prior.form /\ stored'[Of(y)].state = turn[y].prior.state
               /\ stored'[Of(y)].answer = IF progress'[y].text THEN y ELSE turn[y].prior.answer
    <3>1. /\ y \in bus
          /\ stored[Of(y)].form = turn[y].prior.form /\ stored[Of(y)].state = turn[y].prior.state
          /\ stored[Of(y)].answer = IF progress[y].text THEN y ELSE turn[y].prior.answer
      BY <2>4 DEF IInv, AloneInv
    <3>2. CASE y = x
      BY <1>1, <1>4, <2>3, <3>1, <3>2
    <3>3. CASE y # x
      BY <1>1, <1>4, <2>2, <2>3, <3>1, <3>3
    <3> QED  BY <3>2, <3>3
  <2> QED  BY <2>1, <2>4
<1> QED  BY <1>6, <1>7, <1>8, <1>9, <1>10 DEF IInv

LEMMA EmitTextInv ==
  ASSUME IInv, NEW x \in Turns, EmitText(x)
  PROVE  IInv'
<1> DEFINE p == [progress[x] EXCEPT !.working = TRUE, !.text = TRUE, !.timer = Armed(x)]
           published == Started(x) \o Chunk(x)
           task == [stored[Of(x)] EXCEPT !.status = IF progress[x].working THEN @ ELSE "working", !.answer = x]
<1>1. progress[x] \in Progress /\ progress \in [Turns -> Progress] /\ stored[Of(x)] \in Task
  BY DEF IInv, TypeOK, Progress, Of
<1>2. p \in Progress /\ p.keepalive = progress[x].keepalive /\ p.timer = progress[x].keepalive /\ p.text
  BY <1>1 DEF Progress, Armed
<1>3. progress' = [progress EXCEPT ![x] = p]
  BY <1>1 DEF EmitText, Progress
<1>4. published \in Seq(Event) /\ NoOutcome(published)
  <2>1. Started(x) \in Seq(Event) /\ NoOutcome(Started(x))
    BY Reports DEF Started
  <2>2. Chunk(x) \in Seq(Event) /\ NoOutcome(Chunk(x))
    BY Reports DEF Chunk
  <2> QED  BY <2>1, <2>2, Longer
<1>5. task \in Task /\ task.form = stored[Of(x)].form /\ task.state = stored[Of(x)].state /\ task.answer = x
  BY <1>1 DEF Task, Content
<1>6. Publish(x, published) /\ Merge(x, task) /\ UNCHANGED <<running, turn, bus>> /\ turn[x].stage # "new"
  BY DEF EmitText
<1> HIDE DEF p, published, task
<1> QED  BY <1>2, <1>3, <1>4, <1>5, <1>6, EmitStep

(* A node, a reasoning delta or the keepalive.                             *)
LEMMA WorkingInv ==
  ASSUME IInv, NEW x \in Turns, EmitProgress(x) \/ KeepaliveFires(x)
  PROVE  IInv'
<1> DEFINE p == [progress[x] EXCEPT !.working = TRUE, !.timer = Armed(x)]
           published == Started(x) \o <<"working">>
           task == [stored[Of(x)] EXCEPT !.status = "working"]
<1>1. progress[x] \in Progress /\ progress \in [Turns -> Progress] /\ stored[Of(x)] \in Task
  BY DEF IInv, TypeOK, Progress, Of
<1>2. p \in Progress /\ p.keepalive = progress[x].keepalive /\ p.timer = progress[x].keepalive
      /\ p.text = progress[x].text
  BY <1>1 DEF Progress, Armed
<1>3. progress' = [progress EXCEPT ![x] = p]
  BY <1>1 DEF EmitProgress, KeepaliveFires, Progress
<1>4. published \in Seq(Event) /\ NoOutcome(published)
  <2>1. Started(x) \in Seq(Event) /\ NoOutcome(Started(x))
    BY Reports DEF Started
  <2>2. <<"working">> \in Seq(Event) /\ NoOutcome(<<"working">>)
    BY Reports
  <2> QED  BY <2>1, <2>2, Longer
<1>5. task \in Task /\ task.form = stored[Of(x)].form /\ task.state = stored[Of(x)].state
      /\ task.answer = stored[Of(x)].answer
  BY <1>1 DEF Task, Content
<1>6. Publish(x, published) /\ Merge(x, task) /\ UNCHANGED <<running, turn, bus>>
  BY DEF EmitProgress, KeepaliveFires, Working
<1> HIDE DEF p, published, task
<1> QED  BY <1>2, <1>3, <1>4, <1>5, <1>6, EmitStep

--------------------------------------------------------------------------------
(* A turn that begins: the turns under way on its task are not alone.      *)
LEMMA BeginInv ==
  ASSUME IInv, NEW x \in Turns, Begin(x)
  PROVE  IInv'
<1> DEFINE t == Of(x)
           solo == UnderWay(t) = {}
           begun == [turn[x] EXCEPT !.stage = "running", !.prior = stored[t], !.alone = solo]
           p == [progress[x] EXCEPT !.keepalive = TRUE, !.timer = TRUE]
<1>1. turn \in [Turns -> Turn] /\ progress \in [Turns -> Progress] /\ stored \in [Tasks -> Task] /\ t \in Tasks
  BY DEF IInv, TypeOK, Turn, Progress, Of
<1>2. turn[x].stage = "new" /\ UNCHANGED <<events, stored>> /\ bus' = bus \cup {x}
      /\ running' = [running EXCEPT ![t] = x]
  BY DEF Begin
<1>3. ~turn[x].signal /\ ~progress[x].text /\ x \notin bus
  BY <1>2 DEF IInv, NewInv, BusInv
<1>4. /\ begun \in Turn /\ begun.task = t /\ begun.stage = "running" /\ begun.signal = turn[x].signal
      /\ begun.prior = stored[t] /\ (begun.alone => UnderWay(t) = {})
  <2>1. solo \in BOOLEAN /\ (solo => UnderWay(t) = {})
    OBVIOUS
  <2>2. turn[x] \in Turn /\ turn[x].task = t /\ stored[t] \in Task
    BY <1>1 DEF Of
  <2> HIDE DEF solo, t
  <2> QED  BY <2>1, <2>2 DEF Turn
<1>5. p \in Progress /\ p.keepalive = TRUE /\ p.timer = TRUE /\ p.text = progress[x].text
  BY <1>1 DEF Progress
<1>6. progress' = [progress EXCEPT ![x] = p]
  BY <1>1 DEF Begin, Progress
<1>7. turn' = [y \in Turns |-> IF y = x THEN begun ELSE
                                IF y \in UnderWay(t) THEN [turn[y] EXCEPT !.alone = FALSE] ELSE turn[y]]
  BY DEF Begin
<1> HIDE DEF begun, p, solo
<1>8. ASSUME NEW y \in Turns, y # x
      PROVE  /\ turn'[y] \in Turn /\ turn'[y].task = turn[y].task /\ turn'[y].prior = turn[y].prior
             /\ turn'[y].signal = turn[y].signal /\ turn'[y].stage = turn[y].stage /\ turn'[y].result = turn[y].result
             /\ turn'[y].alone => turn[y].alone /\ y \notin UnderWay(t)
  <2>1. turn[y] \in Turn /\ turn'[y] = IF y \in UnderWay(t) THEN [turn[y] EXCEPT !.alone = FALSE] ELSE turn[y]
    BY <1>1, <1>7, <1>8
  <2> QED  BY <2>1 DEF Turn
<1>9. turn'[x] = begun /\ turn' \in [Turns -> Turn]
  <2>1. turn'[x] = begun /\ DOMAIN turn' = Turns /\ turn' = [y \in Turns |-> turn'[y]]
    BY <1>7
  <2>2. \A y \in Turns : turn'[y] \in Turn
    BY <1>4, <1>8, <2>1
  <2> QED  BY <2>1, <2>2
<1>10. progress' \in [Turns -> Progress] /\ \A y \in Turns : progress'[y] = IF y = x THEN p ELSE progress[y]
  BY <1>1, <1>5, <1>6
<1>11. \A y \in Turns : turn'[y].task = turn[y].task
  BY <1>4, <1>8, <1>9 DEF Of
<1>12. running' \in [Tasks -> Turns \cup {None}] /\ \A u \in Tasks : running'[u] = IF u = t THEN x ELSE running[u]
  BY <1>1, <1>2 DEF IInv, TypeOK
<1>13. TypeOK'
  <2>1. \A y \in Turns : turn'[y].stage \in {"settled", "left", "done"} => turn'[y].result \in Results
    BY <1>4, <1>8, <1>9 DEF IInv, TypeOK
  <2>2. \A u \in Tasks, y \in Turns :
          running'[u] = y => turn'[y].task = u /\ turn'[y].stage \in {"running", "settled"}
    BY <1>2, <1>4, <1>8, <1>9, <1>12 DEF IInv, TypeOK, Of
  <2>3. events' \in [Turns -> Seq(Event)] /\ bus' \subseteq Turns /\ stored' \in [Tasks -> Task]
    BY <1>2 DEF IInv, TypeOK
  <2> QED  BY <1>9, <1>10, <1>12, <2>1, <2>2, <2>3 DEF TypeOK, Turn, Progress, Of
<1>14. KeepaliveWhileRunning'
  <2> SUFFICES ASSUME NEW y \in Turns  PROVE progress'[y].keepalive = Under(y)' /\ progress'[y].timer = Under(y)'
    BY DEF KeepaliveWhileRunning
  <2>1. CASE y = x
    <3>1. Under(x)'
      BY <1>3, <1>4, <1>9 DEF Under
    <3> QED  BY <1>5, <1>10, <2>1, <3>1 DEF Under
  <2>2. CASE y # x
    <3>1. progress'[y] = progress[y] /\ turn'[y].stage = turn[y].stage /\ turn'[y].signal = turn[y].signal
      BY <1>8, <1>10, <2>2
    <3> QED  BY <3>1 DEF IInv, KeepaliveWhileRunning, Under
  <2> QED  BY <2>1, <2>2
<1>15. EventsInv'
  BY <1>2, <1>3, <1>4, <1>8, <1>9 DEF IInv, EventsInv
<1>16. BusInv'
  <2>1. \A y \in bus' : turn'[y].stage \in {"running", "settled", "left"}
    BY <1>2, <1>4, <1>8, <1>9 DEF IInv, BusInv, TypeOK
  <2>2. ASSUME NEW y \in Turns, running'[turn'[y].task] = y, turn'[y].signal
        PROVE  {z \in bus' : turn'[z].task = turn'[y].task} = {}
    <3>1. y # x
      BY <1>3, <1>4, <1>9, <2>2
    <3>2. turn[y].task \in Tasks /\ turn'[y].task = turn[y].task
      BY <1>1, <1>11 DEF Turn
    <3>3. turn[y].task # t /\ running[turn[y].task] = y /\ turn[y].signal
      BY <1>8, <1>9, <1>12, <2>2, <3>1, <3>2
    <3>4. BusOf(turn[y].task) = {}
      BY <3>3 DEF IInv, BusInv, Of
    <3>5. \A z \in bus : z \in Turns
      BY DEF IInv, TypeOK
    <3> QED  BY <1>2, <1>11, <3>2, <3>3, <3>4, <3>5 DEF BusOf, Of
  <2> QED  BY <2>1, <2>2 DEF BusInv, BusOf, Of
<1>17. NewInv'
  BY <1>4, <1>8, <1>9, <1>10 DEF IInv, NewInv
<1>18. AloneInv'
  <2> SUFFICES ASSUME NEW y \in Turns, turn'[y].alone, turn'[y].stage \in {"running", "settled", "left"}
               PROVE  /\ UnderWay(Of(y))' = {y}
                      /\ ~turn'[y].signal =>
                           /\ y \in bus'
                           /\ stored'[turn'[y].task].form = turn'[y].prior.form
                           /\ stored'[turn'[y].task].state = turn'[y].prior.state
                           /\ stored'[turn'[y].task].answer = IF progress'[y].text THEN y ELSE turn'[y].prior.answer
    BY DEF AloneInv, Of
  <2>1. \A u \in Tasks : UnderWay(u)' = IF u = t THEN UnderWay(u) \cup {x} ELSE UnderWay(u)
    <3>1. \A z \in Turns : turn'[z].stage = IF z = x THEN "running" ELSE turn[z].stage
      BY <1>4, <1>8, <1>9
    <3> QED  BY <1>2, <1>11, <3>1 DEF UnderWay, Of
  <2>2. CASE y = x
    <3>1. turn'[x].task = t /\ turn'[x].prior = stored[t] /\ ~progress'[x].text
      BY <1>3, <1>4, <1>5, <1>9, <1>10
    <3>2. UnderWay(t) = {}
      BY <1>4, <1>9, <2>2
    <3>3. PICK u \in Tasks : u = t
      BY <1>1
    <3>4. UnderWay(Of(x))' = UnderWay(u)'
      BY <3>1, <3>3 DEF UnderWay, Of
    <3>5. UnderWay(u)' = {x}
      BY <2>1, <3>2, <3>3
    <3> QED  BY <1>2, <2>2, <3>1, <3>4, <3>5
  <2>3. CASE y # x
    <3>1. /\ turn[y].alone /\ turn[y].stage \in {"running", "settled", "left"} /\ y \notin UnderWay(t)
          /\ turn'[y].task = turn[y].task /\ turn'[y].prior = turn[y].prior /\ turn'[y].signal = turn[y].signal
      BY <1>8, <1>9, <2>3
    <3>2. turn[y].task # t /\ turn[y].task \in Tasks
      BY <1>1, <3>1 DEF UnderWay, Of, Turn
    <3>3. /\ UnderWay(Of(y)) = {y}
          /\ ~turn[y].signal =>
               /\ y \in bus
               /\ stored[turn[y].task].form = turn[y].prior.form
               /\ stored[turn[y].task].state = turn[y].prior.state
               /\ stored[turn[y].task].answer = IF progress[y].text THEN y ELSE turn[y].prior.answer
      BY <3>1 DEF IInv, AloneInv, Of
    <3>4. UnderWay(Of(y))' = {y}
      <4>1. PICK u \in Tasks : u = turn[y].task
        BY <3>2
      <4>2. UnderWay(Of(y))' = UnderWay(u)' /\ UnderWay(Of(y)) = UnderWay(u)
        BY <3>1, <4>1 DEF UnderWay, Of
      <4> QED  BY <2>1, <3>2, <3>3, <4>1, <4>2
    <3>5. progress'[y].text = progress[y].text
      BY <1>10, <2>3
    <3> QED  BY <1>2, <2>3, <3>1, <3>2, <3>3, <3>4, <3>5
  <2> QED  BY <2>2, <2>3
<1> QED  BY <1>13, <1>14, <1>15, <1>16, <1>17, <1>18 DEF IInv

--------------------------------------------------------------------------------
(* A turn that goes on to another stage; what it publishes is left open.   *)

(* Turns keep their task, and what they found in it.                       *)
Moves(x, moved) ==
  /\ moved \in Turn /\ turn' = [turn EXCEPT ![x] = moved]
  /\ moved.task = turn[x].task /\ moved.prior = turn[x].prior /\ moved.alone = turn[x].alone

Same == \A y \in Turns : turn'[y].task = turn[y].task /\ turn'[y].prior = turn[y].prior /\ turn'[y].alone = turn[y].alone

LEMMA MovesFact ==
  ASSUME TypeOK, NEW x \in Turns, NEW moved, Moves(x, moved)
  PROVE  /\ turn' \in [Turns -> Turn] /\ turn'[x] = moved /\ \A y \in Turns : y # x => turn'[y] = turn[y]
         /\ Same
<1>1. turn \in [Turns -> Turn]
  BY DEF TypeOK, Turn
<1>2. turn' \in [Turns -> Turn] /\ \A y \in Turns : turn'[y] = IF y = x THEN moved ELSE turn[y]
  BY <1>1 DEF Moves
<1> QED  BY <1>2 DEF Moves, Same

Underway(y) == turn[y].stage \in {"running", "settled", "left"}

(* No turn begins, and the tasks of the turns that are alone are not touched. *)
LEMMA AloneStep ==
  ASSUME IInv, Same,
         \A y \in Turns : Underway(y)' => Underway(y),
         \A y \in Turns : turn[y].alone /\ Underway(y)' /\ ~turn'[y].signal =>
           /\ ~turn[y].signal /\ (y \in bus => y \in bus') /\ progress'[y].text = progress[y].text
           /\ stored'[turn[y].task].form = stored[turn[y].task].form
           /\ stored'[turn[y].task].state = stored[turn[y].task].state
           /\ stored'[turn[y].task].answer = stored[turn[y].task].answer
  PROVE  AloneInv'
<1> SUFFICES ASSUME NEW y \in Turns, turn'[y].alone, Underway(y)'
             PROVE  /\ UnderWay(Of(y))' = {y}
                    /\ ~turn'[y].signal =>
                         /\ y \in bus'
                         /\ stored'[turn'[y].task].form = turn'[y].prior.form
                         /\ stored'[turn'[y].task].state = turn'[y].prior.state
                         /\ stored'[turn'[y].task].answer = IF progress'[y].text THEN y ELSE turn'[y].prior.answer
  BY DEF AloneInv, Underway, Of
<1>1. turn[y].alone /\ Underway(y)
  BY DEF Same
<1>2. UnderWay(turn[y].task) = {y}
  BY <1>1 DEF IInv, AloneInv, Underway, Of
<1>3. UnderWay(Of(y))' = {z \in Turns : turn'[z].task = turn[y].task /\ Underway(z)'}
  BY DEF UnderWay, Underway, Of, Same
<1>4. \A z \in Turns : turn'[z].task = turn[y].task /\ Underway(z)' => z \in UnderWay(turn[y].task)
  BY DEF UnderWay, Underway, Of, Same
<1>5. UnderWay(Of(y))' = {y}
  BY <1>2, <1>3, <1>4 DEF Same
<1>6. ASSUME ~turn'[y].signal
      PROVE  /\ y \in bus'
             /\ stored'[turn'[y].task].form = turn'[y].prior.form
             /\ stored'[turn'[y].task].state = turn'[y].prior.state
             /\ stored'[turn'[y].task].answer = IF progress'[y].text THEN y ELSE turn'[y].prior.answer
  BY <1>1, <1>6 DEF IInv, AloneInv, Underway, Of, Same
<1> QED  BY <1>5, <1>6

LEMMA BusStep ==
  ASSUME IInv, Same, bus' \subseteq bus, \A y \in bus' : Underway(y)',
         \A y \in Turns : running'[turn[y].task] = y /\ turn'[y].signal =>
           \/ running[turn[y].task] = y /\ turn[y].signal
           \/ bus' \cap BusOf(turn[y].task) = {}
  PROVE  BusInv'
<1>1. \A z \in bus : z \in Turns
  BY DEF IInv, TypeOK
<1>2. ASSUME NEW y \in Turns, running'[turn'[y].task] = y, turn'[y].signal
      PROVE  {z \in bus' : turn'[z].task = turn'[y].task} = {}
  <2>1. turn'[y].task = turn[y].task
    BY DEF Same
  <2>2. bus' \cap BusOf(turn[y].task) = {}
    BY <1>2, <2>1 DEF IInv, BusInv, Of
  <2> QED  BY <1>1, <2>1, <2>2 DEF BusOf, Of, Same
<1> QED  BY <1>2 DEF BusInv, BusOf, Underway, Of

LEMMA KeepaliveStep ==
  ASSUME IInv, NEW x \in Turns, \A y \in Turns : y # x => progress'[y] = progress[y] /\ turn'[y] = turn[y],
         progress'[x].keepalive = FALSE, progress'[x].timer = FALSE, ~Under(x)'
  PROVE  KeepaliveWhileRunning'
<1> SUFFICES ASSUME NEW y \in Turns  PROVE progress'[y].keepalive = Under(y)' /\ progress'[y].timer = Under(y)'
  BY DEF KeepaliveWhileRunning
<1>1. CASE y = x
  BY <1>1 DEF Under
<1>2. CASE y # x
  <2>1. progress'[y] = progress[y] /\ turn'[y] = turn[y]
    BY <1>2
  <2> QED  BY <2>1 DEF IInv, KeepaliveWhileRunning, Under
<1> QED  BY <1>1, <1>2

LEMMA HandlerEndsInv ==
  ASSUME IInv, NEW x \in Turns, NEW r \in Results, HandlerEnds(x, r)
  PROVE  IInv'
<1> DEFINE moved == [turn[x] EXCEPT !.stage = "settled", !.result = r]
<1>1. turn \in [Turns -> Turn] /\ turn[x] \in Turn
  BY DEF IInv, TypeOK, Turn
<1>2. moved \in Turn /\ moved.stage = "settled" /\ moved.signal = turn[x].signal /\ moved.result = r
      /\ moved.task = turn[x].task /\ moved.prior = turn[x].prior /\ moved.alone = turn[x].alone
  BY <1>1 DEF Turn
<1>3. turn' = [turn EXCEPT ![x] = moved]
  BY <1>1 DEF HandlerEnds, Turn
<1>4. turn[x].stage = "running" /\ UNCHANGED <<running, progress, events, bus, stored>>
  BY DEF HandlerEnds
<1> HIDE DEF moved
<1>5. turn' \in [Turns -> Turn] /\ turn'[x] = moved /\ (\A y \in Turns : y # x => turn'[y] = turn[y]) /\ Same
  BY <1>2, <1>3, MovesFact DEF Moves, IInv
<1>6. \A y \in Turns : turn'[y].signal = turn[y].signal /\ turn'[y].stage = IF y = x THEN "settled" ELSE turn[y].stage
  BY <1>2, <1>5
<1>7. TypeOK'
  <2>1. \A y \in Turns : turn'[y].stage \in {"settled", "left", "done"} => turn'[y].result \in Results
    BY <1>2, <1>5 DEF IInv, TypeOK
  <2>2. \A u \in Tasks, y \in Turns :
          running'[u] = y => turn'[y].task = u /\ turn'[y].stage \in {"running", "settled"}
    BY <1>4, <1>5, <1>6 DEF IInv, TypeOK, Of, Same
  <2> QED  BY <1>4, <1>5, <2>1, <2>2 DEF IInv, TypeOK, Turn, Of
<1>8. \A y \in Turns : Under(y)' = Under(y)
  BY <1>4, <1>6 DEF Under
<1>9. KeepaliveWhileRunning'
  BY <1>4, <1>8 DEF IInv, KeepaliveWhileRunning
<1>10. EventsInv' /\ NewInv'
  BY <1>4, <1>6 DEF IInv, EventsInv, NewInv
<1>11. \A y \in Turns : Underway(y)' = Underway(y)
  BY <1>4, <1>6 DEF Underway
<1>12. BusInv'
  BY <1>4, <1>5, <1>6, <1>11, BusStep DEF IInv, TypeOK, BusInv, Underway
<1>13. AloneInv'
  BY <1>4, <1>5, <1>6, <1>11, AloneStep
<1> QED  BY <1>7, <1>9, <1>10, <1>12, <1>13 DEF IInv

LEMMA FinallyInv ==
  ASSUME IInv, NEW x \in Turns, Finally(x)
  PROVE  IInv'
<1> DEFINE moved == [turn[x] EXCEPT !.stage = "left"]
           p == KeepaliveStopped(x)
<1>1. turn \in [Turns -> Turn] /\ turn[x] \in Turn /\ progress \in [Turns -> Progress] /\ turn[x].task \in Tasks
  BY DEF IInv, TypeOK, Turn, Progress
<1>2. moved \in Turn /\ moved.stage = "left" /\ moved.signal = turn[x].signal /\ moved.result = turn[x].result
      /\ moved.task = turn[x].task /\ moved.prior = turn[x].prior /\ moved.alone = turn[x].alone
  BY <1>1 DEF Turn
<1>3. turn' = [turn EXCEPT ![x] = moved]
  BY <1>1 DEF Finally, Turn
<1>4. turn[x].stage = "settled" /\ UNCHANGED <<events, bus, stored>> /\ progress' = [progress EXCEPT ![x] = p]
      /\ running' = [running EXCEPT ![turn[x].task] = None]
  BY DEF Finally, WithoutTurn, Of
<1>5. p \in Progress /\ p.keepalive = FALSE /\ p.timer = FALSE /\ p.text = progress[x].text
  BY <1>1 DEF KeepaliveStopped, Progress
<1> HIDE DEF moved, p
<1>6. turn' \in [Turns -> Turn] /\ turn'[x] = moved /\ (\A y \in Turns : y # x => turn'[y] = turn[y]) /\ Same
  BY <1>2, <1>3, MovesFact DEF Moves, IInv
<1>7. progress' \in [Turns -> Progress] /\ progress'[x] = p /\ \A y \in Turns : y # x => progress'[y] = progress[y]
  BY <1>1, <1>4, <1>5
<1>8. running' \in [Tasks -> Turns \cup {None}]
      /\ \A u \in Tasks : running'[u] = IF u = turn[x].task THEN None ELSE running[u]
  BY <1>1, <1>4 DEF IInv, TypeOK
<1>9. \A y \in Turns : turn'[y].signal = turn[y].signal /\ turn'[y].result = turn[y].result
        /\ turn'[y].stage = IF y = x THEN "left" ELSE turn[y].stage
  BY <1>2, <1>6
<1>10. TypeOK'
  <2>1. \A y \in Turns : turn'[y].stage \in {"settled", "left", "done"} => turn'[y].result \in Results
    BY <1>4, <1>9 DEF IInv, TypeOK
  <2>2. \A u \in Tasks, y \in Turns :
          running'[u] = y => turn'[y].task = u /\ turn'[y].stage \in {"running", "settled"}
    BY <1>6, <1>8, <1>9 DEF IInv, TypeOK, Of, Same
  <2> QED  BY <1>4, <1>6, <1>7, <1>8, <2>1, <2>2 DEF IInv, TypeOK, Turn, Progress, Of
<1>11. KeepaliveWhileRunning'
  BY <1>5, <1>6, <1>7, <1>9, KeepaliveStep DEF Under
<1>12. \A y \in Turns : progress'[y].text = progress[y].text
  BY <1>5, <1>7
<1>13. EventsInv' /\ NewInv'
  BY <1>4, <1>9, <1>12 DEF IInv, EventsInv, NewInv
<1>14. \A y \in Turns : Underway(y)' = Underway(y)
  BY <1>4, <1>9 DEF Underway
<1>15. BusInv'
  <2>1. \A y \in Turns : running'[turn[y].task] = y => running[turn[y].task] = y
    BY <1>1, <1>8 DEF Turn
  <2> QED  BY <1>4, <1>6, <1>9, <1>14, <2>1, BusStep DEF IInv, TypeOK, BusInv, Underway
<1>16. AloneInv'
  BY <1>4, <1>6, <1>9, <1>12, <1>14, AloneStep
<1> QED  BY <1>10, <1>11, <1>13, <1>15, <1>16 DEF IInv

--------------------------------------------------------------------------------
(* A turn that ends.                                                       *)

LEMMA FinalEventsFact ==
  ASSUME NEW x \in Turns
  PROVE  FinalEvents(x) \o <<"finished">> \in Seq(Event) /\ AtMostOnce(FinalEvents(x) \o <<"finished">>, Outcome)
<1> DEFINE closing == IF progress[x].text THEN <<"last">> ELSE <<>>
           outcome == IF progress[x].working THEN <<"artifact", "final-status">> ELSE <<"final-task">>
<1>1. closing \in Seq(Event) /\ NoOutcome(closing)
  BY Reports
<1>2. <<"artifact", "final-status">> \in Seq(Event) /\ AtMostOnce(<<"artifact", "final-status">>, Outcome)
  BY DEF Event, Outcome, AtMostOnce
<1>3. <<"final-task">> \in Seq(Event) /\ AtMostOnce(<<"final-task">>, Outcome)
  BY DEF Event, Outcome, AtMostOnce
<1>4. outcome \in Seq(Event) /\ AtMostOnce(outcome, Outcome)
  BY <1>2, <1>3
<1> HIDE DEF closing, outcome
<1>5. closing \o outcome \in Seq(Event) /\ AtMostOnce(closing \o outcome, Outcome)
  BY <1>1, <1>4, FirstOutcome
<1>6. FinalEvents(x) = closing \o outcome
  BY DEF FinalEvents, closing, outcome
<1> QED  BY <1>5, <1>6, Reports, Longer

LEMMA FinalTaskFact ==
  ASSUME TypeOK, NEW x \in Turns, turn[x].stage = "left"
  PROVE  FinalTask(x) \in Task
<1>1. turn[x].result \in Results /\ turn[x].prior \in Task /\ stored[Of(x)] \in Task /\ progress[x].text \in BOOLEAN
  BY DEF TypeOK, Of
<1> DEFINE r == turn[x].result
           p == turn[x].prior
           s == stored[Of(x)]
<1>2. \A given \in BOOLEAN, prior \in Content, held \in Content : Left(given, x, prior, held) \in Content
  BY DEF Left, Content
<1>3. p.form \in Content /\ p.answer \in Content /\ p.state \in Content
      /\ s.form \in Content /\ s.answer \in Content /\ s.state \in Content
  BY <1>1 DEF Task
<1>4. r.status \in {"none", "working", "input-required"} \cup Terminal
  BY <1>1 DEF Results, Terminal
<1>5. /\ Left(r.status = "input-required", x, p.form, s.form) \in Content
      /\ Left(FALSE, x, p.answer, s.answer) \in Content
      /\ Left(r.state /\ r.status # "failed", x, p.state, s.state) \in Content
  <2>1. (r.status = "input-required") \in BOOLEAN /\ (r.state /\ r.status # "failed") \in BOOLEAN
    OBVIOUS
  <2> QED  BY <1>2, <1>3, <2>1
<1> HIDE DEF r, p, s
<1>6. FinalTask(x) =
        [status |-> r.status, form |-> Left(r.status = "input-required", x, p.form, s.form),
         answer |-> IF progress[x].text THEN s.answer ELSE Left(FALSE, x, p.answer, s.answer),
         state |-> Left(r.state /\ r.status # "failed", x, p.state, s.state)]
  BY DEF FinalTask, r, p, s
<1> DEFINE form == Left(r.status = "input-required", x, p.form, s.form)
           answer == IF progress[x].text THEN s.answer ELSE Left(FALSE, x, p.answer, s.answer)
           state == Left(r.state /\ r.status # "failed", x, p.state, s.state)
<1>7. form \in Content /\ state \in Content
  BY <1>5
<1>8. answer \in Content
  <2>1. CASE progress[x].text
    BY <1>3, <2>1
  <2>2. CASE ~progress[x].text
    BY <1>5, <2>2
  <2> QED  BY <2>1, <2>2
<1>9. FinalTask(x) = [status |-> r.status, form |-> form, answer |-> answer, state |-> state]
  BY <1>6
<1> HIDE DEF form, answer, state
<1> QED  BY <1>4, <1>7, <1>8, <1>9 DEF Task

LEMMA ConcludeInv ==
  ASSUME IInv, NEW x \in Turns, Conclude(x)
  PROVE  IInv'
<1> DEFINE moved == [turn[x] EXCEPT !.stage = "done"]
<1>1. turn \in [Turns -> Turn] /\ turn[x] \in Turn /\ turn[x].task \in Tasks /\ stored \in [Tasks -> Task]
      /\ events \in [Turns -> Seq(Event)]
  BY DEF IInv, TypeOK, Turn
<1>2. moved \in Turn /\ moved.stage = "done" /\ moved.signal = turn[x].signal /\ moved.result = turn[x].result
      /\ moved.task = turn[x].task /\ moved.prior = turn[x].prior /\ moved.alone = turn[x].alone
  BY <1>1 DEF Turn
<1>3. turn' = [turn EXCEPT ![x] = moved]
  BY <1>1 DEF Conclude, Turn
<1>4. turn[x].stage = "left" /\ UNCHANGED <<running, progress>>
      /\ bus' = IF x \in bus THEN Finished(Of(x)) ELSE bus
  BY DEF Conclude
<1> HIDE DEF moved
<1>5. turn' \in [Turns -> Turn] /\ turn'[x] = moved /\ (\A y \in Turns : y # x => turn'[y] = turn[y]) /\ Same
  BY <1>2, <1>3, MovesFact DEF Moves, IInv
<1>6. \A y \in Turns : turn'[y].signal = turn[y].signal /\ turn'[y].result = turn[y].result
        /\ turn'[y].stage = IF y = x THEN "done" ELSE turn[y].stage
  BY <1>2, <1>5
<1>7. /\ events' \in [Turns -> Seq(Event)] /\ \A y \in Turns : y # x => events'[y] = events[y]
      /\ AtMostOnce(events'[x], Outcome)
  <2>1. CASE WasCancelled(x)
    <3>1. events' = [events EXCEPT ![x] = events[x] \o <<"finished">>]
      BY <2>1 DEF Conclude, Publish
    <3>2. AtMostOnce(events[x], Outcome) /\ events[x] \in Seq(Event)
      BY <1>1 DEF IInv, EventsInv
    <3>3. events[x] \o <<"finished">> \in Seq(Event) /\ AtMostOnce(events[x] \o <<"finished">>, Outcome)
      BY <3>2, Reports, Longer
    <3> QED  BY <1>1, <3>1, <3>3
  <2>2. CASE ~WasCancelled(x)
    <3> DEFINE final == FinalEvents(x) \o <<"finished">>
    <3>1. events' = [events EXCEPT ![x] = events[x] \o final]
      BY <2>2 DEF Conclude, Publish
    <3>2. NoOutcome(events[x]) /\ events[x] \in Seq(Event)
      BY <1>1, <1>4, <2>2 DEF IInv, EventsInv, WasCancelled
    <3>3. final \in Seq(Event) /\ AtMostOnce(final, Outcome)
      BY FinalEventsFact
    <3> HIDE DEF final
    <3>4. events[x] \o final \in Seq(Event) /\ AtMostOnce(events[x] \o final, Outcome)
      BY <3>2, <3>3, FirstOutcome
    <3> QED  BY <1>1, <3>1, <3>4
  <2> QED  BY <2>1, <2>2
<1>8. stored' \in [Tasks -> Task] /\ \A t \in Tasks : t # turn[x].task => stored'[t] = stored[t]
  <2>1. FinalTask(x) \in Task
    BY <1>4, FinalTaskFact DEF IInv
  <2> QED  BY <1>1, <2>1 DEF Conclude, Merge, Of
<1>9. bus' \subseteq bus /\ x \notin bus' /\ \A y \in bus : Of(y) # Of(x) => y \in bus'
  BY <1>4 DEF Finished, BusOf, Of
<1>10. TypeOK'
  <2>1. \A y \in Turns : turn'[y].stage \in {"settled", "left", "done"} => turn'[y].result \in Results
    BY <1>4, <1>6 DEF IInv, TypeOK
  <2>2. \A u \in Tasks, y \in Turns :
          running'[u] = y => turn'[y].task = u /\ turn'[y].stage \in {"running", "settled"}
    <3> SUFFICES ASSUME NEW u \in Tasks, NEW y \in Turns, running[u] = y
                 PROVE  turn'[y].task = u /\ turn'[y].stage \in {"running", "settled"}
      BY <1>4
    <3>1. turn[y].task = u /\ turn[y].stage \in {"running", "settled"}
      BY DEF IInv, TypeOK, Of
    <3>2. y # x
      BY <1>4, <3>1
    <3> QED  BY <1>5, <3>1, <3>2
  <2> QED  BY <1>4, <1>5, <1>7, <1>8, <1>9, <2>1, <2>2 DEF IInv, TypeOK, Turn, Of
<1>11. KeepaliveWhileRunning'
  BY <1>4, <1>6 DEF IInv, KeepaliveWhileRunning, Under
<1>12. EventsInv' /\ NewInv'
  BY <1>4, <1>6, <1>7 DEF IInv, EventsInv, NewInv
<1>13. \A y \in Turns : Underway(y)' = (Underway(y) /\ y # x)
  BY <1>6 DEF Underway
<1>14. BusInv'
  <2>1. \A y \in bus' : Underway(y)'
    <3> TAKE y \in bus'
    <3>1. y \in bus /\ y # x
      BY <1>9
    <3>2. y \in Turns /\ Underway(y)
      BY <3>1 DEF IInv, TypeOK, BusInv, Underway
    <3> QED  BY <1>13, <3>1, <3>2
  <2> QED  BY <1>4, <1>5, <1>6, <1>9, <2>1, BusStep
<1>15. AloneInv'
  <2>1. ASSUME NEW y \in Turns, turn[y].alone, Underway(y)'  PROVE turn[y].task # turn[x].task /\ turn[y].task \in Tasks
    <3>1. y # x /\ UnderWay(Of(y)) = {y} /\ x \in UnderWay(Of(x))
      BY <1>4, <1>13, <2>1 DEF IInv, AloneInv, Underway, UnderWay
    <3> QED  BY <1>1, <3>1 DEF Of, Turn
  <2> QED  BY <1>4, <1>5, <1>6, <1>8, <1>9, <1>13, <2>1, AloneStep DEF Of
<1> QED  BY <1>10, <1>11, <1>12, <1>14, <1>15 DEF IInv

--------------------------------------------------------------------------------
(* tasks/cancel, and the end of the process.                               *)

LEMMA CancelInv ==
  ASSUME IInv, NEW t \in Tasks, Cancel(t)
  PROVE  IInv'
<1> DEFINE x == running[t]
           moved == [turn[x] EXCEPT !.signal = TRUE]
           p == KeepaliveStopped(x)
           task == [stored[t] EXCEPT !.status = "canceled"]
<1>1. x \in Turns /\ Of(x) = t /\ turn[x].stage \in {"running", "settled"}
  BY DEF Cancel, IInv, TypeOK
<1>2. turn \in [Turns -> Turn] /\ turn[x] \in Turn /\ progress \in [Turns -> Progress] /\ turn[x].task = t
      /\ stored \in [Tasks -> Task] /\ events \in [Turns -> Seq(Event)]
  BY <1>1 DEF IInv, TypeOK, Turn, Progress, Of
<1>3. ~turn[x].signal
  BY <1>1 DEF Cancel, IInv, BusInv
<1>4. moved \in Turn /\ moved.signal = TRUE /\ moved.stage = turn[x].stage /\ moved.result = turn[x].result
      /\ moved.task = turn[x].task /\ moved.prior = turn[x].prior /\ moved.alone = turn[x].alone
  BY <1>2 DEF Turn
<1>5. turn' = [turn EXCEPT ![x] = moved]
  BY <1>2 DEF Cancel, Turn
<1>6. p \in Progress /\ p.keepalive = FALSE /\ p.timer = FALSE /\ p.text = progress[x].text
  <2>1. progress[x] \in Progress
    BY <1>1, <1>2
  <2> HIDE DEF x
  <2> QED  BY <2>1 DEF KeepaliveStopped, Progress
<1>7. progress' = [progress EXCEPT ![x] = p] /\ bus' = Finished(t) /\ UNCHANGED running
      /\ events' = [events EXCEPT ![x] = events[x] \o <<"canceled", "finished">>]
  BY DEF Cancel, Publish
<1>8. stored' = [stored EXCEPT ![t] = IF x \in bus THEN task ELSE stored[t]]
  BY <1>1 DEF Cancel, Merge
<1> HIDE DEF moved, p
<1>9. turn' \in [Turns -> Turn] /\ turn'[x] = moved /\ (\A y \in Turns : y # x => turn'[y] = turn[y]) /\ Same
  BY <1>1, <1>4, <1>5, MovesFact DEF Moves, IInv
<1>10. \A y \in Turns : turn'[y].stage = turn[y].stage /\ turn'[y].result = turn[y].result
         /\ (y # x => turn'[y].signal = turn[y].signal)
  BY <1>4, <1>9
<1>11. turn'[x].signal = TRUE
  BY <1>4, <1>9
<1>12. progress' \in [Turns -> Progress] /\ progress'[x] = p /\ \A y \in Turns : y # x => progress'[y] = progress[y]
  BY <1>1, <1>2, <1>6, <1>7
<1>13. \A y \in Turns : progress'[y].text = progress[y].text
  BY <1>6, <1>12
<1>14. stored' \in [Tasks -> Task] /\ \A u \in Tasks : u # t => stored'[u] = stored[u]
  <2>1. task \in Task
    BY <1>2 DEF Task, Terminal
  <2> HIDE DEF task
  <2> QED  BY <1>2, <1>8, <2>1
<1>15. /\ events' \in [Turns -> Seq(Event)] /\ \A y \in Turns : y # x => events'[y] = events[y]
       /\ AtMostOnce(events'[x], Outcome)
  <2>1. NoOutcome(events[x]) /\ events[x] \in Seq(Event)
    BY <1>1, <1>2, <1>3 DEF IInv, EventsInv
  <2>2. <<"canceled", "finished">> \in Seq(Event) /\ AtMostOnce(<<"canceled", "finished">>, Outcome)
    BY DEF Event, Outcome, AtMostOnce
  <2>3. events[x] \o <<"canceled", "finished">> \in Seq(Event)
        /\ AtMostOnce(events[x] \o <<"canceled", "finished">>, Outcome)
    BY <2>1, <2>2, FirstOutcome
  <2> QED  BY <1>1, <1>2, <1>7, <2>3
<1>16. bus' \subseteq bus /\ bus' \cap BusOf(t) = {} /\ \A y \in bus : Of(y) # t => y \in bus'
  BY <1>7 DEF Finished, BusOf
<1>17. TypeOK'
  <2>1. \A y \in Turns : turn'[y].stage \in {"settled", "left", "done"} => turn'[y].result \in Results
    BY <1>10 DEF IInv, TypeOK
  <2>2. \A u \in Tasks, y \in Turns :
          running'[u] = y => turn'[y].task = u /\ turn'[y].stage \in {"running", "settled"}
    BY <1>7, <1>9, <1>10 DEF IInv, TypeOK, Of, Same
  <2> QED  BY <1>7, <1>9, <1>12, <1>14, <1>15, <1>16, <2>1, <2>2 DEF IInv, TypeOK, Turn, Progress, Of
<1>18. KeepaliveWhileRunning'
  BY <1>1, <1>6, <1>9, <1>11, <1>12, KeepaliveStep DEF Under
<1>19. EventsInv' /\ NewInv'
  BY <1>1, <1>10, <1>11, <1>13, <1>15 DEF IInv, EventsInv, NewInv
<1>20. \A y \in Turns : Underway(y)' = Underway(y)
  BY <1>10 DEF Underway
<1>21. BusInv'
  <2>1. \A y \in bus' : Underway(y)'
    BY <1>16, <1>20 DEF IInv, TypeOK, BusInv, Underway
  <2> QED  BY <1>2, <1>7, <1>9, <1>10, <1>16, <2>1, BusStep
<1>22. AloneInv'
  <2>1. ASSUME NEW y \in Turns, turn[y].alone, Underway(y)', ~turn'[y].signal  PROVE turn[y].task # t /\ turn[y].task \in Tasks
    <3>1. y # x /\ UnderWay(Of(y)) = {y} /\ x \in UnderWay(t)
      BY <1>1, <1>11, <1>20, <2>1 DEF IInv, AloneInv, Underway, UnderWay
    <3> QED  BY <1>2, <3>1 DEF Of, Turn
  <2> QED  BY <1>2, <1>9, <1>10, <1>11, <1>13, <1>14, <1>16, <1>20, <2>1, AloneStep DEF Of
<1> QED  BY <1>17, <1>18, <1>19, <1>21, <1>22 DEF IInv

LEMMA CancelIdleInv ==
  ASSUME IInv, NEW t \in Tasks, CancelIdle(t)
  PROVE  IInv'
<1> DEFINE task == [stored[t] EXCEPT !.status = "canceled"]
<1>1. UNCHANGED <<running, turn, progress, events, bus>> /\ BusOf(t) = {} /\ stored \in [Tasks -> Task]
  BY DEF CancelIdle, IInv, TypeOK
<1>2. task \in Task /\ stored' = [stored EXCEPT ![t] = task]
  BY <1>1 DEF CancelIdle, Task, Terminal
<1> HIDE DEF task
<1>3. stored' \in [Tasks -> Task] /\ \A u \in Tasks : u # t => stored'[u] = stored[u]
  BY <1>1, <1>2
<1>4. TypeOK'
  BY <1>1, <1>3 DEF IInv, TypeOK, Of
<1>5. KeepaliveWhileRunning' /\ EventsInv' /\ BusInv' /\ NewInv'
  BY <1>1 DEF IInv, KeepaliveWhileRunning, Under, EventsInv, BusInv, BusOf, NewInv, Of
<1>6. AloneInv'
  <2>1. ASSUME NEW y \in Turns, turn[y].alone, Underway(y), ~turn[y].signal  PROVE turn[y].task # t /\ turn[y].task \in Tasks
    BY <1>1, <2>1 DEF IInv, TypeOK, AloneInv, Underway, BusOf, Of
  <2>2. Same /\ \A y \in Turns : Underway(y)' = Underway(y)
    BY <1>1 DEF Same, Underway
  <2> QED  BY <1>1, <1>3, <2>1, <2>2, AloneStep
<1> QED  BY <1>4, <1>5, <1>6 DEF IInv

LEMMA CrashInv ==
  ASSUME IInv, Crash
  PROVE  IInv'
<1>1. turn \in [Turns -> Turn] /\ progress \in [Turns -> Progress]
  BY DEF IInv, TypeOK, Turn, Progress
<1>2. UNCHANGED <<events, stored>> /\ bus' = {} /\ running' = [t \in Tasks |-> None]
  BY DEF Crash
<1>3. turn' = [x \in Turns |-> IF turn[x].stage = "new" THEN turn[x] ELSE [turn[x] EXCEPT !.stage = "down"]]
      /\ progress' = [x \in Turns |-> KeepaliveStopped(x)]
  BY DEF Crash
<1>4. ASSUME NEW y \in Turns
      PROVE  /\ turn'[y] \in Turn /\ turn'[y].task = turn[y].task /\ turn'[y].signal = turn[y].signal
             /\ turn'[y].stage = IF turn[y].stage = "new" THEN "new" ELSE "down"
             /\ progress'[y] \in Progress /\ progress'[y].text = progress[y].text
             /\ progress'[y].keepalive = FALSE /\ progress'[y].timer = FALSE
  <2>1. turn[y] \in Turn /\ turn'[y] = IF turn[y].stage = "new" THEN turn[y] ELSE [turn[y] EXCEPT !.stage = "down"]
    BY <1>1, <1>3
  <2>2. progress[y] \in Progress /\ progress'[y] = [progress[y] EXCEPT !.keepalive = FALSE, !.timer = FALSE]
    BY <1>1, <1>3 DEF KeepaliveStopped
  <2>3. turn'[y] \in Turn /\ turn'[y].task = turn[y].task /\ turn'[y].signal = turn[y].signal
        /\ turn'[y].stage = IF turn[y].stage = "new" THEN "new" ELSE "down"
    BY <2>1 DEF Turn
  <2> QED  BY <2>2, <2>3 DEF Progress
<1>5. turn' \in [Turns -> Turn] /\ progress' \in [Turns -> Progress]
  <2>1. turn' = [y \in Turns |-> turn'[y]] /\ progress' = [y \in Turns |-> progress'[y]]
    BY <1>3
  <2> QED  BY <1>4, <2>1
<1>6. TypeOK'
  <2>1. \A y \in Turns : turn'[y].stage \notin {"settled", "left", "done"}
    BY <1>4
  <2>2. \A u \in Tasks, y \in Turns : running'[u] # y
    BY <1>2
  <2>3. running' \in [Tasks -> Turns \cup {None}]
    BY <1>2
  <2> QED  BY <1>2, <1>5, <2>1, <2>2, <2>3 DEF IInv, TypeOK, Turn, Progress
<1>7. KeepaliveWhileRunning'
  <2>1. \A y \in Turns : Under(y)' = FALSE
    BY <1>4 DEF Under
  <2> QED  BY <1>4, <2>1 DEF KeepaliveWhileRunning
<1>8. EventsInv' /\ NewInv'
  BY <1>2, <1>4 DEF IInv, EventsInv, NewInv
<1>9. BusInv' /\ AloneInv'
  BY <1>2, <1>4 DEF BusInv, BusOf, AloneInv
<1> QED  BY <1>6, <1>7, <1>8, <1>9 DEF IInv

--------------------------------------------------------------------------------

LEMMA NextInv == IInv /\ [Next]_vars => IInv'
<1> SUFFICES ASSUME IInv, [Next]_vars  PROVE IInv'
  OBVIOUS
<1>1. CASE Next
  BY <1>1, BeginInv, EmitTextInv, WorkingInv, FinallyInv, ConcludeInv, HandlerEndsInv, CancelInv, CancelIdleInv, CrashInv
     DEF Next
<1>2. CASE UNCHANGED vars
  BY <1>2 DEF vars, IInv, TypeOK, KeepaliveWhileRunning, Under, EventsInv, BusInv, BusOf, NewInv, AloneInv, UnderWay, Of
<1> QED  BY <1>1, <1>2

LEMMA Invariance == Spec => []IInv
<1> QED  BY InitInv, NextInv, PTL DEF Spec, Safety

(* The executor is of its types, and the entry of running names a turn of  *)
(* its task that runs.                                                     *)
THEOREM TypeCorrect == Spec => []TypeOK
<1>1. IInv => TypeOK
  BY DEF IInv
<1> QED  BY <1>1, Invariance, PTL

(* The keepalive of a turn is armed exactly while the turn runs and was not *)
(* cancelled.                                                              *)
THEOREM KeepaliveSafe == Spec => []KeepaliveWhileRunning
<1>1. IInv => KeepaliveWhileRunning
  BY DEF IInv
<1> QED  BY <1>1, Invariance, PTL

(* A turn publishes one outcome at most: a turn that was cancelled publishes *)
(* no result, whatever its handler returns.                                *)
THEOREM OneOutcome == Spec => []CancelOrResult
<1>1. IInv => CancelOrResult
  BY DEF IInv, EventsInv, CancelOrResult
<1> QED  BY <1>1, Invariance, PTL

--------------------------------------------------------------------------------
(* What a turn leaves in its task.                                         *)

OwnLeft == \A x \in Turns :
  turn[x].stage = "left" /\ turn'[x].stage = "done" /\ ~turn[x].signal /\ turn[x].alone =>
    LET s == stored'[Of(x)] IN
      /\ s.status = turn[x].result.status
      /\ \A c \in {s.form, s.answer, s.state} : c \in {x, None, "empty"}
      /\ (s.form = x) = (s.status = "input-required")
      /\ (s.answer = x) = progress[x].text

LEMMA ConcludeOwn ==
  ASSUME IInv, NEW x \in Turns, Conclude(x), ~turn[x].signal, turn[x].alone
  PROVE  LET s == stored'[Of(x)] IN
           /\ s.status = turn[x].result.status
           /\ \A c \in {s.form, s.answer, s.state} : c \in {x, None, "empty"}
           /\ (s.form = x) = (s.status = "input-required")
           /\ (s.answer = x) = progress[x].text
<1> DEFINE r == turn[x].result
           p == turn[x].prior
           s == stored[Of(x)]
           text == progress[x].text
<1>1. turn[x].stage = "left" /\ Of(x) \in Tasks /\ p \in Task /\ text \in BOOLEAN
  BY DEF Conclude, IInv, TypeOK, Of
<1>2. /\ x \in bus /\ s.form = p.form /\ s.state = p.state /\ s.answer = IF text THEN x ELSE p.answer
  BY <1>1 DEF IInv, AloneInv
<1>3. p.form \in Content /\ p.answer \in Content /\ p.state \in Content
  BY <1>1 DEF Task
<1>4. x # None /\ x # "empty"
  OBVIOUS
<1>5. stored'[Of(x)] = FinalTask(x)
  BY <1>1, <1>2 DEF Conclude, WasCancelled, Merge, IInv, TypeOK
<1>6. FinalTask(x) =
        [status |-> r.status, form |-> Left(r.status = "input-required", x, p.form, s.form),
         answer |-> IF text THEN s.answer ELSE Left(FALSE, x, p.answer, s.answer),
         state |-> Left(r.state /\ r.status # "failed", x, p.state, s.state)]
  BY DEF FinalTask
<1> DEFINE f == stored'[Of(x)]
<1>7. /\ f.status = r.status /\ f.form = Left(r.status = "input-required", x, p.form, s.form)
      /\ f.answer = IF text THEN s.answer ELSE Left(FALSE, x, p.answer, s.answer)
      /\ f.state = Left(r.state /\ r.status # "failed", x, p.state, s.state)
  BY <1>5, <1>6
<1> HIDE DEF f, r, p, s, text
<1>8. \A given : Left(given, x, p.form, s.form) = IF given THEN x ELSE IF p.form \in Turns THEN "empty" ELSE p.form
  BY <1>2 DEF Left
<1>9. f.form = IF r.status = "input-required" THEN x ELSE IF p.form \in Turns THEN "empty" ELSE p.form
  BY <1>7, <1>8
<1>10. f.answer = IF text THEN x ELSE IF p.answer \in Turns THEN "empty" ELSE p.answer
  BY <1>2, <1>7 DEF Left
<1>11. f.state \in {x, None, "empty"}
  BY <1>2, <1>3, <1>7 DEF Left, Content
<1>12. f.form \in {x, None, "empty"} /\ (f.form = x) = (f.status = "input-required")
  BY <1>3, <1>4, <1>7, <1>9 DEF Content
<1>13. f.answer \in {x, None, "empty"} /\ (f.answer = x) = text
  BY <1>1, <1>3, <1>4, <1>10 DEF Content
<1> QED  BY <1>7, <1>11, <1>12, <1>13 DEF f, r, text

LEMMA StepOwn == IInv /\ [Next]_vars => [OwnLeft]_vars
<1> SUFFICES ASSUME IInv, Next, NEW x \in Turns, turn[x].stage = "left", turn'[x].stage = "done"
             PROVE  Conclude(x)
  BY ConcludeOwn DEF OwnLeft
<1>1. turn \in [Turns -> Turn]
  BY DEF IInv, TypeOK, Turn
<1>2. ASSUME NEW y \in Turns, Begin(y)  PROVE FALSE
  BY <1>1, <1>2 DEF Begin, Turn, UnderWay, Of
<1>3. ASSUME NEW y \in Turns, NEW r \in Results, HandlerEnds(y, r)  PROVE FALSE
  BY <1>1, <1>3 DEF HandlerEnds, Turn
<1>4. ASSUME NEW y \in Turns, Finally(y)  PROVE FALSE
  BY <1>1, <1>4 DEF Finally, Turn
<1>5. ASSUME NEW t \in Tasks, Cancel(t)  PROVE FALSE
  BY <1>1, <1>5 DEF Cancel, Turn
<1>6. ASSUME Crash  PROVE FALSE
  BY <1>1, <1>6 DEF Crash, Turn
<1>7. ASSUME NEW y \in Turns, EmitText(y) \/ EmitProgress(y) \/ KeepaliveFires(y)  PROVE FALSE
  BY <1>7 DEF EmitText, EmitProgress, KeepaliveFires, Working
<1>8. ASSUME NEW t \in Tasks, CancelIdle(t)  PROVE FALSE
  BY <1>8 DEF CancelIdle
<1>9. ASSUME NEW y \in Turns, Conclude(y)  PROVE y = x
  BY <1>1, <1>9 DEF Conclude, Turn
<1> QED  BY <1>2, <1>3, <1>4, <1>5, <1>6, <1>7, <1>8, <1>9 DEF Next

(* A task whose turn ended shows what this turn gave: never the form, the  *)
(* answer or the state of an earlier one, cut off or not.                  *)
THEOREM LastTurnSafe == Spec => OnlyLastTurnShown
<1>1. Spec => [][OwnLeft]_vars
  BY StepOwn, Invariance, PTL DEF Spec, Safety
<1>2. [OwnLeft]_vars =>
        [\A x \in Turns : turn[x].stage = "left" /\ turn'[x].stage = "done" /\ ~turn[x].signal /\ turn[x].alone =>
           LET s == stored'[Of(x)] IN
             /\ s.status = turn[x].result.status
             /\ \A c \in {s.form, s.answer, s.state} : c \in {x, None, "empty"}
             /\ (s.form = x) = (s.status = "input-required")
             /\ (s.answer = x) = progress[x].text]_vars
  BY DEF OwnLeft
<1> QED  BY <1>1, <1>2, PTL DEF OnlyLastTurnShown

--------------------------------------------------------------------------------
(* The form of a stream.                                                   *)

Has(s, e) == \E i \in DOMAIN s : s[i] = e

(* A stream without an outcome so far.                                     *)
Growing(s) ==
  /\ NoOutcome(s)
  /\ AtMostOnce(s, {"task", "final-task"}) /\ Before(s, "task", "working") /\ Before(s, "task", "open")
  /\ AtMostOnce(s, {"open"}) /\ Before(s, "open", "append") /\ Before(s, "append", "last")
  /\ \A i, j \in DOMAIN s : s[i] = "last" /\ s[j] = "append" => j < i

WellFormed(s) ==
  /\ AtMostOnce(s, {"task", "final-task"}) /\ Before(s, "task", "working") /\ Before(s, "task", "open")
  /\ \A i \in DOMAIN s : s[i] \in Outcome => i = Len(s)
  /\ AtMostOnce(s, {"open"}) /\ Before(s, "open", "append") /\ Before(s, "append", "last")
  /\ \A i, j \in DOMAIN s : s[i] = "last" /\ s[j] = "append" => j < i
  /\ Contains(s, "append") /\ Contains(s, "final-status") => Contains(s, "last")

LEMMA OneMore ==
  ASSUME NEW s \in Seq(Event), NEW e \in Event
  PROVE  LET r == Append(s, e) IN
         /\ r \in Seq(Event) /\ r = s \o <<e>> /\ Len(r) = Len(s) + 1
         /\ DOMAIN r = 1 .. Len(s) + 1 /\ DOMAIN s = 1 .. Len(s) /\ Len(s) \in Nat
         /\ r[Len(s) + 1] = e /\ \A i \in DOMAIN s : r[i] = s[i]
         /\ \A f : Has(r, f) <=> Has(s, f) \/ f = e
<1>1. /\ Append(s, e) \in Seq(Event) /\ Len(Append(s, e)) = Len(s) + 1
      /\ DOMAIN Append(s, e) = 1 .. Len(s) + 1 /\ DOMAIN s = 1 .. Len(s) /\ Len(s) \in Nat
      /\ Append(s, e)[Len(s) + 1] = e /\ \A i \in DOMAIN s : Append(s, e)[i] = s[i]
  BY AppendProperties
<1>2. Append(s, e) = s \o <<e>>
  OBVIOUS
<1>3. \A f : Has(Append(s, e), f) <=> Has(s, f) \/ f = e
  BY <1>1 DEF Has
<1> QED  BY <1>1, <1>2, <1>3

LEMMA Grows ==
  ASSUME NEW s \in Seq(Event), Growing(s), NEW e \in Event \ Outcome,
         e = "task" => ~Has(s, "task"), e \in {"working", "open"} => Has(s, "task"), e = "open" => ~Has(s, "open"),
         e = "append" => Has(s, "open") /\ ~Has(s, "last"), e = "last" => Has(s, "append")
  PROVE  Growing(Append(s, e))
<1> DEFINE r == Append(s, e)
<1>1. /\ r \in Seq(Event) /\ DOMAIN r = 1 .. Len(s) + 1 /\ DOMAIN s = 1 .. Len(s) /\ Len(s) \in Nat
      /\ r[Len(s) + 1] = e /\ \A i \in DOMAIN s : r[i] = s[i]
  BY OneMore
<1> HIDE DEF r
<1>2. NoOutcome(r)
  BY <1>1 DEF Growing, NoOutcome
<1>3. ASSUME NEW a, NEW b, Before(s, a, b), e = b => Has(s, a)  PROVE Before(r, a, b)
  BY <1>1, <1>3 DEF Before, Has
<1>4. Before(r, "task", "working") /\ Before(r, "task", "open") /\ Before(r, "open", "append") /\ Before(r, "append", "last")
  BY <1>3 DEF Growing
<1>5. ASSUME NEW S, AtMostOnce(s, S), e \in S => \A i \in DOMAIN s : s[i] \notin S  PROVE AtMostOnce(r, S)
  BY <1>1, <1>5 DEF AtMostOnce
<1>6. e \in {"task", "final-task"} => \A i \in DOMAIN s : s[i] \notin {"task", "final-task"}
  BY DEF Growing, NoOutcome, Outcome, Has
<1>7. e \in {"open"} => \A i \in DOMAIN s : s[i] \notin {"open"}
  BY DEF Has
<1>8. AtMostOnce(r, {"task", "final-task"}) /\ AtMostOnce(r, {"open"})
  BY <1>5, <1>6, <1>7 DEF Growing
<1>9. \A i, j \in DOMAIN r : r[i] = "last" /\ r[j] = "append" => j < i
  BY <1>1 DEF Growing, Has
<1> QED  BY <1>2, <1>4, <1>8, <1>9 DEF Growing, r

LEMMA More ==
  ASSUME NEW s \in Seq(Event), Growing(s), NEW e \in Event \ Outcome,
         e = "task" => ~Has(s, "task"), e \in {"working", "open"} => Has(s, "task"), e = "open" => ~Has(s, "open"),
         e = "append" => Has(s, "open") /\ ~Has(s, "last"), e = "last" => Has(s, "append")
  PROVE  Append(s, e) \in Seq(Event) /\ Growing(Append(s, e)) /\ \A f : Has(Append(s, e), f) <=> Has(s, f) \/ f = e
BY OneMore, Grows

LEMMA Open ==
  ASSUME NEW s \in Seq(Event), Growing(s)
  PROVE  WellFormed(s)
<1>1. ~Contains(s, "final-status")
  BY DEF Growing, NoOutcome, Outcome, Contains
<1> QED  BY <1>1 DEF Growing, NoOutcome, WellFormed

LEMMA Closes ==
  ASSUME NEW s \in Seq(Event), Growing(s), NEW e \in Outcome,
         e = "final-task" => ~Has(s, "task"), e = "final-status" => (Has(s, "append") => Has(s, "last"))
  PROVE  WellFormed(Append(s, e))
<1> DEFINE r == Append(s, e)
<1>1. /\ r \in Seq(Event) /\ Len(r) = Len(s) + 1 /\ DOMAIN r = 1 .. Len(s) + 1 /\ DOMAIN s = 1 .. Len(s) /\ Len(s) \in Nat
      /\ r[Len(s) + 1] = e /\ (\A i \in DOMAIN s : r[i] = s[i]) /\ \A f : Has(r, f) <=> Has(s, f) \/ f = e
  BY OneMore DEF Event
<1> HIDE DEF r
<1>2. e \notin {"task", "working", "open", "append", "last"}
  BY DEF Outcome
<1>3. \A i \in DOMAIN r : r[i] \in Outcome => i = Len(r)
  BY <1>1 DEF Growing, NoOutcome
<1>4. ASSUME NEW a, NEW b, Before(s, a, b), e # b  PROVE Before(r, a, b)
  BY <1>1, <1>4 DEF Before
<1>5. Before(r, "task", "working") /\ Before(r, "task", "open") /\ Before(r, "open", "append") /\ Before(r, "append", "last")
  BY <1>2, <1>4 DEF Growing
<1>6. ASSUME NEW S, AtMostOnce(s, S), e \in S => \A i \in DOMAIN s : s[i] \notin S  PROVE AtMostOnce(r, S)
  BY <1>1, <1>6 DEF AtMostOnce
<1>7. e \in {"task", "final-task"} => \A i \in DOMAIN s : s[i] \notin {"task", "final-task"}
  BY <1>2 DEF Growing, NoOutcome, Outcome, Has
<1>8. AtMostOnce(r, {"task", "final-task"}) /\ AtMostOnce(r, {"open"})
  BY <1>2, <1>6, <1>7 DEF Growing
<1>9. \A i, j \in DOMAIN r : r[i] = "last" /\ r[j] = "append" => j < i
  BY <1>1, <1>2 DEF Growing
<1>10. Contains(r, "append") /\ Contains(r, "final-status") => Contains(r, "last")
  <2>1. \A f : Contains(r, f) <=> Has(r, f)
    BY <1>1 DEF Contains, Has
  <2>2. ~Has(s, "final-status")
    BY DEF Growing, NoOutcome, Outcome, Has
  <2> QED  BY <1>1, <1>2, <2>1, <2>2
<1> QED  BY <1>3, <1>5, <1>8, <1>9, <1>10 DEF WellFormed, r

(* What a turn that may go on has published, and what one that has ended.  *)
GoesOn(s, p) ==
  /\ Growing(s) /\ ~Has(s, "finished") /\ ~Has(s, "last")
  /\ p.working <=> Has(s, "task")
  /\ p.text <=> Has(s, "open")
  /\ p.text <=> Has(s, "append")

(* What was published up to the first "finished" is what was delivered.    *)
FirstEnd(s, k) == k \in DOMAIN s /\ s[k] = "finished" /\ \A j \in DOMAIN s : s[j] = "finished" => k <= j
Over(s) == \E k \in DOMAIN s : FirstEnd(s, k) /\ WellFormed(SubSeq(s, 1, k - 1))

LEMMA StaysOver ==
  ASSUME NEW s \in Seq(Event), NEW t \in Seq(Event), Over(s)
  PROVE  Over(s \o t)
<1> PICK k \in DOMAIN s : FirstEnd(s, k) /\ WellFormed(SubSeq(s, 1, k - 1))
  BY DEF Over
<1> DEFINE r == s \o t
<1>1. /\ r \in Seq(Event) /\ Len(r) = Len(s) + Len(t) /\ DOMAIN r = 1 .. Len(s) + Len(t)
      /\ DOMAIN s = 1 .. Len(s) /\ Len(s) \in Nat /\ Len(t) \in Nat /\ \A i \in DOMAIN s : r[i] = s[i]
  BY ConcatProperties
<1> HIDE DEF r
<1>2. k \in DOMAIN r /\ FirstEnd(r, k)
  BY <1>1 DEF FirstEnd
<1>3. SubSeq(r, 1, k - 1) = SubSeq(s, 1, k - 1)
  <2>1. CASE k = 1
    <3>1. SubSeq(r, 1, 0) = <<>> /\ SubSeq(s, 1, 0) = <<>>
      BY <1>1
    <3> QED  BY <2>1, <3>1
  <2>2. CASE k # 1
    <3>1. 1 \in 1 .. Len(s) /\ k - 1 \in 1 .. Len(s)
      BY <1>1, <2>2
    <3> QED  BY <3>1, SubSeqOfConcat1 DEF r
  <2> QED  BY <2>1, <2>2
<1>4. WellFormed(SubSeq(r, 1, k - 1))
  BY <1>3
<1>5. Over(r)
  BY <1>2, <1>4 DEF Over
<1> QED  BY <1>5 DEF r

LEMMA Ends ==
  ASSUME NEW s \in Seq(Event), ~Has(s, "finished"), WellFormed(s)
  PROVE  Append(s, "finished") \in Seq(Event) /\ Over(Append(s, "finished"))
<1> DEFINE r == Append(s, "finished")
<1>1. "finished" \in Event
  BY DEF Event
<1>2. /\ r \in Seq(Event) /\ Len(r) = Len(s) + 1 /\ DOMAIN r = 1 .. Len(s) + 1 /\ DOMAIN s = 1 .. Len(s)
      /\ Len(s) \in Nat /\ r[Len(s) + 1] = "finished" /\ \A i \in DOMAIN s : r[i] = s[i]
  BY <1>1, OneMore
<1> HIDE DEF r
<1>3. \A j \in DOMAIN r : r[j] = "finished" => Len(s) + 1 <= j
  BY <1>2 DEF Has
<1>4. Len(s) + 1 \in DOMAIN r /\ FirstEnd(r, Len(s) + 1)
  BY <1>2, <1>3 DEF FirstEnd
<1>5. SubSeq(r, 1, (Len(s) + 1) - 1) = s
  BY <1>2
<1>6. WellFormed(SubSeq(r, 1, (Len(s) + 1) - 1))
  BY <1>5
<1>7. Over(r)
  BY <1>4, <1>6 DEF Over
<1> QED  BY <1>2, <1>7 DEF r

LEMMA DeliveredOver ==
  ASSUME NEW x \in Turns, events[x] \in Seq(Event), Over(events[x])
  PROVE  WellFormed(Delivered(x))
<1> DEFINE F == {i \in DOMAIN events[x] : events[x][i] = "finished"}
<1> PICK k \in DOMAIN events[x] : FirstEnd(events[x], k) /\ WellFormed(SubSeq(events[x], 1, k - 1))
  BY DEF Over
<1>1. k \in F /\ (\A j \in F : k <= j) /\ F \subseteq Nat
  BY DEF FirstEnd
<1>2. (CHOOSE i \in F : \A j \in F : i <= j) = k
  BY <1>1
<1>3. Delivered(x) = SubSeq(events[x], 1, k - 1)
  BY <1>1, <1>2 DEF Delivered
<1> QED  BY <1>3

LEMMA DeliveredOpen ==
  ASSUME NEW x \in Turns, events[x] \in Seq(Event), Growing(events[x]), ~Has(events[x], "finished")
  PROVE  WellFormed(Delivered(x))
<1>1. Delivered(x) = events[x]
  BY DEF Delivered, Has
<1> QED  BY <1>1, Open


(* A publication of several events, one by one.                            *)
LEMMA Pair ==
  ASSUME NEW e \in Event, NEW f \in Event
  PROVE  <<e>> \in Seq(Event) /\ <<f>> \in Seq(Event) /\ <<e, f>> = <<e>> \o <<f>>
<1> DEFINE r == <<e>> \o <<f>>
           t == <<e, f>>
<1>1. <<e>> \in Seq(Event) /\ Len(<<e>>) = 1 /\ <<e>>[1] = e /\ <<f>> \in Seq(Event) /\ Len(<<f>>) = 1 /\ <<f>>[1] = f
  OBVIOUS
<1>2. r \in Seq(Event) /\ Len(r) = 2 /\ r[1] = e /\ r[2] = f
  BY <1>1, ConcatProperties
<1>3. t \in Seq(Event) /\ Len(t) = 2 /\ t[1] = e /\ t[2] = f
  OBVIOUS
<1> HIDE DEF r, t
<1>4. \A i \in 1 .. 2 : r[i] = t[i]
  BY <1>2, <1>3
<1>5. r = t
  BY <1>2, <1>3, <1>4, SeqEqual
<1> QED  BY <1>1, <1>5 DEF r, t

LEMMA Joins ==
  ASSUME NEW s \in Seq(Event)
  PROVE  /\ s \o <<>> = s
         /\ \A e \in Event : s \o <<e>> = Append(s, e)
         /\ \A e, f \in Event : s \o <<e, f>> = Append(Append(s, e), f)
         /\ \A a, b \in Seq(Event) : s \o (a \o b) = (s \o a) \o b
<1>1. s \o <<>> = s
  BY ConcatEmptySeq
<1>2. \A e \in Event : s \o <<e>> = Append(s, e)
  BY AppendIsConcat
<1>3. \A a, b \in Seq(Event) : s \o (a \o b) = (s \o a) \o b
  BY ConcatAssociative
<1>4. ASSUME NEW e \in Event, NEW f \in Event  PROVE s \o <<e, f>> = Append(Append(s, e), f)
  <2>1. <<e>> \in Seq(Event) /\ <<f>> \in Seq(Event) /\ <<e, f>> = <<e>> \o <<f>>
    BY Pair
  <2>2. Append(s, e) \in Seq(Event)
    BY OneMore
  <2> QED  BY <1>2, <1>3, <2>1, <2>2, AppendIsConcat
<1> QED  BY <1>1, <1>2, <1>3, <1>4

LEMMA GoesOnText ==
  ASSUME NEW s \in Seq(Event), NEW p \in Progress, NEW q \in Progress, GoesOn(s, p), q.working, q.text,
         NEW a, a = IF p.working THEN <<>> ELSE <<"task">>,
         NEW b, b = IF p.text THEN <<"append">> ELSE <<"open", "append">>
  PROVE  GoesOn(s \o (a \o b), q)
<1> DEFINE s1 == IF p.working THEN s ELSE Append(s, "task")
           s2 == IF p.text THEN s1 ELSE Append(s1, "open")
           s3 == Append(s2, "append")
<1>1. {"task", "open", "append"} \subseteq Event \ Outcome
  BY DEF Event, Outcome
<1>2. /\ s1 \in Seq(Event) /\ Growing(s1) /\ Has(s1, "task") /\ ~Has(s1, "finished") /\ ~Has(s1, "last")
      /\ \A f \in {"open", "append"} : Has(s1, f) <=> p.text
  BY <1>1, More DEF GoesOn
<1>3. s2 \in Seq(Event) /\ Growing(s2) /\ Has(s2, "task") /\ Has(s2, "open") /\ ~Has(s2, "finished") /\ ~Has(s2, "last")
  <2> HIDE DEF s1
  <2> QED  BY <1>1, <1>2, More
<1>4. /\ s3 \in Seq(Event) /\ Growing(s3) /\ Has(s3, "task") /\ Has(s3, "open") /\ Has(s3, "append")
      /\ ~Has(s3, "finished") /\ ~Has(s3, "last")
  <2> HIDE DEF s2
  <2> QED  BY <1>1, <1>3, More
<1>5. GoesOn(s3, q)
  <2> HIDE DEF s3
  <2> QED  BY <1>4 DEF GoesOn, Progress
<1>6. a \in Seq(Event) /\ b \in Seq(Event)
  BY <1>1
<1>7. s \o a = s1
  BY <1>1, Joins
<1>8. s1 \o b = s3
  <2> HIDE DEF s1
  <2> QED  BY <1>1, <1>2, Joins
<1>9. s \o (a \o b) = s3
  <2> HIDE DEF s1, s3
  <2> QED  BY <1>6, <1>7, <1>8, Joins
<1> HIDE DEF s3
<1> QED  BY <1>5, <1>9

LEMMA GoesOnWorking ==
  ASSUME NEW s \in Seq(Event), NEW p \in Progress, NEW q \in Progress, GoesOn(s, p), q.working, q.text = p.text,
         NEW a, a = IF p.working THEN <<>> ELSE <<"task">>
  PROVE  GoesOn(s \o (a \o <<"working">>), q)
<1> DEFINE s1 == IF p.working THEN s ELSE Append(s, "task")
           s2 == Append(s1, "working")
<1>1. {"task", "working"} \subseteq Event \ Outcome
  BY DEF Event, Outcome
<1>2. /\ s1 \in Seq(Event) /\ Growing(s1) /\ Has(s1, "task") /\ ~Has(s1, "finished") /\ ~Has(s1, "last")
      /\ \A f \in {"open", "append"} : Has(s1, f) <=> p.text
  BY <1>1, More DEF GoesOn
<1>3. /\ s2 \in Seq(Event) /\ Growing(s2) /\ Has(s2, "task") /\ ~Has(s2, "finished") /\ ~Has(s2, "last")
      /\ \A f \in {"open", "append"} : Has(s2, f) <=> p.text
  <2> HIDE DEF s1
  <2> QED  BY <1>1, <1>2, More
<1>4. GoesOn(s2, q)
  <2> HIDE DEF s2
  <2> QED  BY <1>3 DEF GoesOn, Progress
<1>5. a \in Seq(Event) /\ <<"working">> \in Seq(Event) /\ s \o a = s1
  BY <1>1, Joins
<1>6. s1 \o <<"working">> = s2
  <2> HIDE DEF s1
  <2> QED  BY <1>1, <1>2, Joins
<1>7. s \o (a \o <<"working">>) = s2
  <2> HIDE DEF s1, s2
  <2> QED  BY <1>5, <1>6, Joins
<1> HIDE DEF s2
<1> QED  BY <1>4, <1>7

(* The end of a turn that was not cancelled.                               *)
LEMMA Concludes ==
  ASSUME NEW s \in Seq(Event), NEW p \in Progress, GoesOn(s, p),
         NEW a, a = IF p.text THEN <<"last">> ELSE <<>>,
         NEW b, b = IF p.working THEN <<"artifact", "final-status">> ELSE <<"final-task">>
  PROVE  Over(s \o ((a \o b) \o <<"finished">>))
<1> DEFINE s1 == IF p.text THEN Append(s, "last") ELSE s
           s2 == IF p.working THEN Append(s1, "artifact") ELSE s1
           outcome == IF p.working THEN "final-status" ELSE "final-task"
           s3 == Append(s2, outcome)
           s4 == Append(s3, "finished")
<1>1. /\ {"last", "artifact"} \subseteq Event \ Outcome /\ outcome \in Outcome
      /\ {"last", "artifact", "finished", "final-status", "final-task"} \subseteq Event /\ outcome # "finished"
  BY DEF Event, Outcome
<1>2. /\ s1 \in Seq(Event) /\ Growing(s1) /\ ~Has(s1, "finished") /\ (p.working <=> Has(s1, "task"))
      /\ Has(s1, "append") => Has(s1, "last")
  BY <1>1, More DEF GoesOn
<1>3. /\ s2 \in Seq(Event) /\ Growing(s2) /\ ~Has(s2, "finished") /\ (p.working <=> Has(s2, "task"))
      /\ Has(s2, "append") => Has(s2, "last")
  <2> HIDE DEF s1
  <2> QED  BY <1>1, <1>2, More
<1>4. s3 \in Seq(Event) /\ WellFormed(s3) /\ ~Has(s3, "finished")
  <2>1. outcome = "final-task" => ~p.working
    OBVIOUS
  <2> HIDE DEF s2, outcome
  <2>2. outcome \in Event
    BY <1>1 DEF Event
  <2> QED  BY <1>1, <1>3, <2>1, <2>2, OneMore, Closes
<1>5. Over(s4)
  <2> HIDE DEF s3
  <2> QED  BY <1>4, Ends
<1>6. a \in Seq(Event) /\ b \in Seq(Event) /\ <<"finished">> \in Seq(Event) /\ a \o b \in Seq(Event)
  BY <1>1
<1>7. s \o a = s1
  BY <1>1, Joins
<1>8. s1 \o b = s3
  <2> HIDE DEF s1
  <2> QED  BY <1>1, <1>2, Joins
<1>9. s \o (a \o b) = s3
  <2> HIDE DEF s1, s3
  <2> QED  BY <1>6, <1>7, <1>8, Joins
<1>10. s \o ((a \o b) \o <<"finished">>) = s4
  <2> HIDE DEF s3
  <2>1. s \o ((a \o b) \o <<"finished">>) = (s \o (a \o b)) \o <<"finished">>
    BY <1>6, Joins
  <2>2. s3 \o <<"finished">> = Append(s3, "finished")
    BY <1>1, <1>4, Joins
  <2> QED  BY <1>9, <2>1, <2>2
<1> HIDE DEF s4
<1> QED  BY <1>5, <1>10

(* The end of a cancelled one, and a cancellation.                         *)
LEMMA Stops ==
  ASSUME NEW s \in Seq(Event), NEW p, GoesOn(s, p)
  PROVE  Over(s \o <<"finished">>) /\ Over(s \o <<"canceled", "finished">>)
<1>1. "canceled" \in Outcome /\ {"canceled", "finished"} \subseteq Event
  BY DEF Event, Outcome
<1>2. Growing(s) /\ ~Has(s, "finished")
  BY DEF GoesOn
<1>3. Over(Append(s, "finished"))
  BY <1>2, Open, Ends
<1>4. Append(s, "canceled") \in Seq(Event) /\ WellFormed(Append(s, "canceled")) /\ ~Has(Append(s, "canceled"), "finished")
  BY <1>1, <1>2, OneMore, Closes
<1>5. Over(Append(Append(s, "canceled"), "finished"))
  BY <1>4, Ends
<1> QED  BY <1>1, <1>3, <1>5, Joins

--------------------------------------------------------------------------------
(* The stream of a turn, in every step.                                    *)

StreamOf(x) ==
  \/ GoesOn(events[x], progress[x]) /\ turn[x].stage # "done"
  \/ Over(events[x])

StreamInv == \A x \in Turns : StreamOf(x)

LEMMA InitStream == Init => StreamInv
<1> SUFFICES ASSUME Init, NEW x \in Turns  PROVE StreamOf(x)
  BY DEF StreamInv
<1>1. events[x] = <<>> /\ ~progress[x].working /\ ~progress[x].text
  BY DEF Init
<1>2. turn[x].stage = "new"
  BY DEF Init
<1>3. GoesOn(<<>>, progress[x])
  BY <1>1 DEF GoesOn, Growing, NoOutcome, AtMostOnce, Before, Has
<1> QED  BY <1>1, <1>2, <1>3 DEF StreamOf

LEMMA Untouched ==
  ASSUME NEW x \in Turns, StreamOf(x), events'[x] = events[x],
         progress'[x].working = progress[x].working, progress'[x].text = progress[x].text,
         turn'[x].stage = "done" => turn[x].stage = "done"
  PROVE  StreamOf(x)'
BY DEF StreamOf, GoesOn

(* A report of a turn, also one that comes after its end.                  *)
LEMMA ReportStream ==
  ASSUME IInv, StreamInv, NEW x \in Turns, EmitText(x) \/ EmitProgress(x) \/ KeepaliveFires(x)
  PROVE  StreamInv'
<1>1. progress \in [Turns -> Progress] /\ events \in [Turns -> Seq(Event)]
  BY DEF IInv, TypeOK, Progress
<1>2. progress[x] \in Progress /\ events[x] \in Seq(Event)
  BY <1>1
<1>3. UNCHANGED turn
  BY DEF EmitText, EmitProgress, KeepaliveFires, Working
<1>4. \A y \in Turns : y # x => events'[y] = events[y] /\ progress'[y] = progress[y]
  BY <1>1 DEF EmitText, EmitProgress, KeepaliveFires, Working, Publish
<1>5. Armed(x) \in BOOLEAN
  BY <1>2 DEF Armed, Progress
<1>6. StreamOf(x)'
  <2>1. CASE EmitText(x)
    <3> DEFINE q == [progress[x] EXCEPT !.working = TRUE, !.text = TRUE, !.timer = Armed(x)]
               t == Started(x) \o Chunk(x)
    <3>1. q \in Progress /\ q.working /\ q.text
      BY <1>2, <1>5 DEF Progress
    <3>2. progress'[x] = q /\ events'[x] = events[x] \o t
      BY <1>1, <2>1 DEF EmitText, Publish, Progress
    <3>3. t \in Seq(Event)
      <4>1. Started(x) \in Seq(Event) /\ Chunk(x) \in Seq(Event)
        BY Reports DEF Started, Chunk
      <4> QED  BY <4>1, ConcatProperties
    <3>4. CASE GoesOn(events[x], progress[x]) /\ turn[x].stage # "done"
      <4>1. GoesOn(events[x] \o t, q)
        <5> HIDE DEF q
        <5> QED  BY <1>2, <3>1, <3>4, GoesOnText DEF Started, Chunk
      <4> HIDE DEF q, t
      <4> QED  BY <1>3, <3>2, <3>4, <4>1 DEF StreamOf
    <3>5. CASE Over(events[x])
      <4> HIDE DEF q, t
      <4>1. Over(events[x] \o t)
        BY <1>2, <3>3, <3>5, StaysOver
      <4> QED  BY <3>2, <4>1 DEF StreamOf
    <3> QED  BY <3>4, <3>5 DEF StreamInv, StreamOf
  <2>2. CASE EmitProgress(x) \/ KeepaliveFires(x)
    <3> DEFINE q == [progress[x] EXCEPT !.working = TRUE, !.timer = Armed(x)]
               t == Started(x) \o <<"working">>
    <3>1. q \in Progress /\ q.working /\ q.text = progress[x].text
      BY <1>2, <1>5 DEF Progress
    <3>2. progress'[x] = q /\ events'[x] = events[x] \o t
      BY <1>1, <2>2 DEF EmitProgress, KeepaliveFires, Working, Publish, Progress
    <3>3. t \in Seq(Event)
      <4>1. Started(x) \in Seq(Event) /\ <<"working">> \in Seq(Event)
        BY Reports DEF Started
      <4> QED  BY <4>1, ConcatProperties
    <3>4. CASE GoesOn(events[x], progress[x]) /\ turn[x].stage # "done"
      <4>1. GoesOn(events[x] \o t, q)
        <5> HIDE DEF q
        <5> QED  BY <1>2, <3>1, <3>4, GoesOnWorking DEF Started
      <4> HIDE DEF q, t
      <4> QED  BY <1>3, <3>2, <3>4, <4>1 DEF StreamOf
    <3>5. CASE Over(events[x])
      <4> HIDE DEF q, t
      <4>1. Over(events[x] \o t)
        BY <1>2, <3>3, <3>5, StaysOver
      <4> QED  BY <3>2, <4>1 DEF StreamOf
    <3> QED  BY <3>4, <3>5 DEF StreamInv, StreamOf
  <2> QED  BY <2>1, <2>2
<1>7. ASSUME NEW y \in Turns, y # x  PROVE StreamOf(y)'
  BY <1>3, <1>4, <1>7, Untouched DEF StreamInv
<1> QED  BY <1>6, <1>7 DEF StreamInv

(* The end of a turn: its outcome, or nothing more when it was cancelled.  *)
LEMMA ConcludeStream ==
  ASSUME IInv, StreamInv, NEW x \in Turns, Conclude(x)
  PROVE  StreamInv'
<1>1. progress[x] \in Progress /\ events[x] \in Seq(Event) /\ events \in [Turns -> Seq(Event)] /\ turn \in [Turns -> Turn]
  BY DEF IInv, TypeOK, Progress, Turn
<1>2. UNCHANGED progress /\ \A y \in Turns : y # x => events'[y] = events[y] /\ turn'[y] = turn[y]
  BY <1>1 DEF Conclude, Publish
<1> DEFINE t == FinalEvents(x) \o <<"finished">>
<1>3. events'[x] = events[x] \o <<"finished">> \/ events'[x] = events[x] \o t
  BY <1>1 DEF Conclude, Publish
<1>4. <<"finished">> \in Seq(Event) /\ t \in Seq(Event)
  <2>1. <<>> \in Seq(Event) /\ <<"last">> \in Seq(Event) /\ <<"finished">> \in Seq(Event)
    BY Reports
  <2>2. <<"artifact", "final-status">> \in Seq(Event) /\ <<"final-task">> \in Seq(Event)
    BY DEF Event, Outcome
  <2>3. FinalEvents(x) \in Seq(Event)
    BY <2>1, <2>2, ConcatProperties DEF FinalEvents
  <2> QED  BY <2>1, <2>3, ConcatProperties
<1>5. CASE Over(events[x])
  <2> HIDE DEF t
  <2>1. Over(events[x] \o <<"finished">>) /\ Over(events[x] \o t)
    BY <1>1, <1>4, <1>5, StaysOver
  <2>2. StreamOf(x)'
    BY <1>3, <2>1 DEF StreamOf
  <2> QED  BY <1>2, <2>2, Untouched DEF StreamInv
<1>6. CASE GoesOn(events[x], progress[x])
  <2>1. Over(events[x] \o <<"finished">>)
    BY <1>1, <1>6, Stops
  <2>2. Over(events[x] \o t)
    BY <1>1, <1>6, Concludes DEF FinalEvents
  <2> HIDE DEF t
  <2>3. StreamOf(x)'
    BY <1>3, <2>1, <2>2 DEF StreamOf
  <2> QED  BY <1>2, <2>3, Untouched DEF StreamInv
<1> QED  BY <1>5, <1>6 DEF StreamInv, StreamOf

LEMMA CancelStream ==
  ASSUME IInv, StreamInv, NEW t \in Tasks, Cancel(t)
  PROVE  StreamInv'
<1> DEFINE cut == <<"canceled", "finished">>
<1> PICK x \in Turns : x = running[t]
  BY DEF Cancel, IInv, TypeOK
<1>1. events[x] \in Seq(Event) /\ progress \in [Turns -> Progress] /\ turn \in [Turns -> Turn] /\ cut \in Seq(Event)
  BY DEF IInv, TypeOK, Progress, Turn, Event, Outcome
<1>2. events'[x] = events[x] \o cut /\ \A y \in Turns : y # x => events'[y] = events[y]
  BY DEF Cancel, Publish, IInv, TypeOK
<1>3. \A y \in Turns : turn'[y].stage = turn[y].stage /\ (y # x => progress'[y] = progress[y])
  BY <1>1 DEF Cancel, Turn
<1>4. CASE Over(events[x])
  <2> HIDE DEF cut
  <2>1. Over(events[x] \o cut)
    BY <1>1, <1>4, StaysOver
  <2>2. StreamOf(x)'
    BY <1>2, <2>1 DEF StreamOf
  <2> QED  BY <1>2, <1>3, <2>2, Untouched DEF StreamInv
<1>5. CASE GoesOn(events[x], progress[x])
  <2>1. Over(events[x] \o cut)
    BY <1>1, <1>5, Stops
  <2> HIDE DEF cut
  <2>2. StreamOf(x)'
    BY <1>2, <2>1 DEF StreamOf
  <2> QED  BY <1>2, <1>3, <2>2, Untouched DEF StreamInv
<1> QED  BY <1>4, <1>5 DEF StreamInv, StreamOf

(* The steps that publish nothing.                                         *)
LEMMA SilentStream ==
  ASSUME IInv, StreamInv,
         \/ \E x \in Turns : Begin(x) \/ Finally(x) \/ \E r \in Results : HandlerEnds(x, r)
         \/ \E t \in Tasks : CancelIdle(t)
         \/ Crash \/ UNCHANGED vars
  PROVE  StreamInv'
<1>1. turn \in [Turns -> Turn] /\ progress \in [Turns -> Progress]
  BY DEF IInv, TypeOK, Turn, Progress
<1> SUFFICES ASSUME NEW y \in Turns
             PROVE  /\ events'[y] = events[y]
                    /\ progress'[y].working = progress[y].working /\ progress'[y].text = progress[y].text
                    /\ turn'[y].stage = "done" => turn[y].stage = "done"
  BY Untouched DEF StreamInv
<1>2. turn[y] \in Turn /\ progress[y] \in Progress
  BY <1>1
<1>3. ASSUME NEW x \in Turns, Begin(x)
      PROVE  /\ UNCHANGED events
             /\ progress'[y].working = progress[y].working /\ progress'[y].text = progress[y].text
             /\ turn'[y].stage = "done" => turn[y].stage = "done"
  <2>1. progress'[y].working = progress[y].working /\ progress'[y].text = progress[y].text
    BY <1>1, <1>3 DEF Begin, Progress
  <2>2. CASE y = x
    BY <1>2, <1>3, <2>1, <2>2 DEF Begin, Turn
  <2>3. CASE y # x
    BY <1>2, <1>3, <2>1, <2>3 DEF Begin, Turn
  <2> QED  BY <2>2, <2>3
<1>4. ASSUME NEW x \in Turns, Finally(x)
      PROVE  /\ UNCHANGED events
             /\ progress'[y].working = progress[y].working /\ progress'[y].text = progress[y].text
             /\ turn'[y].stage = "done" => turn[y].stage = "done"
  BY <1>1, <1>4 DEF Finally, KeepaliveStopped, Turn, Progress
<1>5. ASSUME NEW x \in Turns, NEW r \in Results, HandlerEnds(x, r)
      PROVE  UNCHANGED <<events, progress>> /\ (turn'[y].stage = "done" => turn[y].stage = "done")
  BY <1>1, <1>5 DEF HandlerEnds, Turn
<1>6. ASSUME Crash
      PROVE  /\ UNCHANGED events
             /\ progress'[y].working = progress[y].working /\ progress'[y].text = progress[y].text
             /\ turn'[y].stage = "done" => turn[y].stage = "done"
  BY <1>2, <1>6 DEF Crash, KeepaliveStopped, Turn, Progress
<1>7. ASSUME (\E t \in Tasks : CancelIdle(t)) \/ UNCHANGED vars  PROVE UNCHANGED <<events, progress, turn>>
  BY <1>7 DEF CancelIdle, vars
<1> QED  BY <1>3, <1>4, <1>5, <1>6, <1>7

LEMMA NextStream == IInv /\ StreamInv /\ [Next]_vars => StreamInv'
BY ReportStream, ConcludeStream, CancelStream, SilentStream DEF Next

LEMMA StreamsFormed == IInv /\ StreamInv => StreamWellFormed
<1> SUFFICES ASSUME IInv, StreamInv, NEW x \in Turns  PROVE WellFormed(Delivered(x))
  BY DEF StreamWellFormed, WellFormed
<1>1. events[x] \in Seq(Event) /\ StreamOf(x)
  BY DEF IInv, TypeOK, StreamInv
<1> QED  BY <1>1, DeliveredOver, DeliveredOpen DEF StreamOf, GoesOn

(* Whatever is published, cancelled or cut, and whenever a handler reports *)
(* late: a subscriber receives a well formed stream, of a turn that is     *)
(* reported as long as it runs.                                            *)
THEOREM StreamsSafe == Spec => []TurnWellFormed
<1>1. Spec => [](IInv /\ StreamInv)
  BY InitInv, InitStream, NextInv, NextStream, Invariance, PTL DEF Spec, Safety
<1>2. IInv /\ StreamInv => TurnWellFormed
  BY StreamsFormed DEF IInv, TurnWellFormed
<1> QED  BY <1>1, <1>2, PTL
================================================================================
