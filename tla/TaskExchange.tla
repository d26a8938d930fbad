------------------------------ MODULE TaskExchange ------------------------------
(***************************************************************************)
(* What a turn says, from the request of an orchestrator to the answer its *)
(* relay reads: buildParams() and parseA2AMessage(), the negotiation of    *)
(* the output (output-modes.ts), the task that toTask() builds and         *)
(* finalTaskEvents() publishes, drainStream() and extract.ts of the relay  *)
(* (packages/ts-host/src).                                                 *)
(*                                                                         *)
(* External: the SDK of the agent, which applies the published events to   *)
(* the stored task one by one, artifacts by id and metadata by key, and    *)
(* passes them on to a caller that streams; a caller that does not is      *)
(* given the stored task.  The turns follow each other and one may be cut  *)
(* at any point; their cancellation is in TurnExecution.  Texts and        *)
(* surfaces are named by the turn that gave them.                          *)
(***************************************************************************)
EXTENDS Selection, SequencesExt

CONSTANTS
  Requests,       \* [catalogs, modes : sequences, action, confirm, data : what they are, or None]
  AgentCatalogs, AgentModes, PlainText,
  Results,        \* [status, message, state : what it has, a2ui, followup : sequences of
                  \* surfaces [name, catalog : or None, id : or None]]
  None,
  MaxTurns,       \* a bound: the turns of the task
  MaxDeltas       \* a bound: the deltas of a turn

VARIABLES
  legacyCompat,   (* the form is also copied to an artifact: the option of the running host *)
  turn,           (* the turn under way: its request, what its handler was given and gave  *)
  bus,            (* the events published that the SDK has not yet applied                 *)
  stored,         (* the task in the store                                                 *)
  relay,          (* the caller: the task it accumulated, the deltas it forwarded          *)
  answer,         (* what the caller returned, or None                                     *)
  kept            (* (history) the state the last complete turn left; a turn was cut while *)
                  (* its final events were being applied                                   *)

exchangeVars == <<legacyCompat, turn, bus, stored, relay, answer, kept>>

(* The artifacts: a2ui-<taskId>, answer-<taskId>, and the result of a turn, *)
(* under an id of its own.                                                 *)
Form == <<"form", 0>>
Answer == <<"answer", 0>>
ResultOf(n) == <<"result", n>>
Artifacts == <<Form, Answer>> \o [n \in 1 .. MaxTurns |-> ResultOf(n)]

Terminal == {"completed", "failed"}
Null == 0                                       \* a state that was cleared; turns count from 1

(* A part of a message or of an artifact.                                  *)
Text(t) == [case |-> "text", value |-> t]
Data(a2ui) == [case |-> "data", value |-> a2ui]

NoArtifacts == [a \in {} |-> <<>>]
NoTask == [status |-> "none", message |-> <<>>, state |-> None, artifacts |-> NoArtifacts]

Idle(n) == [n |-> n, stage |-> "idle", request |-> None, streams |-> FALSE, input |-> None, prior |-> NoTask,
            started |-> FALSE, deltas |-> <<>>, result |-> None]

ExchangeInit ==
  /\ legacyCompat \in BOOLEAN
  /\ turn = Idle(0)
  /\ bus = <<>> /\ stored = NoTask
  /\ relay = [task |-> NoTask, deltas |-> <<>>] /\ answer = None
  /\ kept = [state |-> None, cut |-> FALSE]

--------------------------------------------------------------------------------
(* The negotiation.                                                        *)

NegotiateText(modes) ==
  LET common == {i \in DOMAIN modes : modes[i] \in AgentModes} IN
    IF common = {} THEN PlainText ELSE modes[Min(common)]

NegotiateCatalogs(catalogs) == Pick(catalogs, {i \in DOMAIN catalogs : catalogs[i] \in AgentCatalogs})

(* A surface without a catalog is of the first one agreed on.              *)
FilterA2uiByCatalog(items, agreed) ==
  IF agreed = <<>> THEN <<>>
  ELSE Pick(items, {i \in DOMAIN items :
                      (IF items[i].catalog = None THEN Head(agreed) ELSE items[i].catalog) \in ToSet(agreed)})

--------------------------------------------------------------------------------
(* The request, as the relay sends it and as the host reads it.            *)

BuildParams(request) ==
  [parts |-> <<Text("query")>> \o IF request.data = None THEN <<>> ELSE <<Data(request.data)>>,
   metadata |-> [catalogs |-> IF request.catalogs = <<>> THEN None ELSE request.catalogs,
                 action |-> request.action, ai37 |-> request.confirm]]

ReadClientCapabilities(metadata) == IF metadata.catalogs = None THEN <<>> ELSE metadata.catalogs

(* The envelope of the message comes before one inside its data.           *)
ReadAi37Metadata(message, data) ==
  IF message.metadata.ai37 # None \/ data = None THEN message.metadata.ai37 ELSE data.confirm

ParseA2AMessage(message) ==
  LET places == {i \in DOMAIN message.parts : message.parts[i].case = "data"}
      data == IF places = {} THEN None ELSE message.parts[Min(places)].value IN
    [data |-> data, action |-> message.metadata.action, confirm |-> ReadAi37Metadata(message, data)]

(* A state that the last turn cleared is none.                             *)
TaskState(task) == IF task.state = Null THEN None ELSE task.state

NegotiateOutput(modes, catalogs) == [text |-> NegotiateText(modes), catalogs |-> NegotiateCatalogs(catalogs)]

Input(request, task) ==
  LET message == BuildParams(request)
      read == ParseA2AMessage(message)
      output == NegotiateOutput(request.modes, ReadClientCapabilities(message.metadata)) IN
    [state |-> TaskState(task), data |-> read.data, action |-> read.action, confirm |-> read.confirm,
     text |-> output.text, catalogs |-> output.catalogs]

Begin(request, streams) ==
  /\ turn.stage = "idle" /\ turn.n < MaxTurns /\ stored.status \notin Terminal
  /\ turn' = [Idle(turn.n + 1) EXCEPT !.stage = "running", !.request = request, !.streams = streams,
                                      !.input = Input(request, stored), !.prior = stored]
  /\ relay' = [task |-> NoTask, deltas |-> <<>>] /\ answer' = None
  /\ UNCHANGED <<legacyCompat, bus, stored, kept>>

--------------------------------------------------------------------------------
(* The turn.                                                               *)

TaskEvent(task) == [case |-> "task", task |-> task]
ArtifactUpdate(a, parts, append) == [case |-> "artifactUpdate", id |-> a, parts |-> parts, append |-> append]
StatusUpdate(task) ==
  [case |-> "statusUpdate", task |-> [status |-> task.status, message |-> task.message, state |-> task.state]]

(* What a turn says: a delta, its message or a default.                    *)
Said(n, what, at) == [turn |-> n, what |-> what, at |-> at]

WorkingTask == [NoTask EXCEPT !.status = "working"]

StartWorking == IF turn.started THEN <<>> ELSE <<TaskEvent(WorkingTask)>>

Emit ==
  /\ turn.stage = "running"
  /\ \/ /\ Len(turn.deltas) < MaxDeltas
        /\ LET delta == Said(turn.n, "delta", Len(turn.deltas) + 1) IN
             /\ turn' = [turn EXCEPT !.started = TRUE, !.deltas = Append(@, delta)]
             /\ bus' = bus \o StartWorking
                         \o (IF turn.deltas = <<>> THEN <<ArtifactUpdate(Answer, <<>>, FALSE)>> ELSE <<>>)
                         \o <<ArtifactUpdate(Answer, <<Text(delta)>>, TRUE)>>
     \/ /\ ~turn.started
        /\ turn' = [turn EXCEPT !.started = TRUE]
        /\ bus' = bus \o StartWorking \o <<StatusUpdate(WorkingTask)>>
  /\ UNCHANGED <<legacyCompat, stored, relay, answer, kept>>

(* Every surface of a form leaves with an id.                              *)
EnsureEnvelopeSurfaceIds(items) ==
  [i \in DOMAIN items |->
     IF items[i].id # None THEN items[i]
     ELSE [items[i] EXCEPT !.id = <<"surf", Rank(i, {j \in DOMAIN items : items[j].id = None})>>]]

AgentMessage(n, what) == <<Text(Said(n, what, 0))>>

ToTask(n, r, agreed, compat) ==
  LET a2ui == FilterA2uiByCatalog(r.a2ui, agreed)
      followup == FilterA2uiByCatalog(r.followup, agreed)
      form == EnsureEnvelopeSurfaceIds(IF followup # <<>> THEN followup ELSE a2ui)
      state == IF r.state THEN n ELSE None IN
    CASE r.status = "failed" ->
           [status |-> "failed", state |-> None,
            message |-> AgentMessage(n, IF r.message THEN "message" ELSE "error"), artifacts |-> NoArtifacts]
      [] r.status = "input-required" ->
           [status |-> "input-required", state |-> state,
            message |-> AgentMessage(n, IF r.message THEN "message" ELSE "ask") \o <<Data(form)>>,
            artifacts |-> [a \in IF compat THEN {Form} ELSE {} |-> <<Data(form)>>]]
      [] OTHER ->
           [status |-> "completed", state |-> state,
            message |-> IF r.message THEN AgentMessage(n, "message") ELSE <<>>,
            artifacts |-> [a \in {ResultOf(n)} |-> <<Data(a2ui)>>]]

ArtifactParts(task, a) == IF a \in DOMAIN task.artifacts THEN task.artifacts[a] ELSE <<>>

(* What an earlier turn left and this one does not give is emptied.        *)
Cleared(task, prior, streamed) ==
  LET stale == {a \in {Form, Answer} \ DOMAIN task.artifacts :
                  ArtifactParts(prior, a) # <<>> /\ (a = Answer => ~streamed)} IN
    [status |-> task.status, message |-> task.message,
     state |-> IF task.state = None /\ prior.state \notin {None, Null} THEN Null ELSE task.state,
     artifacts |-> [a \in DOMAIN task.artifacts \cup stale |-> IF a \in stale THEN <<>> ELSE task.artifacts[a]]]

FinalTaskEvents(task, prior, started, streamed) ==
  LET full == Cleared(task, prior, streamed)
      given == Pick(Artifacts, {i \in DOMAIN Artifacts : Artifacts[i] \in DOMAIN full.artifacts}) IN
    IF ~started THEN <<TaskEvent(full)>>
    ELSE [i \in DOMAIN given |-> ArtifactUpdate(given[i], full.artifacts[given[i]], FALSE)] \o <<StatusUpdate(full)>>

Conclude(r) ==
  /\ turn.stage = "running"
  /\ turn' = [turn EXCEPT !.stage = "concluded", !.result = r]
  /\ LET streamed == turn.deltas # <<>> IN
       bus' = bus \o (IF streamed THEN <<ArtifactUpdate(Answer, <<>>, TRUE)>> ELSE <<>>)
                  \o FinalTaskEvents(ToTask(turn.n, r, turn.input.catalogs, legacyCompat), turn.prior, turn.started, streamed)
  /\ UNCHANGED <<legacyCompat, stored, relay, answer, kept>>

(* The host goes down in a turn and comes back, perhaps configured anew.   *)
Restart ==
  /\ turn.stage \in {"running", "concluded"}
  /\ turn' = Idle(turn.n)
  /\ kept' = [kept EXCEPT !.cut = @ \/ turn.stage = "concluded"]
  /\ bus' = <<>> /\ legacyCompat' \in BOOLEAN /\ relay' = [task |-> NoTask, deltas |-> <<>>]
  /\ UNCHANGED <<stored, answer>>

--------------------------------------------------------------------------------
(* The relay and the store.                                                *)

Over(new, old) == [a \in DOMAIN new \cup DOMAIN old |-> IF a \in DOMAIN new THEN new[a] ELSE old[a]]

ApplyArtifact(task, e) ==
  LET parts == (IF e.append THEN ArtifactParts(task, e.id) ELSE <<>>) \o e.parts IN
    [task EXCEPT !.artifacts = Over([a \in {e.id} |-> parts], @)]

ApplyStatus(task, update) ==
  [task EXCEPT !.status = update.status, !.message = update.message,
               !.state = IF update.state # None THEN update.state ELSE @]

(* The SDK keeps the artifacts that a published task does not name.        *)
Apply(task, e) ==
  CASE e.case = "artifactUpdate" -> ApplyArtifact(task, e)
    [] e.case = "statusUpdate" -> ApplyStatus(task, e.task)
    [] OTHER -> [ApplyStatus(task, e.task) EXCEPT !.artifacts = Over(e.task.artifacts, @)]

Values(parts, case) ==
  LET s == Pick(parts, {i \in DOMAIN parts : parts[i].case = case}) IN [i \in DOMAIN s |-> s[i].value]

(* Only what is appended is a delta.                                       *)
Forwarded(e) == IF e.case = "artifactUpdate" /\ e.append THEN Values(e.parts, "text") ELSE <<>>

(* drainStream(): one event.                                               *)
Drain(seen, e) ==
  [task |-> IF e.case = "task" THEN e.task ELSE IF seen.task = NoTask THEN NoTask ELSE Apply(seen.task, e),
   deltas |-> seen.deltas \o Forwarded(e)]

Deliver ==
  /\ bus # <<>>
  /\ stored' = Apply(stored, Head(bus)) /\ bus' = Tail(bus)
  /\ relay' = IF turn.streams THEN Drain(relay, Head(bus)) ELSE relay
  /\ UNCHANGED <<legacyCompat, turn, answer, kept>>

PartsText(parts) == Values(parts, "text")

HasData(parts) == \E i \in DOMAIN parts : parts[i].case = "data"
PartsA2ui(parts) == FlattenSeq(Values(parts, "data"))

(* The message of the status is the answer; the artifacts are its projection. *)
CollectTaskText(task) ==
  IF PartsText(task.message) # <<>> THEN PartsText(task.message)
  ELSE FlattenSeq([i \in DOMAIN Artifacts |-> PartsText(ArtifactParts(task, Artifacts[i]))])

(* The copies of the form, first found first.  The third place, the metadata *)
(* of a host 0.1, is never filled by this host.                            *)
FormA2ui(task) == PartsA2ui(IF HasData(task.message) THEN task.message ELSE ArtifactParts(task, Form))

(* Mutant: the copy of the form is taken for a result.                     *)
AnyArtifact(a) == TRUE

IsResult(a) == a # Form

ExtractA2ui(task) ==
  LET others == Pick(Artifacts, {i \in DOMAIN Artifacts : IsResult(Artifacts[i])}) IN
    FlattenSeq([i \in DOMAIN others |-> PartsA2ui(ArtifactParts(task, others[i]))]) \o FormA2ui(task)

ToState(task) == IF task.status \in {"completed", "input-required", "failed"} THEN task.status ELSE "message"

Return ==
  LET raw == IF turn.streams THEN relay.task ELSE stored IN
    /\ turn.stage = "concluded" /\ bus = <<>>
    /\ answer' = [text |-> CollectTaskText(raw), a2ui |-> ExtractA2ui(raw), state |-> ToState(raw)]
    /\ turn' = [turn EXCEPT !.stage = "idle"]
    /\ kept' = [kept EXCEPT !.state = IF turn.result.state /\ turn.result.status # "failed" THEN turn.n ELSE None]
    /\ UNCHANGED <<legacyCompat, bus, stored, relay>>

(* The handler names its surfaces by its turn.                             *)
Given(items) ==
  [i \in DOMAIN items |-> [turn |-> turn.n, name |-> items[i].name, catalog |-> items[i].catalog, id |-> items[i].id]]

ExchangeNext ==
  \/ \E request \in Requests, streams \in BOOLEAN : Begin(request, streams)
  \/ Emit \/ (\E r \in Results : Conclude([r EXCEPT !.a2ui = Given(@), !.followup = Given(@)])) \/ Deliver \/ Return \/ Restart

--------------------------------------------------------------------------------
InputExact ==
  turn.stage = "running" =>
    LET given == turn.input  asked == turn.request IN
      /\ given.data = asked.data /\ given.action = asked.action
      /\ asked.confirm # None => given.confirm = asked.confirm
      /\ given.text \in ToSet(asked.modes) \cap AgentModes \/ given.text = PlainText
      /\ ToSet(given.catalogs) = ToSet(asked.catalogs) \cap AgentCatalogs
      /\ ~kept.cut => given.state = kept.state

Understood(s) == \/ s.catalog \in ToSet(turn.request.catalogs) \cap AgentCatalogs
                 \/ s.catalog = None /\ ToSet(turn.request.catalogs) \cap AgentCatalogs # {}

(* What the caller should be shown: the form that replaces its surfaces, or *)
(* the surfaces of the result.                                             *)
Meant ==
  LET r == turn.result
      Shown(items) == Pick(items, {i \in DOMAIN items : Understood(items[i])}) IN
    IF r.status = "failed" THEN <<>>
    ELSE IF r.status = "input-required" /\ Shown(r.followup) # <<>> THEN Shown(r.followup) ELSE Shown(r.a2ui)

AnswerExact ==
  answer # None /\ ~kept.cut =>
    LET r == turn.result IN
      /\ answer.state = r.status
      /\ answer.text = IF r.message \/ r.status # "completed"
                       THEN <<Said(turn.n, IF r.message THEN "message" ELSE IF r.status = "failed" THEN "error" ELSE "ask", 0)>>
                       ELSE turn.deltas
      /\ [i \in DOMAIN answer.a2ui |-> <<answer.a2ui[i].turn, answer.a2ui[i].name>>]
           = [i \in DOMAIN Meant |-> <<Meant[i].turn, Meant[i].name>>]
      /\ r.status = "input-required" =>
           \A i, j \in DOMAIN answer.a2ui : answer.a2ui[i].id # None /\ (answer.a2ui[i].id = answer.a2ui[j].id => i = j)
      /\ relay.deltas = IF turn.streams THEN turn.deltas ELSE <<>>

(* The handler is given what the caller asked for, a format and catalogs   *)
(* that both sides know, and the state that the last complete turn left.   *)
(* The relay shows exactly what the turn said, streamed or not: its text   *)
(* once, the surfaces that both sides understand once each, those of a form *)
(* with an id of their own, and nothing of an earlier turn or of one that  *)
(* was cut before its final events.                                        *)
AnswersArriveOnce == InputExact /\ AnswerExact
================================================================================
