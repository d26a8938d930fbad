------------------------------- MODULE MCDelivery ------------------------------
(***************************************************************************)
(* What the host delivers, part by part: the streams of AG-UI turns, the   *)
(* artifacts that turns publish, the documents that are uploaded to the    *)
(* pool of a project and what a turn says to the relay of an orchestrator. *)
(* The parts share nothing, and one behaviour explores one.  No property   *)
(* tells two turns, two calls or two files apart.                          *)
(***************************************************************************)
EXTENDS AguiTurn, TLC

CONSTANTS PublishCalls, PublishTurns, Results, OwnKeys,
          Titles, Sought, Hashes, PageSize, MaxPages, MaxSeriesIds, MaxDocuments, MaxUploads,
          Requests, AgentCatalogs, AgentModes, PlainText, Outcomes, None, MaxAsked, MaxDeltas

(* What is published is made of a text and files, and of nothing else.     *)
ASSUME ResultsAssumption == \A r, s \in Results : r.text = s.text /\ r.files = s.files => r = s

(* A page of the pool is never empty while documents are left.             *)
ASSUME PagesAssumption == PageSize \in Nat \ {0}

(* The numbers of turns tell a turn from none.  The handler gives no id    *)
(* twice in a form, and none of those that the host makes.                 *)
ASSUME ExchangeAssumption ==
  /\ MaxAsked \in Nat /\ None \notin Nat /\ None \notin {"surf"} \X Nat
  /\ \A asked \in Requests : asked.catalogs # None
       /\ asked.catalogs = [i \in 1 .. Len(asked.catalogs) |-> asked.catalogs[i]]
       /\ asked.modes = [i \in 1 .. Len(asked.modes) |-> asked.modes[i]]
       /\ Len(asked.catalogs) \in Nat /\ Len(asked.modes) \in Nat
  /\ \A r \in Outcomes :
       /\ r \in [status : {"completed", "failed", "input-required"}, message : BOOLEAN, state : BOOLEAN,
                 a2ui : {r.a2ui}, followup : {r.followup}]
       /\ \A items \in {r.a2ui, r.followup} :
            /\ Len(items) \in Nat /\ items = [i \in 1 .. Len(items) |-> items[i]]
            /\ r.status = "input-required" =>
                 \A i, j \in 1 .. Len(items) : items[i].id # None =>
                   items[i].id \notin {"surf"} \X Nat /\ (items[i].id = items[j].id => i = j)

VARIABLES part, publish, travelling, onShelf, pool, made, upload, uploads, lookup, there,
          legacyCompat, said, bus, stored, relay, answer, kept

Artifacts == INSTANCE ArtifactPublishing
Knowledge == INSTANCE ProjectPool
Exchange == INSTANCE TaskExchange WITH turn <- said, Results <- Outcomes, MaxTurns <- MaxAsked

artifactVars == <<publish, travelling, onShelf>>
knowledgeVars == <<pool, made, upload, uploads, lookup, there>>
exchangeVars == <<legacyCompat, said, bus, stored, relay, answer, kept>>
allVars == <<part, vars, artifactVars, knowledgeVars, exchangeVars>>

MCResults == {[text |-> "a", files |-> <<>>], [text |-> "a", files |-> <<"f", "g">>], [text |-> "a", files |-> <<"g", "f">>]}
MCOwnKeys == {<<"own">>}
Symmetry == Permutations(Turns) \cup Permutations(PublishCalls)

(* A caller that shows no surfaces, one that knows both catalogs of the    *)
(* agent, and one that knows another catalog than the agent's richer one.  *)
MCRequests == {
  [catalogs |-> <<>>, modes |-> <<>>, action |-> None, confirm |-> None, data |-> None],
  [catalogs |-> <<"rich", "base">>, modes |-> <<"html", "markdown">>, action |-> "click", confirm |-> "ask",
   data |-> [confirm |-> "auto"]],
  [catalogs |-> <<"other", "base">>, modes |-> <<"html">>, action |-> None, confirm |-> None,
   data |-> [confirm |-> "auto"]] }

Untagged == [name |-> "a", catalog |-> None, id |-> None]
Own == [name |-> "b", catalog |-> "rich", id |-> <<"own", 1>>]
Mixed == <<[Untagged EXCEPT !.name = "c", !.catalog = "base"], [Untagged EXCEPT !.name = "d", !.catalog = "rich"],
           [Untagged EXCEPT !.name = "e"]>>

Gave(status, message, holds, a2ui, followup) ==
  [status |-> status, message |-> message, state |-> holds, a2ui |-> a2ui, followup |-> followup]

MCOutcomes == {
  Gave("completed", TRUE, FALSE, <<Untagged, Own>>, <<>>), Gave("completed", FALSE, TRUE, Mixed, <<Own>>),
  Gave("failed", FALSE, TRUE, <<Untagged>>, <<>>),
  Gave("input-required", TRUE, TRUE, Mixed, <<>>), Gave("input-required", FALSE, FALSE, <<Untagged>>, <<Own>>),
  Gave("input-required", TRUE, FALSE, <<>>, <<Untagged>>) }

MCInit ==
  /\ part \in {"streams", "artifacts", "knowledge", "exchange"}
  /\ Init /\ Artifacts!Init /\ Knowledge!Init
  /\ Exchange!ExchangeInit /\ (part # "exchange" => legacyCompat)

MCNext ==
  /\ UNCHANGED part
  /\ \/ part = "streams" /\ Next /\ UNCHANGED <<artifactVars, knowledgeVars, exchangeVars>>
     \/ part = "artifacts" /\ Artifacts!Next /\ UNCHANGED <<vars, knowledgeVars, exchangeVars>>
     \/ part = "knowledge" /\ Knowledge!Next /\ UNCHANGED <<vars, artifactVars, exchangeVars>>
     \/ part = "exchange" /\ Exchange!ExchangeNext /\ UNCHANGED <<vars, artifactVars, knowledgeVars>>

MCSpec == MCInit /\ [][MCNext]_allVars

(* A result is published once, however often it is sent (publish-artifact.ts). *)
OneArtifactEach == Artifacts!OneArtifactEach

(* Uploads and look-ups agree with the pool (project-pool.ts).             *)
AnswersAreExact == Knowledge!AnswersAreExact

(* What a turn says arrives once and whole (build-task.ts, extract.ts).    *)
AnswersArriveOnce == Exchange!AnswersArriveOnce
================================================================================
