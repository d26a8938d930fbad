-------------------------------- MODULE MCTurns --------------------------------
(***************************************************************************)
(* What happens around the turns of the hosts, part by part: their         *)
(* execution in TypeScript and in Python, their tracing, the files they    *)
(* read and the history of chats they search.  The parts share nothing, and *)
(* one behaviour explores one.                                             *)
(***************************************************************************)
EXTENDS TurnExecution, TLC

CONSTANTS TracedTurns, LineEnds, Inputs, Budgets, WindowLines, MaxWindows, ProjectIds, Threads, SlugOf, NoProject, MaxTurns, MaxEmitted

(* External: names of the chat-backend are unambiguous, a slug too, among  *)
(* projects and among chats; a directory is no chat.                       *)
ASSUME NamesAssumption ==
  /\ \A all \in {ProjectIds, Threads} : \A x, y \in all : SlugOf[x] \in {y, SlugOf[y]} => x = y
  /\ Threads \cap (ProjectIds \cup {"projects", "threads", "project-threads"}) = {}
  /\ NoProject \notin ProjectIds \cup Threads

(* A state bears the number of its turn.                                   *)
ASSUME StatesAssumption == None \notin Nat

Ref(k, i) == [shelf |-> k, id |-> i]
Project == Ref("is project", 1)

(* A text has a line, if an empty one, and lines end one after the other.  *)
(* One line is not all that is read of a file.                             *)
ASSUME FilesAssumption ==
  /\ IsFiniteSet(DOMAIN LineEnds)
  /\ \A r \in DOMAIN LineEnds :
       LineEnds[r] \in Seq(Nat \ {0}) \ {<<>>} /\ \A i, j \in DOMAIN LineEnds[r] : i < j => LineEnds[r][i] < LineEnds[r][j]
  /\ \A in \in Inputs : {in[1], in[2]} \subseteq Seq(DOMAIN LineEnds \cup {Project})
  /\ Budgets \subseteq Nat /\ {WindowLines, MaxWindows} \subseteq Nat \ {0} /\ WindowLines * MaxWindows > 1

VARIABLES
  part,
  configured, slot, started, trace,
  input, files, artifacts, shelf, hits, greps, at, window, text, budget, whole, contents, failures,
  place, slugged, shown,
  pyTask, pyTurn, scope, creator, queue, drain, pyEvents, emitted, latest

Tracing == INSTANCE TurnTracing
Attachments == INSTANCE TurnFiles
History == INSTANCE ChatHistory
Python == INSTANCE PythonTurn WITH task <- pyTask, turn <- pyTurn, events <- pyEvents

tracingVars == <<configured, slot, started, trace>>
filesVars == <<input, files, artifacts, shelf, hits, greps, at, window, text, budget, whole, contents, failures>>
historyVars == <<place, slugged, shown>>
pythonVars == <<pyTask, pyTurn, scope, creator, queue, drain, pyEvents, emitted, latest>>
allVars == <<part, vars, tracingVars, filesVars, historyVars, pythonVars>>

MCLineEnds ==
  Ref("chat", 1) :> <<2, 3, 6, 7>> @@ Ref("chat", 2) :> <<2>> @@ Ref("project", 1) :> <<1, 3>>
  @@ Ref("artifact", 1) :> <<3, 5, 7, 9, 11>> @@ Ref("project-artifact", 1) :> <<1>>

MCInputs == {
  << <<Ref("chat", 2), Ref("chat", 1)>>, <<Ref("chat", 1)>> >>,
  << <<Project, Ref("project", 1)>>, <<Ref("chat", 2), Ref("chat", 1)>> >>,
  << <<Ref("project", 1), Ref("chat", 1)>>, <<>> >>,
  << <<Project>>, <<>> >> }

MCSlugOf == "p1" :> "threads" @@ "p2" :> "reports" @@ "t1" :> "projects" @@ "t2" :> "threads"

MCInit ==
  /\ part \in {"execution", "tracing", "files", "history", "python"}
  /\ Init
  /\ Tracing!Init /\ (part # "tracing" => ~configured)
  /\ Attachments!Init
  /\ part # "files" => input = << <<Project>>, <<>> >> /\ whole = 0 /\ shelf = DOMAIN LineEnds
  /\ History!Init /\ (part # "history" => slugged = {} /\ \A t \in Threads : place[t] = NoProject)
  /\ Python!Init

MCNext ==
  /\ UNCHANGED part
  /\ \/ /\ part = "execution" /\ Next
        /\ UNCHANGED <<tracingVars, filesVars, historyVars, pythonVars>>
     \/ /\ part = "tracing" /\ Tracing!Next
        /\ UNCHANGED <<vars, filesVars, historyVars, pythonVars>>
     \/ /\ part = "files" /\ Attachments!Next
        /\ UNCHANGED <<vars, tracingVars, historyVars, pythonVars>>
     \/ /\ part = "history" /\ History!Next
        /\ UNCHANGED <<vars, tracingVars, filesVars, pythonVars>>
     \/ /\ part = "python" /\ Python!Next
        /\ UNCHANGED <<vars, tracingVars, filesVars, historyVars>>

MCSpec == MCInit /\ [][MCNext]_allVars /\ Fairness

(* A turn runs as it would without tracing, and its call carries its trace *)
(* to the other agent, unless turns started the tracing with different     *)
(* outcomes meanwhile (langfuse.ts).                                       *)
TracingIsTransparent == Tracing!RunsAsWithout /\ Tracing!CallsKeepTheirTrace

(* A turn reads and finds its own files only, and their texts are exact    *)
(* within its budget (attachments/).                                       *)
FilesAreExact == Attachments!OnlyFilesOfTheTurn /\ Attachments!TextsAreExact

(* The paths of chats that are shown can be opened (chat-store-backend.ts). *)
ShownPathsOpen == History!ShownPathsOpen

(* A turn of the Python host has its own request and the last state        *)
(* (a2a_executor.py).                                                      *)
EachTurnItsOwn == Python!EachTurnItsOwn

(* Its stream has all that its handler emitted (a2a_progress.py).          *)
AnswerIsWhole == Python!AnswerIsWhole
================================================================================
