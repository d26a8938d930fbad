------------------------------ MODULE ChatHistory ------------------------------
(***************************************************************************)
(* The history of chats as a read-only file system (packages/ts-host/src/  *)
(* store-backend/chat-store-backend.ts): a path is taken apart at its      *)
(* first anchor, every operation is a request to chat-backend, and the     *)
(* paths of an answer are put together from what the service calls a chat  *)
(* and its project.                                                        *)
(*                                                                         *)
(* External: chat-backend, where a chat may be renamed or moved between    *)
(* two operations; it finds a project or a chat by its slug or by its id.  *)
(* The contents that are searched and the search itself are left out: a    *)
(* search may answer with all that lies where it looks.                    *)
(***************************************************************************)
EXTENDS Naturals, Sequences

CONSTANTS
  ProjectIds, Threads,
  SlugOf,              \* the slug of a project or chat that has one
  NoProject

VARIABLES
  place,     (* the service: the project of a chat, or NoProject               *)
  slugged,   (* the service: the projects and chats that have a slug           *)
  shown      (* observation: the entries of the last answer, with what they    *)
             (* stand for and where the question was about                     *)

historyVars == <<place, slugged, shown>>

Init ==
  /\ place \in [Threads -> ProjectIds \cup {NoProject}]
  /\ slugged \in SUBSET (ProjectIds \cup Threads) /\ shown = {}

--------------------------------------------------------------------------------
Anchors == {"projects", "threads"}

(* Mutant: the last anchor counts, whatever stands before it.              *)
LastAnchor(path) ==
  LET at == {i \in 1 .. Len(path) : path[i] \in Anchors} IN IF at = {} THEN 0 ELSE CHOOSE i \in at : \A k \in at : k <= i

Anchor(path) ==
  LET at == {i \in 1 .. Len(path) : path[i] \in Anchors} IN IF at = {} THEN 0 ELSE CHOOSE i \in at : \A k \in at : i <= k

(* parsePath.  What follows a chat is not looked at.                       *)
Parsed(path) ==
  LET i == Anchor(path)
      n == Len(path) - i
      P(kind, project, thread) == [kind |-> kind, project |-> project, thread |-> thread] IN
  CASE path = <<>>                                    -> P("root", "none", "none")
    [] path # <<>> /\ i = 0                           -> P("unknown", "none", "none")
    [] i > 0 /\ path[i] = "threads" /\ n = 0          -> P("threads", "none", "none")
    [] i > 0 /\ path[i] = "threads" /\ n > 0          -> P("thread", "none", path[i + 1])
    [] i > 0 /\ path[i] = "projects" /\ n = 0         -> P("projects", "none", "none")
    [] i > 0 /\ path[i] = "projects" /\ n = 1         -> P("project", path[i + 1], "none")
    [] i > 0 /\ path[i] = "projects" /\ n = 2         -> P(IF path[i + 2] = "threads" THEN "project-threads" ELSE "unknown", path[i + 1], "none")
    [] i > 0 /\ path[i] = "projects" /\ n > 2         ->
         IF path[i + 2] = "threads" THEN P("project-thread", path[i + 1], path[i + 3]) ELSE P("unknown", "none", "none")

(* projSeg, threadSeg: the slug, else the id.                              *)
Seg(x) == IF x \in slugged THEN SlugOf[x] ELSE x

ProjectDir(p) == <<"projects", Seg(p)>>

(* grepHitPath: a hit names the slug of its project only.                  *)
HitPath(t) ==
  IF place[t] \in slugged THEN <<"projects", SlugOf[place[t]], "threads", Seg(t)>> ELSE <<"threads", Seg(t)>>

(* External: what the service finds under a name; nothing is an error value. *)
Found(all, name) == {x \in all : name = x \/ (x \in slugged /\ name = SlugOf[x])}
InProject(name) == {t \in Threads : place[t] \in Found(ProjectIds, name)}
Loose == {t \in Threads : place[t] = NoProject}

(* read: what a path opens.                                                *)
Opened(path) ==
  LET p == Parsed(path) IN
  CASE p.kind = "project"        -> Found(ProjectIds, p.project)
    [] p.kind = "thread"         -> Found(Threads, p.thread)
    [] p.kind = "project-thread" -> Found(InProject(p.project), p.thread)
    [] OTHER                     -> {p.kind}

Entry(path, of) == [path |-> path, of |-> of]
Dirs(ps) == {Entry(ProjectDir(p), p) : p \in ps}
Files(base, ts) == {Entry(Append(base, Seg(t)), t) : t \in ts}

(* ls                                                                      *)
Listed(path) ==
  LET p == Parsed(path) IN
  CASE p.kind = "root"            -> {Entry(<<a>>, a) : a \in Anchors}
    [] p.kind = "projects"        -> Dirs(ProjectIds)
    [] p.kind = "project"         -> {Entry(<<"projects", p.project, "threads">>, "project-threads")}
    [] p.kind = "project-threads" -> Files(<<"projects", p.project, "threads">>, InProject(p.project))
    [] p.kind = "threads"         -> Files(<<"threads">>, Loose)
    [] OTHER                      -> {}

(* glob                                                                    *)
Globbed(path) ==
  LET p == Parsed(path) IN
  CASE p.kind \in {"root", "projects"}           -> Dirs(ProjectIds)
    [] p.kind \in {"project", "project-threads"} -> Files(<<"projects", p.project, "threads">>, InProject(p.project))
    [] p.kind = "threads"                        -> Files(<<"threads">>, Loose)
    [] OTHER                                     -> {}

(* grep: anywhere but in a project and among the loose chats, everywhere.  *)
Grepped(path) ==
  LET p == Parsed(path)
      hits == CASE p.kind \in {"project", "project-threads"} -> InProject(p.project)
                [] p.kind = "threads" -> Loose
                [] OTHER -> Threads IN
  {Entry(HitPath(t), t) : t \in hits}

(* renderRead: the paths that the text of a directory names.               *)
Rendered(path) ==
  LET p == Parsed(path) IN
  CASE p.kind = "root"                           -> Dirs(ProjectIds) \cup {Entry(<<"threads">>, "threads")}
    [] p.kind = "projects"                       -> Dirs(ProjectIds)
    [] p.kind \in {"project", "project-threads"} -> Files(<<"projects", p.project, "threads">>, InProject(p.project))
    [] p.kind = "threads"                        -> Files(<<"threads">>, Loose)
    [] OTHER                                     -> {}

Names == ProjectIds \cup Threads \cup {SlugOf[x] : x \in ProjectIds \cup Threads}
Paths ==
  {<<>>, <<"other">>, <<"projects">>, <<"threads">>} \cup {<<"threads", n>> : n \in Names}
  \cup {<<"projects", n>> : n \in Names} \cup {<<"projects", n, "threads">> : n \in Names}

Ask ==
  /\ \E path \in Paths : shown' \in {Listed(path), Rendered(path), Globbed(path), Grepped(path)}
  /\ UNCHANGED <<place, slugged>>

(* External: a chat gets its slug, or is moved.                            *)
Change ==
  /\ shown' = {}
  /\ \/ \E x \in ProjectIds \cup Threads : slugged' = slugged \cup {x} /\ UNCHANGED place
     \/ \E t \in Threads, p \in ProjectIds \cup {NoProject} : place' = [place EXCEPT ![t] = p] /\ UNCHANGED slugged

Next == Ask \/ Change

--------------------------------------------------------------------------------
(* Every path that an answer shows opens what it stands for, and only that, *)
(* whatever the chats and projects are called (also "threads" or "projects") *)
(* and whether they have a slug; and a hit in a project with a slug lies   *)
(* below that project.                                                     *)
ShownPathsOpen ==
  \A e \in shown :
    /\ Opened(e.path) = {e.of}
    /\ e.of \in Threads /\ place[e.of] \in slugged => Parsed(e.path).kind = "project-thread"
================================================================================
