------------------------------- MODULE TurnFiles -------------------------------
(***************************************************************************)
(* The files a turn may read (packages/ts-host/src/attachments/): the      *)
(* scope built from the references of the request and from the lists of    *)
(* artifacts, the search over the shelves, and the texts of all files read *)
(* in windows within one budget of characters.  The shelves are the read-  *)
(* only store backends (packages/ts-host/src/store-backend/), whose errors *)
(* are values.                                                             *)
(*                                                                         *)
(* External: chat-backend, where a file may expire and an artifact appear  *)
(* between any two requests.  A character of a text is its place in the    *)
(* file, a line break is 0; a window is a sequence of the ends of its lines. *)
(***************************************************************************)
EXTENDS Selection, SequencesExt

CONSTANTS
  LineEnds,            \* LineEnds[ref]: where the lines of a file end, in increasing order
  Inputs,              \* the pairs <<context_refs, refs of the manifest>> to consider
  Budgets,
  WindowLines, MaxWindows

VARIABLES
  input, files,        (* the request; the files of the turn                       *)
  artifacts,           (* artifacts[k]: the list of a shelf as it was loaded       *)
  shelf,               (* the service: the references that can be read             *)
  hits, greps,         (* the answer of the search; the shelves that failed in it  *)
  at, window, text,    (* the file and the window that are read, and what was read *)
  budget, whole,       (* the characters left, and those there were                *)
  contents, failures

filesVars == <<input, files, artifacts, shelf, hits, greps, at, window, text, budget, whole, contents, failures>>

Refs == DOMAIN LineEnds
NotLoaded == {[shelf |-> "not loaded", id |-> 0]}
ArtifactKinds == {"artifact", "project-artifact"}

(* contextFilePath, shelfOf: what a reference names; project:<id> is no file. *)
IsAttachment(ref) == ref \in Refs /\ ref.shelf \in {"chat", "project"}
HasProject == \E i \in 1 .. Len(input[1]) : input[1][i].shelf = "is project"

(* attachmentScope: the references in their order, each once.              *)
First(refs, i) == \A j \in 1 .. i - 1 : refs[j] # refs[i]
Once(refs) == Pick(refs, {i \in DOMAIN refs : First(refs, i)})
Scope(in) ==
  LET refs == in[1] \o in[2] IN Pick(refs, {i \in DOMAIN refs : First(refs, i) /\ IsAttachment(refs[i])})

Init ==
  /\ input \in Inputs /\ files = Scope(input)
  /\ artifacts = [k \in ArtifactKinds |-> NotLoaded]
  /\ shelf \in {Refs, {r \in Refs : r.shelf \notin ArtifactKinds}}
  /\ hits = {} /\ greps = {"not asked"}
  /\ at = 0 /\ window = 0 /\ text = <<>> /\ contents = <<>> /\ failures = {}
  /\ whole \in Budgets /\ budget = whole

--------------------------------------------------------------------------------
OnShelf(k) == {r \in shelf : r.shelf = k}

(* ArtifactsStoreBackend.list, and grep and read of the backends: requests *)
(* to the service.  What is searched for occurs in every file.             *)
Listed(k) == OnShelf(k)
Searched(k) == OnShelf(k)
Readable(ref) == ref \in shelf

Corpora == {"artifact"} \cup IF HasProject THEN {"project-artifact"} ELSE {}

(* artifactScope: both lists at once; one that fails is empty.             *)
Load(k) ==
  /\ at = 0 /\ k \in Corpora /\ artifacts[k] = NotLoaded
  /\ \E list \in {Listed(k), {}} : artifacts' = [artifacts EXCEPT ![k] = list]
  /\ UNCHANGED <<input, files, shelf, hits, greps, at, window, text, budget, whole, contents, failures>>

(* createAttachmentReaders, withArtifacts; the artifacts may be left out.  *)
Readers ==
  /\ at = 0 /\ at' = 1
  /\ \/ /\ \A k \in Corpora : artifacts[k] # NotLoaded
        /\ files' = Once(files \o SetToSeq(UNION {artifacts[k] : k \in Corpora}))
     \/ artifacts = [k \in ArtifactKinds |-> NotLoaded] /\ UNCHANGED files
  /\ UNCHANGED <<input, artifacts, shelf, hits, greps, window, text, budget, whole, contents, failures>>

(* Mutant: everything the shelves find is an answer.                       *)
Everything(found) == found

OfTheTurn(found) == found \cap ToSet(files)

(* grepShelves: the shelves of the files search all they have for the thread *)
(* or the project; a shelf without its scope, or whose request fails, is an *)
(* error next to the hits of the others.                                   *)
Scoped(k) == k \in {"project", "project-artifact"} => HasProject

Grep ==
  /\ at > 0 /\ greps = {"not asked"}
  /\ LET kinds == {r.shelf : r \in ToSet(files)} IN
       \E failed \in SUBSET kinds :
         /\ \A k \in kinds : ~Scoped(k) => k \in failed
         /\ greps' = failed /\ hits' = OfTheTurn(UNION {Searched(k) : k \in kinds \ failed})
  /\ UNCHANGED <<input, files, artifacts, shelf, at, window, text, budget, whole, contents, failures>>

--------------------------------------------------------------------------------
(* The lines of a window, which begin after the given place.               *)
Joined(ends, from) ==
  [i \in 1 .. ends[Len(ends)] - from - 1 |-> IF \E k \in DOMAIN ends : ends[k] = from + i THEN 0 ELSE from + i]
Full(ref) == Joined(LineEnds[ref], 0)

Trim(s) ==
  LET solid == {i \in 1 .. Len(s) : s[i] # 0} IN
  IF solid = {} THEN <<>>
  ELSE SubSeq(s, Min(solid), Max(solid))

Reading == at \in 1 .. Len(files) /\ budget > 0
Ref == files[at]

(* The window is asked for with one line more, which tells whether the file *)
(* goes on.                                                                *)
Asked == SubSeq(LineEnds[Ref], window * WindowLines + 1, Min({Len(LineEnds[Ref]), (window + 1) * WindowLines + 1}))
ReadUpTo == IF window = 0 THEN 0 ELSE LineEnds[Ref][window * WindowLines]

(* Mutant: the line more is kept.                                          *)
AllOfIt(chunk) == chunk

WindowText(chunk) == SubSeq(chunk, 1, Min({Len(chunk), WindowLines}))
More(chunk) == Len(chunk) > WindowLines

(* readAttachmentContents: a file ends with its text or with a failure.    *)
Ends(read, truncated) ==
  LET content == Trim(read) IN
  /\ at' = at + 1 /\ window' = 0 /\ text' = <<>>
  /\ IF content = <<>> THEN UNCHANGED <<contents, budget>>
     ELSE /\ contents' = Append(contents, [ref |-> Ref, content |-> content, truncated |-> truncated])
          /\ budget' = budget - Len(content)
  /\ UNCHANGED failures

Fails ==
  /\ Reading /\ failures' = failures \cup {Ref}
  /\ at' = at + 1 /\ window' = 0 /\ text' = <<>>
  /\ UNCHANGED <<input, files, artifacts, shelf, hits, greps, budget, whole, contents>>

(* readWindowsWithinBudget: one window.                                    *)
ReadWindow ==
  /\ Reading /\ Readable(Ref)
  /\ LET addition == (IF window = 0 THEN <<>> ELSE <<0>>) \o Joined(WindowText(Asked), ReadUpTo)
         read == text \o addition IN
     \/ Len(read) > budget /\ Ends(SubSeq(read, 1, budget), TRUE)
     \/ Len(read) <= budget /\ ~More(Asked) /\ Ends(read, FALSE)
     \/ Len(read) <= budget /\ More(Asked) /\ window + 1 = MaxWindows /\ Ends(read, TRUE)
     \/ /\ Len(read) <= budget /\ More(Asked) /\ window + 1 < MaxWindows
        /\ text' = read /\ window' = window + 1 /\ UNCHANGED <<at, contents, failures, budget>>
  /\ UNCHANGED <<input, files, artifacts, shelf, hits, greps, whole>>

(* External: an attachment expires, an artifact is published.              *)
Change ==
  /\ \/ \E r \in shelf : IsAttachment(r) /\ shelf' = shelf \ {r}
     \/ \E r \in Refs \ shelf : r.shelf \in ArtifactKinds /\ shelf' = shelf \cup {r}
  /\ UNCHANGED <<input, files, artifacts, hits, greps, at, window, text, budget, whole, contents, failures>>

Next == (\E k \in ArtifactKinds : Load(k)) \/ Readers \/ Grep \/ ReadWindow \/ Fails \/ Change

--------------------------------------------------------------------------------
(* A turn reads and finds only the files that its request names and the    *)
(* artifacts of its lists, each once, though the shelves find what lies in *)
(* the whole thread or project and new artifacts appear.                   *)
OnlyFilesOfTheTurn ==
  LET named == {r \in ToSet(input[1] \o input[2]) : IsAttachment(r)}
      read == {contents[i].ref : i \in 1 .. Len(contents)} IN
  /\ hits \cup read \cup failures \subseteq named \cup UNION {artifacts[k] : k \in ArtifactKinds}
  /\ Cardinality(read) = Len(contents) /\ read \cap failures = {}

(* A text is the beginning of its file, all of it exactly when it is not   *)
(* called truncated, at any height of the last window; all texts together  *)
(* keep to the budget, and a file is missing only if it failed, has no text *)
(* or comes after the budget was used up.                                  *)
TextsAreExact ==
  /\ \A i \in 1 .. Len(contents) :
       LET c == contents[i] IN
       /\ \E n \in 0 .. Len(Full(c.ref)) :
            c.content = Trim(SubSeq(Full(c.ref), 1, n)) /\ (c.truncated <=> n < Len(Full(c.ref)))
       /\ c.truncated => Len(c.content) < Len(Full(c.ref))
  /\ Cardinality(UNION {{i} \X DOMAIN contents[i].content : i \in 1 .. Len(contents)}) + budget = whole
  /\ \A i \in 1 .. Len(files) : i < at =>
       \/ files[i] \in failures \/ \E k \in 1 .. Len(contents) : contents[k].ref = files[i]
       \/ Trim(Full(files[i])) = <<>> \/ \E n \in 1 .. whole : Trim(SubSeq(Full(files[i]), 1, n)) = <<>>
================================================================================
