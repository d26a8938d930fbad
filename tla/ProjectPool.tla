------------------------------ MODULE ProjectPool ------------------------------
(***************************************************************************)
(* The pool of a project in document-service (packages/ts-host/src/        *)
(* project-knowledge/project-pool.ts): documents are uploaded, also again  *)
(* after an answer was lost, looked up by their title page by page, and    *)
(* listed by their ids.                                                    *)
(*                                                                         *)
(* External: document-service, where documents appear and disappear        *)
(* between any two requests.  It knows a file by its hash, finds titles    *)
(* that contain the words, and pages in the order of creation.             *)
(***************************************************************************)
EXTENDS Naturals, Sequences, FiniteSets

CONSTANTS
  Titles,      \* the titles that a search for one of them, Sought, finds
  Sought,
  Hashes,
  PageSize, MaxPages, MaxSeriesIds,
  MaxDocuments, MaxUploads   \* bounds

VARIABLES
  pool,        (* the service: the documents                                   *)
  made,        (* the service: how many series there have been                 *)
  upload,      (* the upload: a file, how far it is, and its answer            *)
  uploads,
  lookup,      (* a search by title or a list by ids: its page, its answer     *)
  there        (* observation: the documents there since the look-up began     *)

poolVars == <<pool, made, upload, uploads, lookup, there>>

Idle == [pc |-> "idle", hash |-> "none", answer |-> 0, own |-> {}]

Init ==
  /\ pool = {} /\ made = 0 /\ upload = Idle /\ uploads = 0 /\ there = {}
  /\ lookup = [pc |-> "new", page |-> 0, cursor |-> 0, ids |-> {}, answer |-> {}]

Add(hash, title) ==
  /\ made < MaxDocuments /\ made' = made + 1
  /\ pool' = pool \cup {[series |-> made', hash |-> hash, title |-> title]}

--------------------------------------------------------------------------------
(* uploadToProjectPool; own: the series that uploads of this file have made. *)
Upload ==
  /\ upload.pc \in {"idle", "answered", "failed"} /\ uploads < MaxUploads /\ uploads' = uploads + 1
  /\ \E h \in Hashes : upload' = [pc |-> "sent", hash |-> h, answer |-> 0, own |-> IF h = upload.hash THEN upload.own ELSE {}]
  /\ UNCHANGED <<pool, made, lookup, there>>

(* External: a file whose content is in the pool is a duplicate.           *)
Taken ==
  /\ upload.pc = "sent"
  /\ \/ /\ \A d \in pool : d.hash # upload.hash
        /\ \E t \in Titles : Add(upload.hash, t)
        /\ upload' = [upload EXCEPT !.pc = "taken", !.answer = made', !.own = @ \cup {made'}]
     \/ /\ \E d \in pool : d.hash = upload.hash /\ upload' = [upload EXCEPT !.pc = "duplicate", !.answer = d.series]
        /\ UNCHANGED <<pool, made>>
  /\ UNCHANGED <<uploads, lookup, there>>

HasSeries(status) == status \in {"taken", "duplicate"}

(* The answer is read: seriesId or duplicateOf.  Or the service refuses, or *)
(* the answer is lost, whether or not the service has taken the file.      *)
Uploaded ==
  /\ upload.pc \in {"taken", "duplicate"}
  /\ upload' = IF HasSeries(upload.pc) THEN [upload EXCEPT !.pc = "answered"] ELSE [upload EXCEPT !.pc = "answered", !.answer = 0]
  /\ UNCHANGED <<pool, made, uploads, lookup, there>>

UploadFails ==
  /\ upload.pc \in {"sent", "taken", "duplicate"} /\ upload' = [upload EXCEPT !.pc = "failed", !.answer = 0]
  /\ UNCHANGED <<pool, made, uploads, lookup, there>>

--------------------------------------------------------------------------------
(* listProjectPoolDocuments asks for nothing when it has no ids, and refuses *)
(* more than MAX_SERIES_IDS.                                               *)
ListBegins(ids) ==
  IF ids = {} THEN "listed" ELSE IF Cardinality(ids) > MaxSeriesIds THEN "error" ELSE "lists"

Begin ==
  /\ lookup.pc = "new" /\ there' = pool
  /\ lookup' \in {[lookup EXCEPT !.pc = "searches"]} \cup
                 {[lookup EXCEPT !.pc = ListBegins(ids), !.ids = ids] : ids \in SUBSET (1 .. MaxDocuments)}
  /\ UNCHANGED <<pool, made, upload, uploads>>

(* External: the page after the cursor.                                    *)
After(cursor) == {d \in pool : d.series > cursor}
Page == {d \in After(lookup.cursor) : Cardinality({e \in After(lookup.cursor) : e.series <= d.series}) <= PageSize}
NextCursor == CHOOSE n \in {d.series : d \in Page} : \A d \in Page : d.series <= n

(* Mutant: the first page is the answer.                                   *)
FirstOnly == FALSE

HasNext == After(lookup.cursor) # Page

(* findProjectDocumentByTitle: one page.  After the last one, and after the *)
(* MAX_PAGES-th, which is the last it asks for, the answer is null.        *)
ReadPage ==
  /\ lookup.pc = "searches"
  /\ LET exact == {d \in Page : d.title = Sought} IN
     \/ exact # {} /\ \E d \in exact : lookup' = [lookup EXCEPT !.pc = "found", !.answer = {d}]
     \/ exact = {} /\ ~HasNext /\ lookup' = [lookup EXCEPT !.pc = "null"]
     \/ exact = {} /\ HasNext /\ lookup.page + 1 = MaxPages /\ lookup' = [lookup EXCEPT !.pc = "null at limit"]
     \/ exact = {} /\ HasNext /\ lookup.page + 1 < MaxPages /\ lookup' = [lookup EXCEPT !.page = @ + 1, !.cursor = NextCursor]
  /\ UNCHANGED <<pool, made, upload, uploads, there>>

(* The rows of an older service, which does not know the parameter, are    *)
(* those of its first page; rows that were not asked for are dropped.      *)
List ==
  /\ lookup.pc = "lists"
  /\ \E rows \in {pool, Page} :
       lookup' = [lookup EXCEPT !.pc = "listed", !.answer = {d \in rows : d.series \in lookup.ids}]
  /\ UNCHANGED <<pool, made, upload, uploads, there>>

LookupFails ==
  /\ lookup.pc \in {"searches", "lists"} /\ lookup' = [lookup EXCEPT !.pc = "error"]
  /\ UNCHANGED <<pool, made, upload, uploads, there>>

(* External: somebody else adds a document, or removes one.                *)
Change ==
  /\ \/ \E h \in Hashes \ {d.hash : d \in pool}, t \in Titles : Add(h, t)
     \/ \E d \in pool : pool' = pool \ {d} /\ UNCHANGED made
  /\ there' = there \cap pool'
  /\ UNCHANGED <<upload, uploads, lookup>>

Next == Upload \/ Taken \/ Uploaded \/ UploadFails \/ Begin \/ ReadPage \/ List \/ LookupFails \/ Change

--------------------------------------------------------------------------------
(* A file that is uploaded again after its answer was lost gets the series *)
(* that the first upload made, as long as that is in the pool.             *)
RepeatedUploadsAgree ==
  upload.pc = "answered" =>
    /\ upload.answer # 0
    /\ upload.own \cap {d.series : d \in pool} \subseteq {upload.answer}

(* A search that ends before its limit misses no document that was in      *)
(* the pool all the time, though documents come and go between its pages;  *)
(* what it finds has the title in full, and lists hold only what was asked. *)
SearchesAreExact ==
  /\ lookup.pc = "null" => \A d \in there : d.title # Sought
  /\ lookup.pc = "found" => \A d \in lookup.answer : d.title = Sought
  /\ lookup.pc = "listed" => {d.series : d \in lookup.answer} \subseteq lookup.ids

(* The pool answers about the documents that are in it.                    *)
AnswersAreExact == RepeatedUploadsAgree /\ SearchesAreExact
================================================================================
