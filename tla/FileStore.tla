------------------------------ MODULE FileStore ------------------------------
(***************************************************************************)
(* The project store on disk (server/internal/project/project.go): one      *)
(* directory per project with its project.json, written beside and renamed. *)
(*                                                                         *)
(* Its calls are steps on the file system that interleave with each other;  *)
(* each may fail, and the server may die between any two.  An id is drawn    *)
(* for one create; a delete begins once its project was found.              *)
(***************************************************************************)
CONSTANTS
  Ids,      \* projects
  Readers,  \* calls of List
  Deletes   \* calls of Delete

VARIABLES
  dir,       \* the project directories
  tmp,       \* project.json.tmp of each project: "none", "part" or "whole"
  json,      \* project.json of each project, likewise
  creating,  \* where each project's create is
  unlinking, \* the deletes whose next call is to remove project.json,
  removing,  \* and those whose next call is to remove the directory
  listing,   \* the readers that are listing
  left,      \* per reader: the directories it has not looked into
  found,     \* per reader: the projects it found
  always, ever, listed  \* history: as in AtomicStore

files   == <<dir, tmp, json>>
writers == <<creating, unlinking, removing>>
lists   == <<listing, left, found, always, ever, listed>>
vars    == <<files, writers, lists>>

\* What the store holds: the projects with a project.json.
Meta == {id \in Ids : json[id] # "none"}

\* A project appears in the history of every list.
Appears(id) == ever' = [r \in Readers |-> ever[r] \union {id}]

-----------------------------------------------------------------------------
(* Create: MkdirAll, WriteFile of the temporary, Rename.                     *)

MakeDir(id) ==
  /\ creating[id] = "no"
  /\ creating' = [creating EXCEPT ![id] = "dir"]
  /\ dir' = dir \union {id}
  /\ UNCHANGED <<tmp, json, unlinking, removing, lists>>

\* Slip: project.json is written in place.
WriteInPlace(id) ==
  /\ creating[id] = "dir"
  /\ creating' = [creating EXCEPT ![id] = "written"]
  /\ json' = [json EXCEPT ![id] = "part"] /\ tmp' = [tmp EXCEPT ![id] = "whole"]
  /\ Appears(id)
  /\ UNCHANGED <<dir, unlinking, removing, listing, left, found, always, listed>>

\* The file is created, and may stay like this if the write fails.
BeginWrite(id) ==
  /\ creating[id] = "dir"
  /\ creating' = [creating EXCEPT ![id] = "writing"]
  /\ tmp' = [tmp EXCEPT ![id] = "part"]
  /\ UNCHANGED <<dir, json, unlinking, removing, lists>>

EndWrite(id) ==
  /\ creating[id] = "writing"
  /\ creating' = [creating EXCEPT ![id] = "written"]
  /\ tmp' = [tmp EXCEPT ![id] = "whole"]
  /\ UNCHANGED <<dir, json, unlinking, removing, lists>>

Rename(id) ==
  /\ creating[id] = "written"
  /\ creating' = [creating EXCEPT ![id] = "done"]
  /\ json' = [json EXCEPT ![id] = tmp[id]] /\ tmp' = [tmp EXCEPT ![id] = "none"]
  /\ Appears(id)
  /\ UNCHANGED <<dir, unlinking, removing, listing, left, found, always, listed>>

\* Any of its calls fails: what was done stays, Create returns the error.
CreateFails(id) ==
  /\ creating[id] \in {"no", "dir", "writing", "written"}
  /\ creating' = [creating EXCEPT ![id] = "failed"]
  /\ UNCHANGED <<files, unlinking, removing, lists>>

-----------------------------------------------------------------------------
(* Delete: RemoveAll, after Service.Delete has found the project.            *)

BeginDelete(d, id) ==
  /\ json[id] # "none" /\ <<d, id>> \notin unlinking \union removing
  /\ unlinking' = unlinking \union {<<d, id>>}
  /\ UNCHANGED <<files, creating, removing, lists>>

\* The file goes; it may be gone already, by another delete.
Unlink(d, id) ==
  /\ <<d, id>> \in unlinking
  /\ json' = [json EXCEPT ![id] = "none"]
  /\ unlinking' = unlinking \ {<<d, id>>} /\ removing' = removing \union {<<d, id>>}
  /\ always' = [r \in Readers |-> always[r] \ {id}]
  /\ UNCHANGED <<dir, tmp, creating, listing, left, found, ever, listed>>

RemoveDir(d, id) ==
  /\ <<d, id>> \in removing
  /\ dir' = dir \ {id}
  /\ removing' = removing \ {<<d, id>>}
  /\ UNCHANGED <<tmp, json, creating, unlinking, lists>>

\* RemoveAll fails at either of its calls.
DeleteFails(d, id) ==
  /\ <<d, id>> \in unlinking \union removing
  /\ unlinking' = unlinking \ {<<d, id>>} /\ removing' = removing \ {<<d, id>>}
  /\ UNCHANGED <<files, creating, lists>>

-----------------------------------------------------------------------------
(* List: ReadDir, then the project.json of each directory.                  *)

\* Slip: what is not a directory is looked into as well.
ReadEntries(r) ==
  /\ r \notin listing
  /\ listing' = listing \union {r}
  /\ left' = [left EXCEPT ![r] = dir \union {"stray file"}]
  /\ found' = [found EXCEPT ![r] = {}]
  /\ always' = [always EXCEPT ![r] = Meta] /\ ever' = [ever EXCEPT ![r] = Meta]
  /\ UNCHANGED <<files, writers, listed>>

ReadDir(r) ==
  /\ r \notin listing
  /\ listing' = listing \union {r}
  /\ left' = [left EXCEPT ![r] = dir] /\ found' = [found EXCEPT ![r] = {}]
  /\ always' = [always EXCEPT ![r] = Meta] /\ ever' = [ever EXCEPT ![r] = Meta]
  /\ UNCHANGED <<files, writers, listed>>

\* Slip: a directory is a project.
ReadAny(r, id) ==
  /\ r \in listing /\ id \in left[r]
  /\ left' = [left EXCEPT ![r] = @ \ {id}]
  /\ found' = [found EXCEPT ![r] = @ \union {id}]
  /\ UNCHANGED <<files, writers, listing, always, ever, listed>>

\* A directory without the file is skipped.
ReadJSON(r, id) ==
  /\ r \in listing /\ id \in left[r] /\ json[id] # "part"
  /\ left' = [left EXCEPT ![r] = @ \ {id}]
  /\ found' = [found EXCEPT ![r] = IF json[id] = "whole" THEN @ \union {id} ELSE @]
  /\ UNCHANGED <<files, writers, listing, always, ever, listed>>

\* A file that cannot be read (or decoded, but see NeverHalf) fails the whole list.
ListFails(r) ==
  /\ r \in listing /\ left[r] # {}
  /\ listing' = listing \ {r}
  /\ UNCHANGED <<files, writers, left, found, always, ever, listed>>

EndList(r) ==
  /\ r \in listing /\ left[r] = {}
  /\ listing' = listing \ {r}
  /\ listed' = [listed EXCEPT ![r] = found[r]]
  /\ UNCHANGED <<files, writers, left, found, always, ever>>

-----------------------------------------------------------------------------

\* The server dies: what is on disk stays.
Crash ==
  /\ creating' = [id \in Ids |->
       IF creating[id] \in {"dir", "writing", "written"} THEN "failed" ELSE creating[id]]
  /\ unlinking' = {} /\ removing' = {}
  /\ listing' = {}
  /\ UNCHANGED <<files, left, found, always, ever, listed>>

Init ==
  /\ dir = {}
  /\ tmp = [id \in Ids |-> "none"] /\ json = [id \in Ids |-> "none"]
  /\ creating = [id \in Ids |-> "no"] /\ unlinking = {} /\ removing = {}
  /\ listing = {}
  /\ left = [r \in Readers |-> {}] /\ found = [r \in Readers |-> {}]
  /\ always = [r \in Readers |-> {}] /\ ever = [r \in Readers |-> {}]
  /\ listed = [r \in Readers |-> {}]

Create(id) == MakeDir(id) \/ BeginWrite(id) \/ EndWrite(id) \/ Rename(id) \/ CreateFails(id)
Delete(d, id) == BeginDelete(d, id) \/ Unlink(d, id) \/ RemoveDir(d, id) \/ DeleteFails(d, id)
List(r) == ReadDir(r) \/ EndList(r) \/ ListFails(r) \/ \E id \in Ids : ReadJSON(r, id)

Next ==
  \/ \E id \in Ids : Create(id)
  \/ \E d \in Deletes, id \in Ids : Delete(d, id)
  \/ \E r \in Readers : List(r)
  \/ Crash

Spec == Init /\ [][Next]_vars

-----------------------------------------------------------------------------
(* Properties                                                               *)

Content == {"none", "part", "whole"}

\* The variables keep their types.
TypeOK ==
  /\ dir \subseteq Ids /\ listing \subseteq Readers
  /\ tmp \in [Ids -> Content] /\ json \in [Ids -> Content]
  /\ creating \in [Ids -> {"no", "dir", "writing", "written", "done", "failed"}]
  /\ unlinking \subseteq Deletes \X Ids /\ removing \subseteq Deletes \X Ids
  /\ left \in [Readers -> SUBSET Ids] /\ found \in [Readers -> SUBSET Ids]
  /\ always \in [Readers -> SUBSET Ids] /\ ever \in [Readers -> SUBSET Ids]
  /\ listed \in [Readers -> SUBSET Ids]

\* Nobody ever sees a half-written project.json, whatever failed or crashed: a list
\* or a read is never refused by what another call left behind.
NeverHalf == \A id \in Ids : json[id] # "part"

\* The files and their steps behave like the store that creates and deletes at one
\* instant.
Atomic == INSTANCE AtomicStore WITH meta <- Meta, reading <- listing
ImplementsAtomicStore == Atomic!Spec
=============================================================================
