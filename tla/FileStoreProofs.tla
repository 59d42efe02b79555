--------------------------- MODULE FileStoreProofs ---------------------------
(***************************************************************************)
(* The store on disk implements the atomic store, for every set of projects,*)
(* readers and deletes.                                                     *)
(***************************************************************************)
EXTENDS FileStore, TLAPS

\* A create under way has its directory and has put nothing in place; what is in
\* place is whole, in a directory, and its create is done, as is that of whatever
\* is being deleted.
Files ==
  /\ \A id \in Ids :
       /\ creating[id] \in {"dir", "writing", "written"} => id \in dir
       /\ creating[id] = "written" => tmp[id] = "whole"
       /\ json[id] # "none" => json[id] = "whole" /\ creating[id] = "done" /\ id \in dir
  /\ \A d \in Deletes, id \in Ids :
       /\ <<d, id>> \in unlinking \union removing => creating[id] = "done"
       /\ <<d, id>> \in removing => json[id] = "none"

\* A list has found only what was there, and has not passed over anything that
\* was there all the time.
Lists ==
  \A r \in listing :
    /\ always[r] \subseteq Meta /\ Meta \subseteq ever[r]
    /\ always[r] \subseteq left[r] \union found[r]
    /\ found[r] \subseteq ever[r]

Inv == TypeOK /\ Files /\ Lists

\* The invariant holds of an empty disk.
LEMMA InvInit == Init => Inv
  BY DEF Init, Inv, TypeOK, Files, Lists, Content, Meta

\* The step changes no file and no writer.
LEMMA FilesKept ==
  ASSUME Files, UNCHANGED <<files, writers>>
  PROVE  Files'
  BY DEF Files, files, writers

\* Every step of a create keeps the invariant.
LEMMA CreateKeeps ==
  ASSUME Inv, NEW id \in Ids, Create(id)
  PROVE  Inv'
<1> USE DEF Inv, Content
<1>1. TypeOK'
  BY DEF Create, MakeDir, BeginWrite, EndWrite, Rename, CreateFails, Appears, TypeOK, files, lists
<1>2. Files'
  BY DEF Create, MakeDir, BeginWrite, EndWrite, Rename, CreateFails, TypeOK, files, Files
<1>3. Lists'
  <2>1. CASE Rename(id)
    <3>1. Meta' = Meta \union {id}
      BY <2>1 DEF Rename, Meta, TypeOK, Files
    <3>2. \A r \in Readers : ever'[r] = ever[r] \union {id}
      BY <2>1 DEF Rename, Appears
    <3>3. UNCHANGED <<listing, left, found, always>>
      BY <2>1 DEF Rename
    <3> QED BY <3>1, <3>2, <3>3 DEF Lists, TypeOK
  <2>2. CASE ~Rename(id)
    BY <2>2 DEF Create, MakeDir, BeginWrite, EndWrite, CreateFails, files, lists, Lists, Meta
  <2> QED BY <2>1, <2>2
<1> QED BY <1>1, <1>2, <1>3

\* What removing project.json does to the store and the histories.
LEMMA UnlinkEffect ==
  ASSUME Inv, NEW d \in Deletes, NEW id \in Ids, Unlink(d, id)
  PROVE  /\ Meta' = Meta \ {id}
         /\ \A r \in Readers : always'[r] = always[r] \ {id}
  BY DEF Unlink, Meta, Inv, TypeOK

\* Every step of a delete keeps the invariant.
LEMMA DeleteKeeps ==
  ASSUME Inv, NEW d \in Deletes, NEW id \in Ids, Delete(d, id)
  PROVE  Inv'
<1> USE DEF Inv, Content
<1>1. TypeOK'
  BY DEF Delete, BeginDelete, Unlink, RemoveDir, DeleteFails, TypeOK, files, lists
<1>2. Files'
  BY DEF Delete, BeginDelete, Unlink, RemoveDir, DeleteFails, TypeOK, files, Files
<1>3. Lists'
  <2>1. CASE Unlink(d, id)
    <3>1. UNCHANGED <<listing, left, found, ever>>
      BY <2>1 DEF Unlink
    <3> QED BY <2>1, <3>1, UnlinkEffect DEF Lists, TypeOK
  <2>2. CASE ~Unlink(d, id)
    BY <2>2 DEF Delete, BeginDelete, RemoveDir, DeleteFails, files, lists, Lists, Meta
  <2> QED BY <2>1, <2>2
<1> QED BY <1>1, <1>2, <1>3

\* Every step of a list keeps the invariant.
LEMMA ListKeeps ==
  ASSUME Inv, NEW r \in Readers, List(r)
  PROVE  Inv'
<1> USE DEF Inv
<1>1. CASE ReadDir(r)
  <2>1. TypeOK'
    BY <1>1 DEF ReadDir, TypeOK, Meta, files, writers
  <2>2. Files'
    BY <1>1, FilesKept DEF ReadDir
  <2>3. Meta \subseteq dir
    BY DEF Meta, Files
  <2>4. /\ listing' = listing \union {r}
        /\ left'[r] = dir /\ always'[r] = Meta /\ ever'[r] = Meta /\ found'[r] = {}
        /\ Meta' = Meta
    BY <1>1 DEF ReadDir, TypeOK, files, Meta
  <2>5. \A q \in Readers \ {r} : /\ left'[q] = left[q] /\ always'[q] = always[q]
                                 /\ ever'[q] = ever[q] /\ found'[q] = found[q]
    BY <1>1 DEF ReadDir, TypeOK
  <2> QED BY <2>1, <2>2, <2>3, <2>4, <2>5 DEF Lists, TypeOK
<1>2. CASE EndList(r) \/ ListFails(r)
  <2>1. TypeOK'
    BY <1>2 DEF EndList, ListFails, TypeOK, files, writers
  <2>2. Files'
    BY <1>2, FilesKept DEF EndList, ListFails
  <2>3. Lists'
    BY <1>2 DEF EndList, ListFails, Lists, Meta, files
  <2> QED BY <2>1, <2>2, <2>3
<1>3. ASSUME NEW id \in Ids, ReadJSON(r, id) PROVE Inv'
  <2>1. TypeOK'
    BY <1>3 DEF ReadJSON, TypeOK, files, writers
  <2>2. Files'
    BY <1>3, FilesKept DEF ReadJSON
  <2>3. /\ left'[r] = left[r] \ {id}
        /\ found'[r] = IF id \in Meta THEN found[r] \union {id} ELSE found[r]
    BY <1>3 DEF ReadJSON, TypeOK, Meta, Files
  <2>4. \A q \in Readers \ {r} : left'[q] = left[q] /\ found'[q] = found[q]
    BY <1>3 DEF ReadJSON, TypeOK
  <2>5. listing' = listing /\ always' = always /\ ever' = ever /\ Meta' = Meta /\ r \in listing
    BY <1>3 DEF ReadJSON, files, Meta
  <2> QED BY <2>1, <2>2, <2>3, <2>4, <2>5, SMTT(20) DEF Lists, TypeOK
<1> QED BY <1>1, <1>2, <1>3 DEF List

\* A crash keeps the invariant.
LEMMA CrashKeeps == Inv /\ Crash => Inv'
  BY DEF Inv, Crash, TypeOK, Files, Lists, Content, files, Meta

\* Every step keeps the invariant.
LEMMA InvStep == Inv /\ [Next]_vars => Inv'
<1> SUFFICES ASSUME Inv, [Next]_vars PROVE Inv'
  OBVIOUS
<1>1. CASE UNCHANGED vars
  BY <1>1 DEF vars, files, writers, lists, Inv, TypeOK, Files, Lists, Meta
<1> QED BY <1>1, CreateKeeps, DeleteKeeps, ListKeeps, CrashKeeps DEF Next

\* The variables keep their types, whatever fails or crashes.
THEOREM TypeCorrect == Spec => []TypeOK
<1>1. Inv => TypeOK
  BY DEF Inv
<1> QED BY <1>1, InvInit, InvStep, PTL DEF Spec

\* Nobody ever sees a half-written project.json.
THEOREM NeverAnyHalf == Spec => []NeverHalf
<1>1. Inv => NeverHalf
  BY DEF Inv, Files, NeverHalf
<1> QED BY <1>1, InvInit, InvStep, PTL DEF Spec

-----------------------------------------------------------------------------

\* The empty disk is the empty store.
LEMMA RefineInit == Init => Atomic!Init
  BY DEF Init, Atomic!Init, Meta

\* Every step on the disk is a step of the store, or none.
LEMMA RefineStep == Inv /\ [Next]_vars => [Atomic!Next]_(Atomic!astore)
<1> SUFFICES ASSUME Inv, [Next]_vars PROVE [Atomic!Next]_(Atomic!astore)
  OBVIOUS
<1> USE DEF Atomic!astore
<1>1. ASSUME NEW id \in Ids, Create(id) PROVE [Atomic!Next]_(Atomic!astore)
  <2>1. CASE Rename(id)
    <3>1. Meta' = Meta \union {id}
      BY <2>1 DEF Rename, Meta, Inv, TypeOK, Files
    <3>2. Atomic!Create(id)
      BY <2>1, <3>1 DEF Rename, Appears, Atomic!Create
    <3> QED BY <3>2 DEF Atomic!Next
  <2>2. CASE ~Rename(id)
    BY <1>1, <2>2 DEF Create, MakeDir, BeginWrite, EndWrite, CreateFails, files, lists, Meta
  <2> QED BY <2>1, <2>2
<1>2. ASSUME NEW d \in Deletes, NEW id \in Ids, Delete(d, id)
      PROVE  [Atomic!Next]_(Atomic!astore)
  <2>1. CASE Unlink(d, id)
    <3>1. Atomic!Delete(id)
      BY <2>1, UnlinkEffect DEF Unlink, Atomic!Delete
    <3> QED BY <3>1 DEF Atomic!Next
  <2>2. CASE ~Unlink(d, id)
    BY <1>2, <2>2 DEF Delete, BeginDelete, RemoveDir, DeleteFails, files, lists, Meta
  <2> QED BY <2>1, <2>2
<1>3. ASSUME NEW r \in Readers, List(r) PROVE [Atomic!Next]_(Atomic!astore)
  <2>1. CASE ReadDir(r)
    <3>1. Atomic!BeginList(r)
      BY <2>1 DEF ReadDir, Atomic!BeginList, files, Meta
    <3> QED BY <3>1 DEF Atomic!Next
  <2>2. CASE EndList(r)
    <3>1. found[r] \in SUBSET Ids /\ always[r] \subseteq found[r] /\ found[r] \subseteq ever[r]
      BY <2>2 DEF EndList, Inv, TypeOK, Lists
    <3>2. Atomic!EndList(r)
      BY <2>2, <3>1 DEF EndList, Atomic!EndList, files, Meta
    <3> QED BY <3>2 DEF Atomic!Next
  <2>3. CASE ListFails(r)
    <3>1. Atomic!FailList(r)
      BY <2>3 DEF ListFails, Atomic!FailList, files, Meta
    <3> QED BY <3>1 DEF Atomic!Next
  <2>4. ASSUME NEW id \in Ids, ReadJSON(r, id) PROVE UNCHANGED Atomic!astore
    BY <2>4 DEF ReadJSON, files, Meta
  <2> QED BY <1>3, <2>1, <2>2, <2>3, <2>4 DEF List
<1>4. CASE Crash
  <2>1. Atomic!Restart
    BY <1>4 DEF Crash, Atomic!Restart, files, Meta
  <2> QED BY <2>1 DEF Atomic!Next
<1>5. CASE UNCHANGED vars
  BY <1>5 DEF vars, files, writers, lists, Meta
<1> QED BY <1>1, <1>2, <1>3, <1>4, <1>5 DEF Next

\* The store on disk implements the atomic store: creates and deletes take effect
\* at one instant, whatever fails or crashes, and lists agree with them.
THEOREM StoreIsAtomic == Spec => ImplementsAtomicStore
BY InvInit, InvStep, RefineInit, RefineStep, PTL DEF Spec, ImplementsAtomicStore, Atomic!Spec
=============================================================================
