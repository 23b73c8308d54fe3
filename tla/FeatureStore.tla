---------------------------- MODULE FeatureStore ----------------------------
(***************************************************************************)
(* The file-based feature repository (internal/storage): one YAML file per *)
(* feature in .fogit/features, and an index from feature ID to file name   *)
(* in .fogit/metadata/id_index.json.                                       *)
(*                                                                         *)
(* The feature files are tracked by git, so each branch has its own tree   *)
(* of them.  The index is git-ignored (internal/setup), so there is one    *)
(* index file and it survives every checkout.  A fogit command is a        *)
(* process: it loads the index once, keeps it in memory, runs repository   *)
(* calls and exits.  A call that writes is split at its persistent steps:  *)
(* choosing the path, the rename(2) that puts the feature file in place,   *)
(* the removal of an old file, and the save of the index.  Processes       *)
(* interleave between those steps and, if CrashAllowed, stop at them.      *)
(*                                                                         *)
(* A feature is abstracted to its ID and its name: these two decide which  *)
(* file holds it.  Directory scans stop at the first match in directory    *)
(* order; here any match may be the first.                                 *)
(***************************************************************************)
EXTENDS Naturals, FiniteSets

CONSTANTS Ids,          \* feature IDs (UUIDs)
          Names,        \* feature names
          NamesOf,      \* NamesOf[id]: the names the feature may be given
          Slugs,        \* slugs of names
          SlugOf,       \* SlugOf[name]: what slugify makes of a name
          Prefixes,     \* 8-character prefixes of IDs
          PrefixOf,     \* PrefixOf[id]
          Branches,     \* git branches
          Trunk,        \* the branch fogit is initialised on
          Procs,        \* processes: fogit commands that may overlap
          CrashAllowed, \* whether a process may stop between two steps
          NoSuffix,     \* the suffix of a file named by its slug alone
          None          \* no file, no feature, no name, no index entry

ASSUME ConstantsAssumption ==
    /\ NamesOf \in [Ids -> SUBSET Names]
    /\ SlugOf \in [Names -> Slugs]
    /\ PrefixOf \in [Ids -> Prefixes]
    /\ Trunk \in Branches
    /\ CrashAllowed \in BOOLEAN

\* A file name is a slug and the suffix that tells colliding names apart:
\* nothing, the first eight characters of the ID, or the whole ID.
Suffixes  == {NoSuffix} \cup Prefixes \cup Ids
Filenames == Slugs \X Suffixes
Features  == [id : Ids, name : Names]

ASSUME NoneAssumption ==
    /\ None \notin Filenames
    /\ None \notin Features
    /\ None \notin Ids \cup Names
    /\ NoSuffix \notin Prefixes \cup Ids
    /\ Prefixes \cap Ids = {}

VARIABLES trees,    \* trees[b]: the feature files of branch b
          branch,   \* the branch checked out
          diskIdx,  \* id_index.json
          pc,       \* where each process is
          mem,      \* the index each process has in memory
          held,     \* the feature object each process holds
          asked,    \* the ID the held object was fetched by, if by ID
          oldf,     \* the file the running call found
          newf      \* the file the running call writes to

vars == <<trees, branch, diskIdx, pc, mem, held, asked, oldf, newf>>

Files      == trees[branch]
EmptyIndex == [id \in Ids |-> None]
EmptyTree  == [f \in Filenames |-> None]

Exists(f)  == Files[f] # None
Holders(id) == {f \in Filenames : Exists(f) /\ Files[f].id = id}
Present(id) == Holders(id) # {}
-----------------------------------------------------------------------------
(***************************************************************************)
(* Choosing a file name: the slug, then the slug with the ID's prefix,     *)
(* then the slug with the whole ID, which is not checked for a collision.  *)
(***************************************************************************)
\* Variant: the slug, taken or not.
GenerateFilename_NoCollisionCheck(name, id, existing) == <<SlugOf[name], NoSuffix>>

\* Variant: every name has one slug.
GenerateFilename_EmptySlug(name, id, existing) ==
    GenerateFilename_NoCollisionCheck(CHOOSE n \in Names : TRUE, id, existing)

GenerateFilename(name, id, existing) ==
    LET slug == SlugOf[name]
    IN  IF <<slug, NoSuffix>> \notin existing THEN <<slug, NoSuffix>>
        ELSE IF <<slug, PrefixOf[id]>> \notin existing THEN <<slug, PrefixOf[id]>>
        ELSE <<slug, id>>

FeaturePathExcluding(name, id, excluded) ==
    GenerateFilename(name, id, {f \in Filenames : Exists(f)} \ {excluded})

(***************************************************************************)
(* findFeatureFile: an index entry whose file exists is trusted without    *)
(* reading the file; otherwise the entry is dropped and the directory is   *)
(* scanned.  The index is saved exactly when it changed.                   *)
(***************************************************************************)
FindResults(ix, id) ==
    IF ix[id] # None /\ Exists(ix[id])
    THEN {[file |-> ix[id], index |-> ix]}
    ELSE IF Present(id)
    THEN {[file |-> f, index |-> [ix EXCEPT ![id] = f]] : f \in Holders(id)}
    ELSE {[file |-> None, index |-> [ix EXCEPT ![id] = None]]}

SetIndex(p, ix) ==
    /\ mem' = [mem EXCEPT ![p] = ix]
    /\ diskIdx' = IF ix = mem[p] THEN diskIdx ELSE ix

SaveIndex(p, ix) ==
    /\ mem' = [mem EXCEPT ![p] = ix]
    /\ diskIdx' = ix

WriteFile(f, content) == trees' = [trees EXCEPT ![branch][f] = content]

Goto(p, step) == pc' = [pc EXCEPT ![p] = step]

\* What Rebuild can make of the feature files: of two files with one ID the
\* last one scanned wins.
RebuiltIndexes ==
    {ix \in [Ids -> {f \in Filenames : Exists(f)} \cup {None}] :
        \A id \in Ids : IF Present(id) THEN ix[id] \in Holders(id)
                                       ELSE ix[id] = None}
-----------------------------------------------------------------------------
Init ==
    /\ trees = [b \in Branches |-> EmptyTree]
    /\ branch = Trunk
    /\ diskIdx = EmptyIndex
    /\ pc = [p \in Procs |-> "idle"]
    /\ mem = [p \in Procs |-> EmptyIndex]
    /\ held = [p \in Procs |-> None]
    /\ asked = [p \in Procs |-> None]
    /\ oldf = [p \in Procs |-> None]
    /\ newf = [p \in Procs |-> None]

\* getIndex: load id_index.json, and rebuild and save it when it is empty.
Start(p) ==
    /\ pc[p] = "idle"
    /\ Goto(p, "ready")
    /\ \/ /\ diskIdx # EmptyIndex
          /\ mem' = [mem EXCEPT ![p] = diskIdx]
          /\ UNCHANGED diskIdx
       \/ /\ diskIdx = EmptyIndex
          /\ \E ix \in RebuiltIndexes : SaveIndex(p, ix)
    /\ UNCHANGED <<trees, branch, held, asked, oldf, newf>>

\* The process ends, with everything it kept in memory.
Forget(p) ==
    /\ Goto(p, "idle")
    /\ mem' = [mem EXCEPT ![p] = EmptyIndex]
    /\ held' = [held EXCEPT ![p] = None]
    /\ asked' = [asked EXCEPT ![p] = None]
    /\ oldf' = [oldf EXCEPT ![p] = None]
    /\ newf' = [newf EXCEPT ![p] = None]
    /\ UNCHANGED <<trees, branch, diskIdx>>

Exit(p)  == pc[p] = "ready" /\ Forget(p)
Crash(p) == CrashAllowed /\ pc[p] \notin {"idle", "ready"} /\ Forget(p)

\* Back to the caller, with or without an error; the paths are forgotten.
Return(p) ==
    /\ Goto(p, "ready")
    /\ held' = [held EXCEPT ![p] = None]
    /\ asked' = [asked EXCEPT ![p] = None]
    /\ oldf' = [oldf EXCEPT ![p] = None]
    /\ newf' = [newf EXCEPT ![p] = None]

\* Get: the object read from the file that was found, whatever ID it has.
GetFound(p, id, r) ==
    /\ SetIndex(p, r.index)
    /\ \/ /\ r.file = None
          /\ held' = [held EXCEPT ![p] = None]
          /\ asked' = [asked EXCEPT ![p] = None]
       \/ /\ r.file # None
          /\ held' = [held EXCEPT ![p] = Files[r.file]]
          /\ asked' = [asked EXCEPT ![p] = id]

Get(p, id) ==
    /\ pc[p] = "ready"
    /\ \E r \in FindResults(mem[p], id) : GetFound(p, id, r)
    /\ UNCHANGED <<trees, branch, pc, oldf, newf>>

\* List: the caller keeps one of the features read from the directory.
List(p) ==
    /\ pc[p] = "ready"
    /\ \E f \in {g \in Filenames : Exists(g)} :
          held' = [held EXCEPT ![p] = Files[f]]
    /\ asked' = [asked EXCEPT ![p] = None]
    /\ UNCHANGED <<trees, branch, diskIdx, pc, mem, oldf, newf>>
-----------------------------------------------------------------------------
(***************************************************************************)
(* Create: ErrFeatureAlreadyExists if a file is found for the ID.          *)
(***************************************************************************)
CreateFound(p, id, name, r) ==
    /\ SetIndex(p, r.index)
    /\ asked' = [asked EXCEPT ![p] = None]
    /\ \/ /\ r.file # None
          /\ held' = [held EXCEPT ![p] = None]
          /\ UNCHANGED <<pc, newf>>
       \/ /\ r.file = None
          /\ Goto(p, "create")
          /\ held' = [held EXCEPT ![p] = [id |-> id, name |-> name]]
          /\ newf' = [newf EXCEPT ![p] = FeaturePathExcluding(name, id, None)]

CreateBegin(p, id, name) ==
    /\ pc[p] = "ready"
    /\ name \in NamesOf[id]
    /\ \E r \in FindResults(mem[p], id) : CreateFound(p, id, name, r)
    /\ UNCHANGED <<trees, branch, oldf>>

CreateWrite(p) ==
    /\ pc[p] = "create"
    /\ WriteFile(newf[p], held[p])
    /\ Goto(p, "createIndex")
    /\ UNCHANGED <<branch, diskIdx, mem, held, asked, oldf, newf>>

CreateIndex(p) ==
    /\ pc[p] = "createIndex"
    /\ SaveIndex(p, [mem[p] EXCEPT ![held[p].id] = newf[p]])
    /\ Return(p)
    /\ UNCHANGED <<trees, branch>>

(***************************************************************************)
(* Update of the object held, possibly with a new name: in place when the  *)
(* file found has that name already, else write new, remove old, index.    *)
(***************************************************************************)
UpdateFound(p, name, r) ==
    /\ SetIndex(p, r.index)
    /\ asked' = [asked EXCEPT ![p] = None]
    /\ \/ /\ r.file = None
          /\ held' = [held EXCEPT ![p] = None]
          /\ UNCHANGED <<pc, oldf, newf>>
       \/ /\ r.file # None
          /\ held' = [held EXCEPT ![p].name = name]
          /\ oldf' = [oldf EXCEPT ![p] = r.file]
          /\ \/ /\ Files[r.file].name = name
                /\ Goto(p, "inPlace")
                /\ UNCHANGED newf
             \/ /\ Files[r.file].name # name
                /\ Goto(p, "renameWrite")
                /\ newf' = [newf EXCEPT ![p] =
                               FeaturePathExcluding(name, held[p].id, r.file)]

UpdateBegin(p, name) ==
    /\ pc[p] = "ready"
    /\ held[p] # None
    /\ name \in NamesOf[held[p].id]
    /\ \E r \in FindResults(mem[p], held[p].id) : UpdateFound(p, name, r)
    /\ UNCHANGED <<trees, branch>>

UpdateInPlace(p) ==
    /\ pc[p] = "inPlace"
    /\ WriteFile(oldf[p], held[p])
    /\ Return(p)
    /\ UNCHANGED <<branch, diskIdx, mem>>

\* Variant: the old file goes before the new one is there.
RenameWrite_OldFileFirst(p) ==
    /\ pc[p] = "renameWrite"
    /\ trees' = [trees EXCEPT ![branch][oldf[p]] = None]
    /\ Goto(p, "renameRemove")
    /\ UNCHANGED <<branch, diskIdx, mem, held, asked, oldf, newf>>

RenameWrite(p) ==
    /\ pc[p] = "renameWrite"
    /\ WriteFile(newf[p], held[p])
    /\ Goto(p, "renameRemove")
    /\ UNCHANGED <<branch, diskIdx, mem, held, asked, oldf, newf>>

\* Variant: the old file stays.
RenameRemove_KeepOld(p) ==
    /\ pc[p] = "renameRemove"
    /\ Goto(p, "renameIndex")
    /\ UNCHANGED <<trees, branch, diskIdx, mem, held, asked, oldf, newf>>

\* When the old file cannot be removed, the new one is removed instead.
RenameRemove(p) ==
    /\ pc[p] = "renameRemove"
    /\ \/ /\ Exists(oldf[p])
          /\ WriteFile(oldf[p], None)
          /\ Goto(p, "renameIndex")
          /\ UNCHANGED <<held, asked, oldf, newf>>
       \/ /\ ~Exists(oldf[p])
          /\ WriteFile(newf[p], None)
          /\ Return(p)
    /\ UNCHANGED <<branch, diskIdx, mem>>

RenameIndex(p) ==
    /\ pc[p] = "renameIndex"
    /\ SaveIndex(p, [mem[p] EXCEPT ![held[p].id] = newf[p]])
    /\ Return(p)
    /\ UNCHANGED <<trees, branch>>

(***************************************************************************)
(* Delete of the object held.                                              *)
(***************************************************************************)
\* Variant: a missing file is no error.
DeleteBegin_NoErrNotFound(p) ==
    /\ pc[p] = "ready"
    /\ held[p] # None
    /\ \E r \in FindResults(mem[p], held[p].id) :
          /\ SetIndex(p, r.index)
          /\ oldf' = [oldf EXCEPT ![p] = r.file]
    /\ Goto(p, "delete")
    /\ asked' = [asked EXCEPT ![p] = None]
    /\ UNCHANGED <<trees, branch, held, newf>>

DeleteFound(p, r) ==
    /\ SetIndex(p, r.index)
    /\ asked' = [asked EXCEPT ![p] = None]
    /\ \/ /\ r.file = None
          /\ held' = [held EXCEPT ![p] = None]
          /\ UNCHANGED <<pc, oldf>>
       \/ /\ r.file # None
          /\ Goto(p, "delete")
          /\ oldf' = [oldf EXCEPT ![p] = r.file]
          /\ UNCHANGED held

DeleteBegin(p) ==
    /\ pc[p] = "ready"
    /\ held[p] # None
    /\ \E r \in FindResults(mem[p], held[p].id) : DeleteFound(p, r)
    /\ UNCHANGED <<trees, branch, newf>>

DeleteRemove(p) ==
    /\ pc[p] = "delete"
    /\ \/ /\ Exists(oldf[p])
          /\ WriteFile(oldf[p], None)
          /\ Goto(p, "deleteIndex")
          /\ UNCHANGED <<held, asked, oldf, newf>>
       \/ /\ ~Exists(oldf[p])
          /\ Return(p)
          /\ UNCHANGED trees
    /\ UNCHANGED <<branch, diskIdx, mem>>

\* Variant: the index keeps the entry.
DeleteIndex_EntryKept(p) ==
    /\ pc[p] = "deleteIndex"
    /\ Return(p)
    /\ UNCHANGED <<trees, branch, diskIdx, mem>>

DeleteIndex(p) ==
    /\ pc[p] = "deleteIndex"
    /\ SaveIndex(p, [mem[p] EXCEPT ![held[p].id] = None])
    /\ Return(p)
    /\ UNCHANGED <<trees, branch>>
-----------------------------------------------------------------------------
(***************************************************************************)
(* git, run by a fogit command between its repository calls or by the user:*)
(* check out a branch, or make one from the branch checked out.  Feature   *)
(* files are committed before a checkout; the index is not touched.        *)
(***************************************************************************)
Checkout(b) ==
    /\ b # branch
    /\ \A p \in Procs : pc[p] \in {"idle", "ready"}
    /\ branch' = b
    /\ trees' \in {trees, [trees EXCEPT ![b] = Files]}
    /\ held' = [p \in Procs |-> None]
    /\ asked' = [p \in Procs |-> None]
    /\ UNCHANGED <<diskIdx, pc, mem, oldf, newf>>

Next ==
    \/ \E p \in Procs :
          \/ Start(p) \/ Exit(p) \/ Crash(p) \/ List(p)
          \/ \E id \in Ids : Get(p, id)
          \/ \E id \in Ids, name \in Names : CreateBegin(p, id, name)
          \/ CreateWrite(p) \/ CreateIndex(p)
          \/ \E name \in Names : UpdateBegin(p, name)
          \/ UpdateInPlace(p)
          \/ RenameWrite(p) \/ RenameRemove(p) \/ RenameIndex(p)
          \/ DeleteBegin(p) \/ DeleteRemove(p) \/ DeleteIndex(p)
    \/ \E b \in Branches : Checkout(b)

Spec == Init /\ [][Next]_vars
-----------------------------------------------------------------------------
Steps == {"idle", "ready", "create", "createIndex", "inPlace", "renameWrite",
          "renameRemove", "renameIndex", "delete", "deleteIndex"}
Index == [Ids -> Filenames \cup {None}]

\* The type of every variable, and that a process inside a call holds the
\* object and the paths that call works on.
TypeOK ==
    /\ trees \in [Branches -> [Filenames -> Features \cup {None}]]
    /\ branch \in Branches
    /\ diskIdx \in Index
    /\ pc \in [Procs -> Steps]
    /\ mem \in [Procs -> Index]
    /\ held \in [Procs -> Features \cup {None}]
    /\ asked \in [Procs -> Ids \cup {None}]
    /\ oldf \in [Procs -> Filenames \cup {None}]
    /\ newf \in [Procs -> Filenames \cup {None}]
    /\ \A p \in Procs :
          /\ pc[p] \notin {"idle", "ready"} => held[p] # None
          /\ asked[p] # None => held[p] # None
          /\ pc[p] \in {"inPlace", "renameWrite", "renameRemove", "renameIndex",
                        "delete", "deleteIndex"} => oldf[p] # None
          /\ pc[p] \in {"create", "createIndex", "renameWrite", "renameRemove",
                        "renameIndex"} => newf[p] # None

PointsToOwn(ix) ==
    \A id \in Ids : ix[id] # None /\ Exists(ix[id]) => Files[ix[id]].id = id

\* findFeatureFile trusts an index entry whose file exists: in every index,
\* on disk or in memory, such an entry leads to the file of that very ID.
IndexSound ==
    /\ PointsToOwn(diskIdx)
    /\ \A p \in Procs : PointsToOwn(mem[p])

\* Get(id) never hands the caller another feature.
GetReturnsAsked ==
    \A p \in Procs : asked[p] # None => held[p].id = asked[p]

\* No call is about to overwrite or remove a file that holds a feature other
\* than the one it was called for.
NoForeignWrite ==
    \A p \in Procs :
        /\ pc[p] \in {"inPlace", "renameRemove", "delete"} /\ Exists(oldf[p])
              => Files[oldf[p]].id = held[p].id
        /\ pc[p] \in {"create", "renameWrite"} /\ Exists(newf[p])
              => Files[newf[p]].id = held[p].id

\* A feature is in one file, except between the two halves of its rename.
OneFilePerFeature ==
    \A id \in Ids : \A f, g \in Holders(id) :
        f = g \/ \E p \in Procs : pc[p] = "renameRemove" /\ held[p].id = id

\* A feature disappears from the branch checked out only by its own deletion.
NoLoss ==
    [][\A id \in Ids :
          Present(id) /\ branch' = branch /\ ~Present(id)'
            => \E p \in Procs : pc[p] = "delete" /\ held[p].id = id]_vars

(***************************************************************************)
(* Refinement.  The map the files stand for: the name in the file of each  *)
(* feature, where a file about to be removed by a rename no longer counts. *)
(***************************************************************************)
CurrentFiles(id) ==
    {f \in Holders(id) : \A p \in Procs : pc[p] = "renameRemove" => oldf[p] # f}

StoredName(id) ==
    IF CurrentFiles(id) = {} THEN None
    ELSE Files[CHOOSE f \in CurrentFiles(id) : TRUE].name

Map == INSTANCE FeatureMap WITH store <- [id \in Ids |-> StoredName(id)]

\* Every step of the file repository is one change of one entry of the map of
\* features, or none: no call is seen half done or touches another feature.
ImplementsMap == Map!Spec

(***************************************************************************)
(* Regimes of use, as conditions on the constants.                         *)
(***************************************************************************)
\* Distinct names have distinct slugs: no rename keeps its file name.
DistinctSlugs == \A m, n \in Names : SlugOf[m] = SlugOf[n] => m = n

\* No name of one feature shares a slug with a name of another.
DisjointSlugs ==
    \A i, j \in Ids : \A m \in NamesOf[i], n \in NamesOf[j] :
        SlugOf[m] = SlugOf[n] => i = j

\* One command at a time, none interrupted, and one branch.
SequentialUse ==
    /\ \A p, q \in Procs : p = q
    /\ \A b, c \in Branches : b = c
    /\ ~CrashAllowed
=============================================================================
