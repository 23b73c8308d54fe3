------------------------ MODULE FeatureStore_proofs ------------------------
(***************************************************************************)
(* Proofs about FeatureStore for every set of features, names, slugs,      *)
(* branches and processes: its types; that no feature is mistaken for      *)
(* another where no slug is shared, whatever overlaps or stops; and that   *)
(* one command at a time, on one branch, implements the map FeatureMap.    *)
(***************************************************************************)
EXTENDS FeatureStore, TLAPS

\* What findFeatureFile returns: an existing file or none, and an index that
\* differs from the one it was given at the ID looked up only.
LEMMA FindTyping ==
    ASSUME TypeOK, NEW ix \in Index, NEW id \in Ids, NEW r \in FindResults(ix, id)
    PROVE  /\ r.index \in Index
           /\ r.file \in Filenames \cup {None}
           /\ r.file # None => Files[r.file] \in Features
<1>1. CASE ix[id] # None /\ Exists(ix[id])
    BY <1>1, NoneAssumption DEF FindResults, TypeOK, Index, Exists, Files
<1>2. CASE ~(ix[id] # None /\ Exists(ix[id])) /\ Present(id)
    <2>1. PICK f \in Holders(id) : r = [file |-> f, index |-> [ix EXCEPT ![id] = f]]
        BY <1>2 DEF FindResults
    <2>2. f \in Filenames /\ Files[f] # None
        BY <2>1 DEF Holders, Exists
    <2>3. Files[f] \in Features
        BY <2>2 DEF TypeOK, Files
    <2>. QED BY <2>1, <2>2, <2>3 DEF Index
<1>3. CASE ~(ix[id] # None /\ Exists(ix[id])) /\ ~Present(id)
    BY <1>3 DEF FindResults, Index
<1>. QED BY <1>1, <1>2, <1>3

\* A generated file name is a file name, with the slug of the name given.
LEMMA FilenameTyping ==
    ASSUME NEW name \in Names, NEW id \in Ids, NEW existing
    PROVE  /\ GenerateFilename(name, id, existing) \in Filenames
           /\ GenerateFilename(name, id, existing)[1] = SlugOf[name]
BY ConstantsAssumption DEF GenerateFilename, Filenames, Suffixes

LEMMA PathTyping ==
    ASSUME NEW name \in Names, NEW id \in Ids, NEW excluded
    PROVE  /\ FeaturePathExcluding(name, id, excluded) \in Filenames
           /\ FeaturePathExcluding(name, id, excluded)[1] = SlugOf[name]
BY FilenameTyping DEF FeaturePathExcluding

\* Every variable keeps its type, and a process inside a call holds the object
\* and the paths that call works on.
THEOREM TypeCorrect == Spec => []TypeOK
<1>1. Init => TypeOK
    BY ConstantsAssumption, NoneAssumption
    DEF Init, TypeOK, Index, EmptyIndex, EmptyTree, Steps
<1>2. TypeOK /\ [Next]_vars => TypeOK'
    <2> SUFFICES ASSUME TypeOK, [Next]_vars PROVE TypeOK'
        OBVIOUS
    <2> USE NoneAssumption DEF Steps
    <2>1. ASSUME NEW p \in Procs, Start(p) PROVE TypeOK'
        <3>1. RebuiltIndexes \subseteq Index
            BY DEF RebuiltIndexes, Index
        <3>. QED BY <2>1, <3>1 DEF Start, SaveIndex, Goto, TypeOK
    <2>2. ASSUME NEW p \in Procs, Exit(p) \/ Crash(p) PROVE TypeOK'
        <3>1. EmptyIndex \in Index
            BY DEF EmptyIndex, Index
        <3>2. Forget(p)
            BY <2>2 DEF Exit, Crash
        <3>. QED BY <3>1, <3>2 DEF Forget, Goto, TypeOK
    <2>3. ASSUME NEW p \in Procs, List(p) PROVE TypeOK'
        <3>1. \A f \in Filenames : Files[f] \in Features \cup {None}
            BY DEF TypeOK, Files
        <3>. QED BY <2>3, <3>1 DEF List, Exists, TypeOK
    <2>4. ASSUME NEW p \in Procs, NEW id \in Ids, Get(p, id) PROVE TypeOK'
        <3>1. PICK r \in FindResults(mem[p], id) : GetFound(p, id, r)
            BY <2>4 DEF Get
        <3>2. /\ r.index \in Index
              /\ r.file # None => Files[r.file] \in Features
            BY FindTyping DEF TypeOK
        <3>. QED BY <2>4, <3>1, <3>2 DEF Get, GetFound, SetIndex, TypeOK
    <2>5. ASSUME NEW p \in Procs, NEW id \in Ids, NEW name \in Names, CreateBegin(p, id, name)
          PROVE  TypeOK'
        <3>1. PICK r \in FindResults(mem[p], id) : CreateFound(p, id, name, r)
            BY <2>5 DEF CreateBegin
        <3>2. r.index \in Index
            BY FindTyping DEF TypeOK
        <3>3. FeaturePathExcluding(name, id, None) \in Filenames
            BY PathTyping
        <3>4. [id |-> id, name |-> name] \in Features
            BY DEF Features
        <3>. QED BY <2>5, <3>1, <3>2, <3>3, <3>4 DEF CreateBegin, CreateFound, SetIndex, Goto, TypeOK
    <2>6. ASSUME NEW p \in Procs, CreateWrite(p) PROVE TypeOK'
        BY <2>6 DEF CreateWrite, WriteFile, Goto, TypeOK
    <2>7. ASSUME NEW p \in Procs, CreateIndex(p) PROVE TypeOK'
        BY <2>7 DEF CreateIndex, SaveIndex, Return, Goto, TypeOK, Index, Features
    <2>8. ASSUME NEW p \in Procs, NEW name \in Names, UpdateBegin(p, name) PROVE TypeOK'
        <3>0. held[p] \in Features /\ held[p].id \in Ids
            BY <2>8 DEF UpdateBegin, TypeOK, Features
        <3>1. PICK r \in FindResults(mem[p], held[p].id) : UpdateFound(p, name, r)
            BY <2>8 DEF UpdateBegin
        <3>2. r.index \in Index /\ r.file \in Filenames \cup {None}
            BY <3>0, FindTyping DEF TypeOK
        <3>3. FeaturePathExcluding(name, held[p].id, r.file) \in Filenames
            BY <3>0, PathTyping
        <3>4. [held[p] EXCEPT !.name = name] \in Features
            BY <3>0 DEF Features
        <3>5. CASE r.file = None
            BY <2>8, <3>1, <3>2, <3>5 DEF UpdateBegin, UpdateFound, SetIndex, TypeOK
        <3>6. CASE r.file # None
            <4>1. held' \in [Procs -> Features \cup {None}] /\ held'[p] # None
                <5>1. held' = [held EXCEPT ![p] = [held[p] EXCEPT !.name = name]]
                    BY <3>1, <3>6 DEF UpdateFound
                <5>. QED BY <5>1, <3>4 DEF TypeOK, Features
            <4>2. mem' \in [Procs -> Index] /\ diskIdx' \in Index
                BY <3>1, <3>2 DEF UpdateFound, SetIndex, TypeOK
            <4>3. CASE Files[r.file].name = name
                BY <2>8, <3>1, <3>2, <3>6, <4>1, <4>2, <4>3 DEF UpdateBegin, UpdateFound, Goto, TypeOK
            <4>4. CASE Files[r.file].name # name
                BY <2>8, <3>1, <3>2, <3>3, <3>6, <4>1, <4>2, <4>4 DEF UpdateBegin, UpdateFound, Goto, TypeOK
            <4>. QED BY <4>3, <4>4
        <3>. QED BY <3>5, <3>6
    <2>9. ASSUME NEW p \in Procs, UpdateInPlace(p) PROVE TypeOK'
        BY <2>9 DEF UpdateInPlace, WriteFile, Return, Goto, TypeOK
    <2>10. ASSUME NEW p \in Procs, RenameWrite(p) PROVE TypeOK'
        BY <2>10 DEF RenameWrite, WriteFile, Goto, TypeOK
    <2>11. ASSUME NEW p \in Procs, RenameRemove(p) PROVE TypeOK'
        <3>0. pc[p] = "renameRemove" /\ UNCHANGED <<branch, diskIdx, mem>>
            BY <2>11 DEF RenameRemove
        <3>1. CASE Exists(oldf[p])
            <4>1. /\ WriteFile(oldf[p], None)
                  /\ Goto(p, "renameIndex")
                  /\ UNCHANGED <<held, asked, oldf, newf>>
                BY <2>11, <3>1 DEF RenameRemove
            <4>. QED BY <3>0, <4>1 DEF WriteFile, Goto, TypeOK
        <3>2. CASE ~Exists(oldf[p])
            <4>1. WriteFile(newf[p], None) /\ Return(p)
                BY <2>11, <3>2 DEF RenameRemove
            <4>. QED BY <3>0, <4>1 DEF WriteFile, Return, Goto, TypeOK
        <3>. QED BY <3>1, <3>2
    <2>12. ASSUME NEW p \in Procs, RenameIndex(p) PROVE TypeOK'
        BY <2>12 DEF RenameIndex, SaveIndex, Return, Goto, TypeOK, Index, Features
    <2>13. ASSUME NEW p \in Procs, DeleteBegin(p) PROVE TypeOK'
        <3>0. held[p] \in Features /\ held[p].id \in Ids
            BY <2>13 DEF DeleteBegin, TypeOK, Features
        <3>1. PICK r \in FindResults(mem[p], held[p].id) : DeleteFound(p, r)
            BY <2>13 DEF DeleteBegin
        <3>2. r.index \in Index /\ r.file \in Filenames \cup {None}
            BY <3>0, FindTyping DEF TypeOK
        <3>. QED BY <2>13, <3>1, <3>2 DEF DeleteBegin, DeleteFound, SetIndex, Goto, TypeOK
    <2>14. ASSUME NEW p \in Procs, DeleteRemove(p) PROVE TypeOK'
        <3>0. pc[p] = "delete" /\ UNCHANGED <<branch, diskIdx, mem>>
            BY <2>14 DEF DeleteRemove
        <3>1. CASE Exists(oldf[p])
            <4>1. /\ WriteFile(oldf[p], None)
                  /\ Goto(p, "deleteIndex")
                  /\ UNCHANGED <<held, asked, oldf, newf>>
                BY <2>14, <3>1 DEF DeleteRemove
            <4>. QED BY <3>0, <4>1 DEF WriteFile, Goto, TypeOK
        <3>2. CASE ~Exists(oldf[p])
            <4>1. Return(p) /\ UNCHANGED trees
                BY <2>14, <3>2 DEF DeleteRemove
            <4>. QED BY <3>0, <4>1 DEF Return, Goto, TypeOK
        <3>. QED BY <3>1, <3>2
    <2>15. ASSUME NEW p \in Procs, DeleteIndex(p) PROVE TypeOK'
        BY <2>15 DEF DeleteIndex, SaveIndex, Return, Goto, TypeOK, Index, Features
    <2>16. ASSUME NEW b \in Branches, Checkout(b) PROVE TypeOK'
        BY <2>16 DEF Checkout, Files, TypeOK
    <2>17. CASE UNCHANGED vars
        BY <2>17 DEF vars, TypeOK
    <2>. QED
        BY <2>1, <2>2, <2>3, <2>4, <2>5, <2>6, <2>7, <2>8, <2>9, <2>10, <2>11,
           <2>12, <2>13, <2>14, <2>15, <2>16, <2>17 DEF Next
<1>. QED BY <1>1, <1>2, PTL DEF Spec
-----------------------------------------------------------------------------
(***************************************************************************)
(* Disjoint slugs.  When no slug is shared by names of two features, a file*)
(* name tells which feature it can belong to, so an index entry that is out*)
(* of date, on another branch or saved by another process, is harmless.    *)
(* The invariant: every file, index entry and path at work carries a slug  *)
(* of its own feature.                                                     *)
(***************************************************************************)
OwnFile(id, f) == \E n \in NamesOf[id] : f[1] = SlugOf[n]

OwnIndex(ix) == \A id \in Ids : ix[id] # None => OwnFile(id, ix[id])

NamedContent(f, content) ==
    content # None => /\ content.name \in NamesOf[content.id]
                      /\ f[1] = SlugOf[content.name]

OwnTrees == \A b \in Branches, f \in Filenames : NamedContent(f, trees[b][f])

OwnCall(p) ==
    /\ held[p] # None => held[p].name \in NamesOf[held[p].id]
    /\ asked[p] # None => held[p].id = asked[p]
    /\ pc[p] \in {"inPlace", "renameRemove", "renameWrite", "renameIndex", "delete"}
         => OwnFile(held[p].id, oldf[p])
    /\ pc[p] = "inPlace" => oldf[p][1] = SlugOf[held[p].name]
    /\ pc[p] \in {"create", "createIndex", "renameWrite", "renameRemove", "renameIndex"}
         => newf[p][1] = SlugOf[held[p].name]

DisjointInv ==
    /\ TypeOK
    /\ OwnTrees
    /\ OwnIndex(diskIdx)
    /\ \A p \in Procs : OwnIndex(mem[p]) /\ OwnCall(p)

\* An existing file with a slug of a feature holds that feature.
LEMMA OwnFileHolds ==
    ASSUME DisjointSlugs, TypeOK, OwnTrees,
           NEW id \in Ids, NEW f \in Filenames, Exists(f), OwnFile(id, f)
    PROVE  Files[f].id = id
<1>1. Files[f] \in Features /\ NamedContent(f, Files[f])
    BY DEF TypeOK, OwnTrees, Exists, Files
<1>2. PICK n \in NamesOf[id] : f[1] = SlugOf[n]
    BY DEF OwnFile
<1>. QED BY <1>1, <1>2 DEF NamedContent, Exists, DisjointSlugs, Features

\* findFeatureFile keeps an index own and finds a file of the feature.
LEMMA FindOwn ==
    ASSUME TypeOK, OwnTrees, NEW ix \in Index, OwnIndex(ix),
           NEW id \in Ids, NEW r \in FindResults(ix, id)
    PROVE  /\ OwnIndex(r.index)
           /\ r.file # None => OwnFile(id, r.file)
<1>1. CASE ix[id] # None /\ Exists(ix[id])
    BY <1>1 DEF FindResults, OwnIndex
<1>2. CASE ~(ix[id] # None /\ Exists(ix[id])) /\ Present(id)
    <2>1. PICK f \in Holders(id) : r = [file |-> f, index |-> [ix EXCEPT ![id] = f]]
        BY <1>2 DEF FindResults
    <2>2. f \in Filenames /\ Files[f] # None /\ Files[f].id = id /\ NamedContent(f, Files[f])
        BY <2>1 DEF Holders, Exists, OwnTrees, TypeOK, Files
    <2>3. OwnFile(id, f)
        BY <2>2 DEF NamedContent, OwnFile
    <2>. QED BY <2>1, <2>3 DEF OwnIndex, Index
<1>3. CASE ~(ix[id] # None /\ Exists(ix[id])) /\ ~Present(id)
    BY <1>3 DEF FindResults, OwnIndex, Index
<1>. QED BY <1>1, <1>2, <1>3

\* A rebuilt index is own.
LEMMA RebuiltOwn ==
    ASSUME TypeOK, OwnTrees, NEW ix \in RebuiltIndexes
    PROVE  OwnIndex(ix)
<1> SUFFICES ASSUME NEW id \in Ids, ix[id] # None PROVE OwnFile(id, ix[id])
    BY DEF OwnIndex
<1>1. ix[id] \in Holders(id)
    BY DEF RebuiltIndexes
<1>2. ix[id] \in Filenames /\ Files[ix[id]] # None /\ Files[ix[id]].id = id
    BY <1>1 DEF Holders, Exists
<1>3. NamedContent(ix[id], Files[ix[id]])
    BY <1>2 DEF OwnTrees, TypeOK, Files
<1>. QED BY <1>2, <1>3 DEF NamedContent, OwnFile

\* Every step keeps the invariant.
LEMMA DisjointStep == DisjointSlugs /\ DisjointInv /\ TypeOK' /\ [Next]_vars => DisjointInv'
<1> SUFFICES ASSUME DisjointSlugs, DisjointInv, TypeOK', [Next]_vars
             PROVE  /\ OwnTrees' /\ OwnIndex(diskIdx)'
                    /\ \A p \in Procs : OwnIndex(mem[p])' /\ OwnCall(p)'
    BY DEF DisjointInv
<1> DEFINE Goal == /\ OwnTrees' /\ OwnIndex(diskIdx)'
                   /\ \A q \in Procs : OwnIndex(mem[q])' /\ OwnCall(q)'
<1> HIDE DEF Goal
<1>0. TypeOK /\ OwnTrees /\ OwnIndex(diskIdx)
      /\ \A p \in Procs : OwnIndex(mem[p]) /\ OwnCall(p)
    BY DEF DisjointInv
<1>1. ASSUME NEW p \in Procs, Start(p) PROVE Goal
    <2>1. \A ix \in RebuiltIndexes : OwnIndex(ix)
        BY <1>0, RebuiltOwn
    <2>. QED BY <1>0, <1>1, <2>1 DEF Start, SaveIndex, Goto, Goal, OwnTrees, OwnCall, TypeOK, OwnIndex
<1>2. ASSUME NEW p \in Procs, Exit(p) \/ Crash(p) PROVE Goal
    <2>1. Forget(p)
        BY <1>2 DEF Exit, Crash
    <2>2. OwnIndex(EmptyIndex)
        BY DEF OwnIndex, EmptyIndex
    <2>. QED BY <1>0, <2>1, <2>2 DEF Forget, Goto, Goal, OwnTrees, OwnCall, TypeOK
<1>3. ASSUME NEW p \in Procs, List(p) PROVE Goal
    <2>1. PICK f \in Filenames : Exists(f) /\ held' = [held EXCEPT ![p] = Files[f]]
        BY <1>3 DEF List
    <2>2. NamedContent(f, Files[f])
        BY <1>0 DEF OwnTrees, TypeOK, Files
    <2>. QED BY <1>0, <1>3, <2>1, <2>2
             DEF List, Goal, OwnTrees, OwnCall, TypeOK, NamedContent, Exists
<1>4. ASSUME NEW p \in Procs, NEW id \in Ids, Get(p, id) PROVE Goal
    <2>1. PICK r \in FindResults(mem[p], id) : GetFound(p, id, r)
        BY <1>4 DEF Get
    <2>2. /\ r.file \in Filenames \cup {None}
          /\ OwnIndex(r.index)
          /\ r.file # None => OwnFile(id, r.file) /\ Files[r.file] \in Features
        BY <1>0, FindTyping, FindOwn DEF TypeOK
    <2>3. r.file # None => Exists(r.file) /\ NamedContent(r.file, Files[r.file])
        BY <1>0, <2>2, NoneAssumption DEF OwnTrees, TypeOK, Files, Exists
    <2>4. r.file # None => Files[r.file].id = id
        BY <1>0, <2>2, <2>3, OwnFileHolds
    <2>. QED BY <1>0, <1>4, <2>1, <2>2, <2>3, <2>4
             DEF Get, GetFound, SetIndex, Goal, OwnTrees, OwnCall, TypeOK, NamedContent, Exists
<1>5. ASSUME NEW p \in Procs, NEW id \in Ids, NEW name \in Names, CreateBegin(p, id, name)
      PROVE  Goal
    <2>1. PICK r \in FindResults(mem[p], id) : CreateFound(p, id, name, r)
        BY <1>5 DEF CreateBegin
    <2>2. OwnIndex(r.index)
        BY <1>0, FindOwn DEF TypeOK
    <2>3. FeaturePathExcluding(name, id, None)[1] = SlugOf[name]
        BY PathTyping
    <2>. QED BY <1>0, <1>5, <2>1, <2>2, <2>3
             DEF CreateBegin, CreateFound, SetIndex, Goto, Goal, OwnTrees, OwnCall, TypeOK
<1>6. ASSUME NEW p \in Procs, CreateWrite(p) PROVE Goal
    <2>1. held[p] \in Features /\ newf[p] \in Filenames /\ NamedContent(newf[p], held[p])
        BY <1>0, <1>6 DEF CreateWrite, TypeOK, OwnCall, NamedContent
    <2>. QED BY <1>0, <1>6, <2>1
             DEF CreateWrite, WriteFile, Goto, Goal, OwnTrees, OwnCall, TypeOK
<1>7. ASSUME NEW p \in Procs, CreateIndex(p) \/ RenameIndex(p) PROVE Goal
    <2>1. /\ held[p] \in Features /\ held[p].id \in Ids
          /\ OwnFile(held[p].id, newf[p])
        BY <1>0, <1>7 DEF CreateIndex, RenameIndex, TypeOK, OwnCall, OwnFile, Features
    <2> DEFINE ix == [mem[p] EXCEPT ![held[p].id] = newf[p]]
    <2>2. OwnIndex(ix)
        BY <1>0, <2>1 DEF OwnIndex, TypeOK, Index
    <2>3. SaveIndex(p, ix) /\ Return(p) /\ UNCHANGED <<trees, branch>>
        BY <1>7 DEF CreateIndex, RenameIndex
    <2> HIDE DEF ix
    <2>. QED BY <1>0, <2>2, <2>3
             DEF SaveIndex, Return, Goto, Goal, OwnTrees, OwnCall, TypeOK
<1>8. ASSUME NEW p \in Procs, NEW name \in Names, UpdateBegin(p, name) PROVE Goal
    <2>0. held[p] \in Features /\ held[p].id \in Ids
        BY <1>0, <1>8 DEF UpdateBegin, TypeOK, Features
    <2>1. PICK r \in FindResults(mem[p], held[p].id) : UpdateFound(p, name, r)
        BY <1>8 DEF UpdateBegin
    <2>2. /\ r.file \in Filenames \cup {None}
          /\ OwnIndex(r.index)
          /\ r.file # None => OwnFile(held[p].id, r.file) /\ Files[r.file] \in Features
        BY <1>0, <2>0, FindTyping, FindOwn DEF TypeOK
    <2>3. r.file # None => NamedContent(r.file, Files[r.file]) /\ Files[r.file] # None
        BY <1>0, <2>2, NoneAssumption DEF OwnTrees, TypeOK, Files
    <2>4. FeaturePathExcluding(name, held[p].id, r.file)[1] = SlugOf[name]
        BY <2>0, PathTyping
    <2>5. CASE r.file = None
        BY <1>0, <1>8, <2>1, <2>2, <2>5
           DEF UpdateBegin, UpdateFound, SetIndex, Goal, OwnTrees, OwnCall, TypeOK
    <2>6. CASE r.file # None
        <3>1. /\ held' = [held EXCEPT ![p] = [held[p] EXCEPT !.name = name]]
              /\ oldf' = [oldf EXCEPT ![p] = r.file]
              /\ asked' = [asked EXCEPT ![p] = None]
              /\ SetIndex(p, r.index)
              /\ UNCHANGED <<trees, branch>>
            BY <1>8, <2>1, <2>6 DEF UpdateBegin, UpdateFound
        <3>2. /\ held'[p].id = held[p].id /\ held'[p].name = name
              /\ name \in NamesOf[held[p].id]
              /\ asked'[p] = None /\ oldf'[p] = r.file
            BY <1>0, <1>8, <2>0, <3>1 DEF UpdateBegin, TypeOK, Features
        <3>3. OwnTrees' /\ OwnIndex(diskIdx)' /\ \A q \in Procs : OwnIndex(mem[q])'
            BY <1>0, <2>2, <3>1 DEF SetIndex, OwnTrees, TypeOK
        <3>4. \A q \in Procs : q # p => OwnCall(q)'
            BY <1>0, <2>1, <2>6, <3>1 DEF UpdateFound, Goto, OwnCall, TypeOK
        <3>5. OwnCall(p)'
            <4>1. CASE Files[r.file].name = name
                <5>1. pc'[p] = "inPlace"
                    BY <1>0, <2>1, <2>6, <4>1 DEF UpdateFound, Goto, TypeOK
                <5>. QED BY <2>2, <2>3, <2>6, <3>2, <4>1, <5>1 DEF OwnCall, NamedContent
            <4>2. CASE Files[r.file].name # name
                <5>1. /\ pc'[p] = "renameWrite"
                      /\ newf'[p] = FeaturePathExcluding(name, held[p].id, r.file)
                    BY <1>0, <2>1, <2>6, <4>2 DEF UpdateFound, Goto, TypeOK
                <5>. QED BY <2>2, <2>4, <2>6, <3>2, <5>1 DEF OwnCall
            <4>. QED BY <4>1, <4>2
        <3>. QED BY <3>3, <3>4, <3>5 DEF Goal
    <2>. QED BY <2>5, <2>6
<1>9. ASSUME NEW p \in Procs, UpdateInPlace(p) PROVE Goal
    <2>1. held[p] \in Features /\ oldf[p] \in Filenames /\ NamedContent(oldf[p], held[p])
        BY <1>0, <1>9 DEF UpdateInPlace, TypeOK, OwnCall, NamedContent
    <2>. QED BY <1>0, <1>9, <2>1
             DEF UpdateInPlace, WriteFile, Return, Goto, Goal, OwnTrees, OwnCall, TypeOK
<1>10. ASSUME NEW p \in Procs, RenameWrite(p) PROVE Goal
    <2>1. held[p] \in Features /\ newf[p] \in Filenames /\ NamedContent(newf[p], held[p])
        BY <1>0, <1>10 DEF RenameWrite, TypeOK, OwnCall, NamedContent
    <2>. QED BY <1>0, <1>10, <2>1
             DEF RenameWrite, WriteFile, Goto, Goal, OwnTrees, OwnCall, TypeOK
<1>11. ASSUME NEW p \in Procs, RenameRemove(p) \/ DeleteRemove(p) PROVE Goal
    <2>1. OwnTrees'
        <3>1. \/ WriteFile(oldf[p], None) \/ WriteFile(newf[p], None) \/ UNCHANGED trees
            BY <1>11 DEF RenameRemove, DeleteRemove
        <3>2. UNCHANGED branch
            BY <1>11 DEF RenameRemove, DeleteRemove
        <3>3. \A b \in Branches, f \in Filenames : trees'[b][f] \in {trees[b][f], None}
            BY <1>0, <3>1 DEF WriteFile, TypeOK
        <3>. QED BY <1>0, <3>3 DEF OwnTrees, NamedContent
    <2>2. UNCHANGED <<diskIdx, mem>>
        BY <1>11 DEF RenameRemove, DeleteRemove
    <2>3. CASE Return(p)
        BY <1>0, <2>1, <2>2, <2>3 DEF Return, Goto, Goal, OwnCall, TypeOK
    <2>4. CASE ~Return(p)
        BY <1>0, <1>11, <2>1, <2>2, <2>4 DEF RenameRemove, DeleteRemove, Goto, Goal, OwnCall, TypeOK
    <2>. QED BY <2>3, <2>4
<1>12. ASSUME NEW p \in Procs, DeleteBegin(p) PROVE Goal
    <2>0. held[p] \in Features /\ held[p].id \in Ids
        BY <1>0, <1>12 DEF DeleteBegin, TypeOK, Features
    <2>1. PICK r \in FindResults(mem[p], held[p].id) : DeleteFound(p, r)
        BY <1>12 DEF DeleteBegin
    <2>2. /\ OwnIndex(r.index)
          /\ r.file # None => OwnFile(held[p].id, r.file)
        BY <1>0, <2>0, FindOwn DEF TypeOK
    <2>. QED BY <1>0, <1>12, <2>1, <2>2
             DEF DeleteBegin, DeleteFound, SetIndex, Goto, Goal, OwnTrees, OwnCall, TypeOK
<1>13. ASSUME NEW p \in Procs, DeleteIndex(p) PROVE Goal
    <2> DEFINE ix == [mem[p] EXCEPT ![held[p].id] = None]
    <2>1. OwnIndex(ix)
        BY <1>0 DEF OwnIndex, TypeOK, Index
    <2>2. SaveIndex(p, ix) /\ Return(p) /\ UNCHANGED <<trees, branch>>
        BY <1>13 DEF DeleteIndex
    <2> HIDE DEF ix
    <2>. QED BY <1>0, <2>1, <2>2
             DEF SaveIndex, Return, Goto, Goal, OwnTrees, OwnCall, TypeOK
<1>14. ASSUME NEW b \in Branches, Checkout(b) PROVE Goal
    <2>1. OwnTrees'
        BY <1>0, <1>14 DEF Checkout, OwnTrees, TypeOK, Files
    <2>. QED BY <1>0, <1>14, <2>1 DEF Checkout, Goal, OwnCall, TypeOK
<1>15. CASE UNCHANGED vars
    BY <1>0, <1>15 DEF vars, Goal, OwnTrees, OwnCall, OwnIndex
<1>. QED
    <2>1. ASSUME Next PROVE Goal
        BY <2>1, <1>1, <1>2, <1>3, <1>4, <1>5, <1>6, <1>7, <1>8, <1>9, <1>10, <1>11,
           <1>12, <1>13, <1>14 DEF Next
    <2>. QED BY <2>1, <1>15 DEF Goal

\* The invariant gives the three safety properties.
LEMMA DisjointInvSafe ==
    DisjointSlugs /\ DisjointInv => IndexSound /\ GetReturnsAsked /\ NoForeignWrite
<1> SUFFICES ASSUME DisjointSlugs, DisjointInv
             PROVE  IndexSound /\ GetReturnsAsked /\ NoForeignWrite
    OBVIOUS
<1>0. TypeOK /\ OwnTrees /\ OwnIndex(diskIdx)
      /\ \A p \in Procs : OwnIndex(mem[p]) /\ OwnCall(p)
    BY DEF DisjointInv
<1>1. ASSUME NEW ix \in Index, OwnIndex(ix) PROVE PointsToOwn(ix)
    <2> SUFFICES ASSUME NEW id \in Ids, ix[id] # None, Exists(ix[id])
                 PROVE  Files[ix[id]].id = id
        BY DEF PointsToOwn
    <2>1. ix[id] \in Filenames /\ OwnFile(id, ix[id])
        BY <1>1 DEF Index, OwnIndex
    <2>. QED BY <1>0, <2>1, OwnFileHolds
<1>2. IndexSound
    BY <1>0, <1>1 DEF IndexSound, TypeOK
<1>3. GetReturnsAsked
    BY <1>0 DEF GetReturnsAsked, OwnCall, TypeOK
<1>4. NoForeignWrite
    <2> SUFFICES ASSUME NEW p \in Procs
                 PROVE  /\ pc[p] \in {"inPlace", "renameRemove", "delete"} /\ Exists(oldf[p])
                              => Files[oldf[p]].id = held[p].id
                        /\ pc[p] \in {"create", "renameWrite"} /\ Exists(newf[p])
                              => Files[newf[p]].id = held[p].id
        BY DEF NoForeignWrite
    <2>1. pc[p] \notin {"idle", "ready"} => held[p] \in Features /\ held[p].id \in Ids
        BY <1>0 DEF TypeOK, Features
    <2>2. CASE pc[p] \in {"inPlace", "renameRemove", "delete"}
        <3>1. oldf[p] \in Filenames /\ OwnFile(held[p].id, oldf[p])
            BY <1>0, <2>2 DEF TypeOK, OwnCall
        <3>. QED BY <1>0, <2>1, <2>2, <3>1, OwnFileHolds
    <2>3. CASE pc[p] \in {"create", "renameWrite"}
        <3>1. newf[p] \in Filenames /\ OwnFile(held[p].id, newf[p])
            BY <1>0, <2>1, <2>3 DEF TypeOK, OwnCall, OwnFile
        <3>. QED BY <1>0, <2>1, <2>3, <3>1, OwnFileHolds
    <2>. QED BY <2>2, <2>3
<1>. QED BY <1>2, <1>3, <1>4

\* If names of different features never share a slug, the store never mistakes
\* one feature for another: no stale index entry leads to another feature, no
\* Get answers with another feature, and no call overwrites or removes the file
\* of another feature, whatever processes overlap, stop half way, or check out.
THEOREM DisjointSlugsSafe ==
    ASSUME DisjointSlugs
    PROVE  Spec => [](IndexSound /\ GetReturnsAsked /\ NoForeignWrite)
<1>1. Init /\ TypeOK => DisjointInv
    BY NoneAssumption
    DEF Init, DisjointInv, OwnTrees, OwnIndex, OwnCall, NamedContent, EmptyTree, EmptyIndex
<1>2. DisjointInv /\ TypeOK' /\ [Next]_vars => DisjointInv'
    BY DisjointStep
<1>3. DisjointInv => IndexSound /\ GetReturnsAsked /\ NoForeignWrite
    BY DisjointInvSafe
<1>. QED BY <1>1, <1>2, <1>3, TypeCorrect, PTL DEF Spec
-----------------------------------------------------------------------------
(***************************************************************************)
(* One command at a time, on one branch, with distinct slugs.  No slug need*)
(* belong to one feature here, so a file name does not tell whose file it  *)
(* is: what keeps a new file off another feature's is that its name is     *)
(* taken by nothing, its last resort, the whole ID, included; and what     *)
(* keeps the index right is that no entry outlives its file, but for the   *)
(* moment between the removal of the file and the save of the index.       *)
(***************************************************************************)
\* The index may be behind the files for the feature p is at.
Behind(p, id) == pc[p] \in {"renameIndex", "deleteIndex"} /\ held[p].id = id

\* A file has the slug of its feature's name, and no other feature's ID.
NamedFor(f, feature) == f[1] = SlugOf[feature.name] /\ (f[2] \in Ids => f[2] = feature.id)

FilesNamed == \A f \in Filenames : Exists(f) => NamedFor(f, Files[f])

\* Two files of one feature are the old and the new one of its rename.
OneFile ==
    \A id \in Ids : \A f, g \in Holders(id) :
        f = g \/ \E p \in Procs : /\ pc[p] = "renameRemove" /\ held[p].id = id
                                  /\ {f, g} = {oldf[p], newf[p]}

\* An entry leads to a file of its feature, or the call under way is about to
\* change it.
IndexExact ==
    \A id \in Ids : diskIdx[id] # None =>
        \/ diskIdx[id] \in Holders(id)
        \/ ~Exists(diskIdx[id]) /\ \E p \in Procs : Behind(p, id)

\* What a call that was begun knows of its files, as no other call runs.
OwnPaths(p) ==
    /\ mem[p] = IF pc[p] = "idle" THEN EmptyIndex ELSE diskIdx
    /\ pc[p] = "create" => /\ ~Present(held[p].id) /\ ~Exists(newf[p])
                           /\ NamedFor(newf[p], held[p])
    /\ pc[p] = "createIndex" => newf[p] \in Holders(held[p].id)
    /\ pc[p] = "inPlace" => Files[oldf[p]] = held[p]
    /\ pc[p] = "renameWrite" => /\ oldf[p] \in Holders(held[p].id) /\ ~Exists(newf[p])
                                /\ NamedFor(newf[p], held[p])
    /\ pc[p] = "renameRemove" => /\ oldf[p] # newf[p]
                                 /\ {oldf[p], newf[p]} \subseteq Holders(held[p].id)
    /\ pc[p] = "renameIndex" => newf[p] \in Holders(held[p].id)
    /\ pc[p] = "delete" => oldf[p] \in Holders(held[p].id)
    /\ pc[p] = "deleteIndex" => ~Present(held[p].id)
    /\ pc[p] \in {"renameIndex", "deleteIndex"} => ~Exists(oldf[p])
    /\ pc[p] \in {"renameWrite", "renameRemove", "renameIndex", "delete", "deleteIndex"}
         => diskIdx[held[p].id] = oldf[p]

SequentialInv ==
    /\ FilesNamed
    /\ OneFile
    /\ IndexExact
    /\ \A p \in Procs : OwnPaths(p)

\* findFeatureFile, of a sequential command: the file of the feature if there
\* is one, and an exact index with that file.
LEMMA FindExact ==
    ASSUME TypeOK, SequentialInv, NEW p \in Procs, pc[p] = "ready", \A q \in Procs : q = p,
           NEW id \in Ids, NEW r \in FindResults(mem[p], id)
    PROVE  /\ r.index \in Index /\ r.index[id] = r.file
           /\ \A j \in Ids : r.index[j] # None => r.index[j] \in Holders(j)
           /\ r.file # None => r.file \in Holders(id)
           /\ r.file = None => ~Present(id)
<1>1. mem[p] \in Index /\ \A j \in Ids : mem[p][j] # None => mem[p][j] \in Holders(j)
    BY DEF SequentialInv, OwnPaths, IndexExact, Behind, TypeOK
<1>2. CASE mem[p][id] # None /\ Exists(mem[p][id])
    BY <1>1, <1>2 DEF FindResults
<1>3. CASE ~(mem[p][id] # None /\ Exists(mem[p][id])) /\ Present(id)
    <2>1. PICK f \in Holders(id) : r = [file |-> f, index |-> [mem[p] EXCEPT ![id] = f]]
        BY <1>3 DEF FindResults
    <2>2. f \in Filenames /\ f # None
        BY <2>1, NoneAssumption DEF Holders
    <2>. QED BY <1>1, <2>1, <2>2 DEF Index
<1>4. CASE ~(mem[p][id] # None /\ Exists(mem[p][id])) /\ ~Present(id)
    BY <1>1, <1>4 DEF FindResults, Index
<1>. QED BY <1>2, <1>3, <1>4

\* The path chosen for a feature without a file, or with one of another slug,
\* is not taken.
LEMMA PathFree ==
    ASSUME FilesNamed, NEW id \in Ids, NEW name \in Names, NEW excluded,
           \A f \in Holders(id) : f = excluded,
           excluded \in Filenames => excluded[1] # SlugOf[name]
    PROVE  LET f == FeaturePathExcluding(name, id, excluded)
           IN  /\ f \in Filenames /\ ~Exists(f)
               /\ f[1] = SlugOf[name] /\ (f[2] \in Ids => f[2] = id)
<1> DEFINE existing == {f \in Filenames : Exists(f)} \ {excluded}
           slug     == SlugOf[name]
<1>1. \A x \in Suffixes : <<slug, x>> \in Filenames /\ <<slug, x>> # excluded
    BY ConstantsAssumption DEF Filenames
<1>2. \A x \in Suffixes : <<slug, x>> \notin existing => ~Exists(<<slug, x>>)
    BY <1>1
<1>3. id \in Suffixes /\ NoSuffix \in Suffixes /\ PrefixOf[id] \in Suffixes
    BY ConstantsAssumption DEF Suffixes
<1>4. ~Exists(<<slug, id>>)
    <2> SUFFICES ASSUME Exists(<<slug, id>>) PROVE FALSE
        OBVIOUS
    <2>1. Files[<<slug, id>>].id = id
        BY <1>1, <1>3 DEF FilesNamed, NamedFor
    <2>. QED BY <1>1, <1>3, <2>1 DEF Holders
<1>5. NoSuffix \notin Ids /\ PrefixOf[id] \notin Ids
    BY ConstantsAssumption, NoneAssumption
<1>6. FeaturePathExcluding(name, id, excluded) = GenerateFilename(name, id, existing)
    BY DEF FeaturePathExcluding
<1> HIDE DEF existing
<1>. QED BY <1>1, <1>2, <1>3, <1>4, <1>5, <1>6 DEF GenerateFilename

\* Where the feature files stay, so does what is read from them.
LEMMA SameFiles ==
    ASSUME UNCHANGED <<trees, branch>>
    PROVE  /\ Files' = Files
           /\ \A f : Exists(f)' = Exists(f)
           /\ \A id : Holders(id)' = Holders(id) /\ Present(id)' = Present(id)
           /\ FilesNamed => FilesNamed'
BY DEF Files, Exists, Holders, Present, FilesNamed

LEMMA OneWritten ==
    ASSUME TypeOK, NEW f \in Filenames, NEW c, WriteFile(f, c), UNCHANGED branch
    PROVE  /\ Files'[f] = c
           /\ \A g \in Filenames : g # f => Files'[g] = Files[g]
BY DEF TypeOK, WriteFile, Files

\* A file that was not there is written, of the feature given.
LEMMA Adds ==
    ASSUME TypeOK, FilesNamed, NEW f \in Filenames, NEW feature \in Features,
           WriteFile(f, feature), UNCHANGED branch, ~Exists(f), NamedFor(f, feature)
    PROVE  /\ FilesNamed' /\ Files'[f] = feature
           /\ \A g \in Filenames : Exists(g) => Exists(g)' /\ Files'[g] = Files[g]
           /\ \A id : Holders(id)' = IF id = feature.id THEN Holders(id) \cup {f} ELSE Holders(id)
<1>1. Files'[f] = feature /\ \A g \in Filenames : g # f => Files'[g] = Files[g]
    BY OneWritten
<1>2. feature # None
    BY NoneAssumption
<1>3. Exists(f)' /\ \A g \in Filenames : g # f => Exists(g)' = Exists(g)
    BY <1>1, <1>2 DEF Exists
<1>4. FilesNamed'
    BY <1>1, <1>3 DEF FilesNamed, NamedFor
<1>5. \A id : Holders(id)' = IF id = feature.id THEN Holders(id) \cup {f} ELSE Holders(id)
    BY <1>1, <1>3 DEF Holders
<1>. QED BY <1>1, <1>3, <1>4, <1>5

\* A file is removed.
LEMMA Removes ==
    ASSUME TypeOK, FilesNamed, NEW f \in Filenames, WriteFile(f, None), UNCHANGED branch
    PROVE  /\ FilesNamed' /\ ~Exists(f)'
           /\ \A g \in Filenames : g # f => Files'[g] = Files[g] /\ Exists(g)' = Exists(g)
           /\ \A id : Holders(id)' = Holders(id) \ {f}
<1>1. Files'[f] = None /\ \A g \in Filenames : g # f => Files'[g] = Files[g]
    BY OneWritten
<1>2. ~Exists(f)' /\ \A g \in Filenames : g # f => Exists(g)' = Exists(g)
    BY <1>1 DEF Exists
<1>3. FilesNamed'
    BY <1>1, <1>2 DEF FilesNamed, NamedFor
<1>4. \A id : Holders(id)' = Holders(id) \ {f}
    BY <1>1, <1>2 DEF Holders
<1>. QED BY <1>1, <1>2, <1>3, <1>4

\* Outside a rename a feature has one file, and stays so while no file changes.
LEMMA QuietStep ==
    ASSUME SequentialInv, NEW p \in Procs, \A q \in Procs : q = p,
           UNCHANGED <<trees, branch>>, pc[p] # "renameRemove",
           \A j \in Ids : diskIdx'[j] # None => diskIdx'[j] \in Holders(j),
           OwnPaths(p)'
    PROVE  SequentialInv'
<1>1. FilesNamed'
    BY SameFiles DEF SequentialInv
<1>2. OneFile'
    BY SameFiles DEF SequentialInv, OneFile
<1>3. IndexExact'
    BY SameFiles DEF IndexExact
<1>. QED BY <1>1, <1>2, <1>3 DEF SequentialInv

\* Every step of a sequential command keeps the invariant.
LEMMA SequentialStep ==
    ASSUME SequentialUse, DistinctSlugs, TypeOK, TypeOK', SequentialInv, [Next]_vars
    PROVE  SequentialInv'
<1>0. FilesNamed /\ OneFile /\ IndexExact /\ \A p \in Procs : OwnPaths(p)
    BY DEF SequentialInv
<1>a. \A p \in Procs : \A q \in Procs : q = p
    BY DEF SequentialUse
<1>b. ASSUME NEW p \in Procs, pc[p] \notin {"renameIndex", "deleteIndex"}
      PROVE  \A j \in Ids : diskIdx[j] # None => diskIdx[j] \in Holders(j)
    BY <1>0, <1>a, <1>b DEF IndexExact, Behind
<1>1. ASSUME NEW p \in Procs, Start(p) PROVE SequentialInv'
    <2>1. \A ix \in RebuiltIndexes : \A j \in Ids : ix[j] # None => ix[j] \in Holders(j)
        BY DEF RebuiltIndexes
    <2>2. \A j \in Ids : diskIdx'[j] # None => diskIdx'[j] \in Holders(j)
        BY <1>1, <1>b, <2>1 DEF Start, SaveIndex
    <2>3. pc'[p] = "ready" /\ mem'[p] = diskIdx'
        BY <1>1 DEF Start, SaveIndex, Goto, TypeOK
    <2>4. pc[p] # "renameRemove" /\ UNCHANGED <<trees, branch>>
        BY <1>1 DEF Start
    <2>. QED BY <1>a, <2>2, <2>3, <2>4, QuietStep DEF OwnPaths
<1>2. ASSUME NEW p \in Procs, Exit(p) PROVE SequentialInv'
    <2>1. pc[p] = "ready" /\ pc'[p] = "idle" /\ mem'[p] = EmptyIndex
          /\ UNCHANGED <<trees, branch, diskIdx>>
        BY <1>2 DEF Exit, Forget, Goto, TypeOK
    <2>2. \A j \in Ids : diskIdx'[j] # None => diskIdx'[j] \in Holders(j)
        BY <1>b, <2>1
    <2>. QED BY <1>a, <2>1, <2>2, QuietStep DEF OwnPaths, EmptyIndex
<1>3. ASSUME NEW p \in Procs, List(p) PROVE SequentialInv'
    <2>1. pc[p] = "ready" /\ UNCHANGED <<trees, branch, diskIdx, pc, mem>>
        BY <1>3 DEF List
    <2>2. \A j \in Ids : diskIdx'[j] # None => diskIdx'[j] \in Holders(j)
        BY <1>b, <2>1
    <2>3. OwnPaths(p)'
        BY <1>0, <2>1 DEF OwnPaths
    <2>. QED BY <1>a, <2>1, <2>2, <2>3, QuietStep
<1>4. ASSUME NEW p \in Procs, NEW id \in Ids, Get(p, id) PROVE SequentialInv'
    <2>1. PICK r \in FindResults(mem[p], id) : GetFound(p, id, r)
        BY <1>4 DEF Get
    <2>2. pc[p] = "ready" /\ pc'[p] = "ready" /\ UNCHANGED <<trees, branch>>
        BY <1>4 DEF Get
    <2>3. \A j \in Ids : r.index[j] # None => r.index[j] \in Holders(j)
        BY <1>a, <2>2, FindExact
    <2>4. diskIdx' = r.index /\ mem'[p] = r.index
        BY <1>0, <2>1, <2>2 DEF GetFound, SetIndex, OwnPaths, TypeOK
    <2>. QED BY <1>a, <2>2, <2>3, <2>4, QuietStep DEF OwnPaths
<1>5. ASSUME NEW p \in Procs, NEW id \in Ids, NEW name \in Names, CreateBegin(p, id, name)
      PROVE  SequentialInv'
    <2>1. PICK r \in FindResults(mem[p], id) : CreateFound(p, id, name, r)
        BY <1>5 DEF CreateBegin
    <2>2. pc[p] = "ready" /\ UNCHANGED <<trees, branch>>
        BY <1>5 DEF CreateBegin
    <2>3. /\ \A j \in Ids : r.index[j] # None => r.index[j] \in Holders(j)
          /\ r.file = None => ~Present(id)
        BY <1>a, <2>2, FindExact
    <2>4. diskIdx' = r.index /\ mem'[p] = r.index
        BY <1>0, <2>1, <2>2 DEF CreateFound, SetIndex, OwnPaths, TypeOK
    <2>5. CASE r.file # None
        <3>1. pc'[p] = "ready"
            BY <2>1, <2>2, <2>5 DEF CreateFound
        <3>. QED BY <1>a, <2>2, <2>3, <2>4, <3>1, QuietStep DEF OwnPaths
    <2>6. CASE r.file = None
        <3>1. /\ pc'[p] = "create" /\ held'[p] = [id |-> id, name |-> name]
              /\ newf'[p] = FeaturePathExcluding(name, id, None)
            BY <2>1, <2>6 DEF CreateFound, Goto, TypeOK
        <3>2. Holders(id) = {} /\ None \notin Filenames
            BY <2>3, <2>6, NoneAssumption DEF Present
        <3>3. /\ newf'[p] \in Filenames /\ ~Exists(newf'[p])
              /\ NamedFor(newf'[p], held'[p])
            BY <1>0, <3>1, <3>2, PathFree DEF NamedFor
        <3>4. OwnPaths(p)'
            BY <2>2, <2>3, <2>4, <2>6, <3>1, <3>3, SameFiles DEF OwnPaths, NamedFor
        <3>. QED BY <1>a, <2>2, <2>3, <2>4, <3>4, QuietStep
    <2>. QED BY <2>5, <2>6
<1>6. ASSUME NEW p \in Procs, CreateWrite(p) PROVE SequentialInv'
    <2>1. /\ pc[p] = "create" /\ pc'[p] = "createIndex"
          /\ WriteFile(newf[p], held[p])
          /\ UNCHANGED <<branch, diskIdx, mem, held, oldf, newf>>
        BY <1>6 DEF CreateWrite, Goto, TypeOK
    <2>2. /\ newf[p] \in Filenames /\ held[p] \in Features
          /\ ~Present(held[p].id) /\ ~Exists(newf[p]) /\ NamedFor(newf[p], held[p])
          /\ mem[p] = diskIdx
        BY <1>0, <2>1 DEF OwnPaths, TypeOK
    <2>3. /\ FilesNamed'
          /\ \A id : Holders(id)' = IF id = held[p].id THEN Holders(id) \cup {newf[p]} ELSE Holders(id)
        BY <1>0, <2>1, <2>2, Adds
    <2>4. Holders(held[p].id) = {}
        BY <2>2 DEF Present
    <2>5. OneFile'
        BY <1>0, <1>a, <2>1, <2>3, <2>4 DEF OneFile
    <2>6. IndexExact'
        BY <1>b, <2>1, <2>3 DEF IndexExact
    <2>7. OwnPaths(p)'
        BY <2>1, <2>2, <2>3 DEF OwnPaths
    <2>. QED BY <1>a, <2>3, <2>5, <2>6, <2>7 DEF SequentialInv
<1>7. ASSUME NEW p \in Procs, CreateIndex(p) \/ RenameIndex(p) PROVE SequentialInv'
    <2>1. /\ pc[p] \in {"createIndex", "renameIndex"} /\ pc'[p] = "ready"
          /\ SaveIndex(p, [mem[p] EXCEPT ![held[p].id] = newf[p]])
          /\ UNCHANGED <<trees, branch>>
        BY <1>7 DEF CreateIndex, RenameIndex, Return, Goto, TypeOK
    <2>2. /\ newf[p] \in Holders(held[p].id) /\ held[p].id \in Ids
          /\ mem[p] = diskIdx /\ mem[p] \in Index
        BY <1>0, <2>1 DEF OwnPaths, TypeOK, Features
    <2>3. diskIdx' = [diskIdx EXCEPT ![held[p].id] = newf[p]] /\ mem'[p] = diskIdx'
        BY <2>1, <2>2 DEF SaveIndex, TypeOK
    <2>4. \A j \in Ids : j # held[p].id /\ diskIdx[j] # None => diskIdx[j] \in Holders(j)
        BY <1>0, <1>a DEF IndexExact, Behind
    <2>5. \A j \in Ids : diskIdx'[j] # None => diskIdx'[j] \in Holders(j)
        BY <2>2, <2>3, <2>4 DEF Index
    <2>. QED BY <1>a, <2>1, <2>3, <2>5, QuietStep DEF OwnPaths
<1>8. ASSUME NEW p \in Procs, NEW name \in Names, UpdateBegin(p, name) PROVE SequentialInv'
    <2>0. pc[p] = "ready" /\ held[p] \in Features /\ held[p].id \in Ids /\ UNCHANGED <<trees, branch>>
        BY <1>8 DEF UpdateBegin, TypeOK, Features
    <2>1. PICK r \in FindResults(mem[p], held[p].id) : UpdateFound(p, name, r)
        BY <1>8 DEF UpdateBegin
    <2>2. /\ r.index[held[p].id] = r.file
          /\ \A j \in Ids : r.index[j] # None => r.index[j] \in Holders(j)
          /\ r.file # None => r.file \in Holders(held[p].id)
        BY <1>a, <2>0, FindExact
    <2>3. diskIdx' = r.index /\ mem'[p] = r.index
        BY <1>0, <2>0, <2>1 DEF UpdateFound, SetIndex, OwnPaths, TypeOK
    <2>4. CASE r.file = None
        <3>1. pc'[p] = "ready"
            BY <2>0, <2>1, <2>4 DEF UpdateFound
        <3>. QED BY <1>a, <2>0, <2>2, <2>3, <3>1, QuietStep DEF OwnPaths
    <2>5. CASE r.file # None
        <3>1. held' = [held EXCEPT ![p] = [held[p] EXCEPT !.name = name]] /\ oldf'[p] = r.file
            BY <2>1, <2>5 DEF UpdateFound, TypeOK
        <3>2. held'[p] = [id |-> held[p].id, name |-> name]
            BY <2>0, <3>1 DEF Features, TypeOK
        <3>3. r.file \in Filenames /\ Exists(r.file) /\ Files[r.file].id = held[p].id
              /\ Files[r.file] \in Features
            BY <2>2, <2>5 DEF Holders, Exists, TypeOK, Files
        <3>4. CASE Files[r.file].name = name
            <4>1. pc'[p] = "inPlace"
                BY <2>0, <2>1, <2>5, <3>4 DEF UpdateFound, Goto, TypeOK
            <4>2. Files[r.file] = held'[p]
                BY <3>2, <3>3, <3>4 DEF Features
            <4>3. OwnPaths(p)'
                BY <2>0, <2>3, <3>1, <4>1, <4>2, SameFiles DEF OwnPaths
            <4>. QED BY <1>a, <2>0, <2>2, <2>3, <4>3, QuietStep
        <3>5. CASE Files[r.file].name # name
            <4>1. /\ pc'[p] = "renameWrite"
                  /\ newf'[p] = FeaturePathExcluding(name, held[p].id, r.file)
                BY <2>0, <2>1, <2>5, <3>5 DEF UpdateFound, Goto, TypeOK
            <4>2. \A f \in Holders(held[p].id) : f = r.file
                BY <1>0, <1>a, <2>0, <2>2, <2>5 DEF OneFile
            <4>3. r.file[1] # SlugOf[name]
                BY <1>0, <3>3, <3>5 DEF FilesNamed, NamedFor, Features, DistinctSlugs
            <4>4. /\ newf'[p] \in Filenames /\ ~Exists(newf'[p])
                  /\ NamedFor(newf'[p], held'[p])
                BY <1>0, <2>0, <3>2, <4>1, <4>2, <4>3, PathFree DEF NamedFor
            <4>5. OwnPaths(p)'
                BY <2>0, <2>2, <2>3, <2>5, <3>1, <3>2, <4>1, <4>4, SameFiles DEF OwnPaths, NamedFor
            <4>. QED BY <1>a, <2>0, <2>2, <2>3, <4>5, QuietStep
        <3>. QED BY <3>4, <3>5
    <2>. QED BY <2>4, <2>5
<1>9. ASSUME NEW p \in Procs, UpdateInPlace(p) PROVE SequentialInv'
    <2>1. /\ pc[p] = "inPlace" /\ pc'[p] = "ready"
          /\ WriteFile(oldf[p], held[p])
          /\ UNCHANGED <<branch, diskIdx, mem>>
        BY <1>9 DEF UpdateInPlace, Return, Goto, TypeOK
    <2>2. oldf[p] \in Filenames /\ Files[oldf[p]] = held[p] /\ mem[p] = diskIdx
        BY <1>0, <2>1 DEF OwnPaths, TypeOK
    <2>3. trees' = trees
        BY <2>1, <2>2 DEF WriteFile, Files, TypeOK
    <2>4. \A j \in Ids : diskIdx'[j] # None => diskIdx'[j] \in Holders(j)
        BY <1>b, <2>1
    <2>5. OwnPaths(p)'
        BY <2>1, <2>2 DEF OwnPaths
    <2>. QED BY <1>a, <2>1, <2>3, <2>4, <2>5, QuietStep
<1>10. ASSUME NEW p \in Procs, RenameWrite(p) PROVE SequentialInv'
    <2>1. /\ pc[p] = "renameWrite" /\ pc'[p] = "renameRemove"
          /\ WriteFile(newf[p], held[p])
          /\ UNCHANGED <<branch, diskIdx, mem, held, oldf, newf>>
        BY <1>10 DEF RenameWrite, Goto, TypeOK
    <2>2. /\ newf[p] \in Filenames /\ held[p] \in Features
          /\ oldf[p] \in Holders(held[p].id) /\ ~Exists(newf[p]) /\ NamedFor(newf[p], held[p])
          /\ mem[p] = diskIdx /\ diskIdx[held[p].id] = oldf[p]
        BY <1>0, <2>1 DEF OwnPaths, TypeOK
    <2>3. /\ FilesNamed'
          /\ \A id : Holders(id)' = IF id = held[p].id THEN Holders(id) \cup {newf[p]} ELSE Holders(id)
        BY <1>0, <2>1, <2>2, Adds
    <2>4. oldf[p] # newf[p] /\ held[p].id \in Ids
        BY <2>2 DEF Holders, Features
    <2>5. \A id \in Ids : \A f, g \in Holders(id) : f = g
        BY <1>0, <1>a, <2>1 DEF OneFile
    <2>6. Holders(held[p].id) = {oldf[p]}
        BY <2>2, <2>4, <2>5
    <2>7. OneFile'
        BY <2>1, <2>3, <2>5, <2>6 DEF OneFile
    <2>8. IndexExact'
        BY <1>b, <2>1, <2>3 DEF IndexExact
    <2>9. OwnPaths(p)'
        BY <2>1, <2>2, <2>3, <2>4 DEF OwnPaths
    <2>. QED BY <1>a, <2>3, <2>7, <2>8, <2>9 DEF SequentialInv
<1>11. ASSUME NEW p \in Procs, RenameRemove(p) PROVE SequentialInv'
    <2>1. pc[p] = "renameRemove" /\ UNCHANGED <<branch, diskIdx, mem>>
        BY <1>11 DEF RenameRemove
    <2>2. /\ oldf[p] \in Filenames /\ held[p].id \in Ids /\ oldf[p] # newf[p]
          /\ {oldf[p], newf[p]} \subseteq Holders(held[p].id)
          /\ mem[p] = diskIdx /\ diskIdx[held[p].id] = oldf[p]
        BY <1>0, <2>1 DEF OwnPaths, TypeOK, Features
    <2>3. Exists(oldf[p])
        BY <2>2 DEF Holders
    <2>4. WriteFile(oldf[p], None) /\ pc'[p] = "renameIndex" /\ UNCHANGED <<held, oldf, newf>>
        BY <1>11, <2>3 DEF RenameRemove, Goto, TypeOK
    <2>5. FilesNamed' /\ ~Exists(oldf[p])' /\ \A id : Holders(id)' = Holders(id) \ {oldf[p]}
        BY <1>0, <2>1, <2>2, <2>4, Removes
    <2>6. OneFile'
        <3> SUFFICES ASSUME NEW id \in Ids, NEW f \in Holders(id)', NEW g \in Holders(id)', f # g
                     PROVE  FALSE
            BY DEF OneFile
        <3>1. f \in Holders(id) /\ g \in Holders(id) /\ f # oldf[p] /\ g # oldf[p]
            BY <2>5
        <3>. QED BY <1>0, <1>a, <3>1 DEF OneFile
    <2>7. IndexExact'
        <3> SUFFICES ASSUME NEW id \in Ids, diskIdx[id] # None
                     PROVE  \/ diskIdx[id] \in Holders(id)'
                            \/ ~Exists(diskIdx[id])' /\ \E q \in Procs : Behind(q, id)'
            BY <2>1 DEF IndexExact
        <3>1. CASE id = held[p].id
            BY <2>1, <2>2, <2>4, <2>5, <3>1 DEF Behind
        <3>2. CASE id # held[p].id
            <4>1. diskIdx[id] \in Holders(id)
                BY <1>b, <2>1
            <4>2. diskIdx[id] # oldf[p]
                BY <2>2, <3>2, <4>1 DEF Holders
            <4>. QED BY <2>5, <4>1, <4>2
        <3>. QED BY <3>1, <3>2
    <2>8. OwnPaths(p)'
        BY <2>1, <2>2, <2>4, <2>5 DEF OwnPaths
    <2>. QED BY <1>a, <2>5, <2>6, <2>7, <2>8 DEF SequentialInv
<1>12. ASSUME NEW p \in Procs, DeleteBegin(p) PROVE SequentialInv'
    <2>0. pc[p] = "ready" /\ held[p] \in Features /\ held[p].id \in Ids /\ UNCHANGED <<trees, branch>>
        BY <1>12 DEF DeleteBegin, TypeOK, Features
    <2>1. PICK r \in FindResults(mem[p], held[p].id) : DeleteFound(p, r)
        BY <1>12 DEF DeleteBegin
    <2>2. /\ r.index[held[p].id] = r.file
          /\ \A j \in Ids : r.index[j] # None => r.index[j] \in Holders(j)
          /\ r.file # None => r.file \in Holders(held[p].id)
        BY <1>a, <2>0, FindExact
    <2>3. diskIdx' = r.index /\ mem'[p] = r.index
        BY <1>0, <2>0, <2>1 DEF DeleteFound, SetIndex, OwnPaths, TypeOK
    <2>4. CASE r.file = None
        <3>1. pc'[p] = "ready"
            BY <2>0, <2>1, <2>4 DEF DeleteFound
        <3>. QED BY <1>a, <2>0, <2>2, <2>3, <3>1, QuietStep DEF OwnPaths
    <2>5. CASE r.file # None
        <3>1. pc'[p] = "delete" /\ oldf'[p] = r.file /\ held' = held
            BY <2>0, <2>1, <2>5 DEF DeleteFound, Goto, TypeOK
        <3>2. OwnPaths(p)'
            BY <2>0, <2>2, <2>3, <2>5, <3>1, SameFiles DEF OwnPaths
        <3>. QED BY <1>a, <2>0, <2>2, <2>3, <3>2, QuietStep
    <2>. QED BY <2>4, <2>5
<1>13. ASSUME NEW p \in Procs, DeleteRemove(p) PROVE SequentialInv'
    <2>1. pc[p] = "delete" /\ UNCHANGED <<branch, diskIdx, mem>>
        BY <1>13 DEF DeleteRemove
    <2>2. /\ oldf[p] \in Filenames /\ held[p].id \in Ids /\ oldf[p] \in Holders(held[p].id)
          /\ mem[p] = diskIdx /\ diskIdx[held[p].id] = oldf[p]
        BY <1>0, <2>1 DEF OwnPaths, TypeOK, Features
    <2>3. Exists(oldf[p])
        BY <2>2 DEF Holders
    <2>4. WriteFile(oldf[p], None) /\ pc'[p] = "deleteIndex" /\ UNCHANGED <<held, oldf, newf>>
        BY <1>13, <2>3 DEF DeleteRemove, Goto, TypeOK
    <2>5. FilesNamed' /\ ~Exists(oldf[p])' /\ \A id : Holders(id)' = Holders(id) \ {oldf[p]}
        BY <1>0, <2>1, <2>2, <2>4, Removes
    <2>6. \A id \in Ids : \A f, g \in Holders(id) : f = g
        BY <1>0, <1>a, <2>1 DEF OneFile
    <2>7. OneFile'
        BY <2>5, <2>6 DEF OneFile
    <2>8. ~Present(held[p].id)'
        <3>1. Holders(held[p].id)' = {}
            BY <2>2, <2>4, <2>5, <2>6
        <3>. QED BY <3>1 DEF Present
    <2>9. IndexExact'
        <3> SUFFICES ASSUME NEW id \in Ids, diskIdx[id] # None
                     PROVE  \/ diskIdx[id] \in Holders(id)'
                            \/ ~Exists(diskIdx[id])' /\ \E q \in Procs : Behind(q, id)'
            BY <2>1 DEF IndexExact
        <3>1. CASE id = held[p].id
            BY <2>1, <2>2, <2>4, <2>5, <3>1 DEF Behind
        <3>2. CASE id # held[p].id
            <4>1. diskIdx[id] \in Holders(id)
                BY <1>b, <2>1
            <4>2. diskIdx[id] # oldf[p]
                BY <2>2, <3>2, <4>1 DEF Holders
            <4>. QED BY <2>5, <4>1, <4>2
        <3>. QED BY <3>1, <3>2
    <2>10. OwnPaths(p)'
        BY <2>1, <2>2, <2>4, <2>5, <2>8 DEF OwnPaths
    <2>. QED BY <1>a, <2>5, <2>7, <2>9, <2>10 DEF SequentialInv
<1>14. ASSUME NEW p \in Procs, DeleteIndex(p) PROVE SequentialInv'
    <2>1. /\ pc[p] = "deleteIndex" /\ pc'[p] = "ready"
          /\ SaveIndex(p, [mem[p] EXCEPT ![held[p].id] = None])
          /\ UNCHANGED <<trees, branch>>
        BY <1>14 DEF DeleteIndex, Return, Goto, TypeOK
    <2>2. held[p].id \in Ids /\ mem[p] = diskIdx /\ mem[p] \in Index
        BY <1>0, <2>1 DEF OwnPaths, TypeOK, Features
    <2>3. diskIdx' = [diskIdx EXCEPT ![held[p].id] = None] /\ mem'[p] = diskIdx'
        BY <2>1, <2>2 DEF SaveIndex, TypeOK
    <2>4. \A j \in Ids : j # held[p].id /\ diskIdx[j] # None => diskIdx[j] \in Holders(j)
        BY <1>0, <1>a DEF IndexExact, Behind
    <2>5. \A j \in Ids : diskIdx'[j] # None => diskIdx'[j] \in Holders(j)
        BY <2>2, <2>3, <2>4 DEF Index
    <2>. QED BY <1>a, <2>1, <2>3, <2>5, QuietStep DEF OwnPaths
<1>15. CASE UNCHANGED vars
    <2>1. \A p \in Procs : OwnPaths(p)'
        BY <1>0, <1>15, SameFiles DEF vars, OwnPaths, EmptyIndex
    <2>2. FilesNamed' /\ OneFile' /\ IndexExact'
        BY <1>0, <1>15, SameFiles DEF vars, OneFile, IndexExact, Behind
    <2>. QED BY <2>1, <2>2 DEF SequentialInv
<1>. QED
    <2>1. \A p \in Procs : ~Crash(p)
        BY DEF Crash, SequentialUse
    <2>2. \A b \in Branches : ~Checkout(b)
        BY DEF Checkout, SequentialUse, TypeOK
    <2>. QED
        BY <2>1, <2>2, <1>1, <1>2, <1>3, <1>4, <1>5, <1>6, <1>7, <1>8, <1>9, <1>10, <1>11,
           <1>12, <1>13, <1>14, <1>15 DEF Next
-----------------------------------------------------------------------------
(***************************************************************************)
(* What the steps of a sequential command do to the files and to the map   *)
(* they stand for: four of them change a file, each one.                   *)
(***************************************************************************)
\* But for the steps that write a new file or remove one, no step changes what
\* is read from the files, or begins or ends the moment between the two halves
\* of a rename.
LEMMA StillSteps ==
    ASSUME SequentialUse, TypeOK, SequentialInv, [Next]_vars,
           \A p \in Procs : ~CreateWrite(p) /\ ~RenameWrite(p) /\ ~RenameRemove(p) /\ ~DeleteRemove(p)
    PROVE  /\ UNCHANGED <<trees, branch>>
           /\ \A p \in Procs : \/ pc[p] # "renameRemove" /\ pc'[p] # "renameRemove"
                               \/ UNCHANGED <<pc, oldf>>
<1>a. \A p \in Procs : \A q \in Procs : q = p
    BY DEF SequentialUse
<1> DEFINE Still(p) == /\ UNCHANGED <<trees, branch>>
                       /\ pc[p] # "renameRemove" /\ pc'[p] # "renameRemove"
<1> SUFFICES ASSUME ~UNCHANGED vars PROVE \E p \in Procs : Still(p)
    BY <1>a DEF vars
<1>1. ASSUME NEW p \in Procs, Start(p) \/ Exit(p) \/ List(p) PROVE Still(p)
    BY <1>1 DEF Start, Exit, Forget, List, Goto, TypeOK
<1>2. ASSUME NEW p \in Procs, NEW id \in Ids, Get(p, id) PROVE Still(p)
    BY <1>2 DEF Get
<1>3. ASSUME NEW p \in Procs, NEW id \in Ids, NEW name \in Names, CreateBegin(p, id, name)
      PROVE  Still(p)
    BY <1>3 DEF CreateBegin, CreateFound, Goto, TypeOK
<1>4. ASSUME NEW p \in Procs, CreateIndex(p) \/ RenameIndex(p) \/ DeleteIndex(p) PROVE Still(p)
    BY <1>4 DEF CreateIndex, RenameIndex, DeleteIndex, Return, Goto, TypeOK
<1>5. ASSUME NEW p \in Procs, NEW name \in Names, UpdateBegin(p, name) PROVE Still(p)
    BY <1>5 DEF UpdateBegin, UpdateFound, Goto, TypeOK
<1>6. ASSUME NEW p \in Procs, UpdateInPlace(p) PROVE Still(p)
    <2>1. pc[p] = "inPlace" /\ pc'[p] = "ready" /\ UNCHANGED branch /\ WriteFile(oldf[p], held[p])
        BY <1>6 DEF UpdateInPlace, Return, Goto, TypeOK
    <2>2. oldf[p] \in Filenames /\ Files[oldf[p]] = held[p]
        BY <2>1 DEF SequentialInv, OwnPaths, TypeOK
    <2>3. trees' = trees
        BY <2>1, <2>2 DEF WriteFile, Files, TypeOK
    <2>. QED BY <2>1, <2>3
<1>7. ASSUME NEW p \in Procs, DeleteBegin(p) PROVE Still(p)
    BY <1>7 DEF DeleteBegin, DeleteFound, Goto, TypeOK
<1>8. \A p \in Procs : ~Crash(p)
    BY DEF Crash, SequentialUse
<1>9. \A b \in Branches : ~Checkout(b)
    BY DEF Checkout, SequentialUse, TypeOK
<1> HIDE DEF Still
<1>. QED BY <1>1, <1>2, <1>3, <1>4, <1>5, <1>6, <1>7, <1>8, <1>9 DEF Next

\* The steps that change a file, as changes of the files each feature has.
LEMMA CreateWrites ==
    ASSUME TypeOK, SequentialInv, NEW p \in Procs, CreateWrite(p)
    PROVE  /\ held[p] \in Features /\ Holders(held[p].id) = {}
           /\ Files'[newf[p]] = held[p]
           /\ \A f \in Filenames : Exists(f) => Files'[f] = Files[f]
           /\ \A id : Holders(id)' = IF id = held[p].id THEN {newf[p]} ELSE Holders(id)
<1>1. /\ pc[p] = "create" /\ WriteFile(newf[p], held[p]) /\ UNCHANGED branch
    BY DEF CreateWrite
<1>2. /\ newf[p] \in Filenames /\ held[p] \in Features
      /\ ~Present(held[p].id) /\ ~Exists(newf[p]) /\ NamedFor(newf[p], held[p])
    BY <1>1 DEF SequentialInv, OwnPaths, TypeOK
<1>3. Holders(held[p].id) = {}
    BY <1>2 DEF Present
<1>4. /\ Files'[newf[p]] = held[p]
      /\ \A f \in Filenames : Exists(f) => Files'[f] = Files[f]
      /\ \A id : Holders(id)' = IF id = held[p].id THEN Holders(id) \cup {newf[p]} ELSE Holders(id)
    BY <1>1, <1>2, Adds DEF SequentialInv
<1>. QED BY <1>2, <1>3, <1>4

LEMMA RenameWrites ==
    ASSUME SequentialUse, TypeOK, SequentialInv, NEW p \in Procs, RenameWrite(p)
    PROVE  /\ held[p] \in Features /\ Holders(held[p].id) = {oldf[p]} /\ newf[p] # oldf[p]
           /\ Files'[newf[p]] = held[p]
           /\ \A f \in Filenames : Exists(f) => Files'[f] = Files[f]
           /\ \A id : Holders(id)' = IF id = held[p].id THEN {oldf[p], newf[p]} ELSE Holders(id)
<1>1. /\ pc[p] = "renameWrite" /\ WriteFile(newf[p], held[p]) /\ UNCHANGED branch
    BY DEF RenameWrite
<1>2. /\ newf[p] \in Filenames /\ held[p] \in Features /\ held[p].id \in Ids
      /\ oldf[p] \in Holders(held[p].id) /\ ~Exists(newf[p]) /\ NamedFor(newf[p], held[p])
    BY <1>1 DEF SequentialInv, OwnPaths, TypeOK, Features
<1>3. Holders(held[p].id) = {oldf[p]} /\ newf[p] # oldf[p]
    <2>1. \A f, g \in Holders(held[p].id) : f = g
        BY <1>1, <1>2 DEF SequentialInv, OneFile, SequentialUse
    <2>. QED BY <1>2, <2>1 DEF Holders
<1>4. /\ Files'[newf[p]] = held[p]
      /\ \A f \in Filenames : Exists(f) => Files'[f] = Files[f]
      /\ \A id : Holders(id)' = IF id = held[p].id THEN Holders(id) \cup {newf[p]} ELSE Holders(id)
    BY <1>1, <1>2, Adds DEF SequentialInv
<1>. QED BY <1>2, <1>3, <1>4

LEMMA RenameRemoves ==
    ASSUME SequentialUse, TypeOK, SequentialInv, NEW p \in Procs, RenameRemove(p)
    PROVE  /\ held[p].id \in Ids /\ Holders(held[p].id) = {oldf[p], newf[p]} /\ newf[p] # oldf[p]
           /\ pc'[p] = "renameIndex"
           /\ \A f \in Filenames : f # oldf[p] => Files'[f] = Files[f]
           /\ \A id : Holders(id)' = IF id = held[p].id THEN {newf[p]} ELSE Holders(id)
<1>1. pc[p] = "renameRemove" /\ UNCHANGED <<branch, diskIdx, mem>>
    BY DEF RenameRemove
<1>2. /\ oldf[p] \in Filenames /\ held[p].id \in Ids /\ oldf[p] # newf[p]
      /\ {oldf[p], newf[p]} \subseteq Holders(held[p].id)
    BY <1>1 DEF SequentialInv, OwnPaths, TypeOK, Features
<1>3. WriteFile(oldf[p], None) /\ pc'[p] = "renameIndex"
    BY <1>1, <1>2 DEF RenameRemove, Goto, TypeOK, Holders
<1>4. /\ \A f \in Filenames : f # oldf[p] => Files'[f] = Files[f]
      /\ \A id : Holders(id)' = Holders(id) \ {oldf[p]}
    BY <1>1, <1>2, <1>3, Removes DEF SequentialInv
<1>5. Holders(held[p].id) = {oldf[p], newf[p]}
    <2> SUFFICES ASSUME NEW f \in Holders(held[p].id), f # newf[p] PROVE f = oldf[p]
        BY <1>2
    <2>1. \E q \in Procs : {f, newf[p]} = {oldf[q], newf[q]}
        BY <1>2 DEF SequentialInv, OneFile
    <2>. QED BY <2>1 DEF SequentialUse
<1>6. \A id : id # held[p].id => oldf[p] \notin Holders(id)
    BY <1>2 DEF Holders
<1>. QED BY <1>2, <1>3, <1>4, <1>5, <1>6

LEMMA DeleteRemoves ==
    ASSUME SequentialUse, TypeOK, SequentialInv, NEW p \in Procs, DeleteRemove(p)
    PROVE  /\ pc[p] = "delete" /\ held[p].id \in Ids /\ Holders(held[p].id) = {oldf[p]}
           /\ \A f \in Filenames : f # oldf[p] => Files'[f] = Files[f]
           /\ \A id : Holders(id)' = IF id = held[p].id THEN {} ELSE Holders(id)
           /\ pc'[p] = "deleteIndex"
<1>1. pc[p] = "delete" /\ UNCHANGED <<branch, diskIdx, mem>>
    BY DEF DeleteRemove
<1>2. oldf[p] \in Filenames /\ held[p].id \in Ids /\ oldf[p] \in Holders(held[p].id)
    BY <1>1 DEF SequentialInv, OwnPaths, TypeOK, Features
<1>3. WriteFile(oldf[p], None) /\ pc'[p] = "deleteIndex"
    BY <1>1, <1>2 DEF DeleteRemove, Goto, TypeOK, Holders
<1>4. /\ \A f \in Filenames : f # oldf[p] => Files'[f] = Files[f]
      /\ \A id : Holders(id)' = Holders(id) \ {oldf[p]}
    BY <1>1, <1>2, <1>3, Removes DEF SequentialInv
<1>5. \A f, g \in Holders(held[p].id) : f = g
    BY <1>1, <1>2 DEF SequentialInv, OneFile, SequentialUse
<1>6. \A id : id # held[p].id => oldf[p] \notin Holders(id)
    BY <1>2 DEF Holders
<1>. QED BY <1>1, <1>2, <1>3, <1>4, <1>5, <1>6

\* The file a feature counts as being in is one, if any; its name is the
\* feature's in the map.
LEMMA OneCurrent ==
    ASSUME SequentialUse, SequentialInv, NEW id \in Ids, NEW f \in CurrentFiles(id)
    PROVE  CurrentFiles(id) = {f} /\ f \in Filenames /\ Exists(f)
<1> SUFFICES ASSUME NEW g \in CurrentFiles(id), f # g PROVE FALSE
    BY DEF CurrentFiles, Holders
<1>1. PICK p \in Procs : pc[p] = "renameRemove" /\ {f, g} = {oldf[p], newf[p]}
    BY DEF CurrentFiles, SequentialInv, OneFile
<1>2. f # oldf[p] /\ g # oldf[p]
    BY <1>1 DEF CurrentFiles
<1>. QED BY <1>1, <1>2

LEMMA NameStays ==
    ASSUME SequentialUse, SequentialInv, NEW id \in Ids, CurrentFiles(id)' = CurrentFiles(id),
           \A f \in Filenames : f \in CurrentFiles(id) => Files'[f] = Files[f]
    PROVE  StoredName(id)' = StoredName(id)
<1>1. CASE CurrentFiles(id) = {}
    BY <1>1 DEF StoredName
<1>2. ASSUME NEW f \in CurrentFiles(id) PROVE StoredName(id)' = StoredName(id)
    <2>1. CurrentFiles(id) = {f} /\ Files'[f] = Files[f]
        BY <1>2, OneCurrent
    <2>. QED BY <2>1 DEF StoredName
<1>. QED BY <1>1, <1>2

\* Every step changes one entry of the map, or none.
LEMMA MapStep ==
    ASSUME SequentialUse, TypeOK, SequentialInv, [Next]_vars, TypeOK'
    PROVE  \/ [id \in Ids |-> StoredName(id)]' = [id \in Ids |-> StoredName(id)]
           \/ Map!Next
<1>a. \A p \in Procs : \A q \in Procs : q = p
    BY DEF SequentialUse
<1>1. ASSUME NEW p \in Procs, CreateWrite(p) PROVE Map!Next
    <2>1. /\ held[p] \in Features /\ held[p].id \in Ids /\ held[p].name \in Names
          /\ Holders(held[p].id) = {}
          /\ Files'[newf[p]] = held[p]
          /\ \A f \in Filenames : Exists(f) => Files'[f] = Files[f]
          /\ \A id : Holders(id)' = IF id = held[p].id THEN {newf[p]} ELSE Holders(id)
        BY <1>1, CreateWrites DEF Features
    <2>2. \A q \in Procs : pc[q] # "renameRemove" /\ pc'[q] # "renameRemove"
        BY <1>1, <1>a DEF CreateWrite, Goto, TypeOK
    <2>3. \A id : CurrentFiles(id) = Holders(id) /\ CurrentFiles(id)' = Holders(id)'
        BY <2>2 DEF CurrentFiles
    <2>4. StoredName(held[p].id) = None
        BY <2>1, <2>3 DEF StoredName
    <2>5. \A id \in Ids : id = held[p].id => StoredName(id)' = held[p].name
        BY <2>1, <2>3 DEF StoredName
    <2>6. ASSUME NEW id \in Ids, id # held[p].id PROVE StoredName(id)' = StoredName(id)
        <3>1. CurrentFiles(id)' = CurrentFiles(id)
            BY <2>1, <2>3, <2>6
        <3>2. \A f \in Filenames : f \in CurrentFiles(id) => Files'[f] = Files[f]
            BY <2>1 DEF CurrentFiles, Holders
        <3>. QED BY <3>1, <3>2, NameStays
    <2>7. Map!Create(held[p].id, held[p].name)
        BY <2>1, <2>4, <2>5, <2>6 DEF Map!Create
    <2>. QED BY <2>1, <2>7 DEF Map!Next
<1>2. ASSUME NEW p \in Procs, RenameWrite(p) PROVE Map!Next
    <2>1. /\ held[p] \in Features /\ held[p].id \in Ids /\ held[p].name \in Names
          /\ Holders(held[p].id) = {oldf[p]} /\ newf[p] # oldf[p]
          /\ Files'[newf[p]] = held[p]
          /\ \A f \in Filenames : Exists(f) => Files'[f] = Files[f]
          /\ \A id : Holders(id)' = IF id = held[p].id THEN {oldf[p], newf[p]} ELSE Holders(id)
        BY <1>2, RenameWrites DEF Features
    <2>2. /\ \A q \in Procs : pc[q] # "renameRemove"
          /\ \A q \in Procs : pc'[q] = "renameRemove" /\ oldf'[q] = oldf[p]
        BY <1>2, <1>a DEF RenameWrite, Goto, TypeOK
    <2>3. \A id : CurrentFiles(id) = Holders(id) /\ CurrentFiles(id)' = Holders(id)' \ {oldf[p]}
        BY <2>2 DEF CurrentFiles
    <2>4. StoredName(held[p].id) # None
        <3>1. CurrentFiles(held[p].id) = {oldf[p]}
            BY <2>1, <2>3
        <3>2. Files[oldf[p]] \in Features
            BY <2>1 DEF Holders, Exists, Files, TypeOK
        <3>. QED BY <3>1, <3>2, NoneAssumption DEF StoredName, Features
    <2>5. \A id \in Ids : id = held[p].id => StoredName(id)' = held[p].name
        <3> SUFFICES ASSUME NEW id \in Ids, id = held[p].id PROVE StoredName(id)' = held[p].name
            OBVIOUS
        <3>1. CurrentFiles(id)' = {newf[p]}
            BY <2>1, <2>3
        <3>. QED BY <2>1, <3>1 DEF StoredName
    <2>6. ASSUME NEW id \in Ids, id # held[p].id PROVE StoredName(id)' = StoredName(id)
        <3>1. CurrentFiles(id)' = CurrentFiles(id)
            <4>1. oldf[p] \notin Holders(id)
                BY <2>1, <2>6 DEF Holders
            <4>. QED BY <2>1, <2>3, <2>6, <4>1
        <3>2. \A f \in Filenames : f \in CurrentFiles(id) => Files'[f] = Files[f]
            BY <2>1 DEF CurrentFiles, Holders
        <3>. QED BY <3>1, <3>2, NameStays
    <2>7. Map!Update(held[p].id, held[p].name)
        BY <2>1, <2>4, <2>5, <2>6 DEF Map!Update
    <2>. QED BY <2>1, <2>7 DEF Map!Next
<1>3. ASSUME NEW p \in Procs, RenameRemove(p)
      PROVE  [id \in Ids |-> StoredName(id)]' = [id \in Ids |-> StoredName(id)]
    <2>1. /\ Holders(held[p].id) = {oldf[p], newf[p]} /\ newf[p] # oldf[p]
          /\ \A f \in Filenames : f # oldf[p] => Files'[f] = Files[f]
          /\ \A id : Holders(id)' = IF id = held[p].id THEN {newf[p]} ELSE Holders(id)
          /\ pc[p] = "renameRemove" /\ pc'[p] = "renameIndex"
        BY <1>3, RenameRemoves DEF RenameRemove
    <2>2. \A id : /\ CurrentFiles(id) = Holders(id) \ {oldf[p]}
                  /\ CurrentFiles(id)' = Holders(id)'
        BY <1>a, <2>1 DEF CurrentFiles
    <2>3. \A id \in Ids : CurrentFiles(id)' = CurrentFiles(id)
        <3>1. \A id : id # held[p].id => oldf[p] \notin Holders(id)
            BY <2>1 DEF Holders
        <3>. QED BY <2>1, <2>2, <3>1
    <2>4. \A id \in Ids : \A f \in Filenames : f \in CurrentFiles(id) => Files'[f] = Files[f]
        BY <2>1, <2>2
    <2>. QED BY <2>3, <2>4, NameStays
<1>4. ASSUME NEW p \in Procs, DeleteRemove(p) PROVE Map!Next
    <2>1. /\ pc[p] = "delete" /\ held[p].id \in Ids /\ Holders(held[p].id) = {oldf[p]}
          /\ \A f \in Filenames : f # oldf[p] => Files'[f] = Files[f]
          /\ \A id : Holders(id)' = IF id = held[p].id THEN {} ELSE Holders(id)
          /\ pc'[p] = "deleteIndex"
        BY <1>4, DeleteRemoves
    <2>2. \A id : CurrentFiles(id) = Holders(id) /\ CurrentFiles(id)' = Holders(id)'
        BY <1>a, <2>1 DEF CurrentFiles
    <2>3. StoredName(held[p].id) # None
        <3>1. CurrentFiles(held[p].id) = {oldf[p]}
            BY <2>1, <2>2
        <3>2. Files[oldf[p]] \in Features
            BY <2>1 DEF Holders, Exists, Files, TypeOK
        <3>. QED BY <3>1, <3>2, NoneAssumption DEF StoredName, Features
    <2>4. \A id \in Ids : id = held[p].id => StoredName(id)' = None
        BY <2>1, <2>2 DEF StoredName
    <2>5. ASSUME NEW id \in Ids, id # held[p].id PROVE StoredName(id)' = StoredName(id)
        <3>1. CurrentFiles(id)' = CurrentFiles(id)
            BY <2>1, <2>2, <2>5
        <3>2. oldf[p] \notin CurrentFiles(id)
            BY <2>1, <2>2, <2>5 DEF Holders
        <3>. QED BY <2>1, <3>1, <3>2, NameStays
    <2>6. Map!Delete(held[p].id)
        BY <2>1, <2>3, <2>4, <2>5 DEF Map!Delete
    <2>. QED BY <2>1, <2>6 DEF Map!Next
<1>5. ASSUME \A p \in Procs : ~CreateWrite(p) /\ ~RenameWrite(p) /\ ~RenameRemove(p) /\ ~DeleteRemove(p)
      PROVE  [id \in Ids |-> StoredName(id)]' = [id \in Ids |-> StoredName(id)]
    <2>1. /\ UNCHANGED <<trees, branch>>
          /\ \A p \in Procs : \/ pc[p] # "renameRemove" /\ pc'[p] # "renameRemove"
                              \/ UNCHANGED <<pc, oldf>>
        BY <1>5, StillSteps
    <2>2. \A id \in Ids : CurrentFiles(id)' = CurrentFiles(id)
        BY <2>1, SameFiles DEF CurrentFiles
    <2>. QED BY <2>1, <2>2, SameFiles, NameStays
<1>. QED BY <1>1, <1>2, <1>3, <1>4, <1>5

\* A feature leaves the files in the step that removes them for its deletion.
LEMMA NoLossStep ==
    ASSUME SequentialUse, TypeOK, SequentialInv, [Next]_vars, NEW id \in Ids,
           Present(id), ~Present(id)'
    PROVE  \E p \in Procs : pc[p] = "delete" /\ held[p].id = id
<1>1. ASSUME NEW p \in Procs, CreateWrite(p) PROVE FALSE
    BY <1>1, CreateWrites DEF Present
<1>2. ASSUME NEW p \in Procs, RenameWrite(p) PROVE FALSE
    BY <1>2, RenameWrites DEF Present
<1>3. ASSUME NEW p \in Procs, RenameRemove(p) PROVE FALSE
    BY <1>3, RenameRemoves DEF Present
<1>4. ASSUME NEW p \in Procs, DeleteRemove(p) PROVE pc[p] = "delete" /\ held[p].id = id
    BY <1>4, DeleteRemoves DEF Present
<1>5. \E p \in Procs : CreateWrite(p) \/ RenameWrite(p) \/ RenameRemove(p) \/ DeleteRemove(p)
    <2> SUFFICES ASSUME \A p \in Procs : /\ ~CreateWrite(p) /\ ~RenameWrite(p)
                                         /\ ~RenameRemove(p) /\ ~DeleteRemove(p)
                 PROVE  FALSE
        OBVIOUS
    <2>1. UNCHANGED <<trees, branch>>
        BY StillSteps
    <2>. QED BY <2>1, SameFiles
<1>. QED BY <1>1, <1>2, <1>3, <1>4, <1>5

\* At first there is no file.
LEMMA NoFiles == Init => \A f \in Filenames : ~Exists(f)
BY ConstantsAssumption DEF Init, EmptyTree, Exists, Files

\* The invariant of sequential use, of every behaviour.
LEMMA SequentialAlways ==
    ASSUME SequentialUse, DistinctSlugs
    PROVE  Spec => [](TypeOK /\ SequentialInv)
<1>1. Init => SequentialInv
    <2> SUFFICES ASSUME Init PROVE SequentialInv
        OBVIOUS
    <2>1. FilesNamed /\ OneFile
        BY NoFiles DEF FilesNamed, OneFile, Holders
    <2>2. IndexExact /\ \A p \in Procs : OwnPaths(p)
        BY DEF Init, IndexExact, OwnPaths, EmptyIndex
    <2>. QED BY <2>1, <2>2 DEF SequentialInv
<1>2. TypeOK /\ TypeOK' /\ SequentialInv /\ [Next]_vars => SequentialInv'
    BY SequentialStep
<1>. QED BY <1>1, <1>2, TypeCorrect, PTL DEF Spec

\* An index entry whose file exists leads to the feature it is asked for, in
\* the index file and in every process: where no slug is shared by features,
\* and where one command runs at a time on one branch with distinct slugs.
THEOREM IndexSoundAlways ==
    ASSUME DisjointSlugs \/ (SequentialUse /\ DistinctSlugs)
    PROVE  Spec => []IndexSound
<1>1. CASE DisjointSlugs
    BY <1>1, DisjointSlugsSafe, PTL
<1>2. CASE SequentialUse /\ DistinctSlugs
    <2>1. SequentialInv => IndexSound
        <3> SUFFICES ASSUME SequentialInv PROVE IndexSound
            OBVIOUS
        <3>1. PointsToOwn(diskIdx) /\ PointsToOwn(EmptyIndex)
            BY DEF SequentialInv, IndexExact, PointsToOwn, Holders, EmptyIndex
        <3>2. \A p \in Procs : mem[p] = diskIdx \/ mem[p] = EmptyIndex
            BY DEF SequentialInv, OwnPaths
        <3>. QED BY <3>1, <3>2 DEF IndexSound
    <2>. QED BY <1>2, <2>1, SequentialAlways, PTL
<1>. QED BY <1>1, <1>2

\* Where no slug is shared by features, Get answers with the feature asked for,
\* from a stale index or another branch too.
THEOREM GetReturnsAskedAlways ==
    ASSUME DisjointSlugs
    PROVE  Spec => []GetReturnsAsked
BY DisjointSlugsSafe, PTL

\* One command at a time, on one branch, with names of distinct slugs: no
\* feature is in two files, but for the moment its rename needs.
THEOREM OneFileAlways ==
    ASSUME SequentialUse, DistinctSlugs
    PROVE  Spec => []OneFilePerFeature
<1>1. SequentialInv => OneFilePerFeature
    BY DEF SequentialInv, OneFile, OneFilePerFeature
<1>. QED BY <1>1, SequentialAlways, PTL

\* Then, too, no call loses a feature: not by a write over its file, not by a
\* rename; only its own deletion takes it from the branch.
THEOREM NoLossAlways ==
    ASSUME SequentialUse, DistinctSlugs
    PROVE  Spec => NoLoss
<1>1. TypeOK /\ SequentialInv /\ [Next]_vars
        => [\A id \in Ids :
               Present(id) /\ branch' = branch /\ ~Present(id)'
                 => \E p \in Procs : pc[p] = "delete" /\ held[p].id = id]_vars
    BY NoLossStep
<1>. QED BY <1>1, SequentialAlways, PTL DEF Spec, NoLoss

\* And the files implement the map the repository's interface promises: every
\* step of every call changes one entry of it, as Create, Update or Delete do,
\* or none.
THEOREM MapAlways ==
    ASSUME SequentialUse, DistinctSlugs
    PROVE  Spec => ImplementsMap
<1>1. Init => Map!Init
    <2>1. Init => \A id \in Ids : StoredName(id) = None
        BY NoFiles DEF StoredName, CurrentFiles, Holders
    <2>. QED BY <2>1 DEF Map!Init
<1>2. TypeOK /\ TypeOK' /\ SequentialInv /\ [Next]_vars
        => [Map!Next]_([id \in Ids |-> StoredName(id)])
    BY MapStep
<1>. QED BY <1>1, <1>2, SequentialAlways, PTL DEF Spec, ImplementsMap, Map!Spec
=============================================================================
