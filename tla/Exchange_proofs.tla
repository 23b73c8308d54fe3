-------------------------- MODULE Exchange_proofs --------------------------
(***************************************************************************)
(* Proofs about Exchange for any features, names, files made by hand and   *)
(* bounds.  An import leaves no relationship to a feature that nothing     *)
(* accounts for: an ID that is present or excused stays so, and while an   *)
(* import runs what an entry leads to is one of these or in the file. It   *)
(* replaces only what it was told to, what it stores is in the state it    *)
(* was exported in, and an import that was stopped and begun again comes   *)
(* to what one run would have come to.                                     *)
(***************************************************************************)
EXTENDS Exchange, FiniteSetTheorems, TLAPS

\* An import under way.
IsImport(c) ==
    /\ c = [mode |-> c.mode, at |-> c.at, ids |-> c.ids, names |-> c.names, failed |-> c.failed]
    /\ c.mode \in {"plain", "merge", "overwrite"}
    /\ c.at \in Nat \ {0}
    /\ c.ids \subseteq Ids /\ c.names \subseteq Names

Typed ==
    /\ repo \in [Ids -> Feature \cup {None}]
    /\ file \in Seq(Entry)
    /\ call # Idle => IsImport(call) /\ call.at <= Len(file) + 1
    /\ excused \subseteq Ids
    /\ clock \in Times

\* Accounted for: present or excused.
Accounted == Present(repo) \cup excused

LinksKnown ==
    \A id \in Present(repo) :
        repo[id].links \subseteq Accounted \cup (IF call = Idle THEN {} ELSE IdsOf(file))

ImportKnown ==
    call # Idle =>
        /\ call.ids \subseteq Accounted
        /\ \A i \in 1..Len(file) : file[i].feature.links \subseteq Accounted \cup IdsOf(file)
        /\ \A j \in 1..Len(file) : j < call.at => file[j].id \in Accounted

IInv == Typed /\ LinksKnown /\ ImportKnown
-----------------------------------------------------------------------------
LEMMA WrittenTyping == ASSUME NEW t \in Times PROVE Written(t) \in Times
<1>1. t \in Nat /\ t % Fine \in 0..(Fine - 1) /\ t % Fine <= t
    BY ExchangeAssumption DEF Times
<1>. QED BY <1>1, ExchangeAssumption DEF Written, Times

LEMMA ExportTyping ==
    ASSUME NEW id \in Ids, NEW f \in Feature
    PROVE  ConvertToExportFeature(id, f) \in Entry
<1>1. Written(f.created) \in Times /\ Written(f.modified) \in Times
    BY WrittenTyping DEF Feature
<1>2. [f EXCEPT !.created = Written(@), !.modified = Written(@)] \in Feature
    BY <1>1 DEF Feature
<1>3. DeriveState(f) \in {"open", "in-progress", "closed"}
    BY DEF DeriveState
<1>. QED BY <1>2, <1>3 DEF ConvertToExportFeature, Entry

\* What an entry that is stored or left out does to the rest.
LEMMA CurrentEntry ==
    ASSUME Typed, Importing
    PROVE  /\ call.at \in 1..Len(file)
           /\ Current \in Entry
           /\ Current \in Range(file)
<1>1. call.at \in 1..Len(file)
    BY DEF Typed, Importing, IsImport
<1>. QED BY <1>1 DEF Typed, Current, Range

LEMMA EntryIds ==
    ASSUME Typed
    PROVE  /\ IdsOf(file) \subseteq Ids
           /\ \A i \in 1..Len(file) : file[i] \in Entry /\ file[i].id \in IdsOf(file)
           /\ \A id \in IdsOf(file) : \E i \in 1..Len(file) : file[i].id = id
<1>1. DOMAIN file = 1..Len(file) /\ \A i \in 1..Len(file) : file[i] \in Entry
    BY DEF Typed
<1>2. \A e \in Range(file) : \E i \in 1..Len(file) : file[i] = e
    BY <1>1 DEF Range
<1>3. \A i \in 1..Len(file) : file[i] \in Range(file)
    BY <1>1 DEF Range
<1>. QED BY <1>1, <1>2, <1>3 DEF IdsOf, Entry

\* A feature stays one when a relationship to another is removed.
LEMMA RemoveLink ==
    ASSUME NEW f \in Feature, NEW id
    PROVE  [f EXCEPT !.links = @ \ {id}] \in Feature
<1> DEFINE L == f.links
<1>1. L \in SUBSET Ids /\ Cardinality(L) <= MaxLinks
    BY DEF Feature
<1>2. IsFiniteSet(L)
    BY <1>1, FS_Subset, ExchangeAssumption
<1>3. /\ IsFiniteSet(L \ {id}) /\ Cardinality(L \ {id}) <= Cardinality(L)
    <2>1. L \ {id} \in SUBSET L
        OBVIOUS
    <2> HIDE DEF L
    <2>. QED BY <1>2, <2>1, FS_Subset
<1>4. Cardinality(L) \in Nat /\ Cardinality(L \ {id}) \in Nat
    BY <1>2, <1>3, FS_CardinalityType
<1>5. Cardinality(L \ {id}) <= MaxLinks
    BY <1>1, <1>3, <1>4, ExchangeAssumption
<1>. QED BY <1>1, <1>5 DEF Feature
-----------------------------------------------------------------------------
\* What one step of an import does to its record.
LEMMA AdvanceTyping ==
    ASSUME Typed, Importing, NEW failed \in BOOLEAN, Advance(failed)
    PROVE  /\ IsImport(call') /\ call' # Idle
           /\ call'.at = call.at + 1 /\ call'.at <= Len(file) + 1
           /\ call'.ids = call.ids /\ call'.mode = call.mode
           /\ file' = file /\ clock' = clock
<1>1. call.at \in 1..Len(file) /\ IsImport(call) /\ Len(file) \in Nat
    BY CurrentEntry DEF Typed, Importing
<1>2. call' = [call EXCEPT !.at = @ + 1, !.failed = @ \/ failed]
    BY DEF Advance
<1>3. call' = [mode |-> call.mode, at |-> call.at + 1, ids |-> call.ids, names |-> call.names,
               failed |-> call'.failed]
    BY <1>1, <1>2 DEF IsImport
<1>4. IsImport(call') /\ call'.at = call.at + 1 /\ call'.ids = call.ids /\ call'.mode = call.mode
    BY <1>1, <1>3 DEF IsImport
<1>5. call' # Idle
    BY <1>4 DEF IsImport, Idle
<1>. QED BY <1>1, <1>4, <1>5 DEF Advance

\* A command that creates or changes a feature: of its relationships those are
\* new that lead to a feature there is.
LEMMA ChangeEffect ==
    ASSUME Typed, NEW id \in Ids, (\E name \in Names : CreateFeature(id, name)) \/ ChangeFeature(id)
    PROVE  \E f \in Feature :
              /\ repo' = [repo EXCEPT ![id] = f]
              /\ \A g \in f.links : g \in Present(repo) \/ (repo[id] # None /\ g \in repo[id].links)
<1>1. clock' \in Times
    BY DEF CreateFeature, ChangeFeature, Changes, Typed, Times
<1>2. CASE \E name \in Names : CreateFeature(id, name)
    <2>1. PICK name \in Names : CreateFeature(id, name)
        BY <1>2
    <2> DEFINE f == [name |-> name, links |-> {}, created |-> clock', modified |-> clock', closed |-> FALSE]
    <2>2. f \in Feature /\ f.links = {}
        BY <1>1, FS_EmptySet, ExchangeAssumption DEF Feature
    <2>3. repo' = [repo EXCEPT ![id] = f]
        BY <2>1 DEF CreateFeature, Store!Create
    <2>. QED BY <2>2, <2>3
<1>3. CASE ChangeFeature(id)
    <2>1. repo[id] \in Feature
        BY <1>3 DEF ChangeFeature, Typed
    <2>2. CASE \E name \in Names : Store!Update(id, [repo[id] EXCEPT !.name = name, !.modified = clock'])
        <3>1. PICK name \in Names : Store!Update(id, [repo[id] EXCEPT !.name = name, !.modified = clock'])
            BY <2>2
        <3> DEFINE f == [repo[id] EXCEPT !.name = name, !.modified = clock']
        <3>2. f \in Feature /\ f.links = repo[id].links
            BY <1>1, <2>1 DEF Feature
        <3>3. repo' = [repo EXCEPT ![id] = f] /\ repo[id] # None
            BY <3>1 DEF Store!Update
        <3>. QED BY <3>2, <3>3
    <2>3. CASE \E t \in Present(repo) \ {id} :
                  /\ [repo[id] EXCEPT !.links = @ \cup {t}] \in Feature
                  /\ Store!Update(id, [repo[id] EXCEPT !.links = @ \cup {t}, !.modified = clock'])
        <3>1. PICK t \in Present(repo) \ {id} :
                  /\ [repo[id] EXCEPT !.links = @ \cup {t}] \in Feature
                  /\ Store!Update(id, [repo[id] EXCEPT !.links = @ \cup {t}, !.modified = clock'])
            BY <2>3
        <3> DEFINE f == [repo[id] EXCEPT !.links = @ \cup {t}, !.modified = clock']
        <3>2. f \in Feature /\ f.links = repo[id].links \cup {t}
            BY <1>1, <2>1, <3>1 DEF Feature
        <3>3. repo' = [repo EXCEPT ![id] = f] /\ repo[id] # None
            BY <3>1 DEF Store!Update
        <3>. QED BY <3>1, <3>2, <3>3
    <2>4. CASE Store!Update(id, [repo[id] EXCEPT !.closed = TRUE])
        <3> DEFINE f == [repo[id] EXCEPT !.closed = TRUE]
        <3>1. f \in Feature /\ f.links = repo[id].links
            BY <2>1 DEF Feature
        <3>2. repo' = [repo EXCEPT ![id] = f] /\ repo[id] # None
            BY <2>4 DEF Store!Update
        <3>. QED BY <3>1, <3>2
    <2>. QED BY <1>3, <2>2, <2>3, <2>4 DEF ChangeFeature
<1>. QED BY <1>2, <1>3

LEMMA ChangeTyping ==
    ASSUME Typed, NEW id \in Ids,
           (\E name \in Names : CreateFeature(id, name)) \/ ChangeFeature(id) \/ DeleteFeature(id)
    PROVE  Typed'
<1>1. clock' \in Times /\ file' = file /\ call' = call
    BY DEF CreateFeature, ChangeFeature, DeleteFeature, Changes, Typed, Times
<1>2. CASE (\E name \in Names : CreateFeature(id, name)) \/ ChangeFeature(id)
    <2>1. repo' \in [Ids -> Feature \cup {None}]
        BY <1>2, ChangeEffect DEF Typed
    <2>2. excused' = excused
        BY <1>2 DEF CreateFeature, ChangeFeature
    <2>. QED BY <1>1, <2>1, <2>2 DEF Typed
<1>3. CASE DeleteFeature(id)
    <2>1. \A g \in Ids : repo[g] # None => [repo[g] EXCEPT !.links = @ \ {id}] \in Feature
        BY RemoveLink DEF Typed
    <2>. QED BY <1>1, <1>3, <2>1 DEF Typed, DeleteFeature
<1>. QED BY <1>2, <1>3

LEMMA ExportFile ==
    ASSUME Typed, NEW S \in SUBSET Ids, Export(S)
    PROVE  file' \in Seq(Entry)
<1>1. PICK order \in SetToSeqs(S) : file' = Exported(order)
    BY DEF Export
<1>2. IsFiniteSet(S) /\ Cardinality(S) \in Nat
    BY FS_Subset, FS_CardinalityType, ExchangeAssumption
<1>3. order \in [1..Cardinality(S) -> S]
    BY <1>1 DEF SetToSeqs
<1>4. \A i \in 1..Cardinality(S) : ConvertToExportFeature(order[i], repo[order[i]]) \in Entry
    BY <1>3, ExportTyping DEF Export, Present, Typed
<1>5. Exported(order) \in [1..Cardinality(S) -> Entry]
    BY <1>3, <1>4 DEF Exported
<1>. QED BY <1>1, <1>2, <1>5

\* Stored entries are features.
LEMMA StoredTyping ==
    ASSUME Typed, Importing, Stored(Current)
    PROVE  /\ repo' = [repo EXCEPT ![Current.id] = Current.feature]
           /\ Current.id \in Ids /\ Current.feature \in Feature
           /\ repo[Current.id] # None => call.mode = "overwrite"
BY CurrentEntry DEF Stored, Store!Update, Store!Create, Entry

LEMMA TypedStep ==
    ASSUME Typed, [Next]_vars
    PROVE  Typed'
<1>1. CASE UNCHANGED vars
    BY <1>1 DEF vars, Typed
<1>2. CASE \E id \in Ids : \/ \E name \in Names : CreateFeature(id, name)
                           \/ ChangeFeature(id) \/ DeleteFeature(id)
    BY <1>2, ChangeTyping
<1>3. ASSUME NEW S \in SUBSET Ids, Export(S) PROVE Typed'
    BY <1>3, ExportFile DEF Export, Typed
<1>4. ASSUME NEW mode \in {"plain", "merge", "overwrite"}, ImportBegin(mode) PROVE Typed'
    <2>1. NamesIn(repo) \subseteq Names /\ Present(repo) \subseteq Ids
        BY DEF NamesIn, Present, Typed, Feature
    <2>2. IsImport(call') /\ call'.at = 1
        BY <1>4, <2>1 DEF ImportBegin, IsImport
    <2>3. UNION {e.feature.links : e \in Range(file)} \subseteq Ids
        <3>1. \A e \in Range(file) : e \in Entry
            BY DEF Typed, Range
        <3>2. \A e \in Range(file) : e.feature.links \subseteq Ids
            BY <3>1 DEF Entry, Feature
        <3>. QED BY <3>2
    <2>4. Len(file) \in Nat
        BY DEF Typed
    <2>. QED BY <1>4, <2>2, <2>3, <2>4 DEF ImportBegin, Typed
<1>5. CASE SkipEntry \/ RefuseEntry \/ EntryFails
    <2>1. Importing /\ repo' = repo /\ \E failed \in BOOLEAN : Advance(failed)
        BY <1>5 DEF SkipEntry, RefuseEntry, EntryFails
    <2>2. excused' \subseteq Ids
        BY <1>5, <2>1, CurrentEntry DEF SkipEntry, RefuseEntry, EntryFails, Typed, Entry
    <2>. QED BY <2>1, <2>2, AdvanceTyping DEF Typed
<1>6. CASE StoreEntry
    <2>1. Importing /\ Advance(FALSE) /\ Stored(Current) /\ excused' = excused
        BY <1>6 DEF StoreEntry
    <2>2. repo' \in [Ids -> Feature \cup {None}]
        BY <2>1, StoredTyping DEF Typed
    <2>. QED BY <2>1, <2>2, AdvanceTyping DEF Typed
<1>7. CASE ImportEnd
    BY <1>7 DEF ImportEnd, Typed
<1>8. CASE Stop
    <2>1. IdsOf(SubSeq(file, call.at, Len(file))) \subseteq Ids
        <3>1. SubSeq(file, call.at, Len(file)) \in Seq(Entry)
            BY <1>8, CurrentEntry DEF Stop, Typed
        <3>. QED BY <3>1 DEF IdsOf, Range, Entry
    <2>. QED BY <1>8, <2>1 DEF Stop, Typed
<1>. QED BY <1>1, <1>2, <1>3, <1>4, <1>5, <1>6, <1>7, <1>8 DEF Next
-----------------------------------------------------------------------------
\* Whatever happens, an ID that is accounted for stays so.
LEMMA AccountedStays ==
    ASSUME Typed, [Next]_vars
    PROVE  Accounted \subseteq Accounted'
<1> USE DEF Accounted, Present
<1>1. CASE repo' = repo /\ excused \subseteq excused'
    BY <1>1
<1>2. ASSUME NEW id \in Ids, NEW f \in Feature, repo' = [repo EXCEPT ![id] = f], excused' = excused
      PROVE  Accounted \subseteq Accounted'
    BY <1>2, ExchangeAssumption DEF Typed
<1>3. CASE UNCHANGED vars
    BY <1>1, <1>3 DEF vars
<1>4. ASSUME NEW id \in Ids, (\E name \in Names : CreateFeature(id, name)) \/ ChangeFeature(id)
      PROVE  Accounted \subseteq Accounted'
    <2>1. excused' = excused
        BY <1>4 DEF CreateFeature, ChangeFeature
    <2>2. PICK f \in Feature : repo' = [repo EXCEPT ![id] = f]
        BY <1>4, ChangeEffect
    <2>. QED BY <1>2, <2>1, <2>2
<1>5. ASSUME NEW id \in Ids, DeleteFeature(id) PROVE Accounted \subseteq Accounted'
    <2>1. \A g \in Ids : repo[g] # None => [repo[g] EXCEPT !.links = @ \ {id}] \in Feature
        BY RemoveLink DEF Typed
    <2>. QED BY <1>5, <2>1, ExchangeAssumption DEF DeleteFeature
<1>6. ASSUME NEW S \in SUBSET Ids, Export(S) PROVE Accounted \subseteq Accounted'
    BY <1>1, <1>6 DEF Export
<1>7. ASSUME NEW mode, ImportBegin(mode) PROVE Accounted \subseteq Accounted'
    BY <1>1, <1>7 DEF ImportBegin
<1>8. CASE SkipEntry \/ RefuseEntry \/ EntryFails \/ ImportEnd \/ Stop
    BY <1>1, <1>8 DEF SkipEntry, RefuseEntry, EntryFails, ImportEnd, Stop
<1>9. CASE StoreEntry
    BY <1>2, <1>9, StoredTyping DEF StoreEntry
<1>. QED BY <1>3, <1>4, <1>5, <1>6, <1>7, <1>8, <1>9 DEF Next

\* Relationships stay within what is accounted for, where the file they may
\* lead into stays the same.
LEMMA LinksStay ==
    ASSUME Typed, LinksKnown, Accounted \subseteq Accounted', NEW id \in Ids, repo[id] # None,
           call = Idle \/ (call' # Idle /\ file' = file)
    PROVE  repo[id].links \subseteq Accounted' \cup (IF call' = Idle THEN {} ELSE IdsOf(file'))
BY DEF LinksKnown, Present

LEMMA LinksStep ==
    ASSUME IInv, [Next]_vars
    PROVE  LinksKnown'
<1> DEFINE Into == Accounted \cup (IF call = Idle THEN {} ELSE IdsOf(file))
<1>0. Typed /\ Accounted \subseteq Accounted' /\ LinksKnown /\ ImportKnown
    BY AccountedStays DEF IInv
<1> SUFFICES ASSUME NEW id \in Ids, repo'[id] # None
             PROVE  repo'[id].links \subseteq Into'
    BY DEF LinksKnown, Present
<1>1. CASE repo'[id] = repo[id] /\ (call = Idle \/ (call' # Idle /\ file' = file))
    BY <1>0, <1>1, LinksStay
<1>2. CASE UNCHANGED vars
    BY <1>1, <1>2 DEF vars
<1>3. ASSUME NEW i \in Ids, (\E name \in Names : CreateFeature(i, name)) \/ ChangeFeature(i)
      PROVE  repo'[id].links \subseteq Into'
    <2>1. call' = call /\ file' = file
        BY <1>3 DEF CreateFeature, ChangeFeature, Changes
    <2>2. PICK f \in Feature :
              /\ repo' = [repo EXCEPT ![i] = f]
              /\ \A g \in f.links : g \in Present(repo) \/ (repo[i] # None /\ g \in repo[i].links)
        BY <1>0, <1>3, ChangeEffect
    <2>3. CASE id # i
        BY <1>1, <2>1, <2>2, <2>3, <1>0 DEF Typed
    <2>4. CASE id = i
        <3>1. repo'[id] = f
            BY <1>0, <2>2, <2>4 DEF Typed
        <3>2. Present(repo) \subseteq Into'
            BY <1>0 DEF Accounted
        <3>3. repo[i] # None => repo[i].links \subseteq Into'
            BY <1>0, <2>1, LinksStay
        <3>. QED BY <2>2, <3>1, <3>2, <3>3
    <2>. QED BY <2>3, <2>4
<1>4. ASSUME NEW i \in Ids, DeleteFeature(i) PROVE repo'[id].links \subseteq Into'
    <2>1. call' = call /\ file' = file
        BY <1>4 DEF DeleteFeature, Changes
    <2>2. repo[id] # None /\ repo'[id] = [repo[id] EXCEPT !.links = @ \ {i}]
        BY <1>4 DEF DeleteFeature
    <2>3. repo[id].links \subseteq Into'
        BY <1>0, <2>1, <2>2, LinksStay
    <2>4. repo[id] \in Feature
        BY <1>0, <2>2 DEF Typed
    <2>5. repo'[id].links = repo[id].links \ {i}
        BY <2>2, <2>4 DEF Feature
    <2>. QED BY <2>3, <2>5
<1>5. ASSUME NEW S \in SUBSET Ids, Export(S) PROVE repo'[id].links \subseteq Into'
    BY <1>1, <1>5 DEF Export
<1>6. ASSUME NEW mode, ImportBegin(mode) PROVE repo'[id].links \subseteq Into'
    BY <1>1, <1>6 DEF ImportBegin
<1>7. CASE SkipEntry \/ RefuseEntry \/ EntryFails
    <2>1. Importing /\ repo' = repo /\ \E failed \in BOOLEAN : Advance(failed)
        BY <1>7 DEF SkipEntry, RefuseEntry, EntryFails
    <2>. QED BY <1>0, <1>1, <2>1, AdvanceTyping
<1>8. CASE StoreEntry
    <2>1. Importing /\ Advance(FALSE) /\ Stored(Current)
        BY <1>8 DEF StoreEntry
    <2>2. call # Idle /\ call' # Idle /\ file' = file
        BY <1>0, <2>1, AdvanceTyping DEF Importing
    <2>3. CASE id # Current.id
        BY <1>0, <1>1, <2>1, <2>2, <2>3, StoredTyping DEF Typed
    <2>4. CASE id = Current.id
        <3>1. repo'[id] = Current.feature
            BY <1>0, <2>1, <2>4, StoredTyping DEF Typed
        <3>2. Current.feature.links \subseteq Accounted \cup IdsOf(file)
            BY <1>0, <2>1, <2>2, CurrentEntry DEF ImportKnown, Current
        <3>. QED BY <1>0, <2>2, <3>1, <3>2
    <2>. QED BY <2>3, <2>4
<1>9. CASE ImportEnd \/ Stop
    <2>1. call # Idle /\ call' = Idle /\ repo' = repo /\ file' = file
        BY <1>9 DEF ImportEnd, Stop, Importing
    <2>2. IdsOf(file) \subseteq Accounted'
        <3> SUFFICES ASSUME NEW j \in 1..Len(file) PROVE file[j].id \in Accounted'
            BY <1>0, EntryIds
        <3>1. CASE j < call.at
            BY <1>0, <2>1, <3>1 DEF ImportKnown
        <3>2. CASE call.at <= j
            <4>1. Stop /\ call.at \in 1..Len(file)
                BY <1>0, <1>9, <3>2, <2>1 DEF ImportEnd, Stop, Importing, Typed, IsImport
            <4>2. file[j] \in Range(SubSeq(file, call.at, Len(file)))
                <5> DEFINE rest == SubSeq(file, call.at, Len(file))
                <5>1. Len(rest) = Len(file) - call.at + 1 /\ DOMAIN rest = 1..Len(rest)
                    BY <1>0, <4>1 DEF Typed
                <5>2. j - call.at + 1 \in DOMAIN rest /\ rest[j - call.at + 1] = file[j]
                    BY <1>0, <3>2, <4>1, <5>1 DEF Typed
                <5>. QED BY <5>2 DEF Range
            <4>3. file[j].id \in IdsOf(SubSeq(file, call.at, Len(file)))
                BY <4>2 DEF IdsOf
            <4>4. file[j].id \in Ids
                BY <1>0, EntryIds
            <4>. QED BY <4>1, <4>3, <2>1 DEF Stop, Accounted
        <3>3. call.at \in Nat
            BY <1>0, <2>1 DEF Typed, IsImport
        <3>. QED BY <3>1, <3>2, <3>3
    <2>3. repo[id].links \subseteq Accounted \cup IdsOf(file)
        BY <1>0, <2>1 DEF LinksKnown, Present
    <2>. QED BY <1>0, <2>1, <2>2, <2>3
<1>. QED BY <1>2, <1>3, <1>4, <1>5, <1>6, <1>7, <1>8, <1>9 DEF Next
-----------------------------------------------------------------------------
\* The entries taken are accounted for, and what an entry leads to is or is in
\* the file.
LEMMA ImportKnownStep ==
    ASSUME IInv, [Next]_vars
    PROVE  ImportKnown'
<1>0. Typed /\ Accounted \subseteq Accounted' /\ ImportKnown
    BY AccountedStays DEF IInv
<1>1. CASE call' = Idle
    BY <1>1 DEF ImportKnown
<1>2. CASE call' = call /\ file' = file
    BY <1>0, <1>2 DEF ImportKnown, IdsOf
<1>3. CASE UNCHANGED vars
    BY <1>2, <1>3 DEF vars
<1>4. ASSUME NEW id \in Ids, (\E name \in Names : CreateFeature(id, name))
                                \/ ChangeFeature(id) \/ DeleteFeature(id)
      PROVE  ImportKnown'
    BY <1>2, <1>4 DEF CreateFeature, ChangeFeature, DeleteFeature, Changes
<1>5. ASSUME NEW S \in SUBSET Ids, Export(S) PROVE ImportKnown'
    BY <1>1, <1>5 DEF Export
<1>6. ASSUME NEW mode, ImportBegin(mode) PROVE ImportKnown'
    <2>1. call'.ids = Present(repo) /\ call'.at = 1 /\ repo' = repo /\ file' = file
        BY <1>6 DEF ImportBegin
    <2>2. call'.ids \subseteq Accounted'
        BY <2>1 DEF Accounted, Present
    <2>3. ASSUME NEW i \in 1..Len(file)
          PROVE  file[i].feature.links \subseteq Accounted' \cup IdsOf(file)
        <3>1. file[i] \in Range(file)
            BY <1>0 DEF Typed, Range
        <3>2. file[i].feature.links \ (IdsOf(file) \cup Present(repo)) \subseteq excused'
            BY <1>6, <3>1 DEF ImportBegin
        <3>. QED BY <2>1, <3>2 DEF Accounted, Present
    <2>4. \A j \in 1..Len(file) : ~(j < 1)
        BY <1>0 DEF Typed
    <2>. QED BY <2>1, <2>2, <2>3, <2>4 DEF ImportKnown, IdsOf
<1>7. CASE SkipEntry \/ StoreEntry \/ RefuseEntry \/ EntryFails
    <2>1. Importing /\ \E failed \in BOOLEAN : Advance(failed)
        BY <1>7 DEF SkipEntry, StoreEntry, RefuseEntry, EntryFails
    <2>2. /\ call # Idle /\ file' = file
          /\ call'.at = call.at + 1 /\ call'.ids = call.ids
          /\ call.at \in 1..Len(file)
        BY <1>0, <2>1, AdvanceTyping, CurrentEntry DEF Importing
    <2>3. Current.id \in Accounted'
        <3>1. Current.id \in Ids
            BY <1>0, <2>1, CurrentEntry DEF Entry
        <3>2. CASE SkipEntry
            BY <1>0, <2>2, <3>2 DEF SkipEntry, Accounted, ImportKnown
        <3>3. CASE RefuseEntry \/ EntryFails
            BY <3>1, <3>3 DEF RefuseEntry, EntryFails, Accounted, Present
        <3>4. CASE StoreEntry
            <4>1. repo' = [repo EXCEPT ![Current.id] = Current.feature] /\ Current.feature \in Feature
                BY <1>0, <3>4, StoredTyping DEF StoreEntry
            <4>2. repo'[Current.id] # None
                BY <1>0, <3>1, <4>1, ExchangeAssumption DEF Typed
            <4>. QED BY <3>1, <4>2 DEF Accounted, Present
        <3>. QED BY <1>7, <3>2, <3>3, <3>4
    <2>4. ASSUME NEW j \in 1..Len(file), j < call.at + 1 PROVE file[j].id \in Accounted'
        <3>1. j < call.at \/ j = call.at
            BY <1>0, <2>2, <2>4 DEF Typed
        <3>. QED BY <1>0, <2>2, <2>3, <3>1 DEF ImportKnown, Current
    <2>. QED BY <1>0, <2>2, <2>4 DEF ImportKnown, IdsOf
<1>8. CASE ImportEnd \/ Stop
    BY <1>1, <1>8 DEF ImportEnd, Stop
<1>. QED BY <1>3, <1>4, <1>5, <1>6, <1>7, <1>8 DEF Next

LEMMA InitIInv == Init => IInv
<1> SUFFICES ASSUME Init PROVE IInv
    OBVIOUS
<1>1. file \in Seq(Entry)
    <2>1. <<>> \in Seq(Entry) /\ Drafts \subseteq Seq(Entry)
        BY ExchangeAssumption
    <2>. QED BY <2>1 DEF Init
<1>2. Typed
    BY <1>1, ExchangeAssumption DEF Init, Typed, Times
<1>3. LinksKnown /\ ImportKnown
    BY DEF Init, LinksKnown, ImportKnown, Present
<1>. QED BY <1>2, <1>3 DEF IInv

LEMMA StepIInv == IInv /\ [Next]_vars => IInv'
BY TypedStep, LinksStep, ImportKnownStep DEF IInv

LEMMA IInvAlways == Spec => []IInv
BY InitIInv, StepIInv, PTL DEF Spec
-----------------------------------------------------------------------------
\* The store, the file and the import under way have their types whatever
\* commands run beside each other: what import stores is a feature, and what
\* export writes import can read.
THEOREM TypeCorrect == Spec => []TypeOK
<1>1. IInv => TypeOK
    BY DEF IInv, Typed, IsImport, TypeOK
<1>. QED BY <1>1, IInvAlways, PTL

\* When no import runs, what a feature is related to is there or something
\* accounts for its absence: the file did not have it, a command deleted it,
\* or the import skipped it for its name, failed to store it or was stopped.
\* It holds with other commands between the steps of an import, though it
\* compares with the features it listed at its start.
THEOREM NoNewOrphansAlways == Spec => []NoNewOrphans
<1>1. IInv => NoNewOrphans
    BY DEF IInv, LinksKnown, NoNewOrphans, Accounted, Present
<1>. QED BY <1>1, IInvAlways, PTL

\* A step of an import replaces a feature only with --overwrite and only one of
\* its file, also where another command created it after the import listed
\* what there was.
THEOREM ImportKeepsAlways == Spec => ImportKeeps
<1> DEFINE Keeps == ImportStep =>
        \A id \in Present(repo) :
            repo'[id] # repo[id] => call.mode = "overwrite" /\ id \in IdsOf(file)
<1>1. ASSUME IInv, [Next]_vars PROVE [Keeps]_vars
    <2> SUFFICES ASSUME ImportStep, NEW id \in Present(repo), repo'[id] # repo[id]
                 PROVE  call.mode = "overwrite" /\ id \in IdsOf(file)
        OBVIOUS
    <2>1. StoreEntry
        BY <1>1 DEF ImportStep, Next, vars, CreateFeature, ChangeFeature, DeleteFeature, Changes,
                    Export, ImportBegin, SkipEntry, RefuseEntry, EntryFails, ImportEnd, Stop
    <2>2. Typed /\ Importing /\ Stored(Current)
        BY <1>1, <2>1 DEF IInv, StoreEntry
    <2>3. repo' = [repo EXCEPT ![Current.id] = Current.feature]
          /\ (repo[Current.id] # None => call.mode = "overwrite")
        BY <2>2, StoredTyping
    <2>4. id = Current.id /\ repo[id] # None
        BY <2>2, <2>3 DEF Typed, Present
    <2>5. Current.id \in IdsOf(file)
        BY <2>2, CurrentEntry DEF IdsOf
    <2>. QED BY <2>3, <2>4, <2>5
<1>. QED BY <1>1, IInvAlways, PTL DEF Spec, ImportKeeps
-----------------------------------------------------------------------------
(***************************************************************************)
(* States arrive: of every entry, the feature it stores is in the state it *)
(* says.                                                                   *)
(***************************************************************************)
\* What the entry says of its feature's state is so, or was before the cut.
Truthful(e) ==
    \/ DeriveState(e.feature) = e.state
    \/ /\ e.state = "in-progress"
       /\ DeriveState(e.feature) = "open"
       /\ e.feature.created = e.feature.modified

\* A file made by hand says what follows from its timestamps.
TruthfulDrafts == \A d \in Drafts : \A i \in DOMAIN d : Truthful(d[i])

FileTruthful == \A i \in DOMAIN file : Truthful(file[i])

LEMMA WrittenMonotone ==
    ASSUME NEW s \in Nat, NEW t \in Nat, s <= t
    PROVE  Written(s) <= Written(t)
<1> DEFINE p == s \div Fine
           q == t \div Fine
<1>0. Fine \in Nat /\ Fine > 0
    BY ExchangeAssumption
<1>1. /\ p \in Nat /\ q \in Nat
      /\ s % Fine \in Nat /\ t % Fine \in Nat /\ s % Fine < Fine /\ t % Fine < Fine
    BY <1>0
<1>2. s = Fine * p + (s % Fine) /\ t = Fine * q + (t % Fine)
    BY <1>0
<1> DEFINE a == s % Fine
           b == t % Fine
<1>3. /\ p \in Nat /\ q \in Nat /\ a \in Nat /\ b \in Nat /\ a < Fine /\ b < Fine
      /\ s = Fine * p + a /\ t = Fine * q + b
    BY <1>1, <1>2
<1> HIDE DEF p, q, a, b
<1>4. Fine * p \in Nat /\ Fine * q \in Nat
    BY <1>0, <1>3
<1>5. p <= q
    <2> SUFFICES ASSUME q < p PROVE FALSE
        BY <1>3
    <2>1. PICK d \in Nat : p = q + 1 + d
        <3>1. p - q - 1 \in Nat /\ p = q + 1 + (p - q - 1)
            BY <1>3
        <3>. QED BY <3>1
    <2>2. Fine * p = Fine * q + Fine + Fine * d /\ Fine * d \in Nat
        BY <1>0, <1>3, <2>1
    <2>. QED BY <1>0, <1>3, <1>4, <2>2
<1>6. Fine * p <= Fine * q
    <2>1. PICK d \in Nat : q = p + d
        <3>1. q - p \in Nat /\ q = p + (q - p)
            BY <1>3, <1>5
        <3>. QED BY <3>1
    <2>2. Fine * q = Fine * p + Fine * d /\ Fine * d \in Nat
        BY <1>0, <1>3, <2>1
    <2>. QED BY <1>4, <2>2
<1>7. Written(s) = Fine * p /\ Written(t) = Fine * q
    <2>1. Written(s) = s - a /\ Written(t) = t - b
        BY DEF Written, a, b
    <2>. QED BY <1>3, <1>4, <2>1
<1>. QED BY <1>6, <1>7

\* What export writes of a feature's state is so, or was until both its
\* timestamps came to be in one second.
LEMMA ExportTruthful ==
    ASSUME NEW id \in Ids, NEW f \in Feature
    PROVE  Truthful(ConvertToExportFeature(id, f))
<1> DEFINE e == ConvertToExportFeature(id, f)
<1>1. /\ f.created \in Times /\ f.modified \in Times /\ f.closed \in BOOLEAN
      /\ f.created \in Nat /\ f.modified \in Nat
    BY ExchangeAssumption DEF Feature, Times
<1>2. Written(f.created) \in Nat /\ Written(f.modified) \in Nat
    <2>1. Written(f.created) \in Times /\ Written(f.modified) \in Times
        BY <1>1, WrittenTyping
    <2>2. Times \subseteq Nat
        BY ExchangeAssumption DEF Times
    <2>. QED BY <2>1, <2>2
<1>3. /\ e.state = DeriveState(f)
      /\ e.feature.created = Written(f.created) /\ e.feature.modified = Written(f.modified)
      /\ e.feature.closed = f.closed
    <2>1. e.state = DeriveState(f)
        BY DEF ConvertToExportFeature
    <2>2. e.feature = [f EXCEPT !.created = Written(@), !.modified = Written(@)]
        BY DEF ConvertToExportFeature
    <2> HIDE DEF e
    <2>. QED BY <2>1, <2>2 DEF Feature
<1> SUFFICES Truthful(e)
    OBVIOUS
<1> HIDE DEF e
<1>4. CASE f.closed
    BY <1>3, <1>4 DEF Truthful, DeriveState
<1>5. CASE ~f.closed /\ ~(f.modified > f.created)
    <2>1. Written(f.modified) <= Written(f.created)
        BY <1>1, <1>5, WrittenMonotone
    <2>2. ~(e.feature.modified > e.feature.created)
        BY <1>2, <1>3, <2>1
    <2>. QED BY <1>3, <1>5, <2>2 DEF Truthful, DeriveState
<1>6. CASE ~f.closed /\ f.modified > f.created
    <2>1. Written(f.created) <= Written(f.modified)
        BY <1>1, <1>6, WrittenMonotone
    <2>2. e.state = "in-progress"
        BY <1>3, <1>6 DEF DeriveState
    <2>3. CASE Written(f.created) = Written(f.modified)
        <3>1. ~(e.feature.modified > e.feature.created) /\ ~e.feature.closed
            BY <1>2, <1>3, <1>6, <2>3
        <3>2. DeriveState(e.feature) = "open"
            BY <3>1 DEF DeriveState
        <3>. QED BY <1>3, <2>2, <2>3, <3>2 DEF Truthful
    <2>4. CASE Written(f.created) # Written(f.modified)
        <3>1. e.feature.modified > e.feature.created /\ ~e.feature.closed
            BY <1>2, <1>3, <1>6, <2>1, <2>4
        <3>2. DeriveState(e.feature) = "in-progress"
            BY <3>1 DEF DeriveState
        <3>. QED BY <2>2, <3>2 DEF Truthful
    <2>. QED BY <2>3, <2>4
<1>. QED BY <1>1, <1>4, <1>5, <1>6

LEMMA FileTruthfulStep ==
    ASSUME Typed, FileTruthful, [Next]_vars
    PROVE  FileTruthful'
<1>1. CASE file' = file
    BY <1>1 DEF FileTruthful
<1>2. ASSUME NEW S \in SUBSET Ids, Export(S) PROVE FileTruthful'
    <2>1. PICK order \in SetToSeqs(S) : file' = Exported(order)
        BY <1>2 DEF Export
    <2>2. DOMAIN file' = DOMAIN order /\ \A i \in DOMAIN order : order[i] \in S
        BY <2>1 DEF Exported, SetToSeqs
    <2>3. ASSUME NEW i \in DOMAIN order PROVE Truthful(file'[i])
        <3>1. order[i] \in Ids /\ repo[order[i]] \in Feature
            BY <1>2, <2>2 DEF Export, Present, Typed
        <3>2. file'[i] = ConvertToExportFeature(order[i], repo[order[i]])
            BY <2>1 DEF Exported
        <3>. QED BY <3>1, <3>2, ExportTruthful
    <2>. QED BY <2>2, <2>3 DEF FileTruthful
<1>3. (\E S \in SUBSET Ids : Export(S)) \/ file' = file
    BY DEF Next, vars, CreateFeature, ChangeFeature, DeleteFeature, Changes, ImportBegin,
           SkipEntry, StoreEntry, RefuseEntry, EntryFails, Advance, ImportEnd, Stop
<1>. QED BY <1>1, <1>2, <1>3

\* What an import stores is in the state the file says it was in when it was
\* exported, other than one that was modified in the second it was begun,
\* whatever other commands do meanwhile; a file made by hand has to be true to
\* begin with.
THEOREM StatesArriveAlways ==
    ASSUME TruthfulDrafts
    PROVE  Spec => StatesArrive
<1> DEFINE Arrive == ImportStep =>
        \A e \in Range(file) : repo'[e.id] # repo[e.id] /\ repo'[e.id] = e.feature =>
            \/ DeriveState(repo'[e.id]) = e.state
            \/ /\ e.state = "in-progress"
               /\ DeriveState(repo'[e.id]) = "open"
               /\ e.feature.created = e.feature.modified
<1>1. Init => FileTruthful
    BY DEF Init, FileTruthful, TruthfulDrafts
<1>2. IInv /\ FileTruthful /\ [Next]_vars => FileTruthful'
    BY FileTruthfulStep DEF IInv
<1>3. FileTruthful => Arrive
    <2> SUFFICES ASSUME FileTruthful, NEW e \in Range(file), repo'[e.id] = e.feature
                 PROVE  \/ DeriveState(repo'[e.id]) = e.state
                        \/ /\ e.state = "in-progress"
                           /\ DeriveState(repo'[e.id]) = "open"
                           /\ e.feature.created = e.feature.modified
        OBVIOUS
    <2>1. Truthful(e)
        BY DEF FileTruthful, Range
    <2>. QED BY <2>1 DEF Truthful
<1>4. IInv /\ FileTruthful /\ [Next]_vars => [Arrive]_vars
    BY <1>3
<1>. QED BY <1>1, <1>2, <1>4, IInvAlways, PTL DEF Spec, StatesArrive
-----------------------------------------------------------------------------
(***************************************************************************)
(* An import that is stopped and begun again comes to what one run would.  *)
(* Every feature is what it was at the first beginning or what a single    *)
(* run would make of it; and what the import under way listed at its start *)
(* misleads it about no entry that it has not taken yet: what an earlier   *)
(* run has stored counts as known, but no entry is known by a name that    *)
(* only another entry brought.                                             *)
(***************************************************************************)
Modes == {"plain", "merge", "overwrite"}
Repos == [Ids -> Feature \cup {None}]

\* The features at the first beginning, and what a single run makes of them.
First == origin.repo
Aim   == Expected(origin.repo, origin.mode)

Begun == origin # None /\ Unambiguous(origin.repo, origin.mode)

Partly == \A id \in Ids : repo[id] = First[id] \/ repo[id] = Aim[id]

Listed ==
    /\ Present(First) \subseteq call.ids /\ call.ids \subseteq Present(repo)
    /\ \A j \in 1..Len(file) :
          j >= call.at /\ file[j].id \notin call.ids => repo[file[j].id] = None
    /\ \A n \in call.names :
          \/ n \in NamesIn(First)
          \/ \E k \in 1..Len(file) : file[k].feature.name = n /\ file[k].id \in call.ids
    /\ \A k \in 1..Len(file) :
          First[file[k].id] = None /\ file[k].feature.name \in NamesIn(First)
              => file[k].feature.name \in call.names

Taken ==
    ~call.failed => \A j \in 1..Len(file) :
                       j < call.at => repo[file[j].id] = Aim[file[j].id]

OriginKnown ==
    origin # None => /\ First \in Repos
                     /\ origin.mode \in Modes
                     /\ call # Idle => call.mode = origin.mode

ResumeInv ==
    /\ OriginKnown
    /\ Begun => Partly
    /\ Begun /\ call # Idle => Listed /\ Taken

\* What a single run makes of a feature of the file and of any other.
LEMMA ExpectedOf ==
    ASSUME Typed, NEW b \in Repos, NEW m \in Modes, Unambiguous(b, m)
    PROVE  /\ \A id \in Ids : id \notin IdsOf(file) => Expected(b, m)[id] = b[id]
           /\ \A j \in 1..Len(file) :
                 Expected(b, m)[file[j].id] =
                     IF b[file[j].id] # None
                     THEN IF m = "overwrite" THEN file[j].feature ELSE b[file[j].id]
                     ELSE IF file[j].feature.name \in NamesIn(b) THEN None ELSE file[j].feature
<1>1. /\ \A j \in 1..Len(file) : file[j] \in Entry /\ file[j].id \in IdsOf(file) /\ file[j].id \in Ids
      /\ IdsOf(file) \subseteq Ids
    BY EntryIds DEF Entry
<1>2. DOMAIN file = 1..Len(file)
    BY DEF Typed
<1>3. ASSUME NEW j \in 1..Len(file)
      PROVE  (CHOOSE e \in Range(file) : e.id = file[j].id) = file[j]
    <2>1. \A e \in Range(file) : e.id = file[j].id => e = file[j]
        BY <1>2 DEF Range, Unambiguous
    <2>2. file[j] \in Range(file)
        BY <1>2 DEF Range
    <2>. QED BY <2>1, <2>2
<1> DEFINE Of(id) == CHOOSE e \in Range(file) : e.id = id
           Made(id) ==
              IF id \notin IdsOf(file) THEN b[id]
              ELSE IF b[id] # None THEN IF m = "overwrite" THEN Of(id).feature ELSE b[id]
                   ELSE IF Of(id).feature.name \in NamesIn(b) THEN None ELSE Of(id).feature
<1>4. Expected(b, m) = [id \in Ids |-> Made(id)]
    BY DEF Expected
<1>5. \A id \in Ids : id \notin IdsOf(file) => Made(id) = b[id]
    OBVIOUS
<1>6. \A j \in 1..Len(file) : Of(file[j].id) = file[j]
    BY <1>3
<1> HIDE DEF Of
<1>7. ASSUME NEW j \in 1..Len(file)
      PROVE  Made(file[j].id) =
                 IF b[file[j].id] # None
                 THEN IF m = "overwrite" THEN file[j].feature ELSE b[file[j].id]
                 ELSE IF file[j].feature.name \in NamesIn(b) THEN None ELSE file[j].feature
    BY <1>1, <1>6
<1> HIDE DEF Made
<1>8. \A id \in Ids : Expected(b, m)[id] = Made(id)
    BY <1>4
<1>. QED BY <1>1, <1>5, <1>7, <1>8

\* Entries of different places are of different features and names.
LEMMA EntriesDiffer ==
    ASSUME Typed, NEW b, NEW m, Unambiguous(b, m),
           NEW j \in 1..Len(file), NEW k \in 1..Len(file),
           file[j].id = file[k].id \/ file[j].feature.name = file[k].feature.name
    PROVE  j = k
BY DEF Unambiguous, Typed

\* Where an import begins again, its listing tells what it needs to know.
LEMMA BeginListed ==
    ASSUME Typed, OriginKnown, Begun, Partly, call = Idle,
           NEW mode \in Modes, ImportBegin(mode), origin' = origin
    PROVE  Listed' /\ Taken'
<1>1. /\ First \in Repos /\ origin.mode \in Modes
      /\ Unambiguous(First, origin.mode) /\ Aim = Expected(First, origin.mode)
      /\ repo \in Repos
    BY DEF OriginKnown, Begun, First, Aim, Typed, Repos
<1>2. /\ repo' = repo /\ file' = file /\ First' = First
      /\ call'.ids = Present(repo) /\ call'.names = NamesIn(repo) /\ call'.at = 1
    BY DEF ImportBegin, First
<1>3. \A j \in 1..Len(file) : file[j] \in Entry /\ file[j].id \in Ids /\ file[j].id \in IdsOf(file)
    BY EntryIds DEF Entry
<1>4. \A id \in IdsOf(file) : \E k \in 1..Len(file) : file[k].id = id
    BY EntryIds
<1> DEFINE Made(k) == Aim[file[k].id] =
                IF First[file[k].id] # None
                THEN IF origin.mode = "overwrite" THEN file[k].feature ELSE First[file[k].id]
                ELSE IF file[k].feature.name \in NamesIn(First) THEN None ELSE file[k].feature
<1>5. /\ \A id \in Ids : id \notin IdsOf(file) => repo[id] = First[id]
      /\ \A k \in 1..Len(file) : Made(k)
    BY <1>1, ExpectedOf, Zenon DEF Partly
<1>6. \A k \in 1..Len(file) : file[k].feature \in Feature /\ file[k].feature # None
    BY <1>3, ExchangeAssumption DEF Entry
<1>7. Present(First) \subseteq Present(repo)
    <2> SUFFICES ASSUME NEW id \in Ids, First[id] # None PROVE repo[id] # None
        BY DEF Present
    <2>1. CASE id \notin IdsOf(file)
        BY <1>5, <2>1
    <2>2. CASE id \in IdsOf(file)
        <3>1. PICK k \in 1..Len(file) : file[k].id = id
            BY <1>4, <2>2
        <3>2. Made(k)
            BY <1>5
        <3>. QED BY <1>6, <3>1, <3>2 DEF Partly
    <2>. QED BY <2>1, <2>2
<1>8. ASSUME NEW n \in NamesIn(repo)
      PROVE  \/ n \in NamesIn(First)
             \/ \E k \in 1..Len(file) : file[k].feature.name = n /\ file[k].id \in Present(repo)
    <2>1. PICK id \in Ids : repo[id] # None /\ repo[id].name = n
        BY DEF NamesIn, Present
    <2>2. CASE repo[id] = First[id]
        BY <2>1, <2>2 DEF NamesIn, Present
    <2>3. CASE repo[id] # First[id]
        <3>1. PICK k \in 1..Len(file) : file[k].id = id
            BY <1>4, <1>5, <2>3
        <3>2. repo[id] = Aim[id] /\ Made(k)
            BY <1>5, <2>3 DEF Partly
        <3>3. repo[id] = file[k].feature
            BY <2>1, <2>3, <3>1, <3>2
        <3>. QED BY <2>1, <3>1, <3>3 DEF Present
    <2>. QED BY <2>2, <2>3
<1>9. ASSUME NEW k \in 1..Len(file), First[file[k].id] = None,
             file[k].feature.name \in NamesIn(First)
      PROVE  file[k].feature.name \in NamesIn(repo)
    <2>1. PICK id \in Ids : First[id] # None /\ First[id].name = file[k].feature.name
        BY <1>9 DEF NamesIn, Present
    <2>2. CASE repo[id] = First[id]
        BY <2>1, <2>2 DEF NamesIn, Present
    <2>3. CASE repo[id] # First[id]
        <3>1. PICK j \in 1..Len(file) : file[j].id = id
            BY <1>4, <1>5, <2>3
        <3>2. repo[id] = Aim[id] /\ Made(j)
            BY <1>5, <2>3 DEF Partly
        <3>3. origin.mode = "overwrite"
            BY <2>1, <2>3, <3>1, <3>2
        <3>4. file[k] \in Range(file) /\ id \in IdsOf(file) \cap Present(First)
            BY <1>3, <2>1, <3>1 DEF Typed, Range, Present
        <3>5. First[id].name # file[k].feature.name
            BY <1>1, <1>9, <3>3, <3>4 DEF Unambiguous
        <3>. QED BY <2>1, <3>5
    <2>. QED BY <2>2, <2>3
<1>10. \A j \in 1..Len(file) : file[j].id \notin Present(repo) => repo[file[j].id] = None
    BY <1>3 DEF Present
<1>11. Present(repo)' = Present(repo) /\ NamesIn(First)' = NamesIn(First) /\ Present(First)' = Present(First)
    BY <1>2 DEF Present, NamesIn
<1>12. Listed'
    BY <1>2, <1>7, <1>8, <1>9, <1>10, <1>11 DEF Listed
<1>13. Len(file) \in Nat
    BY DEF Typed
<1>14. Taken'
    BY <1>2, <1>13 DEF Taken
<1>. QED BY <1>12, <1>14

\* Where an import begins that is the first of its file and mode.
LEMMA BeginFirst ==
    ASSUME Typed, NEW mode \in Modes, ImportBegin(mode),
           origin' = [repo |-> repo, mode |-> mode]
    PROVE  ResumeInv'
<1>1. /\ repo' = repo /\ file' = file /\ First' = repo /\ origin'.mode = mode
      /\ call'.ids = Present(repo) /\ call'.names = NamesIn(repo) /\ call'.at = 1
      /\ call'.mode = mode
    BY DEF ImportBegin, First
<1>2. OriginKnown' /\ Partly'
    BY <1>1 DEF OriginKnown, Partly, Typed, Repos
<1>3. Present(repo)' = Present(repo) /\ NamesIn(First)' = NamesIn(repo) /\ Present(First)' = Present(repo)
    BY <1>1 DEF Present, NamesIn
<1>4. \A j \in 1..Len(file) : file[j].id \notin Present(repo) => repo[file[j].id] = None
    BY EntryIds DEF Entry, Present
<1>5. Listed'
    BY <1>1, <1>3, <1>4 DEF Listed
<1>6. Len(file) \in Nat
    BY DEF Typed
<1>7. Taken'
    BY <1>1, <1>6 DEF Taken
<1>. QED BY <1>2, <1>5, <1>7 DEF ResumeInv

\* An import under way takes its current entry: what it stores is what a single
\* run would store, and if the repository does not fail, what it leaves is what
\* a single run would leave.
LEMMA EntryTaken ==
    ASSUME Typed, ResumeInv, Begun, Importing,
           SkipEntry \/ StoreEntry \/ RefuseEntry \/ EntryFails
    PROVE  /\ repo' = repo \/ repo' = [repo EXCEPT ![Current.id] = Current.feature]
           /\ repo' # repo \/ ~EntryFails => repo'[Current.id] = Aim[Current.id]
<1> DEFINE e == Current
           id == Current.id
           f  == Current.feature
<1>1. /\ OriginKnown /\ Partly /\ Listed
      /\ First \in Repos /\ origin.mode \in Modes /\ call.mode = origin.mode
      /\ Unambiguous(First, origin.mode) /\ Aim = Expected(First, origin.mode)
      /\ repo \in Repos
    BY DEF ResumeInv, OriginKnown, Begun, First, Aim, Typed, Repos, Importing
<1>2. call.at \in 1..Len(file) /\ e = file[call.at]
    BY CurrentEntry DEF Current
<1>3. e \in Entry /\ id \in Ids /\ f \in Feature /\ f # None
    BY CurrentEntry, ExchangeAssumption DEF Entry
<1>4. Aim[id] = IF First[id] # None
                THEN IF origin.mode = "overwrite" THEN f ELSE First[id]
                ELSE IF f.name \in NamesIn(First) THEN None ELSE f
    BY <1>1, <1>2, ExpectedOf
<1>5. repo[id] = First[id] \/ repo[id] = Aim[id]
    BY <1>1, <1>3 DEF Partly
<1>6. First[id] # None => id \in call.ids
    BY <1>1, <1>3 DEF Listed, Present
<1>7. id \in call.ids <=> repo[id] # None
    <2>1. id \in call.ids => repo[id] # None
        BY <1>1 DEF Listed, Present
    <2>2. call.at >= call.at
        BY <1>2
    <2>. QED BY <1>1, <1>2, <2>1, <2>2 DEF Listed
<1>8. id \notin call.ids /\ f.name \in call.names => f.name \in NamesIn(First)
    <2> SUFFICES ASSUME id \notin call.ids, f.name \in call.names, f.name \notin NamesIn(First)
                 PROVE  FALSE
        OBVIOUS
    <2>1. PICK k \in 1..Len(file) : file[k].feature.name = f.name /\ file[k].id \in call.ids
        BY <1>1 DEF Listed
    <2>2. k = call.at
        BY <1>1, <1>2, <2>1, EntriesDiffer
    <2>. QED BY <1>2, <2>1, <2>2
<1>9. First[id] = None /\ f.name \in NamesIn(First) => f.name \in call.names
    BY <1>1, <1>2 DEF Listed
<1> HIDE DEF e, id, f
<1>10. Known(e) <=> id \in call.ids \/ f.name \in call.names
    BY DEF Known, e, id, f
<1>11. CASE SkipEntry
    <2>1. Known(e) /\ call.mode # "overwrite" /\ repo' = repo
        BY <1>11 DEF SkipEntry, e
    <2>2. repo[id] = Aim[id]
        BY <1>1, <1>4, <1>5, <1>6, <1>7, <1>8, <1>10, <2>1
    <2>. QED BY <2>1, <2>2 DEF id
<1>12. CASE StoreEntry
    <2>1. repo' = [repo EXCEPT ![id] = f] /\ repo'[id] = f
        <3>1. Stored(Current)
            BY <1>12 DEF StoreEntry
        <3>2. repo' = [repo EXCEPT ![Current.id] = Current.feature]
            BY <3>1, StoredTyping
        <3>. QED BY <1>1, <1>3, <3>2 DEF id, f, Repos
    <2>2. \/ Known(e) /\ call.mode = "overwrite" /\ repo[id] # None
          \/ ~Known(e)
        BY <1>12 DEF StoreEntry, Stored, Store!Update, e, id
    <2>3. CASE Known(e) /\ call.mode = "overwrite" /\ repo[id] # None
        BY <1>1, <1>4, <1>5, <2>1, <2>3 DEF id, f
    <2>4. CASE ~Known(e)
        BY <1>4, <1>6, <1>9, <1>10, <2>1, <2>4 DEF id, f
    <2>. QED BY <2>2, <2>3, <2>4
<1>13. CASE RefuseEntry
    <2>1. /\ repo' = repo
          /\ \/ Known(e) /\ call.mode = "overwrite" /\ repo[id] = None
             \/ ~Known(e) /\ repo[id] # None
        BY <1>13 DEF RefuseEntry, Refused, e, id
    <2>2. repo[id] = Aim[id]
        BY <1>4, <1>6, <1>7, <1>8, <1>10, <2>1
    <2>. QED BY <2>1, <2>2 DEF id
<1>14. CASE EntryFails
    BY <1>14 DEF EntryFails
<1>. QED BY <1>11, <1>12, <1>13, <1>14

LEMMA AdvanceListing ==
    ASSUME Typed, Importing, NEW failed \in BOOLEAN, Advance(failed)
    PROVE  /\ call'.names = call.names
           /\ ~call'.failed => ~call.failed /\ ~failed
<1>1. /\ call = [mode |-> call.mode, at |-> call.at, ids |-> call.ids, names |-> call.names,
                 failed |-> call.failed]
      /\ call' = [call EXCEPT !.at = @ + 1, !.failed = @ \/ failed]
    BY DEF Typed, IsImport, Importing, Advance
<1>2. call'.names = call.names
    BY <1>1
<1>3. call'.failed = (call.failed \/ failed)
    BY <1>1
<1>. QED BY <1>2, <1>3

LEMMA EntryResumes ==
    ASSUME Typed, ResumeInv, Importing,
           SkipEntry \/ StoreEntry \/ RefuseEntry \/ EntryFails
    PROVE  ResumeInv'
<1>1. PICK failed \in BOOLEAN : Advance(failed) /\ (~failed => ~EntryFails \/ call'.failed)
    <2>1. CASE EntryFails
        BY <2>1 DEF EntryFails
    <2>2. CASE ~EntryFails
        BY <2>2 DEF SkipEntry, StoreEntry, RefuseEntry
    <2>. QED BY <2>1, <2>2
<1>2. /\ call # Idle /\ call' # Idle /\ file' = file /\ origin' = origin
      /\ call'.at = call.at + 1 /\ call'.ids = call.ids /\ call'.mode = call.mode
      /\ call'.names = call.names
      /\ ~call'.failed => ~call.failed /\ ~EntryFails
    BY <1>1, AdvanceTyping, AdvanceListing DEF Importing, Advance
<1>3. First' = First /\ Aim' = Aim /\ (Begun' <=> Begun) /\ OriginKnown'
    BY <1>2 DEF First, Aim, Begun, OriginKnown, ResumeInv, Expected, Unambiguous
<1> SUFFICES ASSUME Begun PROVE Partly' /\ Listed' /\ Taken'
    BY <1>3 DEF ResumeInv
<1>4. /\ OriginKnown /\ Partly /\ Listed /\ Taken
      /\ First \in Repos /\ Unambiguous(First, origin.mode) /\ repo \in Repos
    BY <1>2 DEF ResumeInv, OriginKnown, Begun, First, Typed, Repos
<1> DEFINE id == Current.id
           f  == Current.feature
<1>5. /\ repo' = repo \/ repo' = [repo EXCEPT ![id] = f]
      /\ repo' # repo \/ ~EntryFails => repo'[id] = Aim[id]
    BY EntryTaken
<1>6. call.at \in 1..Len(file) /\ file[call.at].id = id /\ Len(file) \in Nat
    BY CurrentEntry DEF Current, Typed
<1>7. id \in Ids /\ f \in Feature /\ f # None
    BY CurrentEntry, ExchangeAssumption DEF Entry
<1> HIDE DEF id, f
<1>8. \A g \in Ids : g # id => repo'[g] = repo[g]
    BY <1>4, <1>5 DEF Repos
<1>9. \A g \in Ids : repo[g] # None => repo'[g] # None
    BY <1>4, <1>5, <1>7 DEF Repos
<1>10. \A j \in 1..Len(file) : j # call.at => file[j].id # id /\ file[j].id \in Ids
    BY <1>4, <1>6, EntriesDiffer, EntryIds DEF Entry
<1>11. Partly'
    <2>1. repo'[id] = repo[id] \/ repo'[id] = Aim[id]
        BY <1>5
    <2>. QED BY <1>3, <1>4, <1>7, <1>8, <2>1 DEF Partly
<1>12. Listed'
    <2>1. Present(First)' = Present(First) /\ NamesIn(First)' = NamesIn(First)
        BY <1>3 DEF Present, NamesIn
    <2>2. Present(repo) \subseteq Present(repo)'
        BY <1>9 DEF Present
    <2>3. ASSUME NEW j \in 1..Len(file), j >= call.at + 1, file[j].id \notin call.ids
          PROVE  repo'[file[j].id] = None
        <3>1. j # call.at /\ j >= call.at
            BY <1>6, <2>3
        <3>. QED BY <1>4, <1>8, <1>10, <2>3, <3>1 DEF Listed
    <2>. QED BY <1>2, <1>3, <1>4, <2>1, <2>2, <2>3 DEF Listed
<1>13. Taken'
    <2> SUFFICES ASSUME ~call'.failed, NEW j \in 1..Len(file), j < call.at + 1
                 PROVE  repo'[file[j].id] = Aim[file[j].id]
        BY <1>2, <1>3 DEF Taken
    <2>1. CASE j = call.at
        BY <1>2, <1>5, <1>6, <2>1
    <2>2. CASE j # call.at
        <3>1. j < call.at
            BY <1>6, <2>2
        <3>. QED BY <1>2, <1>4, <1>8, <1>10, <2>2, <3>1 DEF Taken
    <2>. QED BY <2>1, <2>2
<1>. QED BY <1>11, <1>12, <1>13

LEMMA ResumeStep ==
    ASSUME Typed, ResumeInv, [Next]_vars
    PROVE  ResumeInv'
<1>1. CASE origin' = None
    BY <1>1 DEF ResumeInv, OriginKnown, Begun
<1>2. CASE repo' = repo /\ file' = file /\ origin' = origin /\ (call' = call \/ call' = Idle)
    <2>1. First' = First /\ Aim' = Aim /\ (Begun' <=> Begun) /\ (OriginKnown => OriginKnown')
        BY <1>2 DEF First, Aim, Begun, OriginKnown, Expected, Unambiguous
    <2>2. Partly => Partly'
        BY <1>2, <2>1 DEF Partly
    <2>3. call' # Idle => call' = call
        BY <1>2
    <2>4. call' = call /\ Listed /\ Taken => Listed' /\ Taken'
        BY <1>2, <2>1 DEF Listed, Taken, Present, NamesIn
    <2>. QED BY <2>1, <2>2, <2>3, <2>4 DEF ResumeInv
<1>3. ASSUME NEW mode \in Modes, ImportBegin(mode) PROVE ResumeInv'
    <2>1. CASE origin' = [repo |-> repo, mode |-> mode]
        BY <1>3, <2>1, BeginFirst
    <2>2. CASE origin' # [repo |-> repo, mode |-> mode]
        <3>1. origin' = origin /\ origin # None /\ origin.mode = mode
            BY <1>3, <2>2 DEF ImportBegin
        <3>2. repo' = repo /\ file' = file /\ call = Idle /\ call'.mode = mode
            BY <1>3 DEF ImportBegin
        <3>3. First' = First /\ Aim' = Aim /\ (Begun' <=> Begun)
            BY <3>1, <3>2 DEF First, Aim, Begun, Expected, Unambiguous
        <3>4. OriginKnown'
            BY <3>1, <3>2, <3>3 DEF ResumeInv, OriginKnown
        <3>5. ASSUME Begun PROVE Partly' /\ Listed' /\ Taken'
            <4>1. Partly'
                BY <3>2, <3>3, <3>5 DEF ResumeInv, Partly
            <4>2. Listed' /\ Taken'
                BY <1>3, <3>1, <3>2, <3>5, BeginListed DEF ResumeInv
            <4>. QED BY <4>1, <4>2
        <3>. QED BY <3>3, <3>4, <3>5 DEF ResumeInv
    <2>. QED BY <2>1, <2>2
<1>4. CASE SkipEntry \/ StoreEntry \/ RefuseEntry \/ EntryFails
    BY <1>4, EntryResumes DEF SkipEntry, StoreEntry, RefuseEntry, EntryFails
<1>5. \/ origin' = None
      \/ repo' = repo /\ file' = file /\ origin' = origin /\ (call' = call \/ call' = Idle)
      \/ \E mode \in Modes : ImportBegin(mode)
      \/ SkipEntry \/ StoreEntry \/ RefuseEntry \/ EntryFails
    BY DEF Next, vars, Modes, CreateFeature, ChangeFeature, DeleteFeature, Changes, Export,
           ImportEnd, Stop
<1>. QED BY <1>1, <1>2, <1>3, <1>4, <1>5

\* An import that was stopped, as often as may be and after any entry, and begun
\* again comes to what one run would have come to, if nobody else changed the
\* features meanwhile and the file is unambiguous.
THEOREM ResumeSameAlways == Spec => []ResumeSame
<1>1. Init => ResumeInv
    BY DEF Init, ResumeInv, OriginKnown, Begun
<1>2. IInv /\ ResumeInv /\ [Next]_vars => ResumeInv'
    BY ResumeStep DEF IInv
<1>3. ASSUME IInv, ResumeInv PROVE ResumeSame
    <2> SUFFICES ASSUME call # Idle, Begun, call.at = Len(file) + 1, ~call.failed
                 PROVE  repo = Aim
        BY DEF ResumeSame, Begun, Aim
    <2>1. /\ Typed /\ Partly /\ Taken /\ First \in Repos /\ origin.mode \in Modes
          /\ Unambiguous(First, origin.mode) /\ Aim = Expected(First, origin.mode)
        BY <1>3 DEF IInv, ResumeInv, OriginKnown, Begun, First, Aim
    <2>2. ASSUME NEW id \in Ids PROVE repo[id] = Aim[id]
        <3>1. CASE id \notin IdsOf(file)
            BY <2>1, <3>1, ExpectedOf DEF Partly
        <3>2. CASE id \in IdsOf(file)
            <4>1. PICK j \in 1..Len(file) : file[j].id = id
                BY <2>1, <3>2, EntryIds
            <4>2. j < call.at
                BY <2>1 DEF Typed
            <4>. QED BY <2>1, <4>1, <4>2 DEF Taken
        <3>. QED BY <3>1, <3>2
    <2>3. repo = [id \in Ids |-> repo[id]] /\ Aim = [id \in Ids |-> Aim[id]]
        BY <2>1 DEF Typed, Expected
    <2>. QED BY <2>2, <2>3
<1>. QED BY <1>1, <1>2, <1>3, IInvAlways, PTL DEF Spec
=============================================================================
