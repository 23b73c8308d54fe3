------------------------------ MODULE Exchange ------------------------------
(***************************************************************************)
(* Export and import (internal/exchange, commands/export.go and import.go) *)
(* over the store of features that FeatureMap promises, while other        *)
(* commands go on changing it.                                             *)
(*                                                                         *)
(* import reads the features there are once, at its start, and then takes  *)
(* the entries of the file one after the other; it may be stopped after    *)
(* any of them, and begun again.  A file is one that export wrote or a     *)
(* draft made by hand or on another branch.  Of a feature only its name,   *)
(* the targets of its relationships and the timestamps of one version are  *)
(* kept: they decide what import does, and what state it ends in.  A dry   *)
(* run changes nothing and is left out.                                    *)
(***************************************************************************)
EXTENDS Naturals, Sequences, SequencesExt

CONSTANTS Ids,        \* feature IDs
          Names,      \* feature names
          None,       \* no feature
          Fine,       \* timestamps taken within one second
          MaxTime,    \* bound: the last timestamp
          MaxLinks,   \* bound: the relationships of a feature
          Drafts,     \* exchange files made by hand, sequences of entries
          MaxChanges  \* bound: commands begun

Times   == 0..MaxTime
Feature == [name : Names, links : {L \in SUBSET Ids : Cardinality(L) <= MaxLinks},
            created : Times, modified : Times, closed : BOOLEAN]
Entry   == [id : Ids, feature : Feature, state : {"open", "in-progress", "closed"}]

ASSUME ExchangeAssumption ==
    /\ None \notin Feature
    /\ IsFiniteSet(Ids) /\ MaxLinks \in Nat
    /\ Fine \in Nat \ {0} /\ MaxTime \in Nat
    /\ Drafts \subseteq Seq(Entry) \ {<<>>}

VARIABLES repo,    \* the features of the work tree
          file,    \* the exchange file
          call,    \* the import under way
          origin,  \* history: what the first import of this file began with
          excused, \* history: IDs whose absence no import is to blame for
          clock,   \* the time
          changes  \* the commands begun

vars == <<repo, file, call, origin, excused, clock, changes>>

Store == INSTANCE FeatureMap WITH Names <- Feature, store <- repo

Idle == [mode |-> "idle"]

Present(r)  == {id \in Ids : r[id] # None}
NamesIn(r)  == {r[id].name : id \in Present(r)}
IdsOf(s)    == {e.id : e \in Range(s)}

DeriveState(f) ==
    CASE f.closed                -> "closed"
      [] f.modified > f.created /\ ~f.closed -> "in-progress"
      [] OTHER                   -> "open"

\* Variant: rounded up.
Written_Up(t) == t - (t % Fine) + Fine
\* A timestamp written as RFC 3339 and read again: cut to its second.
Written(t) == t - (t % Fine)

\* Variant: the time a version was closed is not written.
ConvertToExportFeature_Unclosed(id, f) ==
    [id |-> id, state |-> DeriveState(f),
     feature |-> [f EXCEPT !.created = Written(@), !.modified = Written(@), !.closed = FALSE]]

ConvertToExportFeature(id, f) ==
    [id |-> id, state |-> DeriveState(f),
     feature |-> [f EXCEPT !.created = Written(@), !.modified = Written(@)]]
-----------------------------------------------------------------------------
Init ==
    /\ repo = [id \in Ids |-> None]
    /\ file \in Drafts \cup {<<>>}
    /\ call = Idle
    /\ origin = None
    /\ excused = {}
    /\ clock = 0
    /\ changes = 0

Begins == changes < MaxChanges /\ changes' = changes + 1

\* A command other than import changes the features; time may go on.
Changes ==
    /\ Begins
    /\ origin' = None
    /\ clock' \in {clock, clock + 1} \cap Times
    /\ UNCHANGED <<file, call>>

CreateFeature(id, name) ==
    /\ Changes
    /\ Store!Create(id, [name |-> name, links |-> {}, created |-> clock',
                         modified |-> clock', closed |-> FALSE])
    /\ UNCHANGED excused

\* A command saves a feature with a change: a name, a relationship, its end.
ChangeFeature(id) ==
    /\ Changes
    /\ repo[id] # None
    /\ \/ \E name \in Names :
            Store!Update(id, [repo[id] EXCEPT !.name = name, !.modified = clock'])
       \/ \E t \in Present(repo) \ {id} :
            /\ [repo[id] EXCEPT !.links = @ \cup {t}] \in Feature
            /\ Store!Update(id, [repo[id] EXCEPT !.links = @ \cup {t}, !.modified = clock'])
       \/ Store!Update(id, [repo[id] EXCEPT !.closed = TRUE])
    /\ UNCHANGED excused

\* delete, which first removes the relationships that lead to the feature.
DeleteFeature(id) ==
    /\ Changes
    /\ repo[id] # None
    /\ repo' = [g \in Ids |-> IF g = id \/ repo[g] = None THEN None
                              ELSE [repo[g] EXCEPT !.links = @ \ {id}]]
    /\ excused' = excused \cup {id}

(***************************************************************************)
(* export of the features a filter keeps, in the order they are listed.    *)
(***************************************************************************)
Exported(order) == [i \in DOMAIN order |-> ConvertToExportFeature(order[i], repo[order[i]])]

Export(S) ==
    /\ Begins
    /\ call = Idle
    /\ S # {} /\ S \subseteq Present(repo)
    /\ \E order \in SetToSeqs(S) : file' = Exported(order)
    /\ origin' = None
    /\ UNCHANGED <<repo, call, excused, clock>>

(***************************************************************************)
(* import.  At its start it lists the features; what leads out of the file *)
(* to a feature that is not there is warned about, as the code means to.   *)
(***************************************************************************)
ImportBegin(mode) ==
    /\ Begins
    /\ call = Idle
    /\ file # <<>>
    /\ call' = [mode |-> mode, at |-> 1, ids |-> Present(repo), names |-> NamesIn(repo),
                failed |-> FALSE]
    /\ origin' = IF origin = None THEN [repo |-> repo, mode |-> mode]
                 ELSE IF origin.mode = mode THEN origin ELSE [repo |-> repo, mode |-> mode]
    /\ excused' = excused \cup ((UNION {e.feature.links : e \in Range(file)})
                                    \ (IdsOf(file) \cup Present(repo)))
    /\ UNCHANGED <<repo, file, clock>>

Importing == call # Idle /\ call.at <= Len(file)
Current  == file[call.at]

\* Variant: an entry meets only features of its own ID.
Known_ById(e) == e.id \in call.ids
Known(e) == e.id \in call.ids \/ e.feature.name \in call.names

Advance(failed) ==
    /\ call' = [call EXCEPT !.at = @ + 1, !.failed = @ \/ failed]
    /\ UNCHANGED <<file, origin, clock, changes>>

\* An entry of a feature that exists is skipped, with --merge as wanted and
\* without a flag as an error.
SkipEntry ==
    /\ Importing
    /\ Known(Current)
    /\ call.mode # "overwrite"
    /\ excused' = excused \cup ({Current.id} \ call.ids)
    /\ Advance(FALSE)
    /\ UNCHANGED repo

\* Variant: Create takes a feature it finds for its own.
Stored_Upsert(e) ==
    \/ Known(e) /\ call.mode = "overwrite" /\ Store!Update(e.id, e.feature)
    \/ ~Known(e) /\ repo' = [repo EXCEPT ![e.id] = e.feature]

\* The repository takes the feature of the entry, or refuses: Update when
\* there is no such ID, Create when there is.
Stored(e) ==
    \/ Known(e) /\ call.mode = "overwrite" /\ Store!Update(e.id, e.feature)
    \/ ~Known(e) /\ Store!Create(e.id, e.feature)
Refused(e) ==
    \/ Known(e) /\ call.mode = "overwrite" /\ repo[e.id] = None
    \/ ~Known(e) /\ repo[e.id] # None

StoreEntry ==
    /\ Importing
    /\ Stored(Current)
    /\ Advance(FALSE)
    /\ UNCHANGED excused

\* The error is noted and the next entry taken.
RefuseEntry ==
    /\ Importing
    /\ Refused(Current)
    /\ excused' = excused \cup ({Current.id} \ Present(repo))
    /\ Advance(FALSE)
    /\ UNCHANGED repo

\* Variant: the first failure ends the import.
EntryFails_Returns ==
    /\ Importing
    /\ Known(Current) => call.mode = "overwrite"
    /\ excused' = excused \cup ({Current.id} \ Present(repo))
    /\ call' = Idle
    /\ UNCHANGED <<repo, file, origin, clock, changes>>

\* The repository fails, as it does for every entry after the timeout.
EntryFails ==
    /\ Importing
    /\ Known(Current) => call.mode = "overwrite"
    /\ excused' = excused \cup ({Current.id} \ Present(repo))
    /\ Advance(TRUE)
    /\ UNCHANGED repo

ImportEnd ==
    /\ call # Idle
    /\ call.at = Len(file) + 1
    /\ call' = Idle
    /\ UNCHANGED <<repo, file, origin, excused, clock, changes>>

\* The command is killed.
Stop ==
    /\ Importing
    /\ call' = Idle
    /\ excused' = excused \cup (IdsOf(SubSeq(file, call.at, Len(file))) \ Present(repo))
    /\ UNCHANGED <<repo, file, origin, clock, changes>>

Next ==
    \/ \E id \in Ids :
          \/ \E name \in Names : CreateFeature(id, name)
          \/ ChangeFeature(id)
          \/ DeleteFeature(id)
    \/ \E S \in SUBSET Ids : Export(S)
    \/ \E mode \in {"plain", "merge", "overwrite"} : ImportBegin(mode)
    \/ SkipEntry \/ StoreEntry \/ RefuseEntry \/ EntryFails
    \/ ImportEnd \/ Stop

Spec == Init /\ [][Next]_vars
-----------------------------------------------------------------------------
\* The type of every variable.
TypeOK ==
    /\ repo \in [Ids -> Feature \cup {None}]
    /\ file \in Seq(Entry)
    /\ \/ call = Idle
       \/ /\ call.mode \in {"plain", "merge", "overwrite"}
          /\ call.at \in 1..(Len(file) + 1)
          /\ call.ids \subseteq Ids /\ call.names \subseteq Names
    /\ excused \subseteq Ids

ImportStep == call # Idle /\ call' # Idle /\ call'.at # call.at

\* Import replaces a feature only if it is told to, and then only one of its
\* file: what another command creates or changes after the listing is safe
\* from an import without --overwrite ("Skip existing features, import only
\* new ones").
ImportKeeps ==
    [][ImportStep =>
        \A id \in Present(repo) :
            repo'[id] # repo[id] => call.mode = "overwrite" /\ id \in IdsOf(file)]_vars

\* What one import of the file would make of the features b.
Expected(b, mode) ==
    [id \in Ids |->
        IF id \notin IdsOf(file) THEN b[id]
        ELSE LET f == (CHOOSE e \in Range(file) : e.id = id).feature
             IN  IF b[id] # None THEN IF mode = "overwrite" THEN f ELSE b[id]
                 ELSE IF f.name \in NamesIn(b) THEN None ELSE f]

\* The file names everything once, and no feature that it renames has the
\* name of another that it adds.
Unambiguous(b, mode) ==
    /\ \A i, j \in DOMAIN file : i # j =>
          file[i].id # file[j].id /\ file[i].feature.name # file[j].feature.name
    /\ mode = "overwrite" =>
          \A e \in Range(file) : b[e.id] = None =>
              \A id \in IdsOf(file) \cap Present(b) : b[id].name # e.feature.name

\* An import that was stopped, any number of times and after any entry, and
\* begun again comes to what a single run would have come to, if nobody else
\* changed the features.  Without Unambiguous it does not: what the stopped
\* run has stored is in the listing of the next.
ResumeSame ==
    (call # Idle /\ origin # None)
        => (call.at = Len(file) + 1 /\ ~call.failed /\ Unambiguous(origin.repo, origin.mode)
               => repo = Expected(origin.repo, origin.mode))

\* Relationships that an import stores lead to features that are there when
\* it ends, other than to one the file does not have, one that was deleted,
\* and one that the import skipped for its name, failed to store, or did not
\* come to.
NoNewOrphans ==
    call = Idle =>
        \A id \in Present(repo) : repo[id].links \subseteq Present(repo) \cup excused

\* An imported feature is in the state the file says it was in when it was
\* exported, other than one that was modified in the second it was begun.
StatesArrive ==
    [][ImportStep =>
        \A e \in Range(file) : repo'[e.id] # repo[e.id] /\ repo'[e.id] = e.feature =>
            \/ DeriveState(repo'[e.id]) = e.state
            \/ /\ e.state = "in-progress"
               /\ DeriveState(repo'[e.id]) = "open"
               /\ e.feature.created = e.feature.modified]_vars
=============================================================================
