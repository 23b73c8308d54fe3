--------------------------- MODULE Relationships ---------------------------
(***************************************************************************)
(* The relationships between features (internal/features/relationships.go, *)
(* delete.go, create.go, internal/features/validator): link, unlink,       *)
(* relationship clear, delete, create --parent and validate --fix.         *)
(*                                                                         *)
(* Each feature file holds the feature's own outgoing relationships, so    *)
(* the relation as a whole is spread over files that are saved one by one: *)
(* a command that touches several features is split at those saves and, if *)
(* Faulty, stops between them or has a save fail.  Commands run one at a   *)
(* time, on the features of one branch.  In branch-per-feature mode        *)
(* validate sees the features of other branches too; that those may hold   *)
(* relationships to the features here, or be other copies of them, is left *)
(* out.                                                                    *)
(*                                                                         *)
(* A relationship is abstracted to its source, type and target: a feature  *)
(* holds no two with the same type and target, and no order among them     *)
(* changes what a command leaves behind.                                   *)
(***************************************************************************)
EXTENDS FiniteSets

CONSTANTS Features,     \* feature IDs
          Strangers,    \* strings that are the ID of no feature of this branch
          Elsewhere,    \* those of them that are IDs of features of other branches
          Types,        \* the relationship types of the configuration
          Aliases,      \* the other words for a type
          TypeOf,       \* TypeOf[alias]
          InverseOf,    \* InverseOf[type], or None
          Forward,      \* the types that are the smaller of their pair, or alone
          Category,     \* Category[type]
          Strict,       \* the categories in which a cycle is refused
          ContainedBy,  \* the type create --parent writes
          Faulty,       \* whether a command may be cut short or a save fail
          None          \* no inverse

Words   == Types \cup Aliases
Targets == Features \cup Strangers
Link    == [source : Features, type : Types, target : Targets]

\* What Config.Validate demands of the types: inverses point back.
ASSUME ConfigAssumption ==
    /\ Aliases \cap Types = {}
    /\ TypeOf \in [Aliases -> Types]
    /\ InverseOf \in [Types -> Types \cup {None}]
    /\ None \notin Types
    /\ \A t \in Types : InverseOf[t] # None => InverseOf[InverseOf[t]] = t
    /\ Forward \subseteq Types
    /\ ContainedBy \in Types
    /\ Features \cap Strangers = {}
    /\ Elsewhere \subseteq Strangers
    /\ Faulty \in BOOLEAN

VARIABLES auto,    \* the setting auto_create_inverse
          status,  \* status[f]: whether feature f is still to come, live or deleted
          links,   \* the relationships in the feature files
          call,    \* the command under way and what it has left to do
          tidy     \* history: no command so far may have left one half of a pair

vars == <<auto, status, links, call, tidy>>

Idle     == [op |-> "idle"]
Live     == {f \in Features : status[f] = "live"}

\* What a user can name: an ID is drawn at random with its feature.
Nameable == Strangers \cup {f \in Features : status[f] # "new"}

Outgoing(f) == {l \in links : l.source = f}
Incoming(f) == {l \in links : l.target = f}

Canonical(word) == IF word \in Types THEN word ELSE TypeOf[word]

Paired(l)   == InverseOf[l.type] # None
Opposite(l) == [source |-> l.target, type |-> InverseOf[l.type], target |-> l.source]

\* The directed graph of a set of types.
Edges(types, ls) == {<<l.source, l.target>> : l \in {k \in ls : k.type \in types}}

TypesIn(c) == {t \in Types : Category[t] = c}

\* Every set of nodes that holds x and all its successors holds y.
Reaches(E, x, y) ==
    \A C \in SUBSET Targets :
        x \in C /\ (\A e \in E : e[1] \in C => e[2] \in C) => y \in C

\* No node of S leads into S, for some node of every S.
Acyclic(E) ==
    \A S \in SUBSET Features :
        S # {} => \E n \in S : \A m \in S : <<n, m>> \notin E
-----------------------------------------------------------------------------
Init ==
    /\ auto \in BOOLEAN
    /\ status = [f \in Features |-> "new"]
    /\ links = {}
    /\ call = Idle
    /\ tidy = TRUE

\* create: a new feature; --parent writes the string it was given, be it an ID,
\* that of a deleted feature too, or a name, as the target, and nothing into the
\* parent.
Create(f) ==
    /\ call = Idle
    /\ status[f] = "new"
    /\ status' = [status EXCEPT ![f] = "live"]
    /\ UNCHANGED <<auto, links, call, tidy>>

CreateUnder(f, parent) ==
    /\ call = Idle
    /\ status[f] = "new"
    /\ parent \in Nameable
    /\ status' = [status EXCEPT ![f] = "live"]
    /\ links' = links \cup {[source |-> f, type |-> ContainedBy, target |-> parent]}
    /\ tidy' = FALSE
    /\ UNCHANGED <<auto, call>>

(***************************************************************************)
(* link.  DetectCycleWithConfig refuses the relationship when its target   *)
(* leads back to its source over the relationships of the same category,   *)
(* inverse types included.  The inverse is looked up under the word the    *)
(* user typed, and it is added without a cycle check.                      *)
(***************************************************************************)
\* Variant: only a direct way back is a cycle.
CreatesCycle_DirectOnly(l) ==
    /\ Category[l.type] \in Strict
    /\ <<l.target, l.source>> \in Edges(TypesIn(Category[l.type]), links)

CreatesCycle(l) ==
    /\ Category[l.type] \in Strict
    /\ Reaches(Edges(TypesIn(Category[l.type]), links), l.target, l.source)

WantsInverse(word) == auto /\ word \in Types /\ InverseOf[word] # None

LinkFeatures(s, t, word) ==
    LET l == [source |-> s, type |-> Canonical(word), target |-> t]
    IN  /\ call = Idle
        /\ {s, t} \subseteq Live
        /\ s # t
        /\ ~CreatesCycle(l)
        /\ l \notin links
        /\ links' = links \cup {l}
        /\ call' = IF WantsInverse(word) /\ Opposite(l) \notin links
                   THEN [op |-> "inverse", link |-> Opposite(l)] ELSE Idle
        /\ tidy' = (tidy /\ word \in Types)
        /\ UNCHANGED <<auto, status>>

\* Variant: the inverse is not saved.
LinkInverse_Forgotten ==
    /\ call.op = "inverse"
    /\ call' = Idle
    /\ UNCHANGED <<auto, status, links, tidy>>

LinkInverse ==
    /\ call.op = "inverse"
    /\ links' = links \cup {call.link}
    /\ call' = Idle
    /\ UNCHANGED <<auto, status, tidy>>

(***************************************************************************)
(* unlink, by relationship ID or by target: one side only.                 *)
(***************************************************************************)
Unlink(l) ==
    /\ call = Idle
    /\ links' = links \ {l}
    /\ tidy' = (tidy /\ ~Paired(l))
    /\ UNCHANGED <<auto, status, call>>

(***************************************************************************)
(* relationship clear: with auto_create_inverse the opposite of each       *)
(* relationship is removed from its target first, then the source's own.   *)
(***************************************************************************)
ClearBegin(f) ==
    /\ call = Idle
    /\ Outgoing(f) # {}
    /\ call' = [op |-> "clear", feature |-> f,
                todo |-> IF auto THEN {Opposite(l) : l \in {k \in Outgoing(f) :
                                           k.target \in Live /\ Paired(k)}} \cap links
                         ELSE {}]
    /\ UNCHANGED <<auto, status, links, tidy>>

\* A target that cannot be saved is only warned about.
ClearOpposite(l) ==
    /\ links' = links \ {l}
    /\ call' = [call EXCEPT !.todo = @ \ {l}]
    /\ UNCHANGED <<auto, status, tidy>>

ClearOwn ==
    /\ call.op = "clear"
    /\ call.todo = {}
    /\ links' = links \ Outgoing(call.feature)
    /\ call' = Idle
    /\ UNCHANGED <<auto, status, tidy>>

(***************************************************************************)
(* delete: the features that refer to the deleted one are saved without    *)
(* those relationships, one by one, and only then its file is removed.     *)
(***************************************************************************)
\* Variant: incoming relationships are left.
DeleteBegin_NoCleanup(f) ==
    /\ call = Idle
    /\ f \in Live
    /\ call' = [op |-> "delete", feature |-> f, todo |-> {}]
    /\ UNCHANGED <<auto, status, links, tidy>>

DeleteBegin(f) ==
    /\ call = Idle
    /\ f \in Live
    /\ call' = [op |-> "delete", feature |-> f,
                todo |-> {l.source : l \in Incoming(f)} \ {f}]
    /\ UNCHANGED <<auto, status, links, tidy>>

DeleteCleanup(g) ==
    /\ links' = links \ (Outgoing(g) \cap Incoming(call.feature))
    /\ call' = [call EXCEPT !.todo = @ \ {g}]
    /\ UNCHANGED <<auto, status, tidy>>

DeleteFile ==
    /\ call.op = "delete"
    /\ call.todo = {}
    /\ status' = [status EXCEPT ![call.feature] = "deleted"]
    /\ links' = links \ Outgoing(call.feature)
    /\ call' = Idle
    /\ UNCHANGED <<auto, tidy>>

(***************************************************************************)
(* validate --fix.  The issues are found in one pass over what is on disk  *)
(* and then fixed in the order E001, E002, E003.  E003 takes any type that *)
(* is the inverse of another for an inverse, which every paired type is.   *)
(*                                                                         *)
(* The fixer loads the features of this branch once.  It changes them in   *)
(* memory, and saves a feature as it has it then, with what an earlier     *)
(* save of the feature may have failed to write.  A fix that fails is put  *)
(* on the list of those that failed, and the next issue is taken.          *)
(***************************************************************************)
Seen == Live \cup Elsewhere

Orphaned == {l \in links : l.target \notin Seen}

MissingInverse ==
    {l \in links : /\ l.target \in Seen
                   /\ auto /\ Paired(l)
                   /\ Opposite(l) \notin links}

DanglingInverse ==
    {l \in links :
        /\ l.target \in Seen
        /\ \E t \in Types :
              /\ InverseOf[t] = l.type
              /\ [source |-> l.target, type |-> t, target |-> l.source] \notin links}

Fixable == Orphaned \cup MissingInverse \cup DanglingInverse

FixBegin ==
    /\ call = Idle
    /\ Fixable # {}
    /\ call' = [op |-> "fix", orphaned |-> Orphaned, missing |-> MissingInverse,
                dangling |-> DanglingInverse, memory |-> links, failed |-> {}]
    /\ UNCHANGED <<auto, status, links, tidy>>

\* The call with an issue worked through in memory.
WithoutOrphan(l) ==
    [call EXCEPT !.orphaned = @ \ {l},
                 !.memory = {k \in @ : k.source # l.source \/ k.target # l.target}]

WithInverse(l)     == [call EXCEPT !.missing = @ \ {l}, !.memory = @ \cup {Opposite(l)}]
WithoutDangling(l) == [call EXCEPT !.dangling = @ \ {l}, !.memory = @ \ {l}]

\* Feature f is saved, if it changed.
Fix(next, f) ==
    /\ call' = next
    /\ links' = IF next.memory = call.memory THEN links
                ELSE (links \ Outgoing(f)) \cup {l \in next.memory : l.source = f}
    /\ UNCHANGED <<auto, status, tidy>>

\* The save fails.
FixFails(next) ==
    /\ Faulty
    /\ next.memory # call.memory
    /\ call' = next
    /\ tidy' = FALSE
    /\ UNCHANGED <<auto, status, links>>

FixOrphaned(l) == Fix(WithoutOrphan(l), l.source) \/ FixFails(WithoutOrphan(l))

\* Variant: the target is not looked up among the features of this branch.
FixMissing_AlsoElsewhere(l) ==
    /\ call.orphaned = {}
    /\ \/ Fix(WithInverse(l), l.target)
       \/ FixFails([WithInverse(l) EXCEPT !.failed = @ \cup {l}])

\* The inverse is saved with the target, which a feature of another branch
\* does not get: there is none to save.
FixMissing(l) ==
    /\ call.orphaned = {}
    /\ l.target \in Live
    /\ \/ Fix(WithInverse(l), l.target)
       \/ FixFails([WithInverse(l) EXCEPT !.failed = @ \cup {l}])

FixMissingElsewhere(l) ==
    /\ call.orphaned = {}
    /\ l.target \notin Live
    /\ call' = [call EXCEPT !.missing = @ \ {l}, !.failed = @ \cup {l}]
    /\ UNCHANGED <<auto, status, links, tidy>>

\* Variant: E003 does not wait for E002.
FixDangling_BeforeMissing(l) ==
    /\ call.orphaned = {}
    /\ Fix(WithoutDangling(l), l.source) \/ FixFails(WithoutDangling(l))

FixDangling(l) ==
    /\ call.orphaned = {} /\ call.missing = {}
    /\ Fix(WithoutDangling(l), l.source) \/ FixFails(WithoutDangling(l))

FixDone ==
    /\ call.op = "fix"
    /\ call.orphaned \cup call.missing \cup call.dangling = {}
    /\ call' = Idle
    /\ UNCHANGED <<auto, status, links, tidy>>
-----------------------------------------------------------------------------
\* The command stops where it is: killed, or returning the error of a save
\* (that of the inverse in link is only logged, which ends it all the same; a
\* fix or a clear goes on).
Stop ==
    /\ Faulty
    /\ call # Idle
    /\ call' = Idle
    /\ tidy' = FALSE
    /\ UNCHANGED <<auto, status, links>>

\* clear goes on when one of its targets cannot be saved.
ClearOppositeFails(l) ==
    /\ Faulty
    /\ call' = [call EXCEPT !.todo = @ \ {l}]
    /\ tidy' = FALSE
    /\ UNCHANGED <<auto, status, links>>

Next ==
    \/ \E f \in Features :
          \/ Create(f) \/ ClearBegin(f) \/ DeleteBegin(f)
          \/ \E parent \in Targets : CreateUnder(f, parent)
    \/ \E s, t \in Features, word \in Words : LinkFeatures(s, t, word)
    \/ LinkInverse
    \/ \E l \in links : Unlink(l)
    \/ call.op = "clear"
          /\ \E l \in call.todo : ClearOpposite(l) \/ ClearOppositeFails(l)
    \/ ClearOwn
    \/ call.op = "delete" /\ \E g \in call.todo : DeleteCleanup(g)
    \/ DeleteFile
    \/ FixBegin
    \/ call.op = "fix" /\ (\/ \E l \in call.orphaned : FixOrphaned(l)
                           \/ \E l \in call.missing : FixMissing(l) \/ FixMissingElsewhere(l)
                           \/ \E l \in call.dangling : FixDangling(l))
    \/ FixDone
    \/ Stop

Spec == Init /\ [][Next]_vars
-----------------------------------------------------------------------------
Calls ==
    {Idle}
    \cup [op : {"inverse"}, link : Link]
    \cup [op : {"clear"}, feature : Features, todo : SUBSET Link]
    \cup [op : {"delete"}, feature : Features, todo : SUBSET Features]
    \cup [op : {"fix"}, orphaned : SUBSET Link, missing : SUBSET Link,
          dangling : SUBSET Link, memory : SUBSET Link, failed : SUBSET Link]

\* The type of every variable; links start at live features and lead to
\* features that exist, or existed, or to a stranger.
TypeOK ==
    /\ auto \in BOOLEAN
    /\ status \in [Features -> {"new", "live", "deleted"}]
    /\ links \subseteq Link
    /\ call \in Calls
    /\ tidy \in BOOLEAN
    /\ \A l \in links : l.source \in Live

\* A relationship that leads to a feature never comes to lead nowhere, wherever
\* a delete or any other command was cut short: only create --parent, which
\* checks nothing, makes an orphaned one, and it is orphaned from the start.
NoneOrphaned == [][\A l \in Orphaned' \ Orphaned : l.source \notin Live]_vars

\* Without automatic inverses, no category that forbids cycles ever has one,
\* over all its types together.
StrictAcyclic ==
    ~auto => \A c \in Strict : Acyclic(Edges(TypesIn(c), links))

\* With automatic inverses, as long as nothing left one half of a pair behind,
\* both halves of every pair are there between two commands ...
PairsComplete ==
    auto /\ tidy /\ call = Idle =>
        \A l \in links : Paired(l) => Opposite(l) \in links

\* ... and the validator's graph, one direction of each pair, has no cycle.
\* Needs every strict type to be paired, as in the default configuration.
TidyAcyclic ==
    auto /\ tidy => \A c \in Strict :
        Acyclic(Edges(TypesIn(c) \cap Forward, links))

\* validate --fix, wherever it is cut short, keeps the features tied that it
\* found tied, and ties no others: it may turn a relationship round.  It unties
\* those only whose missing inverse it lists as failed, and a later save may
\* tie them again.
TieOf(l) == {l, Opposite(l)}
Ties     == {TieOf(l) : l \in {k \in links : k.target \in Seen /\ Paired(k)}}

FixKeepsTies ==
    [][call.op = "fix" /\ auto =>
          (Ties \ Ties') \cup (Ties' \ Ties) \subseteq {TieOf(l) : l \in call.failed}]_vars
=============================================================================
