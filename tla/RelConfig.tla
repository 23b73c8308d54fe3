------------------------------ MODULE RelConfig ------------------------------
(***************************************************************************)
(* The relationship types and categories of the configuration              *)
(* (internal/features/relationship_config.go, internal/config/loader.go,   *)
(* Config.Validate, and the relationship define, update, delete and import *)
(* commands), together with the relationships in the feature files, which  *)
(* carry type names of their own.                                          *)
(*                                                                         *)
(* Every command loads the configuration, which validates it, works on a   *)
(* copy, rewrites the feature files one by one and saves the configuration *)
(* last.  Some validate before they save, some do not.  Commands run one   *)
(* at a time, except that link may run while a delete waits at its prompt; *)
(* if Faulty, a command stops anywhere between two of its saves.           *)
(*                                                                         *)
(* A tie is what one link command makes: a near half in the file of its    *)
(* source and, if its type has an inverse, a far half in the file of its   *)
(* target.  Aliases and descriptions, which no step here depends on, and   *)
(* the settings that are not about relationships are left out.             *)
(***************************************************************************)
EXTENDS Naturals

CONSTANTS Names,           \* names of relationship types
          Categories,      \* names of categories
          None,            \* the empty string: no inverse, no change, no entry
          Features,        \* the features that hold relationships
          Ties,            \* the ties there may be
          Source, Target,  \* Source[k], Target[k]: the features tie k is between
          TreeType,        \* defaults.tree_relationship_type
          DefaultCategory, \* defaults.relationship_category
          Shipped,         \* the configuration at the start
          Policies,        \* what a category may say of cycles
          TypeOptions,     \* the flags given to relationship type update
          ImportFiles,     \* the files given to relationship import
          MaxCommands,     \* bound: commands begun
          Faulty,          \* whether a command may be cut short
          Careful          \* whether the user avoids what no command checks

Modes    == {"strict", "warn", "none"}
TypeDef  == [category : Categories \cup {None}, inverse : Names \cup {None}, both : BOOLEAN]
Policy   == [allow : BOOLEAN, detection : Modes]
Config   == [types : [Names -> TypeDef \cup {None}], categories : [Categories -> Policy \cup {None}]]
Sides    == {"near", "far"}

TypesOf(c)      == {n \in Names : c.types[n] # None}
CategoriesOf(c) == {g \in Categories : c.categories[g] # None}
Members(c, g)   == {n \in TypesOf(c) : c.types[n].category = g}
InverseOf(c, n) == c.types[n].inverse
\* Variant: the empty inverse is taken for a type.
PairOf_EmptyToo(c, n) == {n, InverseOf(c, n)}
PairOf(c, n) == {n, InverseOf(c, n)} \ {None}

Valid(c) ==
    /\ TreeType \in TypesOf(c)
    /\ DefaultCategory \in CategoriesOf(c)
    /\ \A n \in TypesOf(c) :
          /\ c.types[n].category \in CategoriesOf(c)
          /\ ~c.types[n].both /\ InverseOf(c, n) # None =>
                /\ InverseOf(c, n) \in TypesOf(c)
                /\ InverseOf(c, InverseOf(c, n)) = n
          /\ c.types[n].both => InverseOf(c, n) = None
    /\ \A g \in CategoriesOf(c) :
          c.categories[g].allow => c.categories[g].detection = "none"

ASSUME ConfigAssumption ==
    /\ None \notin Names \cup Categories
    /\ None \notin TypeDef \cup Policy
    /\ TreeType \in Names /\ DefaultCategory \in Categories
    /\ Source \in [Ties -> Features] /\ Target \in [Ties -> Features]
    /\ Shipped \in Config /\ Valid(Shipped)
    /\ Policies \subseteq Policy
    /\ TypeOptions \subseteq [name : Names \cup {None}, renameInverse : Names \cup {None},
                              category : Categories \cup {None}, inverse : Names \cup {None},
                              both : {"keep", "yes", "no"}]
    /\ ImportFiles \subseteq Config
    /\ MaxCommands \in Nat /\ Faulty \in BOOLEAN /\ Careful \in BOOLEAN

VARIABLES file,     \* the configuration in .fogit/config.yml
          ties,     \* ties[k]: the type each half of tie k has in its feature's file
          call,     \* the command under way and what it has left to do
          loose,    \* history: names that unfinished or forced commands left behind
          commands  \* the commands begun

vars == <<file, ties, call, loose, commands>>

Idle == [op |-> "idle"]

Holder(k, side) == IF side = "near" THEN Source[k] ELSE Target[k]

\* The names in use, and the features that hold relationships of types S.
InUse      == {ties[k][s] : k \in Ties, s \in Sides} \ {None}
Holders(S) == {f \in Features : \E k \in Ties, s \in Sides : Holder(k, s) = f /\ ties[k][s] \in S}

\* A tie whose halves are of types the configuration holds for inverses.
Paired(c, k) ==
    /\ ties[k].near \in TypesOf(c)
    /\ ties[k].far # None
    /\ InverseOf(c, ties[k].near) = ties[k].far

\* A command begins: it can load the configuration.
Begins ==
    /\ call = Idle
    /\ commands < MaxCommands
    /\ Valid(file)
    /\ commands' = commands + 1

\* The configuration is saved; names it has are at home again.
Saves(c) ==
    /\ file' = c
    /\ loose' = loose \ TypesOf(c)
-----------------------------------------------------------------------------
Init ==
    /\ file = Shipped
    /\ ties = [k \in Ties |-> [near |-> None, far |-> None]]
    /\ call = Idle
    /\ loose = {}
    /\ commands = 0

(***************************************************************************)
(* link, with auto_create_inverse; also while a delete is at its prompt.   *)
(***************************************************************************)
LinkFeatures(k, n) ==
    /\ call.op \in {"idle", "confirm"}
    /\ Valid(file)
    /\ ties[k].near = None
    /\ n \in TypesOf(file)
    /\ ties' = [ties EXCEPT ![k] = [near |-> n, far |-> InverseOf(file, n)]]
    /\ UNCHANGED <<file, call, loose, commands>>

(***************************************************************************)
(* The rewriting of feature files: conv gives each type name the one that  *)
(* replaces it, or None for relationships that are removed.                *)
(***************************************************************************)
\* When the old type is its own inverse the second replacement wins.
Renaming(old, new, oldInverse, newInverse) ==
    [n \in Names \cup {None} |->
        IF n = oldInverse /\ None \notin {oldInverse, newInverse} /\ oldInverse # newInverse
        THEN newInverse
        ELSE IF n = old THEN new ELSE n]

Removing(S) == [n \in Names \cup {None} |-> IF n \in S THEN None ELSE n]

Moved(conv) == {n \in Names : conv[n] # n}

Rewriting(op, conv, next, rest) ==
    [op |-> op, conv |-> conv, todo |-> Holders(Moved(conv)), next |-> next, rest |-> rest,
     whole |-> {k \in Ties : Paired(file, k) /\ ties[k].near # ties[k].far}]

Rewrites == {"rename", "migrate", "drop"}

\* One feature is saved with its relationships converted.
ConvertFeature(f) ==
    /\ call.op \in Rewrites
    /\ f \in call.todo
    /\ ties' = [k \in Ties |-> [s \in Sides |->
                  IF Holder(k, s) = f THEN call.conv[ties[k][s]] ELSE ties[k][s]]]
    /\ call' = [call EXCEPT !.todo = @ \ {f}]
    /\ UNCHANGED <<file, loose, commands>>

Converted(op) == call.op = op /\ call.todo = {}
-----------------------------------------------------------------------------
WithType(c, n, t) == [c EXCEPT !.types[n] = t]
Without(c, S) == [c EXCEPT !.types = [n \in Names |-> IF n \in S THEN None ELSE c.types[n]]]

(***************************************************************************)
(* relationship define, and relationship category define.  --from copies   *)
(* what the flags could as well have said.                                 *)
(***************************************************************************)
Defined(c, n, t) ==
    LET added == WithType(c, n, t)
        i     == t.inverse
    IN  IF i = None THEN added
        ELSE IF i \in TypesOf(added) THEN [added EXCEPT !.types[i].inverse = n]
        ELSE WithType(added, i, [category |-> t.category, inverse |-> n, both |-> FALSE])

\* Variant: what was defined is not validated.
DefineType_Unchecked(n, t) ==
    /\ n \notin TypesOf(file)
    /\ t.category \in CategoriesOf(file)
    /\ ~(t.both /\ t.inverse # None)
    /\ Saves(Defined(file, n, t))
    /\ UNCHANGED <<ties, call>>

DefineType(n, t) ==
    /\ n \notin TypesOf(file)
    /\ t.category \in CategoriesOf(file)
    /\ ~(t.both /\ t.inverse # None)
    /\ Valid(Defined(file, n, t))
    /\ Saves(Defined(file, n, t))
    /\ UNCHANGED <<ties, call>>

\* --allow-cycles sets the detection to none.
DefineCategory(g, policy) ==
    /\ g \notin CategoriesOf(file)
    /\ policy.allow => policy.detection = "none"
    /\ Saves([file EXCEPT !.categories[g] = policy])
    /\ UNCHANGED <<ties, call>>

(***************************************************************************)
(* relationship type update: in place, or a rename, which rewrites the     *)
(* features before the new configuration is validated.                     *)
(***************************************************************************)
Updated(t, o) ==
    LET both == IF o.both = "keep" THEN t.both ELSE o.both = "yes"
    IN  [category |-> IF o.category = None THEN t.category ELSE o.category,
         both     |-> both,
         inverse  |-> IF o.inverse # None /\ ~both THEN o.inverse
                      ELSE IF o.both = "yes" THEN None ELSE t.inverse]

UpdateType(n, o) ==
    /\ n \in TypesOf(file)
    /\ o.name \in {None, n}
    /\ o.category \in CategoriesOf(file) \cup {None}
    /\ Valid(WithType(file, n, Updated(file.types[n], o)))
    /\ Saves(WithType(file, n, Updated(file.types[n], o)))
    /\ UNCHANGED <<ties, call>>

\* The name handleInverseTypeRename gives the inverse, and whether it is new.
NewInverse(c, n, o) == IF o.renameInverse = None THEN InverseOf(c, n) ELSE o.renameInverse
InverseMoves(c, n, o) ==
    /\ InverseOf(c, n) \in TypesOf(c) \ {n}
    /\ ~Updated(c.types[n], o).both
    /\ NewInverse(c, n, o) # InverseOf(c, n)

Renamed(c, n, o) ==
    LET old    == InverseOf(c, n)
        new    == NewInverse(c, n, o)
        t      == Updated(c.types[n], o)
        moved  == WithType(Without(c, {n}), o.name, t)
        turned == [c.types[old] EXCEPT !.inverse = o.name]
    IN  IF t.both \/ old \notin TypesOf(moved) THEN moved
        ELSE IF new = old THEN WithType(moved, old, turned)
        ELSE WithType(WithType(Without(moved, {old}), new, turned),
                      o.name, [t EXCEPT !.inverse = new])

\* Variant: the relationships of the inverse type keep their name.
RenameType_InverseKept(n, o) ==
    /\ n \in TypesOf(file)
    /\ o.name # None /\ o.name \notin TypesOf(file)
    /\ o.category \in CategoriesOf(file) \cup {None}
    /\ call' = Rewriting("rename", Renaming(n, o.name, None, None), Renamed(file, n, o), {})
    /\ loose' = loose \cup {o.name}
    /\ UNCHANGED <<file, ties>>

RenameType(n, o) ==
    LET moves == InverseMoves(file, n, o)
        conv  == Renaming(n, o.name, IF moves THEN InverseOf(file, n) ELSE None,
                                     IF moves THEN NewInverse(file, n, o) ELSE None)
    IN  /\ n \in TypesOf(file)
        /\ o.name # None /\ o.name \notin TypesOf(file)
        /\ o.category \in CategoriesOf(file) \cup {None}
        /\ call' = Rewriting("rename", conv, Renamed(file, n, o), {})
        /\ loose' = loose \cup ({conv[m] : m \in Moved(conv)} \ TypesOf(file))
        /\ UNCHANGED <<file, ties>>

RenameSave ==
    /\ Converted("rename")
    /\ Valid(call.next)
    /\ Saves(call.next)
    /\ call' = Idle
    /\ UNCHANGED <<ties, commands>>

\* The new configuration is not valid: the features are left as they are now.
RenameRejected ==
    /\ Converted("rename")
    /\ ~Valid(call.next)
    /\ call' = Idle
    /\ UNCHANGED <<file, ties, loose, commands>>
-----------------------------------------------------------------------------
(***************************************************************************)
(* relationship type delete.  A type goes together with its inverse.       *)
(***************************************************************************)
\* What a careful user knows: deletes do not look at the defaults, and a
\* migration converts the inverse only if the target has one to offer.
SafeToDrop(S) == Careful => TreeType \notin S
SafeTarget(n, m) ==
    Careful => /\ m \notin PairOf(file, n)
               /\ InverseOf(file, n) # None => InverseOf(file, m) # None

\* Variant: relationships of the inverse type are not looked for.
DeleteType_OwnOnly(n) ==
    /\ n \in TypesOf(file)
    /\ SafeToDrop(PairOf(file, n))
    /\ n \notin InUse
    /\ Saves(Without(file, PairOf(file, n)))
    /\ UNCHANGED <<ties, call>>

DeleteType(n) ==
    /\ n \in TypesOf(file)
    /\ SafeToDrop(PairOf(file, n))
    /\ PairOf(file, n) \cap InUse = {}
    /\ Saves(Without(file, PairOf(file, n)))
    /\ UNCHANGED <<ties, call>>

MigrateType(n, m) ==
    /\ {n, m} \subseteq TypesOf(file)
    /\ SafeToDrop(PairOf(file, n))
    /\ SafeTarget(n, m)
    /\ call' = Rewriting("migrate", Renaming(n, m, InverseOf(file, n), InverseOf(file, m)),
                         Without(file, PairOf(file, n)), {})
    /\ UNCHANGED <<file, ties, loose>>

MigrateSave ==
    /\ Converted("migrate")
    /\ Saves(call.next)
    /\ call' = Idle
    /\ UNCHANGED <<ties, commands>>

\* --cascade or --force on a type in use: the command waits at its prompt.
AskDeleteType(n, how) ==
    /\ n \in TypesOf(file)
    /\ SafeToDrop(PairOf(file, n))
    /\ PairOf(file, n) \cap InUse # {}
    /\ call' = [op |-> "confirm", what |-> "type", name |-> n, how |-> how]
    /\ UNCHANGED <<file, ties, loose>>

Confirms(what, how) ==
    /\ call.op = "confirm"
    /\ call.what = what
    /\ call.how = how
    /\ Valid(file)

Dropping(S, next, rest) == Rewriting("drop", Removing(S), next, rest)

CascadeType ==
    /\ Confirms("type", "cascade")
    /\ LET S == PairOf(file, call.name)
       IN  call' = Dropping(S, Without(file, S), {})
    /\ UNCHANGED <<file, ties, loose, commands>>

ForceType ==
    /\ Confirms("type", "force")
    /\ LET S == PairOf(file, call.name)
       IN  /\ file' = Without(file, S)
           /\ loose' = loose \cup S
    /\ call' = Idle
    /\ UNCHANGED <<ties, commands>>

(***************************************************************************)
(* relationship category update and delete.  Neither validates.            *)
(***************************************************************************)
Recategorised(c, g, h) ==
    [types      |-> [n \in Names |-> IF n \in Members(c, g)
                                     THEN [c.types[n] EXCEPT !.category = h] ELSE c.types[n]],
     categories |-> [c.categories EXCEPT ![g] = None]]

SetPolicy(g, policy) ==
    /\ g \in CategoriesOf(file)
    /\ Careful /\ policy.allow => policy.detection = "none"
    /\ Saves([file EXCEPT !.categories[g] = policy])
    /\ UNCHANGED <<ties, call>>

RenameCategory(g, h, policy) ==
    /\ g \in CategoriesOf(file)
    /\ h \notin CategoriesOf(file)
    /\ Careful => g # DefaultCategory
    /\ Careful /\ policy.allow => policy.detection = "none"
    /\ Saves([Recategorised(file, g, h) EXCEPT !.categories[h] = policy])
    /\ UNCHANGED <<ties, call>>

\* Without flags; with --move-types-to h, which may name the category itself.
DeleteCategory(g) ==
    /\ g \in CategoriesOf(file)
    /\ Members(file, g) = {}
    /\ Careful => g # DefaultCategory
    /\ Saves([file EXCEPT !.categories[g] = None])
    /\ UNCHANGED <<ties, call>>

MoveTypes(g, h) ==
    /\ {g, h} \subseteq CategoriesOf(file)
    /\ Careful => g \notin {DefaultCategory, h}
    /\ Saves(Recategorised(file, g, h))
    /\ UNCHANGED <<ties, call>>

AskDeleteCategory(g, how) ==
    /\ g \in CategoriesOf(file)
    /\ Members(file, g) # {}
    /\ Careful => g # DefaultCategory
    /\ \A n \in Members(file, g) : SafeToDrop(PairOf(file, n))
    /\ call' = [op |-> "confirm", what |-> "category", name |-> g, how |-> how]
    /\ UNCHANGED <<file, ties, loose>>

\* The types of the category are dropped one after the other, each with its
\* inverse and with a listing of the features of its own.
CascadeCategory ==
    /\ Confirms("category", "cascade")
    /\ LET all == UNION {PairOf(file, n) : n \in Members(file, call.name)}
       IN  \E n \in Members(file, call.name) :
             call' = Dropping(PairOf(file, n),
                              [Without(file, all) EXCEPT !.categories[call.name] = None],
                              Members(file, call.name) \ {n})
    /\ UNCHANGED <<file, ties, loose, commands>>

DropNext ==
    /\ Converted("drop")
    /\ \E n \in call.rest :
          call' = [call EXCEPT !.rest = @ \ {n}, !.conv = Removing(PairOf(file, n)),
                               !.todo = Holders(PairOf(file, n))]
    /\ UNCHANGED <<file, ties, loose, commands>>

DropSave ==
    /\ Converted("drop")
    /\ call.rest = {}
    /\ Saves(call.next)
    /\ call' = Idle
    /\ UNCHANGED <<ties, commands>>

ForceCategory ==
    /\ Confirms("category", "force")
    /\ Saves(Recategorised(file, call.name, None))
    /\ call' = Idle
    /\ UNCHANGED <<ties, commands>>

Cancel ==
    /\ call.op = "confirm"
    /\ call' = Idle
    /\ UNCHANGED <<file, ties, loose, commands>>
-----------------------------------------------------------------------------
(***************************************************************************)
(* relationship import: what the file has and the configuration does not,  *)
(* is added; what both have is kept with --merge, replaced with            *)
(* --overwrite, and otherwise refused.  Validated before it is saved.      *)
(***************************************************************************)
Merged(c, d, mode) ==
    LET Choose(old, new) == IF new = None \/ (old # None /\ mode = "merge") THEN old ELSE new
    IN  [types      |-> [n \in Names |-> Choose(c.types[n], d.types[n])],
         categories |-> [g \in Categories |-> Choose(c.categories[g], d.categories[g])]]

Import(d, mode) ==
    /\ mode = "plain" => /\ TypesOf(d) \cap TypesOf(file) = {}
                         /\ CategoriesOf(d) \cap CategoriesOf(file) = {}
    /\ Valid(Merged(file, d, mode))
    /\ Saves(Merged(file, d, mode))
    /\ UNCHANGED <<ties, call>>

\* The command is killed, or a feature file cannot be saved.
Stop ==
    /\ Faulty
    /\ call.op \in Rewrites
    /\ call' = Idle
    /\ UNCHANGED <<file, ties, loose, commands>>

\* A command that loads the configuration when nothing else is under way.
Command ==
    \/ \E n \in Names :
          \/ \E t \in TypeDef : DefineType(n, t)
          \/ \E o \in TypeOptions : UpdateType(n, o) \/ RenameType(n, o)
          \/ DeleteType(n)
          \/ \E m \in Names : MigrateType(n, m)
          \/ \E how \in {"cascade", "force"} : AskDeleteType(n, how)
    \/ \E g \in Categories :
          \/ \E p \in Policies : DefineCategory(g, p) \/ SetPolicy(g, p)
          \/ \E h \in Categories, p \in Policies \cup {file.categories[g]} : RenameCategory(g, h, p)
          \/ \E h \in Categories : MoveTypes(g, h)
          \/ DeleteCategory(g)
          \/ \E how \in {"cascade", "force"} : AskDeleteCategory(g, how)
    \/ \E d \in ImportFiles, mode \in {"plain", "merge", "overwrite"} : Import(d, mode)

Next ==
    \/ Begins /\ Command
    \/ \E k \in Ties, n \in Names : LinkFeatures(k, n)
    \/ \E f \in Features : ConvertFeature(f)
    \/ RenameSave \/ RenameRejected \/ MigrateSave
    \/ CascadeType \/ ForceType \/ CascadeCategory \/ ForceCategory \/ Cancel
    \/ DropNext \/ DropSave
    \/ Stop

Spec == Init /\ [][Next]_vars
-----------------------------------------------------------------------------
Calls ==
    {Idle}
    \cup [op : {"confirm"}, what : {"type", "category"}, name : Names \cup Categories,
          how : {"cascade", "force"}]
    \cup [op : Rewrites, conv : [Names \cup {None} -> Names \cup {None}], todo : SUBSET Features,
          next : Config, rest : SUBSET Names, whole : SUBSET Ties]

\* The type of every variable.
TypeOK ==
    /\ file \in Config
    /\ ties \in [Ties -> [near : Names \cup {None}, far : Names \cup {None}]]
    /\ call \in Calls
    /\ loose \subseteq Names
    /\ commands \in 0..MaxCommands

\* What a command saves, the next command can load (config.Load validates),
\* but for a category deleted by force, which leaves its types without one.
\* Only a careful user can count on it.
ConfigLoads == (\A n \in TypesOf(file) : file.types[n].category # None) => Valid(file)

\* No relationship is of a type the configuration does not have, other than
\* one under the new name of a rename that was rejected or cut short, or of a
\* type deleted by force: the features are rewritten before the configuration
\* is saved, and that is the only thing a stop may leave behind.
TypesConfigured == \A n \in InUse : n \in TypesOf(file) \cup loose

\* A command that succeeds leaves no tie half converted: the halves of a tie
\* are inverses of each other before it and, whatever it renamed, migrated or
\* dropped, after it, or both are gone.  (--force leaves them as they were, and
\* an import may be told to re-pair types: ImportFiles has no such file.)
PairsKept ==
    [][file' # file =>
        \A k \in IF call.op \in Rewrites THEN call.whole
                 ELSE {j \in Ties : Paired(file, j) /\ ties[j].near # ties[j].far} :
            \/ ties'[k].near = None /\ ties'[k].far = None
            \/ Paired(file, k)'
            \/ ties'[k].near \in loose']_vars
=============================================================================
