-------------------------- MODULE RelConfig_proofs --------------------------
(***************************************************************************)
(* Proofs about RelConfig for any names, categories, features, options and *)
(* files: the types of the variables and, for a user who is careful, that  *)
(* what a command saves can be loaded, that the names of types in the      *)
(* feature files are configured, and that the halves of a tie are renamed, *)
(* migrated or dropped together.                                           *)
(***************************************************************************)
EXTENDS RelConfig, TLAPS

\* A command at its prompt, and one that rewrites the features.
IsPrompt(c) ==
    /\ c = [op |-> "confirm", what |-> c.what, name |-> c.name, how |-> c.how]
    /\ c.what \in {"type", "category"}
    /\ c.name \in Names \cup Categories
    /\ c.how \in {"cascade", "force"}

IsRewriting(c) ==
    /\ c = [op |-> c.op, conv |-> c.conv, todo |-> c.todo, next |-> c.next,
            rest |-> c.rest, whole |-> c.whole]
    /\ c.op \in Rewrites
    /\ c.conv \in [Names \cup {None} -> Names \cup {None}]
    /\ c.todo \subseteq Features
    /\ c.next \in Config
    /\ c.rest \subseteq Names
    /\ c.whole \subseteq Ties

\* What a deletion that waits at its prompt was asked for is still there.
Asked ==
    /\ call.op = "confirm" /\ call.what = "type" => call.name \in TypesOf(file)
    /\ call.op = "confirm" /\ call.what = "category" => call.name \in CategoriesOf(file)

\* What a deletion that waits at its prompt was asked for can be dropped, and
\* what a command that does not validate is going to save is valid.
Loadable ==
    /\ Valid(file)
    /\ call.op = "confirm" /\ call.what = "type" => TreeType \notin PairOf(file, call.name)
    /\ call.op = "confirm" /\ call.what = "category" =>
          /\ call.name # DefaultCategory
          /\ Members(file, call.name) # {}
          /\ \A n \in Members(file, call.name) : TreeType \notin PairOf(file, n)
    /\ call.op \in {"migrate", "drop"} => Valid(call.next)

\* The end of a repository whose category was deleted by force.
Stranded == call = Idle /\ \E n \in TypesOf(file) : file.types[n].category = None

LoadsInv == Loadable \/ Stranded
-----------------------------------------------------------------------------
LEMMA CallShapes ==
    \A c : c \in Calls <=> c = Idle \/ IsPrompt(c) \/ IsRewriting(c)
BY DEF Calls, IsPrompt, IsRewriting, Idle, Rewrites

LEMMA ConfigTypes ==
    ASSUME NEW c \in Config
    PROVE  /\ \A n \in TypesOf(c) : n \in Names /\ c.types[n] \in TypeDef
           /\ \A g \in CategoriesOf(c) : g \in Categories /\ c.categories[g] \in Policy
           /\ \A n \in TypesOf(c) : InverseOf(c, n) \in Names \cup {None}
BY ConfigAssumption DEF Config, TypesOf, CategoriesOf, TypeDef, InverseOf

\* Of a valid configuration, a type and its inverse are a pair of types.
LEMMA PairClosed ==
    ASSUME NEW c \in Config, Valid(c), NEW n \in TypesOf(c)
    PROVE  /\ n \in PairOf(c, n) /\ PairOf(c, n) \subseteq TypesOf(c)
           /\ \A m \in PairOf(c, n) : InverseOf(c, m) \in PairOf(c, n) \cup {None}
           /\ \A m \in TypesOf(c) : InverseOf(c, m) \in PairOf(c, n) => m \in PairOf(c, n)
<1>1. n # None /\ None \notin TypesOf(c)
    BY ConfigAssumption, ConfigTypes
<1>2. \A m \in TypesOf(c) :
         InverseOf(c, m) # None => InverseOf(c, m) \in TypesOf(c) /\ InverseOf(c, InverseOf(c, m)) = m
    BY DEF Valid
<1>. QED BY <1>1, <1>2 DEF PairOf

\* A valid configuration without types that form pairs, and perhaps without the
\* category they are all of, is valid if the defaults do not name them.
LEMMA DropLoads ==
    ASSUME NEW c \in Config, Valid(c), NEW S, TreeType \notin S,
           \A m \in TypesOf(c) : InverseOf(c, m) \in S => m \in S
    PROVE  /\ Without(c, S) \in Config /\ Valid(Without(c, S))
           /\ TypesOf(Without(c, S)) = TypesOf(c) \ S
           /\ \A g \in Categories \ {DefaultCategory} :
                 LET d == [Without(c, S) EXCEPT !.categories[g] = None]
                 IN  Members(c, g) \subseteq S =>
                        d \in Config /\ Valid(d) /\ TypesOf(d) = TypesOf(c) \ S
<1> DEFINE w == Without(c, S)
<1>1. /\ w.categories = c.categories
      /\ w.types = [n \in Names |-> IF n \in S THEN None ELSE c.types[n]]
      /\ w \in Config
    BY DEF Without, Config
<1>2. TypesOf(w) = TypesOf(c) \ S /\ CategoriesOf(w) = CategoriesOf(c)
    BY <1>1 DEF TypesOf, CategoriesOf
<1>3. \A n \in TypesOf(w) : w.types[n] = c.types[n] /\ InverseOf(w, n) = InverseOf(c, n)
    BY <1>1, <1>2 DEF TypesOf, InverseOf
<1>4. Valid(w)
    <2>1. ASSUME NEW n \in TypesOf(w), ~w.types[n].both, InverseOf(w, n) # None
          PROVE  InverseOf(w, n) \in TypesOf(w) /\ InverseOf(w, InverseOf(w, n)) = n
        <3>1. InverseOf(c, n) \in TypesOf(c) /\ InverseOf(c, InverseOf(c, n)) = n
            BY <1>2, <1>3, <2>1 DEF Valid
        <3>. QED BY <1>2, <1>3, <3>1
    <2>. QED BY <1>1, <1>2, <1>3, <2>1 DEF Valid
<1>5. ASSUME NEW g \in Categories \ {DefaultCategory}, Members(c, g) \subseteq S
      PROVE  LET d == [w EXCEPT !.categories[g] = None]
             IN  d \in Config /\ Valid(d) /\ TypesOf(d) = TypesOf(c) \ S
    <2> DEFINE d == [w EXCEPT !.categories[g] = None]
    <2>1. d.types = w.types /\ d.categories = [c.categories EXCEPT ![g] = None] /\ d \in Config
        BY <1>1 DEF Config
    <2>2. TypesOf(d) = TypesOf(w)
        BY <2>1 DEF TypesOf
    <2>5. \A x \in Categories : d.categories[x] = IF x = g THEN None ELSE c.categories[x]
        BY <2>1 DEF Config
    <2>6. CategoriesOf(d) = CategoriesOf(c) \ {g}
        BY <2>5 DEF CategoriesOf
    <2>3. \A n \in TypesOf(w) : w.types[n].category # g
        BY <1>2, <1>3, <1>5 DEF Members
    <2>4. \A h \in CategoriesOf(d) : d.categories[h] = w.categories[h]
        BY <1>1, <2>5, <2>6
    <2>7. \A n \in TypesOf(w) : d.types[n] = w.types[n] /\ w.types[n].category \in CategoriesOf(d)
        BY <1>2, <1>4, <2>1, <2>3, <2>6 DEF Valid
    <2>8. \A h \in CategoriesOf(d) : d.categories[h].allow => d.categories[h].detection = "none"
        BY <1>1, <1>2, <1>4, <2>4, <2>6 DEF Valid
    <2>9. \A n : InverseOf(d, n) = InverseOf(w, n)
        BY <2>1 DEF InverseOf
    <2> HIDE DEF d, w
    <2>. QED BY <1>2, <1>4, <2>1, <2>2, <2>6, <2>7, <2>8, <2>9 DEF Valid, d
<1>. QED BY <1>1, <1>2, <1>4, <1>5

\* The types of a category moved to another that is there.
LEMMA RecategorisedLoads ==
    ASSUME NEW c \in Config, Valid(c), NEW g \in Categories \ {DefaultCategory},
           NEW h \in Categories \ {g}, NEW policy \in Policy,
           policy.allow => policy.detection = "none",
           NEW d, \/ h \in CategoriesOf(c) /\ d = Recategorised(c, g, h)
                  \/ d = [Recategorised(c, g, h) EXCEPT !.categories[h] = policy]
    PROVE  d \in Config /\ Valid(d) /\ TypesOf(d) = TypesOf(c)
<1> DEFINE types == [n \in Names |-> IF n \in Members(c, g)
                                     THEN [c.types[n] EXCEPT !.category = h] ELSE c.types[n]]
<1>1. Recategorised(c, g, h) = [types |-> types, categories |-> [c.categories EXCEPT ![g] = None]]
    BY DEF Recategorised
<1>2. /\ d.types = types /\ d = [types |-> d.types, categories |-> d.categories]
      /\ \/ h \in CategoriesOf(c) /\ d.categories = [c.categories EXCEPT ![g] = None]
         \/ d.categories = [c.categories EXCEPT ![g] = None, ![h] = policy]
    <2> HIDE DEF types
    <2>1. CASE d = Recategorised(c, g, h) /\ h \in CategoriesOf(c)
        BY <1>1, <2>1
    <2>2. CASE d = [Recategorised(c, g, h) EXCEPT !.categories[h] = policy]
        BY <1>1, <2>2
    <2>. QED BY <2>1, <2>2
<1>3. /\ d.categories \in [Categories -> Policy \cup {None}]
      /\ d.categories[g] = None /\ d.categories[h] # None
      /\ \A x \in Categories \ {g, h} : d.categories[x] = c.categories[x]
      /\ d.categories[h] = policy \/ d.categories[h] = c.categories[h]
    BY <1>2, ConfigAssumption DEF Config, CategoriesOf
<1>4. \A n \in Members(c, g) : c.types[n] \in TypeDef /\ n \in Names
    BY ConfigTypes DEF Members
<1>5. ASSUME NEW n \in Names
      PROVE  types[n] \in TypeDef \cup {None}
    <2>1. CASE n \in Members(c, g)
        <3>1. [c.types[n] EXCEPT !.category = h] \in TypeDef
            BY <1>4, <2>1 DEF TypeDef
        <3>. QED BY <2>1, <3>1
    <2>2. CASE n \notin Members(c, g)
        BY <2>2 DEF Config
    <2>. QED BY <2>1, <2>2
<1>6. d \in Config
    BY <1>2, <1>3, <1>5 DEF Config
<1>7. ASSUME NEW n \in Names
      PROVE  c.types[n] = None <=> types[n] = None
    <2>1. CASE n \in Members(c, g)
        <3>1. [c.types[n] EXCEPT !.category = h] \in TypeDef
            BY <1>4, <2>1 DEF TypeDef
        <3>2. c.types[n] # None /\ types[n] # None
            BY <1>4, <2>1, <3>1, ConfigAssumption
        <3>. QED BY <3>2
    <2>2. CASE n \notin Members(c, g)
        BY <2>2
    <2>. QED BY <2>1, <2>2
<1>8. TypesOf(d) = TypesOf(c)
    BY <1>2, <1>7 DEF TypesOf
<1>9. ASSUME NEW n \in TypesOf(c)
      PROVE  /\ d.types[n].inverse = c.types[n].inverse
             /\ d.types[n].both = c.types[n].both
             /\ d.types[n].category = IF n \in Members(c, g) THEN h ELSE c.types[n].category
    <2>1. c.types[n] \in TypeDef /\ n \in Names
        BY ConfigTypes
    <2>2. d.types[n] = IF n \in Members(c, g) THEN [c.types[n] EXCEPT !.category = h] ELSE c.types[n]
        BY <1>2, <2>1
    <2>. QED BY <2>1, <2>2 DEF TypeDef
<1>10. \A n \in TypesOf(d) : d.types[n].category \in CategoriesOf(d)
    BY <1>3, <1>8, <1>9 DEF Valid, Members, CategoriesOf
<1>11. TreeType \in TypesOf(d) /\ DefaultCategory \in CategoriesOf(d)
    BY <1>3, <1>8 DEF Valid, CategoriesOf
<1>12. \A x \in CategoriesOf(d) : d.categories[x].allow => d.categories[x].detection = "none"
    BY <1>3 DEF Valid, CategoriesOf
<1>. QED BY <1>6, <1>8, <1>9, <1>10, <1>11, <1>12 DEF Valid, InverseOf

\* The operators that make a configuration of another.
LEMMA ConfigMakers ==
    ASSUME NEW c \in Config
    PROVE  /\ \A n \in Names, t \in TypeDef : WithType(c, n, t) \in Config
           /\ \A S : Without(c, S) \in Config
           /\ \A g \in Categories, p \in Policy \cup {None} :
                 [c EXCEPT !.categories[g] = p] \in Config
           /\ \A g \in Categories, h \in Categories \cup {None} : Recategorised(c, g, h) \in Config
           /\ \A d \in Config : \A mode : Merged(c, d, mode) \in Config
<1>1. \A n \in Names, t \in TypeDef : WithType(c, n, t) \in Config
    BY DEF WithType, Config
<1>2. \A S : Without(c, S) \in Config
    BY DEF Without, Config
<1>3. \A g \in Categories, p \in Policy \cup {None} : [c EXCEPT !.categories[g] = p] \in Config
    BY DEF Config
<1>4. ASSUME NEW g \in Categories, NEW h \in Categories \cup {None}
      PROVE  Recategorised(c, g, h) \in Config
    <2> DEFINE types == [n \in Names |-> IF n \in Members(c, g)
                                        THEN [c.types[n] EXCEPT !.category = h] ELSE c.types[n]]
               categories == [c.categories EXCEPT ![g] = None]
    <2>1. \A n \in Members(c, g) : c.types[n] \in TypeDef
        BY ConfigTypes DEF Members
    <2>2. \A n \in Names : types[n] \in TypeDef \cup {None}
        BY <2>1 DEF Config, TypeDef
    <2>3. types \in [Names -> TypeDef \cup {None}] /\ categories \in [Categories -> Policy \cup {None}]
        BY <2>2 DEF Config
    <2>4. Recategorised(c, g, h) = [types |-> types, categories |-> categories]
        BY DEF Recategorised
    <2> HIDE DEF types, categories
    <2>. QED BY <2>3, <2>4 DEF Config
<1>5. ASSUME NEW d \in Config, NEW mode
      PROVE  Merged(c, d, mode) \in Config
    BY DEF Merged, Config
<1>. QED BY <1>1, <1>2, <1>3, <1>4, <1>5

LEMMA TypeMakers ==
    ASSUME NEW c \in Config, Valid(c), NEW n \in TypesOf(c), NEW o \in TypeOptions
    PROVE  /\ Updated(c.types[n], o) \in TypeDef
           /\ o.name \notin TypesOf(c) \cup {None} => Renamed(c, n, o) \in Config
<1>1. c.types[n] \in TypeDef /\ n \in Names
    BY ConfigTypes
<1>2. /\ o.name \in Names \cup {None} /\ o.renameInverse \in Names \cup {None}
      /\ o.category \in Categories \cup {None} /\ o.inverse \in Names \cup {None}
    BY ConfigAssumption
<1>3. Updated(c.types[n], o) \in TypeDef
    BY <1>1, <1>2 DEF Updated, TypeDef
<1>4. ASSUME o.name \notin TypesOf(c) \cup {None}
      PROVE  Renamed(c, n, o) \in Config
    <2> DEFINE old    == InverseOf(c, n)
               new    == NewInverse(c, n, o)
               t      == Updated(c.types[n], o)
               moved  == WithType(Without(c, {n}), o.name, t)
               turned == [c.types[old] EXCEPT !.inverse = o.name]
    <2>1. moved \in Config /\ o.name \in Names
        BY <1>2, <1>3, <1>4, ConfigMakers
    <2>2. CASE t.both \/ old \notin TypesOf(moved)
        BY <2>1, <2>2 DEF Renamed
    <2>3. ASSUME ~t.both, old \in TypesOf(moved)
          PROVE  Renamed(c, n, o) \in Config
        <3>1. old \in Names /\ new \in Names /\ old # None
            BY <1>2, <2>3, ConfigAssumption DEF TypesOf, NewInverse
        <3>2. old \in TypesOf(c)
            BY <3>1 DEF Valid
        <3>3. turned \in TypeDef /\ [t EXCEPT !.inverse = new] \in TypeDef
            BY <1>3, <2>1, <3>1, <3>2, ConfigTypes DEF TypeDef
        <3>4. CASE new = old
            <4>1. Renamed(c, n, o) = WithType(moved, old, turned)
                BY <2>3, <3>4 DEF Renamed
            <4>. QED BY <2>1, <3>1, <3>3, <4>1, ConfigMakers
        <3>5. CASE new # old
            <4> DEFINE without == Without(moved, {old})
                       renewed == WithType(without, new, turned)
                       again   == [t EXCEPT !.inverse = new]
            <4>1. Renamed(c, n, o) = WithType(renewed, o.name, again)
                BY <2>3, <3>5 DEF Renamed
            <4>2. without \in Config
                BY <2>1, ConfigMakers
            <4>3. renewed \in Config
                <5> HIDE DEF without, turned, new
                <5>. QED BY <3>1, <3>3, <4>2, ConfigMakers
            <4> HIDE DEF renewed, again
            <4>4. again \in TypeDef
                BY <3>3 DEF again
            <4>. QED BY <2>1, <4>1, <4>3, <4>4, ConfigMakers
        <3>. QED BY <3>4, <3>5
    <2>. QED BY <2>2, <2>3
<1>. QED BY <1>3, <1>4
-----------------------------------------------------------------------------
(* The types of the variables.                                             *)

LEMMA Conversions ==
    /\ \A old, oldInverse : \A new, newInverse \in Names \cup {None} :
          Renaming(old, new, oldInverse, newInverse) \in [Names \cup {None} -> Names \cup {None}]
    /\ \A S : Removing(S) \in [Names \cup {None} -> Names \cup {None}]
BY DEF Renaming, Removing

LEMMA RewritingTypes ==
    ASSUME NEW op \in Rewrites, NEW conv \in [Names \cup {None} -> Names \cup {None}],
           NEW next \in Config, NEW rest \in SUBSET Names
    PROVE  /\ Rewriting(op, conv, next, rest) \in Calls
           /\ Rewriting(op, conv, next, rest).op = op
           /\ Rewriting(op, conv, next, rest).next = next
<1>1. IsRewriting(Rewriting(op, conv, next, rest))
    BY DEF Rewriting, IsRewriting, Holders
<1>. QED BY <1>1, CallShapes DEF Rewriting

LEMMA PairTypes ==
    ASSUME NEW c \in Config, NEW n \in TypesOf(c)
    PROVE  PairOf(c, n) \subseteq Names
BY ConfigTypes DEF PairOf

LEMMA PromptTypes ==
    \A what \in {"type", "category"}, name \in Names \cup Categories, how \in {"cascade", "force"} :
        [op |-> "confirm", what |-> what, name |-> name, how |-> how] \in Calls
BY DEF Calls

\* A command that saves at once.
LEMMA SavesTypes ==
    ASSUME TypeOK, NEW c \in Config, Saves(c), UNCHANGED <<ties, call>>, commands' \in 0..MaxCommands
    PROVE  TypeOK'
BY DEF TypeOK, Saves

LEMMA CommandTypes ==
    ASSUME TypeOK, Begins, Command
    PROVE  TypeOK'
<1>1. /\ file \in Config /\ Valid(file) /\ ConfigAssumption
      /\ commands' \in 0..MaxCommands
    BY ConfigAssumption DEF TypeOK, Begins
<1>2. \A n \in TypesOf(file) : n \in Names /\ file.types[n] \in TypeDef
    BY <1>1, ConfigTypes
<1>3. ASSUME NEW n \in Names, NEW t \in TypeDef, DefineType(n, t)
      PROVE  TypeOK'
    <2>1. Defined(file, n, t) \in Config
        <3> DEFINE added == WithType(file, n, t)
                   i     == t.inverse
                   other == [category |-> t.category, inverse |-> n, both |-> FALSE]
        <3>1. added \in Config /\ i \in Names \cup {None}
            BY <1>1, ConfigMakers DEF TypeDef
        <3>2. CASE i = None
            BY <3>1, <3>2 DEF Defined
        <3>3. CASE i \in TypesOf(added)
            <4> DEFINE turned == [added EXCEPT !.types[i].inverse = n]
            <4>1. added.types[i] \in TypeDef /\ i \in Names
                BY <3>1, <3>3, ConfigTypes
            <4>2. [added.types[i] EXCEPT !.inverse = n] \in TypeDef
                BY <4>1 DEF TypeDef
            <4>3. turned = [types |-> [added.types EXCEPT ![i] = [added.types[i] EXCEPT !.inverse = n]],
                            categories |-> added.categories]
                BY <3>1 DEF Config
            <4>4. i # None
                BY <1>1, <4>1 DEF ConfigAssumption
            <4>5. turned \in Config
                BY <3>1, <4>2, <4>3 DEF Config
            <4>. QED BY <3>3, <4>4, <4>5 DEF Defined
        <3>4. CASE i # None /\ i \notin TypesOf(added)
            <4>1. other \in TypeDef
                BY DEF TypeDef
            <4>2. Defined(file, n, t) = WithType(added, i, other)
                BY <3>4 DEF Defined
            <4> HIDE DEF added, other
            <4>. QED BY <3>1, <3>4, <4>1, <4>2, ConfigMakers
        <3>. QED BY <3>2, <3>3, <3>4
    <2>. QED BY <1>1, <1>3, <2>1, SavesTypes DEF DefineType
<1>4. ASSUME NEW n \in Names, NEW o \in TypeOptions, UpdateType(n, o)
      PROVE  TypeOK'
    <2>1. WithType(file, n, Updated(file.types[n], o)) \in Config
        BY <1>1, <1>4, TypeMakers, ConfigMakers DEF UpdateType
    <2>. QED BY <1>1, <1>4, <2>1, SavesTypes DEF UpdateType
<1>5. ASSUME NEW n \in Names, NEW o \in TypeOptions, RenameType(n, o)
      PROVE  TypeOK'
    <2> DEFINE moves == InverseMoves(file, n, o)
               conv  == Renaming(n, o.name, IF moves THEN InverseOf(file, n) ELSE None,
                                            IF moves THEN NewInverse(file, n, o) ELSE None)
    <2>1. n \in TypesOf(file) /\ o.name \in Names \ TypesOf(file)
        BY <1>1, <1>5 DEF RenameType, ConfigAssumption
    <2>2. NewInverse(file, n, o) \in Names \cup {None}
        BY <1>1, <2>1, ConfigTypes DEF NewInverse, ConfigAssumption
    <2>3. conv \in [Names \cup {None} -> Names \cup {None}]
        BY <2>1, <2>2, Conversions
    <2>4. Renamed(file, n, o) \in Config
        BY <1>1, <1>5, <2>1, TypeMakers DEF RenameType
    <2> HIDE DEF conv
    <2>5. Rewriting("rename", conv, Renamed(file, n, o), {}) \in Calls
        BY <2>3, <2>4, RewritingTypes DEF Rewrites
    <2>6. {conv[m] : m \in Moved(conv)} \ TypesOf(file) \subseteq Names
        <3>1. ASSUME NEW m \in Moved(conv) PROVE conv[m] \in Names
            <4>1. m \in Names /\ conv[m] # m /\ m # None
                BY <1>1 DEF Moved, ConfigAssumption
            <4>2. CASE conv[m] = o.name
                BY <2>1, <4>2
            <4>3. CASE conv[m] # o.name
                <5>1. conv[m] = NewInverse(file, n, o) /\ conv[m] # None
                    BY <4>1, <4>3 DEF conv, Renaming
                <5>. QED BY <2>2, <5>1
            <4>. QED BY <4>2, <4>3
        <3>. QED BY <3>1
    <2>7. /\ call' = Rewriting("rename", conv, Renamed(file, n, o), {})
          /\ loose' = loose \cup ({conv[m] : m \in Moved(conv)} \ TypesOf(file))
          /\ UNCHANGED <<file, ties>>
        BY <1>5 DEF RenameType, conv
    <2>. QED BY <1>1, <2>5, <2>6, <2>7 DEF TypeOK
<1>6. ASSUME NEW n \in Names, DeleteType(n)
      PROVE  TypeOK'
    BY <1>1, <1>6, ConfigMakers, SavesTypes DEF DeleteType
<1>7. ASSUME NEW n \in Names, NEW m \in Names, MigrateType(n, m)
      PROVE  TypeOK'
    <2> DEFINE conv == Renaming(n, m, InverseOf(file, n), InverseOf(file, m))
               next == Without(file, PairOf(file, n))
    <2>1. m \in TypesOf(file) /\ conv \in [Names \cup {None} -> Names \cup {None}]
        BY <1>1, <1>7, Conversions, ConfigTypes DEF MigrateType
    <2>2. next \in Config
        BY <1>1, ConfigMakers
    <2>3. call' = Rewriting("migrate", conv, next, {}) /\ UNCHANGED <<file, ties, loose>>
        BY <1>7 DEF MigrateType
    <2> HIDE DEF conv, next
    <2>4. call' \in Calls
        BY <2>1, <2>2, <2>3, RewritingTypes DEF Rewrites
    <2>. QED BY <1>1, <2>3, <2>4 DEF TypeOK
<1>8. ASSUME NEW n \in Names, NEW how \in {"cascade", "force"}, AskDeleteType(n, how)
      PROVE  TypeOK'
    BY <1>1, <1>8, PromptTypes DEF AskDeleteType, TypeOK
<1>9. ASSUME NEW g \in Categories, NEW p \in Policies, DefineCategory(g, p) \/ SetPolicy(g, p)
      PROVE  TypeOK'
    <2>1. [file EXCEPT !.categories[g] = p] \in Config
        BY <1>1, ConfigMakers DEF ConfigAssumption
    <2>. QED BY <1>1, <1>9, <2>1, SavesTypes DEF DefineCategory, SetPolicy
<1>10. ASSUME NEW g \in Categories, NEW h \in Categories,
              NEW p \in Policies \cup {file.categories[g]}, RenameCategory(g, h, p)
       PROVE  TypeOK'
    <2>1. p \in Policy \cup {None}
        BY <1>1 DEF ConfigAssumption, Config
    <2>2. Recategorised(file, g, h) \in Config
        BY <1>1, ConfigMakers
    <2>3. [Recategorised(file, g, h) EXCEPT !.categories[h] = p] \in Config
        BY <2>1, <2>2, ConfigMakers
    <2>. QED BY <1>1, <1>10, <2>3, SavesTypes DEF RenameCategory
<1>11. ASSUME NEW g \in Categories, NEW h \in Categories, MoveTypes(g, h)
       PROVE  TypeOK'
    BY <1>1, <1>11, ConfigMakers, SavesTypes DEF MoveTypes
<1>12. ASSUME NEW g \in Categories, DeleteCategory(g)
       PROVE  TypeOK'
    BY <1>1, <1>12, ConfigMakers, SavesTypes DEF DeleteCategory
<1>13. ASSUME NEW g \in Categories, NEW how \in {"cascade", "force"}, AskDeleteCategory(g, how)
       PROVE  TypeOK'
    BY <1>1, <1>13, PromptTypes DEF AskDeleteCategory, TypeOK
<1>14. ASSUME NEW d \in ImportFiles, NEW mode, Import(d, mode)
       PROVE  TypeOK'
    <2>1. d \in Config
        BY <1>1 DEF ConfigAssumption
    <2>. QED BY <1>1, <1>14, <2>1, ConfigMakers, SavesTypes DEF Import
<1>. QED BY <1>3, <1>4, <1>5, <1>6, <1>7, <1>8, <1>9, <1>10, <1>11, <1>12, <1>13, <1>14 DEF Command

\* What a command under way is about, when it is one that waits or rewrites.
LEMMA CallParts ==
    ASSUME call \in Calls
    PROVE  /\ call.op = "confirm" => IsPrompt(call)
           /\ call.op \in Rewrites => IsRewriting(call)
           /\ call.op = "idle" => call = Idle
           /\ Idle \in Calls /\ Idle.op = "idle"
<1>1. call = Idle \/ IsPrompt(call) \/ IsRewriting(call)
    BY CallShapes
<1>2. IsPrompt(call) => call.op = "confirm"
    BY DEF IsPrompt
<1>3. IsRewriting(call) => call.op \in Rewrites
    BY DEF IsRewriting
<1>. QED BY <1>1, <1>2, <1>3 DEF Calls, Idle, Rewrites

LEMMA StepTypes ==
    ASSUME TypeOK, Asked, [Next]_vars
    PROVE  TypeOK'
<1>1. CASE Begins /\ Command
    BY <1>1, CommandTypes
<1>2. CASE UNCHANGED vars
    BY <1>2 DEF TypeOK, vars
<1>3. ASSUME NEW k \in Ties, NEW n \in Names, LinkFeatures(k, n)
      PROVE  TypeOK'
    <2>1. InverseOf(file, n) \in Names \cup {None}
        BY <1>3, ConfigTypes DEF LinkFeatures, TypeOK
    <2>. QED BY <1>3, <2>1 DEF LinkFeatures, TypeOK
<1>4. ASSUME NEW f \in Features, ConvertFeature(f)
      PROVE  TypeOK'
    <2>1. IsRewriting(call)
        BY <1>4, CallParts DEF ConvertFeature, TypeOK
    <2>2. ties' \in [Ties -> [near : Names \cup {None}, far : Names \cup {None}]]
        <3>1. \A k \in Ties, s \in Sides : ties[k][s] \in Names \cup {None}
            BY DEF TypeOK, Sides
        <3>2. \A k \in Ties, s \in Sides : call.conv[ties[k][s]] \in Names \cup {None}
            BY <2>1, <3>1 DEF IsRewriting
        <3>3. \A k \in Ties : /\ ties'[k] = [s \in Sides |-> IF Holder(k, s) = f THEN call.conv[ties[k][s]]
                                                                           ELSE ties[k][s]]
                              /\ ties'[k]["near"] \in Names \cup {None}
                              /\ ties'[k]["far"] \in Names \cup {None}
            BY <1>4, <3>1, <3>2 DEF ConvertFeature, Sides
        <3>4. \A k \in Ties : ties'[k] = [near |-> ties'[k]["near"], far |-> ties'[k]["far"]]
            BY <3>3 DEF Sides
        <3>5. ties' = [k \in Ties |-> ties'[k]]
            BY <1>4 DEF ConvertFeature
        <3>. QED BY <3>3, <3>4, <3>5
    <2>3. call' = [op |-> call.op, conv |-> call.conv, todo |-> call.todo \ {f}, next |-> call.next,
                   rest |-> call.rest, whole |-> call.whole]
        BY <1>4, <2>1 DEF ConvertFeature, IsRewriting
    <2>4. call' \in Calls
        BY <2>1, <2>3, CallShapes DEF IsRewriting
    <2>. QED BY <1>4, <2>2, <2>4 DEF ConvertFeature, TypeOK
<1>5. CASE RenameSave \/ MigrateSave \/ DropSave
    <2>1. call.next \in Config
        BY <1>5, CallParts DEF RenameSave, MigrateSave, DropSave, Converted, TypeOK, IsRewriting, Rewrites
    <2>. QED BY <1>5, <2>1, CallParts DEF RenameSave, MigrateSave, DropSave, Saves, TypeOK
<1>6. CASE RenameRejected \/ Cancel \/ Stop
    BY <1>6, CallParts DEF RenameRejected, Cancel, Stop, TypeOK
<1>7. CASE CascadeType
    <2>1. /\ call' = Rewriting("drop", Removing(PairOf(file, call.name)),
                               Without(file, PairOf(file, call.name)), {})
          /\ UNCHANGED <<file, ties, loose, commands>>
        BY <1>7 DEF CascadeType, Dropping
    <2>2. call' \in Calls
        BY <2>1, ConfigMakers, Conversions, RewritingTypes DEF TypeOK, Rewrites
    <2>. QED BY <2>1, <2>2 DEF TypeOK
<1>8. CASE ForceType
    <2>1. /\ file' = Without(file, PairOf(file, call.name))
          /\ loose' = loose \cup PairOf(file, call.name)
          /\ call' = Idle /\ UNCHANGED <<ties, commands>>
        BY <1>8 DEF ForceType
    <2>2. PairOf(file, call.name) \subseteq Names
        BY <1>8, PairTypes DEF ForceType, Confirms, Asked, TypeOK
    <2>. QED BY <2>1, <2>2, ConfigMakers, CallParts DEF TypeOK
<1>9. CASE CascadeCategory
    <2> DEFINE all == UNION {PairOf(file, n) : n \in Members(file, call.name)}
               next == [Without(file, all) EXCEPT !.categories[call.name] = None]
    <2>1. call.name \in Categories
        BY <1>9 DEF CascadeCategory, Confirms, Asked, CategoriesOf
    <2>2. next \in Config
        <3>1. Without(file, all) \in Config
            BY ConfigMakers DEF TypeOK
        <3> HIDE DEF all
        <3>. QED BY <2>1, <3>1, ConfigMakers
    <2>3. PICK n \in Members(file, call.name) :
             call' = Rewriting("drop", Removing(PairOf(file, n)), next, Members(file, call.name) \ {n})
        BY <1>9 DEF CascadeCategory, Dropping
    <2>4. Members(file, call.name) \ {n} \in SUBSET Names
        BY DEF Members, TypesOf
    <2> HIDE DEF next
    <2>5. call' \in Calls
        BY <2>2, <2>3, <2>4, Conversions, RewritingTypes DEF Rewrites
    <2>. QED BY <1>9, <2>5 DEF CascadeCategory, TypeOK
<1>10. CASE ForceCategory
    <2>1. call.name \in Categories
        BY <1>10 DEF ForceCategory, Confirms, Asked, CategoriesOf
    <2>. QED BY <1>10, <2>1, CallParts, ConfigMakers DEF ForceCategory, Saves, TypeOK
<1>11. CASE DropNext
    <2>1. IsRewriting(call) /\ call.op = "drop"
        BY <1>11, CallParts DEF DropNext, Converted, TypeOK, Rewrites
    <2>2. PICK n \in call.rest :
             call' = [op |-> call.op, conv |-> Removing(PairOf(file, n)), todo |-> Holders(PairOf(file, n)),
                      next |-> call.next, rest |-> call.rest \ {n}, whole |-> call.whole]
        BY <1>11, <2>1 DEF DropNext, IsRewriting
    <2>3. call' \in Calls
        BY <2>1, <2>2, CallShapes, Conversions DEF IsRewriting, Holders
    <2>. QED BY <1>11, <2>3 DEF DropNext, TypeOK
<1>. QED BY <1>1, <1>2, <1>3, <1>4, <1>5, <1>6, <1>7, <1>8, <1>9, <1>10, <1>11 DEF Next

\* Only link runs while a deletion waits, and link leaves the configuration.
LEMMA StepAsked ==
    ASSUME TypeOK, Asked, [Next]_vars
    PROVE  Asked'
<1>1. Idle.op # "confirm" /\ (Begins => call.op # "confirm")
    BY DEF Idle, Begins
<1>2. ASSUME call'.op # "confirm" PROVE Asked'
    BY <1>2 DEF Asked
<1>3. ASSUME UNCHANGED <<file, call>> PROVE Asked'
    BY <1>3 DEF Asked, TypesOf, CategoriesOf
<1>4. ASSUME NEW op \in Rewrites, NEW conv, NEW next, NEW rest,
             call' = Rewriting(op, conv, next, rest)
      PROVE  Asked'
    BY <1>2, <1>4 DEF Rewriting, Rewrites
<1>5. CASE Begins /\ Command
    <2>1. ASSUME NEW n \in Names, NEW how, AskDeleteType(n, how)
          PROVE  Asked'
        BY <2>1 DEF AskDeleteType, Asked, TypesOf
    <2>2. ASSUME NEW g \in Categories, NEW how, AskDeleteCategory(g, how)
          PROVE  Asked'
        BY <2>2 DEF AskDeleteCategory, Asked, CategoriesOf
    <2>3. ASSUME NEW n \in Names, NEW o \in TypeOptions, RenameType(n, o)
          PROVE  Asked'
        BY <1>4, <2>3 DEF RenameType, Rewrites
    <2>4. ASSUME NEW n \in Names, NEW m \in Names, MigrateType(n, m)
          PROVE  Asked'
        BY <1>4, <2>4 DEF MigrateType, Rewrites
    <2>5. ASSUME UNCHANGED call
          PROVE  Asked'
        BY <1>1, <1>2, <1>5, <2>5
    <2>. QED BY <1>5, <2>1, <2>2, <2>3, <2>4, <2>5
         DEF Command, DefineType, UpdateType, DeleteType, DefineCategory, SetPolicy, RenameCategory,
             MoveTypes, DeleteCategory, Import
<1>6. CASE UNCHANGED vars \/ \E k \in Ties, n \in Names : LinkFeatures(k, n)
    BY <1>3, <1>6 DEF LinkFeatures, vars
<1>7. CASE (\E f \in Features : ConvertFeature(f)) \/ DropNext
    <2>1. IsRewriting(call)
        BY <1>7, CallParts DEF ConvertFeature, DropNext, Converted, TypeOK, Rewrites
    <2>2. call'.op = call.op
        BY <1>7, <2>1 DEF ConvertFeature, DropNext, IsRewriting
    <2>. QED BY <1>2, <2>1, <2>2 DEF IsRewriting, Rewrites
<1>8. CASE CascadeType \/ CascadeCategory
    BY <1>4, <1>8 DEF CascadeType, CascadeCategory, Dropping, Rewrites
<1>9. CASE RenameSave \/ RenameRejected \/ MigrateSave \/ ForceType \/ ForceCategory \/ Cancel \/ DropSave \/ Stop
    BY <1>1, <1>2, <1>9
    DEF RenameSave, RenameRejected, MigrateSave, ForceType, ForceCategory, Cancel, DropSave, Stop
<1>. QED BY <1>5, <1>6, <1>7, <1>8, <1>9 DEF Next

LEMMA InitTypes == Init => TypeOK /\ Asked /\ Loadable
<1>1. ConfigAssumption
    BY ConfigAssumption
<1>. QED BY <1>1 DEF Init, TypeOK, Asked, Loadable, Calls, Idle, ConfigAssumption

\* Every configuration, relationship type and command under way is one the
\* code's data types allow (Config and RelationshipSystem of pkg/fogit).
THEOREM TypeCorrect == Spec => []TypeOK
<1>1. Init => TypeOK /\ Asked
    BY InitTypes
<1>2. TypeOK /\ Asked /\ [Next]_vars => TypeOK' /\ Asked'
    BY StepTypes, StepAsked
<1>. QED BY <1>1, <1>2, PTL DEF Spec
-----------------------------------------------------------------------------
(* What a careful user's commands save can be loaded.                      *)

\* A type that may be dropped goes with its inverse and leaves a valid rest.
LEMMA PairDrops ==
    ASSUME NEW c \in Config, Valid(c), NEW n \in TypesOf(c), TreeType \notin PairOf(c, n)
    PROVE  Valid(Without(c, PairOf(c, n)))
BY PairClosed, DropLoads

\* So do the types of a category, with the category.
LEMMA CategoryDrops ==
    ASSUME NEW c \in Config, Valid(c), NEW g \in Categories \ {DefaultCategory},
           \A n \in Members(c, g) : TreeType \notin PairOf(c, n)
    PROVE  Valid([Without(c, UNION {PairOf(c, n) : n \in Members(c, g)}) EXCEPT !.categories[g] = None])
<1> DEFINE all == UNION {PairOf(c, n) : n \in Members(c, g)}
<1>1. TreeType \notin all /\ Members(c, g) \subseteq all
    BY PairClosed DEF Members
<1>2. \A m \in TypesOf(c) : InverseOf(c, m) \in all => m \in all
    <2>1. ASSUME NEW m \in TypesOf(c), NEW n \in Members(c, g), InverseOf(c, m) \in PairOf(c, n)
          PROVE  m \in PairOf(c, n)
        BY <2>1, PairClosed DEF Members
    <2>. QED BY <2>1
<1> HIDE DEF all
<1>3. Valid([Without(c, all) EXCEPT !.categories[g] = None])
    BY <1>1, <1>2, DropLoads
<1>. QED BY <1>3 DEF all

\* A category may be added or get another policy that can be loaded.
LEMMA PolicyLoads ==
    ASSUME NEW c \in Config, Valid(c), NEW g \in Categories, NEW p \in Policy,
           p.allow => p.detection = "none"
    PROVE  Valid([c EXCEPT !.categories[g] = p])
<1> DEFINE d == [c EXCEPT !.categories[g] = p]
<1>1. /\ d.types = c.types
      /\ \A x \in Categories : d.categories[x] = IF x = g THEN p ELSE c.categories[x]
    BY DEF Config
<1>2. TypesOf(d) = TypesOf(c) /\ \A n : InverseOf(d, n) = InverseOf(c, n)
    BY <1>1 DEF TypesOf, InverseOf
<1>3. CategoriesOf(d) = CategoriesOf(c) \cup {g}
    BY <1>1, ConfigAssumption DEF CategoriesOf
<1>4. \A x \in CategoriesOf(d) : d.categories[x].allow => d.categories[x].detection = "none"
    BY <1>1, <1>3 DEF Valid, CategoriesOf
<1> HIDE DEF d
<1>. QED BY <1>1, <1>2, <1>3, <1>4 DEF Valid, d

LEMMA CommandLoads ==
    ASSUME Careful, TypeOK, Begins, Command
    PROVE  Loadable'
<1>1. /\ file \in Config /\ Valid(file) /\ ConfigAssumption
      /\ call.op = "idle" /\ Policies \subseteq Policy
    BY ConfigAssumption DEF TypeOK, Begins, Idle
<1>2. ASSUME NEW c, Valid(c), Saves(c), UNCHANGED call
      PROVE  Loadable'
    BY <1>1, <1>2 DEF Loadable, Saves, Valid
<1>3. ASSUME UNCHANGED file,
             call'.op \in Rewrites, call'.op \in {"migrate", "drop"} => Valid(call'.next)
      PROVE  Loadable'
    BY <1>1, <1>3 DEF Loadable, Rewrites, Valid
<1>4. ASSUME NEW n \in Names, NEW t \in TypeDef, DefineType(n, t)
      PROVE  Loadable'
    BY <1>2, <1>4 DEF DefineType
<1>5. ASSUME NEW n \in Names, NEW o \in TypeOptions, UpdateType(n, o)
      PROVE  Loadable'
    BY <1>2, <1>5 DEF UpdateType
<1>6. ASSUME NEW n \in Names, NEW o \in TypeOptions, RenameType(n, o)
      PROVE  Loadable'
    BY <1>3, <1>6 DEF RenameType, Rewriting, Rewrites
<1>7. ASSUME NEW n \in Names, DeleteType(n)
      PROVE  Loadable'
    BY <1>1, <1>2, <1>7, PairDrops DEF DeleteType, SafeToDrop
<1>8. ASSUME NEW n \in Names, NEW m \in Names, MigrateType(n, m)
      PROVE  Loadable'
    <2>1. Valid(Without(file, PairOf(file, n)))
        BY <1>1, <1>8, PairDrops DEF MigrateType, SafeToDrop
    <2>. QED BY <1>3, <1>8, <2>1 DEF MigrateType, Rewriting, Rewrites
<1>9. ASSUME NEW n \in Names, NEW how, AskDeleteType(n, how)
      PROVE  Loadable'
    BY <1>1, <1>9 DEF AskDeleteType, SafeToDrop, Loadable, Valid
<1>10. ASSUME NEW g \in Categories, NEW p \in Policies, DefineCategory(g, p) \/ SetPolicy(g, p)
       PROVE  Loadable'
    BY <1>1, <1>2, <1>10, PolicyLoads DEF DefineCategory, SetPolicy
<1>11. ASSUME NEW g \in Categories, NEW h \in Categories,
              NEW p \in Policies \cup {file.categories[g]}, RenameCategory(g, h, p)
       PROVE  Loadable'
    <2>1. p \in Policy
        BY <1>1, <1>11 DEF RenameCategory, CategoriesOf, Config
    <2>2. g # DefaultCategory /\ h # g /\ (p.allow => p.detection = "none")
        BY <1>11 DEF RenameCategory
    <2>3. Valid([Recategorised(file, g, h) EXCEPT !.categories[h] = p])
        BY <1>1, <2>1, <2>2, RecategorisedLoads
    <2>. QED BY <1>2, <1>11, <2>3 DEF RenameCategory
<1>12. ASSUME NEW g \in Categories, NEW h \in Categories, MoveTypes(g, h)
       PROVE  Loadable'
    <2>1. g \notin {DefaultCategory, h} /\ h \in CategoriesOf(file)
        BY <1>12 DEF MoveTypes
    <2>2. Policy # {} /\ \E p \in Policy : ~p.allow
        <3>1. [allow |-> FALSE, detection |-> "none"] \in Policy
            BY DEF Policy, Modes
        <3>. QED BY <3>1
    <2>3. Valid(Recategorised(file, g, h))
        BY <1>1, <2>1, <2>2, RecategorisedLoads
    <2>. QED BY <1>2, <1>12, <2>3 DEF MoveTypes
<1>13. ASSUME NEW g \in Categories, DeleteCategory(g)
       PROVE  Loadable'
    <2>1. g # DefaultCategory /\ Members(file, g) = {}
        BY <1>13 DEF DeleteCategory
    <2>2. Without(file, {}) = file
        BY <1>1 DEF Without, Config
    <2>3. Valid([Without(file, {}) EXCEPT !.categories[g] = None])
        BY <1>1, <2>1, DropLoads
    <2>. QED BY <1>2, <1>13, <2>2, <2>3 DEF DeleteCategory
<1>14. ASSUME NEW g \in Categories, NEW how, AskDeleteCategory(g, how)
       PROVE  Loadable'
    BY <1>1, <1>14 DEF AskDeleteCategory, SafeToDrop, Loadable, Valid, Members
<1>15. ASSUME NEW d \in ImportFiles, NEW mode, Import(d, mode)
       PROVE  Loadable'
    BY <1>2, <1>15 DEF Import
<1>. QED BY <1>4, <1>5, <1>6, <1>7, <1>8, <1>9, <1>10, <1>11, <1>12, <1>13, <1>14, <1>15 DEF Command

LEMMA StepLoads ==
    ASSUME Careful, TypeOK, Asked, LoadsInv, [Next]_vars
    PROVE  LoadsInv'
<1>1. Idle.op = "idle" /\ file \in Config
    BY DEF Idle, TypeOK
<1>2. CASE UNCHANGED vars
    BY <1>2 DEF vars, LoadsInv, Loadable, Stranded, Valid, Members, TypesOf
<1>3. ASSUME ~UNCHANGED vars, Stranded
      PROVE  FALSE
    <2>1. ~Valid(file)
        BY <1>3, ConfigAssumption DEF Stranded, Valid, CategoriesOf
    <2>. QED BY <1>1, <1>3, <2>1
         DEF Stranded, Next, Begins, LinkFeatures, ConvertFeature, RenameSave, RenameRejected, MigrateSave,
             DropNext, DropSave, Converted, CascadeType, ForceType, CascadeCategory, ForceCategory,
             Confirms, Cancel, Stop, Rewrites
<1> SUFFICES ASSUME ~UNCHANGED vars PROVE LoadsInv'
    BY <1>2
<1>4. Loadable /\ Valid(file)
    BY <1>3 DEF LoadsInv, Loadable
<1>5. ASSUME UNCHANGED file, call'.op = "idle"
      PROVE  LoadsInv'
    BY <1>4, <1>5 DEF LoadsInv, Loadable, Valid
<1>6. ASSUME Valid(file)', call' = Idle
      PROVE  LoadsInv'
    BY <1>1, <1>6 DEF LoadsInv, Loadable
<1>7. ASSUME UNCHANGED file, call'.op \in Rewrites,
             call'.op \in {"migrate", "drop"} => Valid(call'.next)
      PROVE  LoadsInv'
    BY <1>4, <1>7 DEF LoadsInv, Loadable, Rewrites, Valid
<1>8. CASE Begins /\ Command
    BY <1>8, CommandLoads DEF LoadsInv
<1>9. ASSUME NEW k \in Ties, NEW n \in Names, LinkFeatures(k, n)
      PROVE  LoadsInv'
    BY <1>4, <1>9 DEF LinkFeatures, LoadsInv, Loadable, Valid, Members, TypesOf
<1>10. ASSUME NEW f \in Features, ConvertFeature(f)
       PROVE  LoadsInv'
    <2>1. IsRewriting(call)
        BY <1>10, CallParts DEF ConvertFeature, TypeOK
    <2>2. call'.op = call.op /\ call'.next = call.next /\ UNCHANGED file
        BY <1>10, <2>1 DEF ConvertFeature, IsRewriting
    <2>. QED BY <1>4, <1>7, <2>1, <2>2 DEF IsRewriting, Loadable
<1>11. CASE DropNext
    <2>1. IsRewriting(call) /\ call.op = "drop"
        BY <1>11, CallParts DEF DropNext, Converted, TypeOK, Rewrites
    <2>2. call'.op = call.op /\ call'.next = call.next /\ UNCHANGED file
        BY <1>11, <2>1 DEF DropNext, IsRewriting
    <2>. QED BY <1>4, <1>7, <2>1, <2>2 DEF IsRewriting, Loadable
<1>12. CASE RenameSave \/ MigrateSave \/ DropSave
    <2>1. Valid(call.next)
        BY <1>4, <1>12 DEF RenameSave, MigrateSave, DropSave, Converted, Loadable
    <2>2. Valid(file')
        BY <1>12, <2>1 DEF RenameSave, MigrateSave, DropSave, Saves
    <2>. QED BY <1>6, <1>12, <2>2 DEF RenameSave, MigrateSave, DropSave, Valid
<1>13. CASE RenameRejected \/ Cancel \/ Stop
    BY <1>1, <1>5, <1>13 DEF RenameRejected, Cancel, Stop
<1>14. CASE CascadeType \/ ForceType
    <2>1. Valid(Without(file, PairOf(file, call.name)))
        BY <1>1, <1>4, <1>14, PairDrops DEF CascadeType, ForceType, Confirms, Asked, Loadable
    <2>2. CASE CascadeType
        BY <1>7, <2>1, <2>2 DEF CascadeType, Dropping, Rewriting, Rewrites
    <2>3. CASE ForceType
        BY <1>6, <2>1, <2>3 DEF ForceType, Valid
    <2>. QED BY <1>14, <2>2, <2>3
<1>15. CASE CascadeCategory
    <2> DEFINE next == [Without(file, UNION {PairOf(file, n) : n \in Members(file, call.name)})
                            EXCEPT !.categories[call.name] = None]
    <2>1. call.name \in Categories \ {DefaultCategory}
        BY <1>4, <1>15 DEF CascadeCategory, Confirms, Asked, Loadable, CategoriesOf
    <2>2. Valid(next)
        BY <1>1, <1>4, <1>15, <2>1, CategoryDrops DEF CascadeCategory, Confirms, Loadable
    <2>3. PICK conv, rest : call' = Rewriting("drop", conv, next, rest)
        BY <1>15 DEF CascadeCategory, Dropping
    <2> HIDE DEF next
    <2>. QED BY <1>7, <1>15, <2>2, <2>3 DEF CascadeCategory, Rewriting, Rewrites
<1>16. CASE ForceCategory
    <2>1. PICK n \in Members(file, call.name) : TRUE
        BY <1>4, <1>16 DEF ForceCategory, Confirms, Loadable
    <2>2. n \in Names /\ file.types[n] \in TypeDef
        BY <1>1, ConfigTypes DEF Members
    <2>3. file'.types[n] = [file.types[n] EXCEPT !.category = None] /\ call' = Idle
        BY <1>16, <2>1, <2>2 DEF ForceCategory, Saves, Recategorised
    <2>4. file'.types[n].category = None /\ file'.types[n] \in TypeDef
        BY <2>2, <2>3 DEF TypeDef
    <2>. QED BY <2>2, <2>3, <2>4, ConfigAssumption DEF LoadsInv, Stranded, TypesOf
<1>. QED BY <1>8, <1>9, <1>10, <1>11, <1>12, <1>13, <1>14, <1>15, <1>16 DEF Next

\* A careful user never meets a configuration that config.Load refuses, other
\* than after the deletion of a category by force.
THEOREM ConfigLoadsAlways ==
    ASSUME Careful
    PROVE  Spec => []ConfigLoads
<1>1. Init => TypeOK /\ Asked /\ LoadsInv
    BY InitTypes DEF LoadsInv
<1>2. TypeOK /\ Asked /\ LoadsInv /\ [Next]_vars => TypeOK' /\ Asked' /\ LoadsInv'
    BY StepTypes, StepAsked, StepLoads
<1>3. LoadsInv => ConfigLoads
    BY DEF LoadsInv, Loadable, Stranded, ConfigLoads
<1>. QED BY <1>1, <1>2, <1>3, PTL DEF Spec
-----------------------------------------------------------------------------
(* What a careful user's commands leave in the features is configured.     *)

\* The names that features may have when the command under way is at its end:
\* those it is going to save, and those it has not come to yet.
Later(rest) == UNION {PairOf(file, n) : n \in rest}
Staying == TypesOf(call.next) \cup loose \cup Later(call.rest)

\* A half is rewritten to a name that is configured, now or at the end, and one
\* that is not to be rewritten has such a name.
HalvesInv ==
    /\ TypesConfigured
    /\ call.op \in Rewrites =>
          /\ call.op # "drop" => call.rest = {}
          /\ call.conv[None] = None
          /\ \A x \in TypesOf(file) \cup loose : call.conv[x] \in TypesOf(file) \cup loose \cup {None}
          /\ \A k \in Ties, s \in Sides :
                ties[k][s] # None =>
                    IF Holder(k, s) \in call.todo THEN call.conv[ties[k][s]] \in Staying \cup {None}
                    ELSE ties[k][s] \in Staying

LEMMA TieNames ==
    ASSUME TypeOK
    PROVE  \A k \in Ties, s \in Sides : ties[k][s] \in Names \cup {None} /\ Holder(k, s) \in Features
BY ConfigAssumption DEF TypeOK, Sides, Holder

LEMMA HalvesInUse ==
    /\ \A k \in Ties, s \in Sides : ties[k][s] # None => ties[k][s] \in InUse
    /\ \A n \in InUse : n # None /\ \E k \in Ties, s \in Sides : n = ties[k][s]
BY DEF InUse

\* A rewriting begins that sends every name in use to one that stays.
LEMMA RewritingBegins ==
    ASSUME TypeOK, TypesConfigured, UNCHANGED <<file, ties>>, loose \subseteq loose',
           NEW op, NEW conv \in [Names \cup {None} -> Names \cup {None}], NEW next, NEW rest,
           call' = Rewriting(op, conv, next, rest), conv[None] = None,
           op # "drop" => rest = {},
           \A x \in TypesOf(file) \cup loose' : conv[x] \in TypesOf(file) \cup loose' \cup {None},
           \A x \in TypesOf(file) \cup loose :
              conv[x] \in TypesOf(next) \cup loose' \cup Later(rest) \cup {None}
    PROVE  HalvesInv'
<1>1. /\ call'.op = op /\ call'.conv = conv /\ call'.todo = Holders(Moved(conv))
      /\ call'.next = next /\ call'.rest = rest
    BY DEF Rewriting
<1>2. TypesOf(file)' = TypesOf(file) /\ InUse' = InUse /\ \A S : Later(S)' = Later(S)
    BY DEF TypesOf, InUse, Later, PairOf, InverseOf
<1>3. TypesConfigured'
    BY <1>2 DEF TypesConfigured
<1>4. Staying' = TypesOf(next) \cup loose' \cup Later(rest)
    BY <1>1, <1>2 DEF Staying, TypesOf
<1>5. ASSUME NEW k \in Ties, NEW s \in Sides, ties[k][s] # None
      PROVE  IF Holder(k, s) \in call'.todo THEN conv[ties[k][s]] \in Staying' \cup {None}
             ELSE ties[k][s] \in Staying'
    <2>1. ties[k][s] \in Names /\ ties[k][s] \in TypesOf(file) \cup loose
        BY <1>5, TieNames, HalvesInUse DEF TypesConfigured
    <2>2. conv[ties[k][s]] \in Staying' \cup {None}
        <3>1. conv[ties[k][s]] \in TypesOf(next) \cup loose' \cup Later(rest) \cup {None}
            BY <2>1
        <3>. QED BY <1>4, <3>1
    <2>3. Holder(k, s) \notin call'.todo => conv[ties[k][s]] = ties[k][s]
        BY <1>1, <2>1, TieNames DEF Holders, Moved
    <2>. QED BY <1>5, <2>2, <2>3
<1>. QED BY <1>1, <1>2, <1>3, <1>5 DEF HalvesInv, Holder

\* Which types there are in a configuration made of another.
LEMMA MakersTypes ==
    ASSUME NEW c \in Config
    PROVE  /\ \A n \in Names, t \in TypeDef : TypesOf(WithType(c, n, t)) = TypesOf(c) \cup {n}
           /\ \A S : TypesOf(Without(c, S)) = TypesOf(c) \ S
           /\ \A g, p : TypesOf([c EXCEPT !.categories[g] = p]) = TypesOf(c)
           /\ \A g, h \in Categories \cup {None} : TypesOf(Recategorised(c, g, h)) = TypesOf(c)
           /\ \A d \in Config : \A mode : TypesOf(c) \subseteq TypesOf(Merged(c, d, mode))
<1>1. \A n \in Names, t \in TypeDef : TypesOf(WithType(c, n, t)) = TypesOf(c) \cup {n}
    BY ConfigAssumption DEF TypesOf, WithType, Config
<1>2. \A S : TypesOf(Without(c, S)) = TypesOf(c) \ S
    BY DEF TypesOf, Without, Config
<1>3. \A g, p : TypesOf([c EXCEPT !.categories[g] = p]) = TypesOf(c)
    BY DEF TypesOf, Config
<1>4. ASSUME NEW g, NEW h \in Categories \cup {None}
      PROVE  TypesOf(Recategorised(c, g, h)) = TypesOf(c)
    <2>1. \A n \in Members(c, g) : c.types[n] \in TypeDef /\ n \in TypesOf(c)
        BY ConfigTypes DEF Members
    <2>2. \A n \in Members(c, g) : [c.types[n] EXCEPT !.category = h] # None
        <3>1. \A n \in Members(c, g) : [c.types[n] EXCEPT !.category = h] \in TypeDef
            BY <2>1 DEF TypeDef
        <3>. QED BY <3>1, ConfigAssumption
    <2>. QED BY <2>1, <2>2 DEF TypesOf, Recategorised
<1>5. \A d \in Config : \A mode : TypesOf(c) \subseteq TypesOf(Merged(c, d, mode))
    BY DEF TypesOf, Merged, Config
<1>. QED BY <1>1, <1>2, <1>3, <1>4, <1>5

\* The names of the configuration that a rename is going to save.
LEMMA RenamedTypes ==
    ASSUME NEW c \in Config, Valid(c), NEW n \in TypesOf(c), NEW o \in TypeOptions,
           o.name \notin TypesOf(c) \cup {None}
    PROVE  LET moves == InverseMoves(c, n, o)
               kept  == IF moves THEN TypesOf(c) \ {n, InverseOf(c, n)} ELSE TypesOf(c) \ {n}
           IN  /\ kept \cup {o.name} \subseteq TypesOf(Renamed(c, n, o))
               /\ moves => NewInverse(c, n, o) \in TypesOf(Renamed(c, n, o))
<1> DEFINE old    == InverseOf(c, n)
           new    == NewInverse(c, n, o)
           t      == Updated(c.types[n], o)
           moved  == WithType(Without(c, {n}), o.name, t)
           turned == [c.types[old] EXCEPT !.inverse = o.name]
<1>1. \A d \in Config, x \in Names, u \in TypeDef : TypesOf(WithType(d, x, u)) = TypesOf(d) \cup {x}
    BY MakersTypes
<1>2. \A d \in Config : \A S : TypesOf(Without(d, S)) = TypesOf(d) \ S
    BY MakersTypes
<1>3. o.name \in Names /\ o.renameInverse \in Names \cup {None} /\ t \in TypeDef /\ n \in Names
    BY ConfigAssumption, TypeMakers, ConfigTypes
<1>4. moved \in Config /\ TypesOf(moved) = (TypesOf(c) \ {n}) \cup {o.name}
    BY <1>1, <1>2, <1>3, ConfigMakers
<1>5. InverseMoves(c, n, o) <=> old \in TypesOf(c) \ {n} /\ ~t.both /\ new # old
    BY DEF InverseMoves
<1>6. CASE t.both \/ old \notin TypesOf(moved)
    BY <1>4, <1>5, <1>6 DEF Renamed
<1>7. CASE ~t.both /\ old \in TypesOf(moved)
    <2>1. old \in TypesOf(c) \ {n} /\ old \in Names /\ old # None /\ old # o.name
        <3>1. old \in Names /\ old # None
            BY <1>7, ConfigAssumption DEF TypesOf
        <3>2. old \in TypesOf(c)
            BY <3>1 DEF Valid
        <3>. QED BY <1>4, <1>7, <3>1, <3>2
    <2>2. turned \in TypeDef
        BY <1>3, <2>1, ConfigTypes DEF TypeDef
    <2> HIDE DEF turned, t, moved
    <2>3. CASE new = old
        <3>1. Renamed(c, n, o) = WithType(moved, old, turned)
            BY <1>7, <2>3 DEF Renamed, turned, t, moved
        <3>. QED BY <1>1, <1>4, <1>5, <2>1, <2>2, <2>3, <3>1
    <2>4. CASE new # old
        <3> DEFINE again   == [t EXCEPT !.inverse = new]
                   without == Without(moved, {old})
                   renewed == WithType(without, new, turned)
        <3>1. Renamed(c, n, o) = WithType(renewed, o.name, again)
            BY <1>7, <2>4 DEF Renamed, turned, t, moved
        <3>2. new \in Names /\ again \in TypeDef
            BY <1>3, <2>1 DEF NewInverse, TypeDef
        <3>3. without \in Config /\ TypesOf(without) = TypesOf(moved) \ {old}
            BY <1>2, <1>4, ConfigMakers
        <3> HIDE DEF again, without, new
        <3>4. renewed \in Config /\ TypesOf(renewed) = TypesOf(without) \cup {new}
            BY <1>1, <2>2, <3>2, <3>3, ConfigMakers
        <3> HIDE DEF renewed
        <3>5. TypesOf(Renamed(c, n, o)) = TypesOf(renewed) \cup {o.name}
            BY <1>1, <1>3, <3>1, <3>2, <3>4
        <3>6. InverseMoves(c, n, o)
            BY <1>5, <1>7, <2>1, <2>4 DEF new
        <3>. QED BY <1>4, <3>3, <3>4, <3>5, <3>6 DEF new
    <2>. QED BY <2>3, <2>4
<1>. QED BY <1>6, <1>7

\* A name is converted to itself or to the name of a rewriting.
LEMMA RenamingValues ==
    ASSUME NEW old, NEW new, NEW oldInverse, NEW newInverse, NEW x \in Names \cup {None}
    PROVE  LET conv  == Renaming(old, new, oldInverse, newInverse)
               turns == None \notin {oldInverse, newInverse} /\ oldInverse # newInverse
           IN  /\ conv[x] \in {x, new, newInverse}
               /\ x = oldInverse /\ turns => conv[x] = newInverse
               /\ x = old /\ ~(x = oldInverse /\ turns) => conv[x] = new
               /\ x # old /\ ~(x = oldInverse /\ turns) => conv[x] = x
BY DEF Renaming

LEMMA RenameHalves ==
    ASSUME TypeOK, TypesConfigured, Valid(file), NEW n \in Names, NEW o \in TypeOptions, RenameType(n, o)
    PROVE  HalvesInv'
<1> DEFINE moves == InverseMoves(file, n, o)
           old   == IF moves THEN InverseOf(file, n) ELSE None
           new   == IF moves THEN NewInverse(file, n, o) ELSE None
           conv  == Renaming(n, o.name, old, new)
           next  == Renamed(file, n, o)
<1>1. /\ n \in TypesOf(file) /\ o.name \in Names \ TypesOf(file) /\ o.name # None
      /\ file \in Config /\ loose \subseteq Names
    BY ConfigAssumption DEF RenameType, TypeOK
<1>2. NewInverse(file, n, o) \in Names \cup {None}
    BY <1>1, ConfigTypes, ConfigAssumption DEF NewInverse
<1>3. moves => /\ InverseOf(file, n) \in TypesOf(file) \ {n} /\ InverseOf(file, n) # None
               /\ NewInverse(file, n, o) # InverseOf(file, n) /\ NewInverse(file, n, o) # None
    BY <1>1, ConfigAssumption DEF InverseMoves, NewInverse, TypesOf
<1>4. /\ conv \in [Names \cup {None} -> Names \cup {None}]
      /\ call' = Rewriting("rename", conv, next, {}) /\ UNCHANGED <<file, ties>>
      /\ loose' = loose \cup ({conv[m] : m \in Moved(conv)} \ TypesOf(file))
    BY <1>1, <1>2, Conversions DEF RenameType
<1>5. /\ (TypesOf(file) \ {n, old}) \cup {o.name} \subseteq TypesOf(next)
      /\ moves => new \in TypesOf(next)
    BY <1>1, RenamedTypes
<1> HIDE DEF conv, next
<1>6. ASSUME NEW x \in TypesOf(file) \cup loose'
      PROVE  conv[x] \in TypesOf(file) \cup loose' \cup {None}
    <2>1. x \in Names \cup {None}
        BY <1>1, <1>4 DEF TypesOf, Moved
    <2>2. CASE x \in Names /\ conv[x] # x
        <3>1. x \in Moved(conv)
            BY <2>2 DEF Moved
        <3>. QED BY <1>4, <3>1
    <2>3. CASE x = None
        BY <1>1, <1>3, <2>3, ConfigAssumption, RenamingValues DEF conv
    <2>. QED BY <2>1, <2>2, <2>3
<1>7. ASSUME NEW x \in TypesOf(file) \cup loose
      PROVE  conv[x] \in TypesOf(next) \cup loose' \cup {None}
    <2>1. x \in Names /\ x # None
        BY <1>1, ConfigAssumption DEF TypesOf
    <2>2. CASE x = old
        BY <1>3, <1>5, <2>1, <2>2, RenamingValues DEF conv
    <2>3. CASE x # old /\ x = n
        BY <1>5, <2>1, <2>3, RenamingValues DEF conv
    <2>4. CASE x \notin {n, old}
        <3>1. conv[x] = x
            BY <2>1, <2>4, RenamingValues DEF conv
        <3>. QED BY <1>4, <1>5, <2>4, <3>1
    <2>. QED BY <2>2, <2>3, <2>4
<1>8. conv[None] = None
    BY <1>1, <1>3, ConfigAssumption, RenamingValues DEF conv
<1>. QED BY <1>4, <1>6, <1>7, <1>8, RewritingBegins

LEMMA MigrateHalves ==
    ASSUME Careful, TypeOK, TypesConfigured, Valid(file), NEW n \in Names, NEW m \in Names, MigrateType(n, m)
    PROVE  HalvesInv'
<1> DEFINE old  == InverseOf(file, n)
           new  == InverseOf(file, m)
           conv == Renaming(n, m, old, new)
           next == Without(file, PairOf(file, n))
<1>1. /\ n \in TypesOf(file) /\ m \in TypesOf(file) \ PairOf(file, n) /\ (old # None => new # None)
      /\ file \in Config /\ loose \subseteq Names
    BY DEF MigrateType, SafeTarget, TypeOK
<1>2. new \in (TypesOf(file) \ PairOf(file, n)) \cup {None}
    BY <1>1, PairClosed DEF PairOf
<1>3. old # None => old # new
    BY <1>1, <1>2 DEF PairOf
<1>4. /\ conv \in [Names \cup {None} -> Names \cup {None}]
      /\ call' = Rewriting("migrate", conv, next, {}) /\ UNCHANGED <<file, ties, loose>>
    <2>1. new \in Names \cup {None}
        BY <1>2 DEF TypesOf
    <2>. QED BY <2>1, Conversions DEF MigrateType
<1>5. TypesOf(next) = TypesOf(file) \ PairOf(file, n)
    BY <1>1 DEF TypesOf, Without, Config
<1> HIDE DEF next
<1>6. ASSUME NEW x \in TypesOf(file) \cup loose
      PROVE  conv[x] \in TypesOf(next) \cup loose \cup {None}
    <2>1. x \in Names /\ x # None
        BY <1>1, ConfigAssumption DEF TypesOf
    <2>2. CASE x = old
        BY <1>1, <1>2, <1>3, <1>5, <2>1, <2>2, RenamingValues
    <2>3. CASE x # old /\ x = n
        BY <1>1, <1>5, <2>1, <2>3, RenamingValues
    <2>4. CASE x \notin {n, old}
        <3>1. conv[x] = x
            BY <2>1, <2>4, RenamingValues
        <3>2. x \notin PairOf(file, n)
            BY <2>4 DEF PairOf
        <3>. QED BY <1>5, <3>1, <3>2
    <2>. QED BY <2>2, <2>3, <2>4
<1>7. conv[None] = None
    BY <1>1, ConfigAssumption, RenamingValues DEF TypesOf
<1> HIDE DEF conv
<1>. QED BY <1>4, <1>5, <1>6, <1>7, RewritingBegins

LEMMA DropHalves ==
    ASSUME TypeOK, TypesConfigured, NEW S, NEW next, NEW rest,
           call' = Dropping(S, next, rest), UNCHANGED <<file, ties, loose>>,
           TypesOf(file) \subseteq S \cup TypesOf(next) \cup Later(rest)
    PROVE  HalvesInv'
<1> DEFINE conv == Removing(S)
<1>1. conv \in [Names \cup {None} -> Names \cup {None}] /\ call' = Rewriting("drop", conv, next, rest)
    BY Conversions DEF Dropping
<1>2. \A x \in TypesOf(file) \cup loose : x \in Names /\ conv[x] = IF x \in S THEN None ELSE x
    BY DEF TypeOK, TypesOf, Removing
<1>3. conv[None] = None
    BY DEF Removing
<1> HIDE DEF conv
<1>. QED BY <1>1, <1>2, <1>3, RewritingBegins

LEMMA CommandHalves ==
    ASSUME Careful, TypeOK, TypesConfigured, Begins, Command
    PROVE  HalvesInv'
<1>1. /\ file \in Config /\ Valid(file) /\ call.op = "idle" /\ "idle" \notin Rewrites
    BY DEF TypeOK, Begins, Idle, Rewrites
<1>2. ASSUME NEW c, InUse \cap TypesOf(file) \subseteq TypesOf(c), Saves(c), UNCHANGED <<ties, call>>
      PROVE  HalvesInv'
    BY <1>1, <1>2 DEF HalvesInv, TypesConfigured, Saves, InUse, TypesOf
<1>3. ASSUME UNCHANGED <<file, ties, loose>>, call'.op = "confirm"
      PROVE  HalvesInv'
    BY <1>3 DEF HalvesInv, TypesConfigured, InUse, TypesOf, Rewrites
<1>4. ASSUME NEW n \in Names, NEW t \in TypeDef, DefineType(n, t)
      PROVE  HalvesInv'
    <2>1. TypesOf(file) \subseteq TypesOf(Defined(file, n, t))
        <3> DEFINE added == WithType(file, n, t)
                   i     == t.inverse
                   other == [category |-> t.category, inverse |-> n, both |-> FALSE]
        <3>1. added \in Config /\ TypesOf(file) \subseteq TypesOf(added) /\ i \in Names \cup {None}
            BY <1>1, ConfigMakers, MakersTypes DEF TypeDef
        <3> HIDE DEF added
        <3>2. CASE i = None
            BY <3>1, <3>2 DEF Defined, added
        <3>3. CASE i # None /\ i \in TypesOf(added)
            <4>1. Defined(file, n, t) = [added EXCEPT !.types[i].inverse = n]
                BY <3>3 DEF Defined, added
            <4>2. added.types[i] \in TypeDef
                BY <3>1, <3>3, ConfigTypes
            <4>3. [added.types[i] EXCEPT !.inverse = n] # None
                <5>1. [added.types[i] EXCEPT !.inverse = n] \in TypeDef
                    BY <4>2 DEF TypeDef
                <5>. QED BY <5>1, ConfigAssumption
            <4>. QED BY <3>1, <4>1, <4>3 DEF TypesOf, Config
        <3>4. CASE i # None /\ i \notin TypesOf(added)
            <4>1. other \in TypeDef
                BY DEF TypeDef
            <4>2. Defined(file, n, t) = WithType(added, i, other)
                BY <3>4 DEF Defined, added
            <4> HIDE DEF other
            <4>. QED BY <3>1, <3>4, <4>1, <4>2, MakersTypes
        <3>. QED BY <3>2, <3>3, <3>4
    <2>. QED BY <1>2, <1>4, <2>1 DEF DefineType
<1>5. ASSUME NEW n \in Names, NEW o \in TypeOptions, UpdateType(n, o)
      PROVE  HalvesInv'
    <2>1. TypesOf(file) \subseteq TypesOf(WithType(file, n, Updated(file.types[n], o)))
        BY <1>1, <1>5, TypeMakers, MakersTypes DEF UpdateType
    <2>. QED BY <1>2, <1>5, <2>1 DEF UpdateType
<1>6. ASSUME NEW n \in Names, DeleteType(n)
      PROVE  HalvesInv'
    <2>1. InUse \cap TypesOf(file) \subseteq TypesOf(Without(file, PairOf(file, n)))
        BY <1>1, <1>6, MakersTypes DEF DeleteType
    <2>. QED BY <1>2, <1>6, <2>1 DEF DeleteType
<1>7. ASSUME NEW n \in Names, NEW how, AskDeleteType(n, how)
      PROVE  HalvesInv'
    BY <1>3, <1>7 DEF AskDeleteType
<1>8. ASSUME NEW g \in Categories, NEW p \in Policies, DefineCategory(g, p) \/ SetPolicy(g, p)
      PROVE  HalvesInv'
    BY <1>1, <1>2, <1>8, MakersTypes DEF DefineCategory, SetPolicy
<1>9. ASSUME NEW g \in Categories, NEW h \in Categories, NEW p, RenameCategory(g, h, p)
      PROVE  HalvesInv'
    <2>1. /\ Recategorised(file, g, h) \in Config
          /\ TypesOf(Recategorised(file, g, h)) = TypesOf(file)
        BY <1>1, ConfigMakers, MakersTypes
    <2>2. TypesOf([Recategorised(file, g, h) EXCEPT !.categories[h] = p]) = TypesOf(file)
        BY <2>1, MakersTypes
    <2>. QED BY <1>2, <1>9, <2>2 DEF RenameCategory
<1>10. ASSUME NEW g \in Categories, NEW h \in Categories, MoveTypes(g, h)
       PROVE  HalvesInv'
    BY <1>1, <1>2, <1>10, MakersTypes DEF MoveTypes
<1>11. ASSUME NEW g \in Categories, DeleteCategory(g)
       PROVE  HalvesInv'
    BY <1>1, <1>2, <1>11, MakersTypes DEF DeleteCategory
<1>12. ASSUME NEW g \in Categories, NEW how, AskDeleteCategory(g, how)
       PROVE  HalvesInv'
    BY <1>3, <1>12 DEF AskDeleteCategory
<1>13. ASSUME NEW d \in ImportFiles, NEW mode, Import(d, mode)
       PROVE  HalvesInv'
    BY <1>1, <1>2, <1>13, MakersTypes, ConfigAssumption DEF Import
<1>. QED BY <1>1, <1>4, <1>5, <1>6, <1>7, <1>8, <1>9, <1>10, <1>11, <1>12, <1>13, RenameHalves, MigrateHalves
     DEF Command

\* Features that a rewriting has not come to keep what they had.
LEMMA ConvertHalves ==
    ASSUME TypeOK, HalvesInv, NEW f \in Features, ConvertFeature(f)
    PROVE  HalvesInv'
<1>1. IsRewriting(call) /\ call.op \in Rewrites /\ f \in call.todo
    BY CallParts DEF ConvertFeature, TypeOK
<1>2. /\ call'.op = call.op /\ call'.conv = call.conv /\ call'.todo = call.todo \ {f}
      /\ call'.next = call.next /\ call'.rest = call.rest /\ UNCHANGED <<file, loose>>
    BY <1>1 DEF ConvertFeature, IsRewriting
<1>3. TypesOf(file)' = TypesOf(file) /\ Staying' = Staying
    BY <1>2 DEF TypesOf, Staying, Later, PairOf, InverseOf
<1>4. \A k \in Ties, s \in Sides :
         ties'[k][s] = IF Holder(k, s) = f THEN call.conv[ties[k][s]] ELSE ties[k][s]
    BY DEF ConvertFeature
<1>5. ASSUME NEW k \in Ties, NEW s \in Sides, ties'[k][s] # None
      PROVE  /\ ties'[k][s] \in TypesOf(file) \cup loose
             /\ IF Holder(k, s) \in call'.todo THEN call.conv[ties'[k][s]] \in Staying \cup {None}
                ELSE ties'[k][s] \in Staying
    <2>1. CASE Holder(k, s) # f
        BY <1>1, <1>2, <1>4, <1>5, <2>1, HalvesInUse DEF HalvesInv, TypesConfigured
    <2>2. CASE Holder(k, s) = f /\ ties[k][s] # None
        BY <1>1, <1>2, <1>4, <1>5, <2>2, HalvesInUse DEF HalvesInv, TypesConfigured
    <2>3. CASE Holder(k, s) = f /\ ties[k][s] = None
        BY <1>1, <1>4, <1>5, <2>3 DEF HalvesInv
    <2>. QED BY <2>1, <2>2, <2>3
<1>6. TypesConfigured'
    <2>1. ASSUME NEW k \in Ties, NEW s \in Sides, ties'[k][s] # None
          PROVE  ties'[k][s] \in TypesOf(file)' \cup loose'
        BY <1>2, <1>3, <1>5, <2>1
    <2>. QED BY <2>1 DEF TypesConfigured, InUse
<1>7. (call.op # "drop" => call.rest = {}) /\ call.conv[None] = None /\ \A x \in TypesOf(file) \cup loose : call.conv[x] \in TypesOf(file) \cup loose \cup {None}
    BY <1>1 DEF HalvesInv
<1>. QED BY <1>2, <1>3, <1>5, <1>6, <1>7 DEF HalvesInv, Holder

LEMMA StepHalves ==
    ASSUME Careful, TypeOK, Asked, LoadsInv, HalvesInv, [Next]_vars
    PROVE  HalvesInv'
<1>1. /\ TypesConfigured /\ file \in Config /\ Idle.op = "idle" /\ "idle" \notin Rewrites
      /\ "confirm" \notin Rewrites
    BY DEF HalvesInv, TypeOK, Idle, Rewrites
<1>2. CASE UNCHANGED vars
    BY <1>2 DEF vars, HalvesInv, TypesConfigured, InUse, TypesOf, Staying, Later, PairOf, InverseOf, Holder
<1>3. ASSUME UNCHANGED ties, call' = Idle,
             InUse \subseteq TypesOf(file') \cup loose'
      PROVE  HalvesInv'
    BY <1>1, <1>3 DEF HalvesInv, TypesConfigured, InUse, TypesOf
<1>4. CASE Begins /\ Command
    BY <1>1, <1>4, CommandHalves
<1>5. ASSUME NEW k \in Ties, NEW n \in Names, LinkFeatures(k, n)
      PROVE  HalvesInv'
    <2>1. n \in TypesOf(file) /\ InverseOf(file, n) \in TypesOf(file) \cup {None}
        BY <1>1, <1>5, PairClosed DEF LinkFeatures, PairOf
    <2>2. ASSUME NEW j \in Ties, NEW s \in Sides, ties'[j][s] # None
          PROVE  ties'[j][s] \in TypesOf(file) \cup loose
        <3>1. CASE j = k
            BY <1>5, <2>1, <2>2, <3>1 DEF LinkFeatures, TypeOK, Sides
        <3>2. CASE j # k
            BY <1>1, <1>5, <2>2, <3>2, HalvesInUse DEF LinkFeatures, TypeOK, TypesConfigured
        <3>. QED BY <3>1, <3>2
    <2>3. TypesConfigured'
        BY <1>5, <2>2 DEF LinkFeatures, TypesConfigured, InUse, TypesOf
    <2>. QED BY <1>1, <1>5, <2>3 DEF LinkFeatures, HalvesInv
<1>6. ASSUME NEW f \in Features, ConvertFeature(f)
      PROVE  HalvesInv'
    BY <1>6, ConvertHalves
<1>7. CASE RenameSave \/ MigrateSave \/ DropSave
    <2>1. IsRewriting(call) /\ call.op \in Rewrites /\ call.todo = {}
        BY <1>7, CallParts DEF RenameSave, MigrateSave, DropSave, Converted, TypeOK, Rewrites
    <2>2. call.op # "drop" => call.rest = {}
        BY <2>1 DEF HalvesInv
    <2>3. call.rest = {} /\ Later({}) = {}
        BY <1>7, <2>2 DEF DropSave, RenameSave, MigrateSave, Converted, Later
    <2>4. InUse \subseteq TypesOf(call.next) \cup loose
        BY <2>1, <2>3, HalvesInUse DEF HalvesInv, Staying
    <2>. QED BY <1>3, <1>7, <2>4 DEF RenameSave, MigrateSave, DropSave, Saves
<1>8. CASE RenameRejected \/ Cancel \/ Stop
    BY <1>1, <1>3, <1>8 DEF RenameRejected, Cancel, Stop, TypesConfigured
<1>9. CASE CascadeType
    <2>1. TypesOf(file) \subseteq PairOf(file, call.name) \cup TypesOf(Without(file, PairOf(file, call.name)))
        BY <1>1, MakersTypes
    <2>. QED BY <1>1, <1>9, <2>1, DropHalves DEF CascadeType
<1>10. CASE ForceType
    <2>1. InUse \subseteq TypesOf(Without(file, PairOf(file, call.name))) \cup loose \cup PairOf(file, call.name)
        BY <1>1, MakersTypes DEF TypesConfigured
    <2>. QED BY <1>3, <1>10, <2>1 DEF ForceType
<1>11. CASE CascadeCategory
    <2> DEFINE all == UNION {PairOf(file, n) : n \in Members(file, call.name)}
               next == [Without(file, all) EXCEPT !.categories[call.name] = None]
    <2>1. TypesOf(next) = TypesOf(file) \ all
        <3>1. Without(file, all) \in Config /\ TypesOf(Without(file, all)) = TypesOf(file) \ all
            BY <1>1, ConfigMakers, MakersTypes
        <3> HIDE DEF all
        <3>. QED BY <3>1, MakersTypes
    <2>2. PICK n \in Members(file, call.name) :
             call' = Dropping(PairOf(file, n), next, Members(file, call.name) \ {n})
        BY <1>11 DEF CascadeCategory
    <2>3. all \subseteq PairOf(file, n) \cup Later(Members(file, call.name) \ {n})
        BY <2>2 DEF Later
    <2> HIDE DEF next, all
    <2>. QED BY <1>1, <1>11, <2>1, <2>2, <2>3, DropHalves DEF CascadeCategory
<1>12. CASE ForceCategory
    <2>1. call.name \in Categories
        BY <1>12 DEF ForceCategory, Confirms, Asked, CategoriesOf
    <2>2. TypesOf(Recategorised(file, call.name, None)) = TypesOf(file)
        BY <1>1, <2>1, MakersTypes
    <2>. QED BY <1>1, <1>3, <1>12, <2>2 DEF ForceCategory, Saves, TypesConfigured
<1>13. CASE DropNext
    <2>1. IsRewriting(call) /\ call.op = "drop" /\ call.todo = {}
        BY <1>13, CallParts DEF DropNext, Converted, TypeOK, Rewrites
    <2>2. PICK n \in call.rest :
             call' = [op |-> call.op, conv |-> Removing(PairOf(file, n)), todo |-> Holders(PairOf(file, n)),
                      next |-> call.next, rest |-> call.rest \ {n}, whole |-> call.whole]
        BY <1>13, <2>1 DEF DropNext, IsRewriting
    <2>3. UNCHANGED <<file, ties, loose>>
        BY <1>13 DEF DropNext
    <2>4. TypesOf(file)' = TypesOf(file) /\ InUse' = InUse /\ \A S : Later(S)' = Later(S)
        BY <2>3 DEF TypesOf, InUse, Later, PairOf, InverseOf
    <2>5. Staying' = TypesOf(call.next) \cup loose \cup Later(call.rest \ {n})
        BY <2>2, <2>3, <2>4 DEF Staying, TypesOf
    <2>6. Staying \subseteq Staying' \cup PairOf(file, n)
        BY <2>5 DEF Staying, Later
    <2>7. \A x \in Names \cup {None} : call'.conv[x] = IF x \in PairOf(file, n) THEN None ELSE x
        BY <2>2 DEF Removing
    <2>8. ASSUME NEW k \in Ties, NEW s \in Sides, ties[k][s] # None
          PROVE  IF Holder(k, s) \in call'.todo THEN call'.conv[ties[k][s]] \in Staying' \cup {None}
                 ELSE ties[k][s] \in Staying'
        <3>1. ties[k][s] \in Staying /\ ties[k][s] \in Names
            BY <2>1, <2>8, TieNames DEF HalvesInv, Rewrites
        <3>2. Holder(k, s) \notin call'.todo => ties[k][s] \notin PairOf(file, n)
            BY <2>2, TieNames DEF Holders
        <3>. QED BY <2>6, <2>7, <3>1, <3>2
    <2>9. TypesConfigured'
        BY <1>1, <2>3, <2>4 DEF TypesConfigured
    <2>10. /\ call'.conv[None] = None
           /\ \A x \in TypesOf(file) \cup loose : call'.conv[x] \in TypesOf(file) \cup loose \cup {None}
        BY <2>7 DEF TypeOK, TypesOf
    <2>. QED BY <2>1, <2>2, <2>3, <2>4, <2>8, <2>9, <2>10 DEF HalvesInv, Holder
<1>. QED BY <1>2, <1>4, <1>5, <1>6, <1>7, <1>8, <1>9, <1>10, <1>11, <1>12, <1>13 DEF Next

\* For a careful user the names in the features are the configuration's, or
\* known to be left behind, at every step of every rewriting.
THEOREM TypesConfiguredAlways ==
    ASSUME Careful
    PROVE  Spec => []TypesConfigured
<1>1. Init => TypeOK /\ Asked /\ LoadsInv /\ HalvesInv
    <2>1. ASSUME Init PROVE HalvesInv
        BY <2>1 DEF Init, HalvesInv, TypesConfigured, InUse, Sides, Idle, Rewrites
    <2>. QED BY <2>1, InitTypes DEF LoadsInv
<1>2. TypeOK /\ Asked /\ LoadsInv /\ HalvesInv /\ [Next]_vars
         => TypeOK' /\ Asked' /\ LoadsInv' /\ HalvesInv'
    BY StepTypes, StepAsked, StepLoads, StepHalves
<1>3. HalvesInv => TypesConfigured
    BY DEF HalvesInv
<1>. QED BY <1>1, <1>2, <1>3, PTL DEF Spec
-----------------------------------------------------------------------------
(* A command that succeeds keeps or converts both halves of a tie.         *)

\* Two types are each other's inverses.
Twins(c, a, b) == a \in TypesOf(c) /\ b # None /\ InverseOf(c, a) = b

\* Of a valid configuration the second of two twins is one too.
LEMMA TwinsBothWays ==
    ASSUME NEW c \in Config, Valid(c), NEW a, NEW b, Twins(c, a, b)
    PROVE  Twins(c, b, a) /\ a \in Names /\ b \in Names /\ a # None
<1>1. a \in TypesOf(c) /\ InverseOf(c, a) = b /\ b # None /\ a \in Names /\ a # None
    BY ConfigAssumption DEF Twins, TypesOf
<1>2. ~c.types[a].both
    BY <1>1, ConfigTypes DEF Valid, TypeDef
<1>3. b \in TypesOf(c) /\ InverseOf(c, b) = a
    BY <1>1, <1>2 DEF Valid
<1>. QED BY <1>1, <1>3 DEF Twins, TypesOf

\* If one of two twins keeps its inverse, a valid configuration has to let the
\* other keep its too.
LEMMA OneKept ==
    ASSUME NEW c \in Config, Valid(c), NEW d \in Config, Valid(d),
           NEW a, NEW b, Twins(c, a, b),
           \/ a \in TypesOf(d) /\ InverseOf(d, a) = InverseOf(c, a)
           \/ b \in TypesOf(d) /\ InverseOf(d, b) = InverseOf(c, b)
    PROVE  Twins(d, a, b)
<1>1. Twins(c, b, a) /\ a # None
    BY TwinsBothWays
<1>2. CASE a \in TypesOf(d) /\ InverseOf(d, a) = InverseOf(c, a)
    BY <1>2 DEF Twins
<1>3. CASE b \in TypesOf(d) /\ InverseOf(d, b) = InverseOf(c, b)
    <2>1. Twins(d, b, a)
        BY <1>1, <1>3 DEF Twins
    <2>. QED BY <2>1, TwinsBothWays
<1>. QED BY <1>2, <1>3

\* What a change of one type leaves of the others.
LEMMA OthersInverse ==
    ASSUME NEW c \in Config
    PROVE  /\ \A n \in Names, t \in TypeDef, x \in Names :
                 /\ x # n => WithType(c, n, t).types[x] = c.types[x]
                 /\ WithType(c, n, t).types[n] = t
           /\ \A S : \A x \in Names \ S : Without(c, S).types[x] = c.types[x]
           /\ \A d \in Config : \A mode : \A x \in Names :
                 d.types[x] = None => Merged(c, d, mode).types[x] = c.types[x]
BY DEF WithType, Without, Merged, Config

RenameConv(c, n, o) ==
    Renaming(n, o.name, IF InverseMoves(c, n, o) THEN InverseOf(c, n) ELSE None,
                        IF InverseMoves(c, n, o) THEN NewInverse(c, n, o) ELSE None)

MigrateConv(c, n, m) == Renaming(n, m, InverseOf(c, n), InverseOf(c, m))

\* A rename that comes to a valid configuration gives both halves of a tie names
\* that are twins there, whether its inverse is renamed with it or not.
LEMMA RenameTwins ==
    ASSUME NEW c \in Config, Valid(c), NEW n \in TypesOf(c), NEW o \in TypeOptions,
           o.name \notin TypesOf(c) \cup {None}, Valid(Renamed(c, n, o)),
           NEW a, NEW b, Twins(c, a, b), a # b
    PROVE  Twins(Renamed(c, n, o), RenameConv(c, n, o)[a], RenameConv(c, n, o)[b])
<1> DEFINE old    == InverseOf(c, n)
           new    == NewInverse(c, n, o)
           t      == Updated(c.types[n], o)
           moved  == WithType(Without(c, {n}), o.name, t)
           turned == [c.types[old] EXCEPT !.inverse = o.name]
           d      == Renamed(c, n, o)
           conv   == RenameConv(c, n, o)
           moves  == InverseMoves(c, n, o)
<1>1. /\ o.name \in Names /\ o.name # None /\ o.renameInverse \in Names \cup {None}
      /\ t \in TypeDef /\ d \in Config /\ Valid(d) /\ n \in Names /\ n # None /\ n # o.name
    BY ConfigAssumption, TypeMakers, ConfigTypes
<1>2. Twins(c, b, a) /\ a \in Names /\ b \in Names /\ a # None /\ b # None
    BY TwinsBothWays DEF Twins
<1>3. Without(c, {n}) \in Config /\ moved \in Config
    BY <1>1, ConfigMakers
<1>4. /\ \A x \in Names \ {n, o.name} : moved.types[x] = c.types[x]
      /\ TypesOf(moved) = (TypesOf(c) \ {n}) \cup {o.name}
    <2>1. \A x \in Names \ {n} : Without(c, {n}).types[x] = c.types[x]
        BY OthersInverse
    <2>2. TypesOf(Without(c, {n})) = TypesOf(c) \ {n}
        BY MakersTypes
    <2> DEFINE without == Without(c, {n})
    <2> HIDE DEF without, t
    <2>3. without \in Config /\ moved = WithType(without, o.name, t)
        BY <1>3 DEF without, t
    <2> HIDE DEF moved
    <2>4. \A x \in Names \ {o.name} : moved.types[x] = without.types[x]
        BY <1>1, <2>3, OthersInverse
    <2>5. TypesOf(moved) = TypesOf(without) \cup {o.name}
        BY <1>1, <2>3, MakersTypes
    <2>. QED BY <2>1, <2>2, <2>4, <2>5 DEF without
<1>5. moves <=> old \in TypesOf(c) \ {n} /\ ~t.both /\ new # old
    BY DEF InverseMoves
<1>6. old # None => new # None /\ new \in Names
    BY <1>1, ConfigTypes DEF NewInverse
<1>7. \A x \in Names : /\ moves /\ x = old => conv[x] = new
                       /\ ~moves /\ x = n => conv[x] = o.name
                       /\ moves /\ x = n => conv[x] = o.name
                       /\ x # n /\ ~(moves /\ x = old) => conv[x] = x
    <2>1. old \in TypesOf(c) => old # None
        BY ConfigAssumption DEF TypesOf
    <2>. QED BY <1>1, <1>5, <1>6, <2>1, RenamingValues DEF RenameConv
<1>8. \/ /\ t.both \/ old \notin TypesOf(moved)
         /\ d = moved
      \/ /\ ~t.both /\ old \in TypesOf(moved) /\ new = old
         /\ d = WithType(moved, old, turned)
      \/ /\ ~t.both /\ old \in TypesOf(moved) /\ new # old
         /\ d = WithType(WithType(Without(moved, {old}), new, turned), o.name, [t EXCEPT !.inverse = new])
    BY DEF Renamed
<1> HIDE DEF moved, t, conv, moves, new
<1>9. old \in TypesOf(moved) => /\ old \in TypesOf(c) \ {n} /\ old \in Names /\ old # None /\ old # o.name
                                /\ turned \in TypeDef /\ turned.inverse = o.name
    <2> SUFFICES ASSUME old \in TypesOf(moved)
                 PROVE  /\ old \in TypesOf(c) \ {n} /\ old \in Names /\ old # None /\ old # o.name
                        /\ turned \in TypeDef /\ turned.inverse = o.name
        OBVIOUS
    <2>1. old \in Names /\ old # None
        BY ConfigAssumption DEF TypesOf
    <2>2. old \in TypesOf(c)
        BY <2>1 DEF Valid
    <2>3. old # o.name
        BY <2>2
    <2>4. turned \in TypeDef /\ turned.inverse = o.name
        BY <1>1, <2>2, ConfigTypes DEF TypeDef
    <2>. QED BY <1>4, <2>1, <2>2, <2>3, <2>4
<1> DEFINE again   == [t EXCEPT !.inverse = new]
           without == Without(moved, {old})
           renewed == WithType(without, new, turned)
<1>10. ASSUME ~t.both, old \in TypesOf(moved), new # old
       PROVE  /\ d.types[o.name] = again /\ again \in TypeDef /\ again.inverse = new
              /\ \A x \in Names \ {n, o.name, old, new} : d.types[x] = c.types[x]
              /\ new \in Names
    <2>1. again \in TypeDef /\ again.inverse = new /\ new \in Names
        BY <1>1, <1>6, <1>9, <1>10 DEF TypeDef
    <2>2. without \in Config
        BY <1>3, ConfigMakers
    <2>3. \A x \in Names \ {old} : without.types[x] = moved.types[x]
        BY <1>3, OthersInverse
    <2>4. d = WithType(renewed, o.name, again)
        BY <1>8, <1>10
    <2> HIDE DEF again, without, turned, old
    <2>5. renewed \in Config /\ \A x \in Names \ {new} : renewed.types[x] = without.types[x]
        BY <1>9, <1>10, <2>1, <2>2, ConfigMakers, OthersInverse
    <2> HIDE DEF renewed, d
    <2>6. /\ d.types[o.name] = again
          /\ \A x \in Names \ {o.name} : d.types[x] = renewed.types[x]
        BY <1>1, <2>1, <2>4, <2>5, OthersInverse
    <2>. QED BY <1>4, <2>1, <2>3, <2>5, <2>6
<1> HIDE DEF again, without, renewed
<1>11. ASSUME ~t.both, old \in TypesOf(moved), new = old
       PROVE  /\ d.types[old] = turned
              /\ \A x \in Names \ {n, o.name, old} : d.types[x] = c.types[x]
    <2>1. d = WithType(moved, old, turned)
        BY <1>8, <1>11
    <2> HIDE DEF d, turned, old
    <2>. QED BY <1>3, <1>4, <1>9, <1>11, <2>1, OthersInverse
<1> HIDE DEF d, turned
<1>12. /\ \A x \in TypesOf(c) \ {n, old, new} : x \in TypesOf(d) /\ InverseOf(d, x) = InverseOf(c, x)
       /\ t.both \/ old \notin TypesOf(moved) \/ new = old
             => \A x \in TypesOf(c) \ {n, old} : x \in TypesOf(d) /\ InverseOf(d, x) = InverseOf(c, x)
       /\ t.both \/ old \notin TypesOf(moved)
             => \A x \in TypesOf(c) \ {n} : x \in TypesOf(d) /\ InverseOf(d, x) = InverseOf(c, x)
    <2>1. \A x \in TypesOf(c) : x \in Names /\ x # o.name /\ c.types[x] # None
        BY DEF TypesOf
    <2>2. \A x \in Names : d.types[x] = c.types[x] /\ c.types[x] # None
                           => x \in TypesOf(d) /\ InverseOf(d, x) = InverseOf(c, x)
        BY DEF TypesOf, InverseOf
    <2>3. CASE t.both \/ old \notin TypesOf(moved)
        <3>1. d = moved
            BY <1>8, <2>3
        <3>. QED BY <1>4, <2>1, <2>2, <3>1
    <2>4. CASE ~t.both /\ old \in TypesOf(moved) /\ new = old
        BY <1>11, <2>1, <2>2, <2>4
    <2>5. CASE ~t.both /\ old \in TypesOf(moved) /\ new # old
        BY <1>10, <2>1, <2>2, <2>5
    <2>. QED BY <2>3, <2>4, <2>5
<1>13. SUFFICES Twins(d, conv[a], conv[b])
    BY DEF d, conv
<1>14. CASE a \notin {n, old} /\ b \notin {n, old}
    <2>1. conv[a] = a /\ conv[b] = b
        BY <1>2, <1>7, <1>14
    <2>2. a \in TypesOf(c) /\ b \in TypesOf(c)
        BY <1>2 DEF Twins
    <2>3. a # new \/ b # new
        OBVIOUS
    <2>4. Twins(d, a, b)
        BY <1>1, <1>12, <1>14, <2>2, <2>3, OneKept
    <2>. QED BY <2>1, <2>4
<1>15. CASE a \in {n, old} \/ b \in {n, old}
    <2>1. (a = n /\ b = old) \/ (a = old /\ b = n)
        <3>1. InverseOf(c, a) = b /\ InverseOf(c, b) = a
            BY <1>2 DEF Twins
        <3>2. CASE a = n \/ b = n
            BY <3>1, <3>2
        <3>3. CASE a = old \/ b = old
            <4>1. old # None
                BY <1>2, <3>3
            <4>2. Twins(c, n, old)
                BY <4>1 DEF Twins
            <4>3. InverseOf(c, old) = n
                BY <4>2, TwinsBothWays DEF Twins
            <4>. QED BY <3>1, <3>3, <4>3
        <3>. QED BY <1>15, <3>2, <3>3
    <2>2. old \in TypesOf(c) \ {n} /\ old # None /\ old \in Names /\ InverseOf(c, old) = n
        BY <1>2, <2>1 DEF Twins
    <2>3. old \in TypesOf(moved)
        BY <1>4, <2>2
    <2>4. ~t.both
        <3> SUFFICES ASSUME t.both PROVE FALSE
            OBVIOUS
        <3>1. old \in TypesOf(d) /\ InverseOf(d, old) = n /\ d = moved
            BY <1>8, <1>12, <2>2
        <3>2. Twins(d, old, n)
            BY <1>1, <3>1 DEF Twins
        <3>3. n \in TypesOf(d)
            BY <1>1, <3>2, TwinsBothWays DEF Twins
        <3>. QED BY <1>1, <1>4, <3>1, <3>3
    <2>5. CASE new = old
        <3>1. ~moves /\ conv[n] = o.name /\ conv[old] = old
            BY <1>1, <1>5, <1>7, <2>2, <2>5
        <3>2. Twins(d, old, o.name)
            <4>1. d.types[old] = turned /\ turned \in TypeDef /\ turned.inverse = o.name
                BY <1>9, <1>11, <2>3, <2>4, <2>5
            <4>. QED BY <1>1, <2>2, <4>1, ConfigAssumption DEF Twins, TypesOf, InverseOf
        <3>3. Twins(d, o.name, old)
            BY <1>1, <3>2, TwinsBothWays
        <3>. QED BY <2>1, <3>1, <3>2, <3>3
    <2>6. CASE new # old
        <3>1. moves /\ conv[n] = o.name /\ conv[old] = new
            BY <1>1, <1>5, <1>7, <2>2, <2>4, <2>6
        <3>2. Twins(d, o.name, new)
            <4>1. d.types[o.name] = again /\ again \in TypeDef /\ again.inverse = new
                BY <1>10, <2>3, <2>4, <2>6
            <4>. QED BY <1>1, <1>6, <2>2, <4>1, ConfigAssumption DEF Twins, TypesOf, InverseOf
        <3>3. Twins(d, new, o.name)
            BY <1>1, <3>2, TwinsBothWays
        <3>. QED BY <2>1, <3>1, <3>2, <3>3
    <2>. QED BY <2>5, <2>6
<1>. QED BY <1>14, <1>15

\* A migration gives both halves of a tie of the type that goes names that are
\* twins, and leaves the others theirs.
LEMMA MigrateTwins ==
    ASSUME NEW c \in Config, Valid(c), NEW n \in TypesOf(c), NEW m \in TypesOf(c) \ PairOf(c, n),
           InverseOf(c, n) # None => InverseOf(c, m) # None,
           NEW a, NEW b, Twins(c, a, b), a # b
    PROVE  Twins(Without(c, PairOf(c, n)), MigrateConv(c, n, m)[a], MigrateConv(c, n, m)[b])
<1> DEFINE d    == Without(c, PairOf(c, n))
           conv == MigrateConv(c, n, m)
           old  == InverseOf(c, n)
           new  == InverseOf(c, m)
<1>1. TypesOf(d) = TypesOf(c) \ PairOf(c, n)
    BY MakersTypes
<1>2. \A x \in TypesOf(d) : InverseOf(d, x) = InverseOf(c, x)
    <2>1. \A x \in Names \ PairOf(c, n) : d.types[x] = c.types[x]
        BY OthersInverse
    <2> HIDE DEF d
    <2>. QED BY <1>1, <2>1 DEF TypesOf, InverseOf
<1>3. Twins(c, b, a) /\ a \in Names /\ b \in Names /\ a # None /\ b # None
    BY TwinsBothWays DEF Twins
<1> SUFFICES Twins(d, conv[a], conv[b])
    OBVIOUS
<1> HIDE DEF d
<1>4. \A x \in Names : /\ x = old /\ None \notin {old, new} /\ old # new => conv[x] = new
                       /\ x = n /\ ~(x = old /\ None \notin {old, new} /\ old # new) => conv[x] = m
                       /\ x \notin {n, old} => conv[x] = x
    BY RenamingValues DEF MigrateConv
<1> HIDE DEF conv
<1>5. CASE a \notin PairOf(c, n)
    <2>1. b \notin PairOf(c, n)
        BY <1>3, <1>5, PairClosed DEF Twins
    <2>2. conv[a] = a /\ conv[b] = b
        BY <1>3, <1>4, <1>5, <2>1 DEF PairOf
    <2>. QED BY <1>1, <1>2, <1>5, <2>2 DEF Twins
<1>6. CASE a \in PairOf(c, n)
    <2>1. (a = n /\ b = old) \/ (a = old /\ b = n)
        <3>1. InverseOf(c, a) = b
            BY DEF Twins
        <3>2. a = old => Twins(c, n, old)
            BY <1>3 DEF Twins
        <3>3. a = old => InverseOf(c, old) = n
            BY <3>2, TwinsBothWays DEF Twins
        <3>. QED BY <1>6, <3>1, <3>3 DEF PairOf
    <2>2. old # None /\ new # None
        BY <1>3, <2>1
    <2>3. Twins(c, m, new)
        BY <2>2 DEF Twins
    <2>4. Twins(c, new, m) /\ m # None
        BY <2>3, TwinsBothWays
    <2>5. new \notin PairOf(c, n) /\ old # new
        <3>1. new \notin PairOf(c, n)
            BY <2>4, PairClosed DEF Twins
        <3>. QED BY <2>2, <3>1 DEF PairOf
    <2>6. Twins(d, m, new) /\ Twins(d, new, m)
        BY <1>1, <1>2, <2>3, <2>4, <2>5 DEF Twins
    <2>7. conv[n] = m /\ conv[old] = new
        <3>1. n \in Names /\ old \in Names /\ n # old
            BY <1>3, <2>1
        <3>. QED BY <1>4, <2>2, <2>5, <3>1
    <2>. QED BY <2>1, <2>6, <2>7
<1>. QED BY <1>5, <1>6
-----------------------------------------------------------------------------
\* What a rewriting converts and what it is going to save belong together.
Matches ==
    /\ call.op = "rename" =>
          \E n \in TypesOf(file), o \in TypeOptions :
              /\ o.name \notin TypesOf(file) \cup {None}
              /\ call.conv = RenameConv(file, n, o) /\ call.next = Renamed(file, n, o)
    /\ call.op = "migrate" =>
          \E n \in TypesOf(file) : \E m \in TypesOf(file) \ PairOf(file, n) :
              /\ InverseOf(file, n) # None => InverseOf(file, m) # None
              /\ call.conv = MigrateConv(file, n, m)
              /\ call.next = Without(file, PairOf(file, n))
    /\ call.op = "drop" =>
          /\ \E n \in TypesOf(file) : call.conv = Removing(PairOf(file, n))
          /\ call.rest \subseteq TypesOf(file)
          /\ \A x \in TypesOf(call.next) : InverseOf(call.next, x) = InverseOf(file, x)

\* The halves of tie k were those of twins, and the converted of them are.
Underway(k, a, b) ==
    /\ Twins(file, a, b) /\ a # b
    /\ ties[k].near = IF Source[k] \in call.todo THEN a ELSE call.conv[a]
    /\ ties[k].far  = IF Target[k] \in call.todo THEN b ELSE call.conv[b]

Gone(k) == ties[k].near = None /\ ties[k].far = None

WholeInv ==
    call.op \in Rewrites =>
        /\ Matches
        /\ \A k \in call.whole : Gone(k) \/ \E a, b \in Names : Underway(k, a, b)

\* A rewriting begins, and has converted nothing.
LEMMA WholeBegins ==
    ASSUME TypeOK, Valid(file), UNCHANGED <<file, ties>>,
           NEW op, NEW conv, NEW next, NEW rest, call' = Rewriting(op, conv, next, rest),
           Matches'
    PROVE  WholeInv'
<1>1. /\ call'.conv = conv /\ call'.todo = Holders(Moved(conv))
      /\ call'.whole = {k \in Ties : Paired(file, k) /\ ties[k].near # ties[k].far}
    BY DEF Rewriting
<1>2. ASSUME NEW k \in Ties, Paired(file, k), ties[k].near # ties[k].far
      PROVE  \E a, b \in Names : Underway(k, a, b)'
    <2> DEFINE a == ties[k].near
               b == ties[k].far
    <2>1. Twins(file, a, b)
        BY <1>2 DEF Paired, Twins
    <2>2. a \in Names /\ b \in Names
        BY <2>1, TwinsBothWays DEF TypeOK
    <2>3. Source[k] \notin call'.todo => conv[a] = a
        BY <1>1, <2>2, TieNames DEF Holders, Moved, Holder, Sides
    <2>4. Target[k] \notin call'.todo => conv[b] = b
        BY <1>1, <2>2, TieNames DEF Holders, Moved, Holder, Sides
    <2>5. Underway(k, a, b)'
        BY <1>1, <1>2, <2>1, <2>3, <2>4 DEF Underway, Twins, TypesOf, InverseOf
    <2>. QED BY <2>2, <2>5
<1>. QED BY <1>1, <1>2 DEF WholeInv

\* What is computed from the configuration stays while the configuration does.
LEMMA FileKept ==
    ASSUME UNCHANGED file
    PROVE  /\ TypesOf(file)' = TypesOf(file)
           /\ \A n : InverseOf(file, n)' = InverseOf(file, n)
           /\ \A n : PairOf(file, n)' = PairOf(file, n)
           /\ \A n, o : Renamed(file, n, o)' = Renamed(file, n, o)
           /\ \A n, o : RenameConv(file, n, o)' = RenameConv(file, n, o)
           /\ \A n, m : MigrateConv(file, n, m)' = MigrateConv(file, n, m)
           /\ \A n : Without(file, PairOf(file, n))' = Without(file, PairOf(file, n))
           /\ \A n : Removing(PairOf(file, n))' = Removing(PairOf(file, n))
<1>1. /\ TypesOf(file)' = TypesOf(file)
      /\ \A n : InverseOf(file, n)' = InverseOf(file, n)
      /\ \A n : PairOf(file, n)' = PairOf(file, n)
    BY DEF TypesOf, PairOf, InverseOf
<1>2. \A n, o : Renamed(file, n, o)' = Renamed(file, n, o)
    BY <1>1 DEF Renamed, NewInverse, Without, WithType, Updated, TypesOf, InverseOf
<1>3. \A n, o : /\ InverseMoves(file, n, o)' = InverseMoves(file, n, o)
                /\ NewInverse(file, n, o)' = NewInverse(file, n, o)
    BY <1>1 DEF InverseMoves, NewInverse, Updated, TypesOf, InverseOf
<1>4. \A n, o : RenameConv(file, n, o)' = RenameConv(file, n, o)
    BY <1>1, <1>3 DEF RenameConv, Renaming
<1>5. \A n, m : MigrateConv(file, n, m)' = MigrateConv(file, n, m)
    BY <1>1 DEF MigrateConv, Renaming
<1>6. \A n : Without(file, PairOf(file, n))' = Without(file, PairOf(file, n))
    BY DEF Without, PairOf, InverseOf
<1>7. \A n : Removing(PairOf(file, n))' = Removing(PairOf(file, n))
    BY DEF Removing, PairOf, InverseOf
<1>. QED BY <1>1, <1>2, <1>4, <1>5, <1>6, <1>7

\* Matches does not depend on the features still to do, nor on the ties.
LEMMA MatchesKept ==
    ASSUME Matches, UNCHANGED file,
           call'.op = call.op, call'.conv = call.conv, call'.next = call.next, call'.rest = call.rest
    PROVE  Matches'
<1>1. /\ TypesOf(call.next)' = TypesOf(call.next)
      /\ \A n : InverseOf(call.next, n)' = InverseOf(call.next, n)
    BY DEF TypesOf, InverseOf
<1>. QED BY <1>1, FileKept DEF Matches

LEMMA ConvertWhole ==
    ASSUME TypeOK, HalvesInv, WholeInv, NEW f \in Features, ConvertFeature(f)
    PROVE  WholeInv'
<1>1. IsRewriting(call) /\ call.op \in Rewrites /\ f \in call.todo
    BY CallParts DEF ConvertFeature, TypeOK
<1>2. /\ call'.op = call.op /\ call'.conv = call.conv /\ call'.todo = call.todo \ {f}
      /\ call'.next = call.next /\ call'.rest = call.rest /\ call'.whole = call.whole
      /\ UNCHANGED <<file, loose>>
    BY <1>1 DEF ConvertFeature, IsRewriting
<1>3. Matches'
    BY <1>1, <1>2, MatchesKept DEF WholeInv
<1>4. \A k \in Ties :
         /\ ties'[k].near = IF Source[k] = f THEN call.conv[ties[k].near] ELSE ties[k].near
         /\ ties'[k].far  = IF Target[k] = f THEN call.conv[ties[k].far] ELSE ties[k].far
    <2>1. \A k \in Ties, s \in Sides :
             ties'[k][s] = IF Holder(k, s) = f THEN call.conv[ties[k][s]] ELSE ties[k][s]
        BY DEF ConvertFeature
    <2>. QED BY <2>1 DEF Sides, Holder
<1>5. call.conv[None] = None /\ call.whole \subseteq Ties
    BY <1>1 DEF HalvesInv, IsRewriting
<1>6. ASSUME NEW k \in call.whole
      PROVE  Gone(k)' \/ \E a, b \in Names : Underway(k, a, b)'
    <2>1. CASE Gone(k)
        BY <1>4, <1>5, <2>1 DEF Gone
    <2>2. ASSUME NEW a \in Names, NEW b \in Names, Underway(k, a, b)
          PROVE  Underway(k, a, b)'
        <3>1. ties'[k].near = IF Source[k] \in call'.todo THEN a ELSE call.conv[a]
            BY <1>1, <1>2, <1>4, <1>5, <2>2 DEF Underway
        <3>2. ties'[k].far = IF Target[k] \in call'.todo THEN b ELSE call.conv[b]
            BY <1>1, <1>2, <1>4, <1>5, <2>2 DEF Underway
        <3>. QED BY <1>2, <2>2, <3>1, <3>2 DEF Underway, Twins, TypesOf, InverseOf
    <2>. QED BY <1>1, <2>1, <2>2 DEF WholeInv
<1>. QED BY <1>2, <1>3, <1>6 DEF WholeInv

\* The next pair of a category is dropped: both halves of a tie are of it, or
\* none is.
LEMMA DropNextWhole ==
    ASSUME TypeOK, Valid(file), WholeInv, DropNext
    PROVE  WholeInv'
<1>1. IsRewriting(call) /\ call.op = "drop" /\ call.op \in Rewrites /\ call.todo = {}
    BY CallParts DEF DropNext, Converted, TypeOK, Rewrites
<1>2. PICK n \in call.rest :
         call' = [op |-> call.op, conv |-> Removing(PairOf(file, n)), todo |-> Holders(PairOf(file, n)),
                  next |-> call.next, rest |-> call.rest \ {n}, whole |-> call.whole]
    BY <1>1 DEF DropNext, IsRewriting
<1>3. UNCHANGED <<file, ties>> /\ file \in Config
    BY DEF DropNext, TypeOK
<1>4. PICK m \in TypesOf(file) : call.conv = Removing(PairOf(file, m))
    BY <1>1 DEF WholeInv, Matches
<1>5. /\ call.rest \subseteq TypesOf(file)
      /\ \A x \in TypesOf(call.next) : InverseOf(call.next, x) = InverseOf(file, x)
    BY <1>1 DEF WholeInv, Matches
<1>6. Matches'
    <2>1. /\ call'.op = "drop" /\ call'.conv = Removing(PairOf(file, n))
          /\ call'.rest \subseteq call.rest /\ call'.next = call.next
        BY <1>1, <1>2
    <2>2. TypesOf(file)' = TypesOf(file) /\ PairOf(file, n)' = PairOf(file, n)
        BY <1>3 DEF TypesOf, PairOf, InverseOf
    <2>. QED BY <1>2, <1>3, <1>5, <2>1, <2>2 DEF Matches, TypesOf, InverseOf
<1>7. /\ \A x \in Names : call.conv[x] = IF x \in PairOf(file, m) THEN None ELSE x
      /\ \A x \in Names : call'.conv[x] = IF x \in PairOf(file, n) THEN None ELSE x
    BY <1>2, <1>4 DEF Removing
<1>8. ASSUME NEW k \in call.whole
      PROVE  Gone(k)' \/ \E a, b \in Names : Underway(k, a, b)'
    <2>1. CASE Gone(k)
        BY <1>3, <2>1 DEF Gone
    <2>2. ASSUME NEW a \in Names, NEW b \in Names, Underway(k, a, b)
          PROVE  Gone(k)' \/ Underway(k, a, b)'
        <3>1. Twins(file, a, b) /\ Twins(file, b, a) /\ a # b
            BY <1>3, <2>2, TwinsBothWays DEF Underway
        <3>2. ties[k].near = call.conv[a] /\ ties[k].far = call.conv[b]
            BY <1>1, <2>2 DEF Underway
        <3>3. CASE a \in PairOf(file, m)
            <4>1. b \in PairOf(file, m)
                BY <1>3, <3>1, <3>3, PairClosed DEF Twins
            <4>. QED BY <1>3, <1>7, <3>2, <3>3, <4>1 DEF Gone
        <3>4. CASE a \notin PairOf(file, m)
            <4>1. b \notin PairOf(file, m)
                BY <1>3, <3>1, <3>4, PairClosed DEF Twins
            <4>2. ties[k].near = a /\ ties[k].far = b
                BY <1>7, <3>2, <3>4, <4>1
            <4>3. k \in Ties
                BY <1>1 DEF IsRewriting
            <4>4. /\ Source[k] \notin call'.todo => call'.conv[a] = a
                  /\ Target[k] \notin call'.todo => call'.conv[b] = b
                BY <1>2, <1>7, <4>2, <4>3, TieNames DEF Holders, Holder, Sides
            <4>5. Twins(file, a, b)'
                BY <1>3, <3>1 DEF Twins, TypesOf, InverseOf
            <4>. QED BY <1>3, <3>1, <4>2, <4>4, <4>5 DEF Underway
        <3>. QED BY <3>3, <3>4
    <2>. QED BY <1>1, <2>1, <2>2 DEF WholeInv
<1>. QED BY <1>1, <1>2, <1>6, <1>8 DEF WholeInv

LEMMA StepWhole ==
    ASSUME Careful, TypeOK, Asked, LoadsInv, HalvesInv, WholeInv, [Next]_vars
    PROVE  WholeInv'
<1>1. /\ file \in Config /\ Idle.op = "idle" /\ "idle" \notin Rewrites /\ "confirm" \notin Rewrites
      /\ Valid(file) \/ call = Idle
    BY DEF TypeOK, Idle, Rewrites, LoadsInv, Loadable, Stranded
<1>2. CASE call'.op \notin Rewrites
    BY <1>2 DEF WholeInv
<1>3. CASE UNCHANGED vars
    <2>1. UNCHANGED <<file, ties, call>>
        BY <1>3 DEF vars
    <2>2. Matches => Matches'
        BY <2>1, MatchesKept
    <2>3. \A k : Gone(k)' <=> Gone(k)
        BY <2>1 DEF Gone
    <2>4. \A k, a, b : Underway(k, a, b)' <=> Underway(k, a, b)
        BY <2>1 DEF Underway, Twins, TypesOf, InverseOf
    <2>. QED BY <2>1, <2>2, <2>3, <2>4 DEF WholeInv
<1>4. ASSUME Valid(file), UNCHANGED <<file, ties>>, NEW n \in TypesOf(file), NEW o \in TypeOptions,
             o.name \notin TypesOf(file) \cup {None},
             call' = Rewriting("rename", RenameConv(file, n, o), Renamed(file, n, o), {})
      PROVE  WholeInv'
    <2>1. /\ call'.op = "rename" /\ call'.conv = RenameConv(file, n, o)
          /\ call'.next = Renamed(file, n, o)
        BY <1>4 DEF Rewriting
    <2>2. Matches'
        BY <1>4, <2>1, FileKept DEF Matches
    <2>. QED BY <1>4, <2>2, WholeBegins
<1>5. ASSUME Valid(file), UNCHANGED <<file, ties>>, NEW n \in TypesOf(file),
             NEW m \in TypesOf(file) \ PairOf(file, n),
             InverseOf(file, n) # None => InverseOf(file, m) # None,
             call' = Rewriting("migrate", MigrateConv(file, n, m), Without(file, PairOf(file, n)), {})
      PROVE  WholeInv'
    <2>1. /\ call'.op = "migrate" /\ call'.conv = MigrateConv(file, n, m)
          /\ call'.next = Without(file, PairOf(file, n))
        BY <1>5 DEF Rewriting
    <2>2. Matches'
        BY <1>5, <2>1, FileKept DEF Matches
    <2>. QED BY <1>5, <2>2, WholeBegins
<1>6. ASSUME Valid(file), UNCHANGED <<file, ties>>, NEW n \in TypesOf(file), NEW next,
             NEW rest \in SUBSET TypesOf(file), call' = Dropping(PairOf(file, n), next, rest),
             \A x \in TypesOf(next) : InverseOf(next, x) = InverseOf(file, x)
      PROVE  WholeInv'
    <2>1. /\ call' = Rewriting("drop", Removing(PairOf(file, n)), next, rest)
          /\ call'.op = "drop" /\ call'.conv = Removing(PairOf(file, n))
          /\ call'.next = next /\ call'.rest = rest
        BY <1>6 DEF Dropping, Rewriting
    <2>2. /\ TypesOf(file)' = TypesOf(file) /\ PairOf(file, n)' = PairOf(file, n)
          /\ \A x : InverseOf(file, x)' = InverseOf(file, x)
          /\ TypesOf(call.next)' = TypesOf(next)
          /\ \A x : InverseOf(call.next, x)' = InverseOf(next, x)
        BY <1>6, <2>1 DEF TypesOf, PairOf, InverseOf
    <2>3. Removing(PairOf(file, n))' = Removing(PairOf(file, n))
        BY <2>2 DEF Removing, PairOf
    <2>4. Matches'
        BY <1>6, <2>1, <2>2, <2>3 DEF Matches
    <2>. QED BY <1>6, <2>1, <2>4, WholeBegins
<1>7. \A S : \A x \in TypesOf(Without(file, S)) : InverseOf(Without(file, S), x) = InverseOf(file, x)
    BY <1>1 DEF TypesOf, InverseOf, Without, Config
<1>8. ASSUME NEW n \in Names, NEW o \in TypeOptions, RenameType(n, o), Valid(file) PROVE WholeInv'
    <2>1. o.name \notin TypesOf(file) \cup {None} /\ n \in TypesOf(file) /\ UNCHANGED <<file, ties>>
        BY <1>8 DEF RenameType
    <2>2. call' = Rewriting("rename", RenameConv(file, n, o), Renamed(file, n, o), {})
        BY <1>8 DEF RenameType, RenameConv
    <2>. QED BY <1>4, <1>8, <2>1, <2>2
<1>9. ASSUME NEW n \in Names, NEW m \in Names, MigrateType(n, m), Valid(file) PROVE WholeInv'
    <2>1. /\ n \in TypesOf(file) /\ m \in TypesOf(file) \ PairOf(file, n)
          /\ InverseOf(file, n) # None => InverseOf(file, m) # None
          /\ UNCHANGED <<file, ties>>
          /\ call' = Rewriting("migrate", MigrateConv(file, n, m), Without(file, PairOf(file, n)), {})
        BY <1>9 DEF MigrateType, SafeTarget, MigrateConv
    <2>. QED BY <1>5, <1>9, <2>1
<1>10. CASE CascadeType
    <2>1. /\ call.name \in TypesOf(file) /\ Valid(file) /\ UNCHANGED <<file, ties>>
          /\ call' = Dropping(PairOf(file, call.name), Without(file, PairOf(file, call.name)), {})
        BY <1>10 DEF CascadeType, Confirms, Asked
    <2>. QED BY <1>6, <1>7, <2>1
<1>11. CASE CascadeCategory
    <2> DEFINE all  == UNION {PairOf(file, n) : n \in Members(file, call.name)}
               next == [Without(file, all) EXCEPT !.categories[call.name] = None]
    <2>1. PICK n \in Members(file, call.name) :
             call' = Dropping(PairOf(file, n), next, Members(file, call.name) \ {n})
        BY <1>11 DEF CascadeCategory
    <2>2. n \in TypesOf(file) /\ Members(file, call.name) \ {n} \in SUBSET TypesOf(file)
        BY <2>1 DEF Members
    <2>3. \A x \in TypesOf(next) : InverseOf(next, x) = InverseOf(file, x)
        <3> HIDE DEF all
        <3>1. next.types = Without(file, all).types
            BY <1>1, ConfigMakers DEF Config
        <3> HIDE DEF next
        <3>. QED BY <1>7, <3>1 DEF TypesOf, InverseOf
    <2>4. Valid(file) /\ UNCHANGED <<file, ties>>
        BY <1>11 DEF CascadeCategory, Confirms
    <2> HIDE DEF next
    <2>. QED BY <1>6, <2>1, <2>2, <2>3, <2>4
<1>12. CASE Begins /\ Command
    <2>1. Valid(file) /\ call = Idle
        BY <1>12 DEF Begins
    <2>2. /\ \A n \in Names : /\ \A d \in TypeDef : DefineType(n, d) => call' = call
                              /\ \A o \in TypeOptions : UpdateType(n, o) => call' = call
                              /\ DeleteType(n) => call' = call
                              /\ \A how : AskDeleteType(n, how) => call'.op = "confirm"
          /\ \A g \in Categories : /\ \A p : DefineCategory(g, p) \/ SetPolicy(g, p) => call' = call
                                   /\ \A h, p : RenameCategory(g, h, p) => call' = call
                                   /\ \A h : MoveTypes(g, h) => call' = call
                                   /\ DeleteCategory(g) => call' = call
                                   /\ \A how : AskDeleteCategory(g, how) => call'.op = "confirm"
          /\ \A d, mode : Import(d, mode) => call' = call
        BY DEF DefineType, UpdateType, DeleteType, AskDeleteType, DefineCategory, SetPolicy,
               RenameCategory, MoveTypes, DeleteCategory, AskDeleteCategory, Import
    <2>3. \/ \E n \in Names, o \in TypeOptions : RenameType(n, o)
          \/ \E n, m \in Names : MigrateType(n, m)
          \/ call' = call
          \/ call'.op = "confirm"
        BY <1>12, <2>2 DEF Command
    <2>. QED BY <1>1, <1>2, <1>8, <1>9, <2>1, <2>3
<1>13. ASSUME NEW f \in Features, ConvertFeature(f) PROVE WholeInv'
    BY <1>13, ConvertWhole
<1>14. CASE DropNext
    <2>1. Valid(file)
        BY <1>1, <1>14 DEF DropNext, Converted
    <2>. QED BY <1>14, <2>1, DropNextWhole
<1>15. ASSUME NEW k \in Ties, NEW n \in Names, LinkFeatures(k, n) PROVE WholeInv'
    BY <1>1, <1>2, <1>15 DEF LinkFeatures
<1>16. CASE RenameSave \/ RenameRejected \/ MigrateSave \/ ForceType \/ ForceCategory \/ Cancel
            \/ DropSave \/ Stop
    BY <1>1, <1>2, <1>16
       DEF RenameSave, RenameRejected, MigrateSave, ForceType, ForceCategory, Cancel, DropSave, Stop
<1>. QED BY <1>3, <1>10, <1>11, <1>12, <1>13, <1>14, <1>15, <1>16 DEF Next
-----------------------------------------------------------------------------
\* The files given to relationship import do not pair types anew: each has one
\* type, or one pair.
OnePairFiles ==
    \A d \in ImportFiles : \A m, n \in TypesOf(d) : m # n => InverseOf(d, m) = n

\* Types that move to another category keep their inverses.
LEMMA RecategorisedTwins ==
    ASSUME NEW c \in Config, NEW g, NEW h \in Categories \cup {None}, NEW a, NEW b, Twins(c, a, b),
           NEW d, d.types = Recategorised(c, g, h).types
    PROVE  Twins(d, a, b)
<1>1. a \in Names /\ c.types[a] \in TypeDef /\ a \in TypesOf(c)
    BY ConfigTypes DEF Twins
<1>2. d.types[a] = IF a \in Members(c, g) THEN [c.types[a] EXCEPT !.category = h] ELSE c.types[a]
    BY <1>1 DEF Recategorised
<1>3. d.types[a] \in TypeDef /\ d.types[a].inverse = c.types[a].inverse
    BY <1>1, <1>2 DEF TypeDef
<1>. QED BY <1>1, <1>3, ConfigAssumption DEF Twins, TypesOf, InverseOf

\* A command that saves at once leaves the types of ties twins.
LEMMA CommandKeepsTwins ==
    ASSUME OnePairFiles, TypeOK, Begins, Command, file' # file,
           NEW a \in InUse, NEW b, Twins(file, a, b), a # b
    PROVE  Twins(file', a, b)
<1>1. /\ file \in Config /\ Valid(file) /\ Twins(file, b, a)
      /\ a \in Names /\ b \in Names /\ a # None /\ b # None
      /\ a \in TypesOf(file) /\ b \in TypesOf(file)
    BY TwinsBothWays DEF TypeOK, Begins, Twins
<1>2. /\ \A d : d.types[a] = file.types[a] => a \in TypesOf(d) /\ InverseOf(d, a) = InverseOf(file, a)
      /\ \A d : d.types[b] = file.types[b] => b \in TypesOf(d) /\ InverseOf(d, b) = InverseOf(file, b)
    BY <1>1 DEF TypesOf, InverseOf
<1>3. ASSUME NEW d \in Config, Valid(d), d.types[a] = file.types[a] \/ d.types[b] = file.types[b]
      PROVE  Twins(d, a, b)
    BY <1>1, <1>2, <1>3, OneKept
<1>4. ASSUME NEW n \in Names, NEW t \in TypeDef, DefineType(n, t)
      PROVE  Twins(file', a, b)
    <2> DEFINE added == WithType(file, n, t)
               i     == t.inverse
               d     == Defined(file, n, t)
    <2>1. file' = d /\ Valid(d) /\ n \notin {a, b}
        BY <1>1, <1>4 DEF DefineType, Saves
    <2>2. added \in Config /\ added.types[a] = file.types[a] /\ added.types[b] = file.types[b]
        BY <1>1, <2>1, ConfigMakers, OthersInverse
    <2>3. i \in Names \cup {None} /\ TypesOf(added) = TypesOf(file) \cup {n}
        BY <1>1, MakersTypes DEF TypeDef
    <2> HIDE DEF added
    <2>4. CASE i = None
        <3>1. d = added
            BY <2>4 DEF Defined, added
        <3>. QED BY <1>3, <2>1, <2>2, <3>1
    <2>5. CASE i # None /\ i \in TypesOf(added)
        <3> DEFINE u == [added.types[i] EXCEPT !.inverse = n]
        <3>1. d = WithType(added, i, u)
            BY <2>2, <2>5 DEF Defined, added, WithType, Config
        <3>2. u \in TypeDef /\ i \in Names
            BY <2>2, <2>5, ConfigTypes DEF TypeDef
        <3> HIDE DEF u, d
        <3>3. d \in Config /\ \A x \in Names : x # i => d.types[x] = added.types[x]
            BY <2>2, <3>1, <3>2, ConfigMakers, OthersInverse
        <3>4. a # i \/ b # i
            OBVIOUS
        <3>. QED BY <1>1, <1>3, <2>1, <2>2, <3>3, <3>4
    <2>6. CASE i # None /\ i \notin TypesOf(added)
        <3> DEFINE other == [category |-> t.category, inverse |-> n, both |-> FALSE]
        <3>1. d = WithType(added, i, other)
            BY <2>6 DEF Defined, added
        <3>2. other \in TypeDef /\ i \in Names
            BY <2>3, <2>6 DEF TypeDef
        <3>3. i # a /\ i # b
            BY <1>1, <2>3, <2>6
        <3> HIDE DEF other, d
        <3>4. d \in Config /\ \A x \in Names : x # i => d.types[x] = added.types[x]
            BY <2>2, <3>1, <3>2, ConfigMakers, OthersInverse
        <3>. QED BY <1>1, <1>3, <2>1, <2>2, <3>3, <3>4
    <2>. QED BY <2>3, <2>4, <2>5, <2>6
<1>5. ASSUME NEW n \in Names, NEW o \in TypeOptions, UpdateType(n, o)
      PROVE  Twins(file', a, b)
    <2> DEFINE t == Updated(file.types[n], o)
               d == WithType(file, n, t)
    <2>1. file' = d /\ Valid(d) /\ n \in TypesOf(file)
        BY <1>5 DEF UpdateType, Saves
    <2>2. t \in TypeDef
        BY <1>1, <2>1, TypeMakers
    <2> HIDE DEF t
    <2>3. d \in Config /\ \A x \in Names : x # n => d.types[x] = file.types[x]
        BY <1>1, <2>2, ConfigMakers, OthersInverse
    <2> HIDE DEF d
    <2>4. a # n \/ b # n
        OBVIOUS
    <2>. QED BY <1>1, <1>3, <2>1, <2>3, <2>4
<1>6. ASSUME NEW n \in Names, DeleteType(n)
      PROVE  Twins(file', a, b)
    <2>1. file' = Without(file, PairOf(file, n)) /\ a \notin PairOf(file, n)
        BY <1>6 DEF DeleteType, Saves
    <2>2. Without(file, PairOf(file, n)).types[a] = file.types[a]
        BY <1>1, <2>1, OthersInverse
    <2>. QED BY <1>2, <2>1, <2>2 DEF Twins
<1>7. ASSUME NEW d, file' = d, d.types = file.types
      PROVE  Twins(file', a, b)
    BY <1>2, <1>7 DEF Twins
<1>8. ASSUME NEW g \in Categories, NEW p, DefineCategory(g, p) \/ SetPolicy(g, p)
      PROVE  Twins(file', a, b)
    BY <1>1, <1>7, <1>8 DEF DefineCategory, SetPolicy, Saves, Config
<1>9. ASSUME NEW g \in Categories, DeleteCategory(g)
      PROVE  Twins(file', a, b)
    BY <1>1, <1>7, <1>9 DEF DeleteCategory, Saves, Config
<1>10. ASSUME NEW g \in Categories, NEW h \in Categories \cup {None}, NEW d,
              file' = d, d.types = Recategorised(file, g, h).types
       PROVE  Twins(file', a, b)
    BY <1>1, <1>10, RecategorisedTwins
<1>11. ASSUME NEW g \in Categories, NEW h \in Categories, NEW p, RenameCategory(g, h, p)
       PROVE  Twins(file', a, b)
    <2> DEFINE r == Recategorised(file, g, h)
    <2>1. r \in Config /\ file' = [r EXCEPT !.categories[h] = p]
        BY <1>1, <1>11, ConfigMakers DEF RenameCategory, Saves
    <2> HIDE DEF r
    <2>2. [r EXCEPT !.categories[h] = p].types = r.types
        BY <2>1 DEF Config
    <2>. QED BY <1>10, <2>1, <2>2 DEF r
<1>12. ASSUME NEW g \in Categories, NEW h \in Categories, MoveTypes(g, h)
       PROVE  Twins(file', a, b)
    BY <1>10, <1>12 DEF MoveTypes, Saves
<1>13. ASSUME NEW e \in ImportFiles, NEW mode, Import(e, mode)
       PROVE  Twins(file', a, b)
    <2> DEFINE d == Merged(file, e, mode)
    <2>1. file' = d /\ Valid(d) /\ e \in Config
        BY <1>13, ConfigAssumption DEF Import, Saves
    <2>2. d \in Config /\ \A x \in Names : e.types[x] = None => d.types[x] = file.types[x]
        BY <1>1, <2>1, ConfigMakers, OthersInverse
    <2>3. \A x \in Names : d.types[x] \in {file.types[x], e.types[x]}
        BY DEF Merged
    <2> HIDE DEF d
    <2>4. CASE a \notin TypesOf(e) \/ b \notin TypesOf(e)
        <3>1. d.types[a] = file.types[a] \/ d.types[b] = file.types[b]
            BY <1>1, <2>2, <2>4 DEF TypesOf
        <3>. QED BY <1>3, <2>1, <2>2, <3>1
    <2>5. CASE a \in TypesOf(e) /\ b \in TypesOf(e)
        <3>1. InverseOf(e, a) = b
            BY <2>5 DEF OnePairFiles
        <3>2. CASE d.types[a] = file.types[a]
            BY <1>3, <2>1, <2>2, <3>2
        <3>3. CASE d.types[a] = e.types[a]
            <4>1. a \in TypesOf(d) /\ InverseOf(d, a) = b
                BY <1>1, <2>5, <3>1, <3>3 DEF TypesOf, InverseOf
            <4>. QED BY <1>1, <2>1, <4>1 DEF Twins
        <3>. QED BY <1>1, <2>3, <3>2, <3>3
    <2>. QED BY <2>4, <2>5
<1>14. \/ \E n \in Names : \/ \E t \in TypeDef : DefineType(n, t)
                           \/ \E o \in TypeOptions : UpdateType(n, o)
                           \/ DeleteType(n)
       \/ \E g \in Categories : \/ \E p \in Policies : DefineCategory(g, p) \/ SetPolicy(g, p)
                                \/ \E h \in Categories : \E p : RenameCategory(g, h, p)
                                \/ \E h \in Categories : MoveTypes(g, h)
                                \/ DeleteCategory(g)
       \/ \E e \in ImportFiles, mode \in {"plain", "merge", "overwrite"} : Import(e, mode)
    BY DEF Command, RenameType, MigrateType, AskDeleteType, AskDeleteCategory
<1>. QED BY <1>4, <1>5, <1>6, <1>8, <1>9, <1>11, <1>12, <1>13, <1>14

\* When a rewriting is saved, a tie it found whole is of a pair of the saved
\* configuration, or gone, or under a name known to be left behind.
LEMMA SavedTwins ==
    ASSUME TypeOK, LoadsInv, HalvesInv, WholeInv, RenameSave \/ MigrateSave \/ DropSave,
           NEW k \in call.whole
    PROVE  Gone(k)' \/ Paired(file, k)' \/ ties'[k].near \in loose'
<1>1. /\ IsRewriting(call) /\ call.op \in Rewrites /\ call.todo = {} /\ k \in Ties
      /\ file' = call.next /\ loose' = loose \ TypesOf(call.next) /\ UNCHANGED ties
    <2>1. call.op \in Rewrites /\ call.todo = {}
        BY DEF RenameSave, MigrateSave, DropSave, Converted, Rewrites
    <2>2. IsRewriting(call)
        BY <2>1, CallParts DEF TypeOK
    <2>. QED BY <2>1, <2>2 DEF RenameSave, MigrateSave, DropSave, Saves, IsRewriting
<1>2. Valid(file) /\ file \in Config /\ call.op # "idle"
    BY <1>1 DEF LoadsInv, Loadable, Stranded, Idle, Rewrites, TypeOK
<1>3. CASE Gone(k)
    BY <1>1, <1>3 DEF Gone
<1>4. ASSUME NEW a \in Names, NEW b \in Names, Underway(k, a, b)
      PROVE  Gone(k)' \/ Paired(file, k)' \/ ties'[k].near \in loose'
    <2>1. Twins(file, a, b) /\ a # b /\ ties[k].near = call.conv[a] /\ ties[k].far = call.conv[b]
        BY <1>1, <1>4 DEF Underway
    <2>2. Twins(call.next, ties[k].near, ties[k].far) => Paired(file, k)'
        <3> SUFFICES ASSUME Twins(call.next, ties[k].near, ties[k].far) PROVE Paired(file, k)'
            OBVIOUS
        <3>1. /\ TypesOf(file)' = TypesOf(call.next)
              /\ InverseOf(file, ties[k].near)' = InverseOf(call.next, ties[k].near)
            BY <1>1 DEF TypesOf, InverseOf
        <3>. QED BY <1>1, <3>1 DEF Paired, Twins
    <2>3. CASE RenameSave
        <3>1. call.op = "rename" /\ Valid(call.next)
            BY <2>3 DEF RenameSave, Converted
        <3>2. PICK n \in TypesOf(file), o \in TypeOptions :
                 /\ o.name \notin TypesOf(file) \cup {None}
                 /\ call.conv = RenameConv(file, n, o) /\ call.next = Renamed(file, n, o)
            BY <1>1, <3>1 DEF WholeInv, Matches
        <3>3. Twins(call.next, call.conv[a], call.conv[b])
            BY <1>2, <2>1, <3>1, <3>2, RenameTwins
        <3>. QED BY <2>1, <2>2, <3>3
    <2>4. CASE MigrateSave
        <3>1. call.op = "migrate"
            BY <2>4 DEF MigrateSave, Converted
        <3>2. PICK n \in TypesOf(file) : \E m \in TypesOf(file) \ PairOf(file, n) :
                 /\ InverseOf(file, n) # None => InverseOf(file, m) # None
                 /\ call.conv = MigrateConv(file, n, m)
                 /\ call.next = Without(file, PairOf(file, n))
            BY <1>1, <3>1 DEF WholeInv, Matches
        <3>3. Twins(call.next, call.conv[a], call.conv[b])
            BY <1>2, <2>1, <3>2, MigrateTwins
        <3>. QED BY <2>1, <2>2, <3>3
    <2>5. CASE DropSave
        <3>1. call.op = "drop" /\ call.rest = {}
            BY <2>5 DEF DropSave, Converted
        <3>2. PICK m \in TypesOf(file) : call.conv = Removing(PairOf(file, m))
            BY <1>1, <3>1 DEF WholeInv, Matches
        <3>3. \A x \in TypesOf(call.next) : InverseOf(call.next, x) = InverseOf(file, x)
            BY <1>1, <3>1 DEF WholeInv, Matches
        <3>4. \A x \in Names : call.conv[x] = IF x \in PairOf(file, m) THEN None ELSE x
            BY <3>2 DEF Removing
        <3>5. Twins(file, b, a) /\ a # None /\ b # None
            BY <1>2, <2>1, TwinsBothWays DEF Twins
        <3>6. CASE a \in PairOf(file, m)
            <4>1. b \in PairOf(file, m)
                BY <1>2, <2>1, <3>6, PairClosed DEF Twins
            <4>. QED BY <1>1, <2>1, <3>4, <3>6, <4>1 DEF Gone
        <3>7. CASE a \notin PairOf(file, m)
            <4>1. b \notin PairOf(file, m)
                BY <1>2, <3>5, <3>7, PairClosed DEF Twins
            <4>2. ties[k].near = a /\ ties[k].far = b
                BY <2>1, <3>4, <3>7, <4>1
            <4>3. a \in Staying
                BY <1>1, <3>5, <4>2 DEF HalvesInv, Sides
            <4>4. a \in TypesOf(call.next) \/ a \in loose \ TypesOf(call.next)
                BY <3>1, <4>3 DEF Staying, Later
            <4>5. a \in TypesOf(call.next) => Twins(call.next, a, b)
                BY <2>1, <3>3, <3>5 DEF Twins
            <4>. QED BY <1>1, <2>2, <4>2, <4>4, <4>5
        <3>. QED BY <3>6, <3>7
    <2>. QED BY <2>3, <2>4, <2>5
<1>. QED BY <1>1, <1>3, <1>4 DEF WholeInv

\* And when another command saves, a tie that was whole is.
LEMMA OthersKeepTwins ==
    ASSUME OnePairFiles, TypeOK, Next, file' # file, call.op \notin Rewrites,
           NEW k \in Ties, Paired(file, k), ties[k].near # ties[k].far
    PROVE  Paired(file, k)' \/ ties'[k].near \in loose'
<1> DEFINE a == ties[k].near
           b == ties[k].far
<1>1. file \in Config /\ Twins(file, a, b) /\ a # b
    BY DEF TypeOK, Paired, Twins
<1>2. a # None /\ a \in InUse
    BY <1>1, ConfigAssumption DEF InUse, Sides, Twins, TypesOf
<1>3. UNCHANGED ties /\ Twins(file', a, b) => Paired(file, k)'
    BY DEF Paired, Twins, TypesOf, InverseOf
<1> HIDE DEF a, b
<1>4. CASE Begins /\ Command
    <2>1. Twins(file', a, b)
        BY <1>1, <1>2, <1>4, CommandKeepsTwins
    <2>2. UNCHANGED ties
        BY <1>4 DEF Command, DefineType, UpdateType, RenameType, DeleteType, MigrateType,
                    AskDeleteType, DefineCategory, SetPolicy, RenameCategory, MoveTypes,
                    DeleteCategory, AskDeleteCategory, Import
    <2>. QED BY <1>3, <2>1, <2>2
<1>5. CASE ForceType
    <2> DEFINE S == PairOf(file, call.name)
    <2>1. file' = Without(file, S) /\ loose' = loose \cup S /\ UNCHANGED ties
        BY <1>5 DEF ForceType
    <2>2. CASE a \in S
        BY <2>1, <2>2 DEF a
    <2>3. CASE a \notin S
        <3> HIDE DEF S
        <3>1. a \in Names
            BY <1>1 DEF Twins, TypesOf
        <3>2. Without(file, S).types[a] = file.types[a]
            BY <1>1, <2>3, <3>1, OthersInverse
        <3>3. Twins(file', a, b)
            BY <1>1, <2>1, <3>2 DEF Twins, TypesOf, InverseOf
        <3>. QED BY <1>3, <2>1, <3>3
    <2>. QED BY <2>2, <2>3
<1>6. CASE ForceCategory
    <2>1. file' = Recategorised(file, call.name, None) /\ UNCHANGED ties
        BY <1>6 DEF ForceCategory, Saves
    <2>2. Twins(file', a, b)
        BY <1>1, <2>1, RecategorisedTwins
    <2>. QED BY <1>3, <2>1, <2>2
<1>7. /\ \A j, n : ~LinkFeatures(j, n)
      /\ \A f : ~ConvertFeature(f)
      /\ ~RenameSave /\ ~RenameRejected /\ ~MigrateSave /\ ~DropNext /\ ~DropSave /\ ~Stop
      /\ ~CascadeType /\ ~CascadeCategory /\ ~Cancel
    BY DEF LinkFeatures, ConvertFeature, RenameSave, RenameRejected, MigrateSave, DropNext, DropSave,
           Stop, CascadeType, CascadeCategory, Cancel, Converted, Rewrites
<1>. QED BY <1>4, <1>5, <1>6, <1>7 DEF Next

\* For a careful user, and import files that do not pair types anew, no command
\* that succeeds leaves a tie half converted.
THEOREM PairsKeptAlways ==
    ASSUME Careful, OnePairFiles
    PROVE  Spec => PairsKept
<1> DEFINE Inv == TypeOK /\ Asked /\ LoadsInv /\ HalvesInv /\ WholeInv
           Kept == file' # file =>
               \A k \in IF call.op \in Rewrites THEN call.whole
                        ELSE {j \in Ties : Paired(file, j) /\ ties[j].near # ties[j].far} :
                   \/ ties'[k].near = None /\ ties'[k].far = None
                   \/ Paired(file, k)'
                   \/ ties'[k].near \in loose'
<1>1. Init => Inv
    <2>1. ASSUME Init PROVE HalvesInv /\ WholeInv
        BY <2>1 DEF Init, HalvesInv, WholeInv, TypesConfigured, InUse, Sides, Idle, Rewrites
    <2>. QED BY <2>1, InitTypes DEF LoadsInv
<1>2. Inv /\ [Next]_vars => Inv'
    BY StepTypes, StepAsked, StepLoads, StepHalves, StepWhole
<1>3. Inv /\ [Next]_vars => [Kept]_vars
    <2> SUFFICES ASSUME Inv, Next, file' # file,
                        NEW k \in IF call.op \in Rewrites THEN call.whole
                                  ELSE {j \in Ties : Paired(file, j) /\ ties[j].near # ties[j].far}
                 PROVE  Gone(k)' \/ Paired(file, k)' \/ ties'[k].near \in loose'
        BY DEF Gone
    <2>1. CASE call.op \in Rewrites
        <3>1. RenameSave \/ MigrateSave \/ DropSave
            <4>1. call.op \notin {"idle", "confirm"}
                BY <2>1 DEF Rewrites
            <4>2. ~Begins /\ ~ForceType /\ ~ForceCategory
                BY <4>1 DEF Begins, Idle, ForceType, ForceCategory, Confirms
            <4>3. /\ \A j, n : ~LinkFeatures(j, n)
                  /\ \A f : ~ConvertFeature(f)
                  /\ ~RenameRejected /\ ~DropNext /\ ~Stop
                  /\ ~CascadeType /\ ~CascadeCategory /\ ~Cancel
                BY DEF LinkFeatures, ConvertFeature, RenameRejected, DropNext, Stop,
                       CascadeType, CascadeCategory, Cancel
            <4>. QED BY <4>2, <4>3 DEF Next
        <3>. QED BY <2>1, <3>1, SavedTwins
    <2>2. CASE call.op \notin Rewrites
        BY <2>2, OthersKeepTwins
    <2>. QED BY <2>1, <2>2
<1> HIDE DEF Inv
<1>. QED BY <1>1, <1>2, <1>3, PTL DEF Spec, PairsKept
=============================================================================
