----------------------------- MODULE Traversal -----------------------------
(***************************************************************************)
(* What reads the relationships: impacts (internal/features/impacts.go),   *)
(* relationships --recursive (internal/features/traversal.go) and tree     *)
(* (internal/features/tree.go, internal/printer/tree.go), over the live    *)
(* features of Relationships.  Features, and the relationships of one, are *)
(* taken in an arbitrary fixed order.                                      *)
(***************************************************************************)
EXTENDS CycleSearch, Functions

\* The members of a set in an arbitrary fixed order.
InOrder(set) == CHOOSE order \in [1..Cardinality(set) -> set] : IsInjective(order)

(***************************************************************************)
(* AnalyzeImpactsWithFeatures: breadth first against the relationships of  *)
(* the categories included; a feature is reported the first time it is     *)
(* met, one level below the feature it was met from.                       *)
(***************************************************************************)
Included(categories) == {l \in links : Category[l.type] \in categories}

\* Variant: one level more than asked for.
TooDeep_OffByOne(depth, maxDepth) == maxDepth > 0 /\ depth > maxDepth

TooDeep(depth, maxDepth) == maxDepth > 0 /\ depth >= maxDepth

Dependants(ls, id, reported) ==
    {l.source : l \in {k \in ls : k.target = id}} \ {r.id : r \in reported}

\* What is met from the feature taken from the queue.
Met(ls, maxDepth, current, reported) ==
    IF TooDeep(current.depth, maxDepth) THEN {}
    ELSE {[id |-> g, depth |-> current.depth + 1] : g \in Dependants(ls, current.id, reported)}

ImpactStep(ls, maxDepth, acc) ==
    IF acc.queue = <<>> THEN acc
    ELSE LET met == Met(ls, maxDepth, Head(acc.queue), acc.reported)
         IN  [queue |-> Tail(acc.queue) \o InOrder(met), reported |-> acc.reported \cup met]

ImpactLoop(ls, maxDepth, start) ==
    LET run[n \in Nat] == IF n = 0 THEN [queue |-> <<start>>, reported |-> {start}]
                          ELSE ImpactStep(ls, maxDepth, run[n - 1])
    IN  run

\* Every live feature is taken from the queue at most once.
Impacts(f, categories, maxDepth) ==
    LET start == [id |-> f, depth |-> 0]
    IN  ImpactLoop(Included(categories), maxDepth, start)[Cardinality(Live)].reported \ {start}

(***************************************************************************)
(* TraverseRelationshipsRecursive.  Outgoing relationships of a feature    *)
(* are all listed; of its incoming ones those from features met before are *)
(* skipped, the feature asked for excepted.                                *)
(***************************************************************************)
Lists(acc, ls, next, depth) ==
    LET new == (next \cap Live) \ acc.visited
    IN  [queue   |-> acc.queue \o InOrder({[id |-> g, depth |-> depth + 1] : g \in new}),
         visited |-> acc.visited \cup new,
         listed  |-> acc.listed \o InOrder(ls)]

\* Variant: relationships into features met before are skipped.
ListOut_OnlyNew(acc, x, types) ==
    LET out == {l \in Outgoing(x.id) : l.type \in types /\ l.target \notin acc.visited}
    IN  Lists(acc, out, {l.target : l \in out}, x.depth)

ListOut(acc, x, types) ==
    LET out == {l \in Outgoing(x.id) : l.type \in types}
    IN  Lists(acc, out, {l.target : l \in out}, x.depth)

ListIn(acc, f, x, types) ==
    LET in == {l \in Incoming(x.id) : l.type \in types /\ (l.source \notin acc.visited \/ l.source = f)}
    IN  Lists(acc, in, {l.source : l \in in}, x.depth)

ListStep(acc, f, direction, types, maxDepth) ==
    IF acc.queue = <<>> THEN acc
    ELSE LET x   == Head(acc.queue)
             pop == [acc EXCEPT !.queue = Tail(@)]
             out == IF direction \in {"outgoing", "both"} THEN ListOut(pop, x, types) ELSE pop
         IN  IF TooDeep(x.depth, maxDepth) THEN pop
             ELSE IF direction \in {"incoming", "both"} THEN ListIn(out, f, x, types)
             ELSE out

ListLoop(f, direction, types, maxDepth) ==
    LET run[n \in Nat] ==
            IF n = 0 THEN [queue |-> <<[id |-> f, depth |-> 0]>>, visited |-> {f}, listed |-> <<>>]
            ELSE ListStep(run[n - 1], f, direction, types, maxDepth)
    IN  run

Listing(f, direction, types, maxDepth) ==
    ListLoop(f, direction, types, maxDepth)[Cardinality(Live)].listed

(***************************************************************************)
(* tree: the features without a relationship of the hierarchy's type, and  *)
(* below each one, level by level and without a look at what was printed,  *)
(* the features that have one to it.                                       *)
(***************************************************************************)
\* Variant: the other end of the relationship.
FindRoots_Sources(type) == {f \in Live : \A l \in links : ~(l.target = f /\ l.type = type)}

FindRoots(type) == {f \in Live : \A l \in Outgoing(f) : l.type # type}

FindChildren(parent, type) ==
    {f \in Live : \E l \in Outgoing(f) : l.type = type /\ l.target = parent}

\* The features printed at each depth.
Printed(type) ==
    LET level[depth \in Nat] ==
            IF depth = 0 THEN FindRoots(type)
            ELSE UNION {FindChildren(g, type) : g \in level[depth - 1]}
    IN  level
-----------------------------------------------------------------------------
(* Reference: how far a feature is from f, against the edges E.            *)
Within(f, E) ==
    LET within[n \in Nat] ==
            IF n = 0 THEN {f}
            ELSE LET near == within[n - 1]
                 IN  near \cup {e[1] : e \in {d \in E : d[2] \in near}}
    IN  within

\* impacts reports the features that lead to f over the categories included,
\* each once and with its distance, and with a depth given no others than
\* those within it.
ImpactsByDistance ==
    call = Idle =>
        \A f \in Live, maxDepth \in {0, 1} :
            LET categories == IF maxDepth = 0 THEN {Category[t] : t \in Types} ELSE Strict
                reach == Within(f, Edges({t \in Types : Category[t] \in categories}, links))
                far   == IF maxDepth = 0 THEN Cardinality(Live) ELSE maxDepth
            IN  Impacts(f, categories, maxDepth)
                    = UNION {{[id |-> g, depth |-> n] : g \in reach[n] \ reach[n - 1]} : n \in 1..far}

\* relationships --recursive lists, outgoing, each relationship of the features
\* f leads to within one level less than the depth given, and once; incoming,
\* at least one of each feature that leads to f within the depth, and none that
\* does not.
ListsWhatItReaches ==
    call = Idle =>
        \A f \in Live, maxDepth \in {0, 1} :
            LET types == IF maxDepth = 0 THEN Types ELSE Forward
                E     == Edges(types, links)
                far   == IF maxDepth = 0 THEN Cardinality(Live) ELSE maxDepth
                to    == Within(f, {<<e[2], e[1]>> : e \in E})[far - 1]
                from  == Within(f, E)[far - 1]
                out   == Listing(f, "outgoing", types, maxDepth)
                in    == Listing(f, "incoming", types, maxDepth)
            IN  /\ Range(out) = {l \in links : l.type \in types /\ l.source \in to}
                /\ Len(out) = Cardinality(Range(out))
                /\ {l.source : l \in Range(in)} = {e[1] : e \in {d \in E : d[2] \in from}}

\* While no pair of relationships was left with one half, tree prints every
\* feature for a type whose cycles are refused, and comes to an end.
TreeShowsAll ==
    call = Idle /\ tidy =>
        \A t \in {s \in Types : Category[s] \in Strict} :
            /\ UNION {Printed(t)[n] : n \in 0..Cardinality(Live)} = Live
            /\ Printed(t)[Cardinality(Live)] = {}
=============================================================================
