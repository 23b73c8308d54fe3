---------------------------- MODULE CycleSearch ----------------------------
(***************************************************************************)
(* The two searches for cycles as the code runs them, to be compared with  *)
(* the definitions of Relationships: the depth-first search of link        *)
(* (pkg/fogit/cycles.go) and the three-colour one of validate              *)
(* (internal/features/validator/cycles.go).  E is a set of edges.          *)
(*                                                                         *)
(* A search is the sequence of states its loop goes through.  path is the  *)
(* stack of calls under way, the innermost first; seen the edges their     *)
(* loops have looked at, which they take in an arbitrary fixed order.      *)
(* Neither search calls itself twice for a node, so seen is kept apart by  *)
(* the edges' first nodes.                                                 *)
(***************************************************************************)
EXTENDS Relationships, Naturals, Sequences

OnPath(acc) == {acc.path[i] : i \in 1..Len(acc.path)}

\* The edges the innermost call has still to look at, and the next one.
Left(E, acc) == {e \in E \ acc.seen : e[1] = Head(acc.path)}
Look(E, acc) == CHOOSE e \in Left(E, acc) : TRUE

\* A call returns; a call is made for n.
Return(acc)  == [acc EXCEPT !.path = Tail(@)]
Enter(acc, n) == [acc EXCEPT !.path = <<n>> \o @]

(***************************************************************************)
(* dfsSearchByCategory: visited is shared by the whole search, and a node  *)
(* that is not a feature of the repository ends its path.                  *)
(***************************************************************************)
EnterUnvisited(acc, n) ==
    IF n \in acc.visited THEN acc
    ELSE LET entered == [acc EXCEPT !.visited = @ \cup {n}]
         IN  IF n \in Live THEN Enter(entered, n) ELSE entered

\* Variant: successors are not followed.
SearchStep_OneLevel(E, target, acc) ==
    IF acc.found \/ acc.path = <<>> THEN acc
    ELSE IF Left(E, acc) = {} THEN Return(acc)
    ELSE [acc EXCEPT !.seen = @ \cup {Look(E, acc)}, !.found = Look(E, acc)[2] = target]

SearchStep(E, target, acc) ==
    IF acc.found \/ acc.path = <<>> THEN acc
    ELSE IF Left(E, acc) = {} THEN Return(acc)
    ELSE LET n      == Look(E, acc)[2]
             looked == [acc EXCEPT !.seen = @ \cup {Look(E, acc)}]
         IN  IF n = target THEN [looked EXCEPT !.found = TRUE]
             ELSE EnterUnvisited(looked, n)

DfsSearch(E, start, target) ==
    LET begin == [path |-> <<>>, seen |-> {}, visited |-> {}, found |-> FALSE]
        run[n \in Nat] == IF n = 0 THEN EnterUnvisited(begin, start)
                          ELSE SearchStep(E, target, run[n - 1])
    IN  run

\* Every edge is looked at once and every call returns.
DfsSearchLength(E) == 2 * Cardinality(E) + 1

(***************************************************************************)
(* detectCyclesInCategory: grey nodes are on the current path, black ones  *)
(* are done; an edge into a grey node closes a cycle, and a cycle of one   *)
(* node is not reported.                                                   *)
(***************************************************************************)
White(acc) == Live \ (OnPath(acc) \cup acc.black)

\* Variant: grey nodes count as done.
Visit_GreyIsDone(acc, x, n) ==
    IF n \notin OnPath(acc) \cup acc.black THEN Enter(acc, n) ELSE acc

\* The call for x looks at an edge to n.
Visit(acc, x, n) ==
    IF n \notin OnPath(acc) \cup acc.black THEN Enter(acc, n)
    ELSE IF n \in OnPath(acc) /\ n # x THEN [acc EXCEPT !.cycle = TRUE]
    ELSE acc

VisitStep(E, acc) ==
    IF acc.path = <<>>
    THEN IF White(acc) = {} THEN acc ELSE Enter(acc, CHOOSE f \in White(acc) : TRUE)
    ELSE IF Left(E, acc) = {}
         THEN Return([acc EXCEPT !.black = @ \cup {Head(acc.path)}])
         ELSE Visit([acc EXCEPT !.seen = @ \cup {Look(E, acc)}],
                    Head(acc.path), Look(E, acc)[2])

DetectCycles(E) ==
    LET run[n \in Nat] == IF n = 0 THEN [path |-> <<>>, seen |-> {}, black |-> {}, cycle |-> FALSE]
                          ELSE VisitStep(E, run[n - 1])
    IN  run

DetectCyclesLength(E) == 2 * (Cardinality(E) + Cardinality(Live))

\* checkCycles goes by the forward types of a category.
CategoryEdges(c) == Edges(TypesIn(c) \cap Forward, links)

CheckCycles(c) == DetectCycles(CategoryEdges(c))[DetectCyclesLength(CategoryEdges(c))]
-----------------------------------------------------------------------------
\* The search of link comes to an end, and finds its source exactly when the
\* target reaches it.
SearchFindsPaths ==
    call = Idle =>
        \A c \in Strict : LET E == Edges(TypesIn(c), links)
                          IN  \A s, t \in Features : s # t =>
            LET end == DfsSearch(E, t, s)[DfsSearchLength(E)]
            IN  /\ end.found \/ end.path = <<>>
                /\ end.found <=> Reaches(E, t, s)

\* validate comes to an end with every feature done, and reports E005 for a
\* category exactly when its graph has a cycle.
CheckerFindsCycles ==
    call = Idle =>
        \A c \in Strict : LET end == CheckCycles(c)
                          IN  /\ end.path = <<>> /\ Live \subseteq end.black
                              /\ end.cycle <=> ~Acyclic(CategoryEdges(c))
=============================================================================
