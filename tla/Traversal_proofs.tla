-------------------------- MODULE Traversal_proofs --------------------------
(***************************************************************************)
(* Proofs about the searches of CycleSearch and Traversal for every set of *)
(* features and every graph their relationships form: that each comes to   *)
(* an end, and what it has found by then.  A search is followed from state *)
(* to state by an invariant of its own; how many steps it takes, by a      *)
(* number that goes down with each.  Induction over the steps comes from   *)
(* the pigeonhole principle, in terms of sets of numbers, and that a loop  *)
(* has a run at all from that.                                             *)
(***************************************************************************)
EXTENDS Traversal, Relationships_proofs, FiniteSetTheorems, FunctionTheorems, TLAPS

-----------------------------------------------------------------------------
(***************************************************************************)
(* Induction, for sets of numbers: from the pigeonhole principle.  The     *)
(* numbers up to one that S lacks, S taken away, would fit into themselves *)
(* with one place to spare.                                                *)
(***************************************************************************)
LEMMA SetInduction ==
    ASSUME NEW S, 0 \in S, \A n \in Nat : n \in S => n + 1 \in S
    PROVE  Nat \subseteq S
<1> SUFFICES ASSUME NEW k \in Nat, k \notin S
             PROVE  FALSE
  OBVIOUS
<1> DEFINE T == (0..k) \ S
           f == [n \in T |-> n - 1]
<1>1. IsFiniteSet(T)
  <2>1. 0 \in Int /\ k \in Int
    OBVIOUS
  <2>2. IsFiniteSet(0..k)
    BY <2>1, FS_Interval
  <2> QED BY <2>2, FS_Difference
<1>2. k \in T
  OBVIOUS
<1>3. \A n \in T : n - 1 \in T \ {k}
  <2> TAKE n \in T
  <2>1. n \in 0..k /\ n \notin S /\ n # 0
    OBVIOUS
  <2>2. n - 1 \in Nat /\ (n - 1) + 1 = n
    BY <2>1
  <2>3. n - 1 \notin S
    BY <2>1, <2>2
  <2> QED BY <2>1, <2>2, <2>3
<1>4. f \in [T -> T \ {k}]
  BY <1>3
<1>5. IsFiniteSet(T \ {k}) /\ Cardinality(T \ {k}) < Cardinality(T)
  <2> HIDE DEF T
  <2>1. Cardinality(T) \in Nat
    BY <1>1, FS_CardinalityType
  <2>2. IsFiniteSet(T \ {k}) /\ Cardinality(T \ {k}) = Cardinality(T) - 1
    BY <1>1, <1>2, FS_RemoveElement
  <2> QED BY <2>1, <2>2
<1>6. \E m, n \in T : m # n /\ f[m] = f[n]
  <2> HIDE DEF T, f
  <2> QED BY <1>1, <1>4, <1>5, FS_PigeonHole
<1> QED BY <1>6

(***************************************************************************)
(* A step repeated from a first value on: the sequence of values exists,   *)
(* so that a function defined by that recursion has the values it says.    *)
(***************************************************************************)
LEMMA Iteration ==
    ASSUME NEW C, NEW F \in [C -> C], NEW c \in C
    PROVE  \E g \in [Nat -> C] :
              g = [n \in Nat |-> IF n = 0 THEN c ELSE F[g[n - 1]]]
<1> DEFINE Starts(g, n) == /\ g \in [0..n -> C] /\ g[0] = c
                           /\ \A i \in 0..n : i # n => g[i + 1] = F[g[i]]
           first(n) == CHOOSE g \in [0..n -> C] : Starts(g, n)
           all == [n \in Nat |-> first(n)[n]]
<1>1. \A n \in Nat : \E g \in [0..n -> C] : Starts(g, n)
  <2> DEFINE S == {n \in Nat : \E g \in [0..n -> C] : Starts(g, n)}
  <2>1. 0 \in S
    <3>1. Starts([i \in 0..0 |-> c], 0)
      OBVIOUS
    <3> QED BY <3>1
  <2>2. ASSUME NEW n \in Nat, n \in S
        PROVE  n + 1 \in S
    <3>1. PICK g \in [0..n -> C] : Starts(g, n)
      BY <2>2
    <3> DEFINE h == [i \in 0..(n + 1) |-> IF i = n + 1 THEN F[g[n]] ELSE g[i]]
    <3>2. h \in [0..(n + 1) -> C]
      BY <3>1
    <3>3. h[0] = c
      BY <3>1
    <3>4. ASSUME NEW i \in 0..(n + 1), i # n + 1
          PROVE  h[i + 1] = F[h[i]]
      BY <3>1, <3>4
    <3>5. Starts(h, n + 1)
      BY <3>2, <3>3, <3>4
    <3> QED BY <3>2, <3>5
  <2> HIDE DEF S
  <2>3. Nat \subseteq S
    BY <2>1, <2>2, SetInduction
  <2> QED BY <2>3 DEF S
<1>2. \A n \in Nat : Starts(first(n), n)
  BY <1>1
<1>3. ASSUME NEW m \in Nat, NEW n \in Nat, NEW g, Starts(g, m), NEW h, Starts(h, n)
      PROVE  \A i \in Nat : i <= m /\ i <= n => g[i] = h[i]
  <2> DEFINE S == {i \in Nat : i <= m /\ i <= n => g[i] = h[i]}
  <2>1. 0 \in S
    BY <1>3
  <2>2. ASSUME NEW i \in Nat, i \in S
        PROVE  i + 1 \in S
    <3>1. CASE i + 1 <= m /\ i + 1 <= n
      <4>1. i \in 0..m /\ i # m /\ i \in 0..n /\ i # n
        BY <3>1
      <4>2. g[i + 1] = F[g[i]] /\ h[i + 1] = F[h[i]] /\ g[i] = h[i]
        BY <1>3, <2>2, <4>1
      <4> QED BY <4>2
    <3> QED BY <3>1
  <2> HIDE DEF S
  <2>3. Nat \subseteq S
    BY <2>1, <2>2, SetInduction
  <2> QED BY <2>3 DEF S
<1> HIDE DEF first
<1>4. all \in [Nat -> C]
  <2>1. ASSUME NEW n \in Nat
        PROVE  first(n)[n] \in C
    <3>1. n \in 0..n /\ Starts(first(n), n)
      BY <1>2
    <3> QED BY <3>1
  <2> QED BY <2>1
<1>5. all[0] = c
  <2>1. Starts(first(0), 0)
    BY <1>2
  <2> QED BY <2>1
<1>6. ASSUME NEW n \in Nat
      PROVE  all[n + 1] = F[all[n]]
  <2> DEFINE g == first(n + 1)
  <2>1. Starts(g, n + 1) /\ Starts(first(n), n)
    BY <1>2
  <2> HIDE DEF Starts
  <2>2. g[n] = first(n)[n]
    <3>1. n + 1 \in Nat /\ n <= n + 1 /\ n <= n
      OBVIOUS
    <3>2. \A i \in Nat : i <= n + 1 /\ i <= n => g[i] = first(n)[i]
      <4> HIDE DEF g
      <4> QED BY <1>3, <2>1, <3>1
    <3> QED BY <3>1, <3>2
  <2>3. g[n + 1] = F[g[n]]
    BY <2>1 DEF Starts
  <2> QED BY <2>2, <2>3
<1>7. ASSUME NEW n \in Nat
      PROVE  all[n] = IF n = 0 THEN c ELSE F[all[n - 1]]
  <2>1. CASE n # 0
    <3>1. n - 1 \in Nat /\ (n - 1) + 1 = n
      BY <2>1
    <3> HIDE DEF all
    <3> QED BY <1>6, <2>1, <3>1
  <2> QED BY <1>5, <2>1
<1> HIDE DEF all
<1> QED BY <1>4, <1>7
-----------------------------------------------------------------------------
(***************************************************************************)
(* The relationships and the live features are finitely many: a command    *)
(* adds one at a time, and a fix writes what it has in memory, which grows *)
(* by one at a time.  Until a relationship is left without its other half  *)
(* they all lead to features.                                              *)
(***************************************************************************)
Finite ==
    /\ IsFiniteSet(links) /\ IsFiniteSet(Live)
    /\ call.op = "fix" => IsFiniteSet(call.memory)

LeadToLive == tidy => \A l \in links : l.target \in Live

LEMMA LiveGrows ==
    ASSUME RelInv, [Next]_vars
    PROVE  \E f : Live' \subseteq Live \cup {f}
<1>1. CASE status' = status
  BY <1>1 DEF Live
<1>2. ASSUME NEW f \in Features, NEW s, status' = [status EXCEPT ![f] = s]
      PROVE  Live' \subseteq Live \cup {f}
  <2>1. status \in [Features -> {"new", "live", "deleted"}]
    BY DEF RelInv, TypeOK
  <2> QED BY <1>2, <2>1 DEF Live
<1>3. CASE DeleteFile
  <2>1. call.feature \in Features
    BY <1>3 DEF DeleteFile, RelInv, CallOK, Live
  <2> QED BY <1>2, <1>3, <2>1 DEF DeleteFile
<1>4. ASSUME NEW f \in Features, Create(f) \/ \E parent \in Targets : CreateUnder(f, parent)
      PROVE  \E g : Live' \subseteq Live \cup {g}
  BY <1>2, <1>4 DEF Create, CreateUnder
<1>5. CASE FixSteps
  BY <1>5, FixAdds DEF FixGrowth
<1> QED BY <1>1, <1>3, <1>4, <1>5
     DEF Next, FixSteps, vars, ClearBegin, DeleteBegin, LinkFeatures, LinkInverse, Unlink,
         ClearOpposite, ClearOppositeFails, ClearOwn, DeleteCleanup, FixBegin, FixDone, Stop

\* A step outside a fix adds at most one relationship; it leads to a live
\* feature unless the step clears the history.
GrowsBy(l) ==
    /\ links' \subseteq links \cup {l}
    /\ tidy' => tidy /\ (l \in links' \ links => l.target \in Live')

LEMMA LinksGrow ==
    ASSUME RelInv, [Next]_vars, ~FixSteps
    PROVE  \E l : GrowsBy(l)
<1>1. ASSUME links' \subseteq links, tidy' => tidy
      PROVE  \E l : GrowsBy(l)
  BY <1>1 DEF GrowsBy
<1>2. ASSUME NEW f \in Features, NEW parent \in Targets, CreateUnder(f, parent)
      PROVE  \E l : GrowsBy(l)
  BY <1>2 DEF CreateUnder, GrowsBy
<1>3. ASSUME NEW s \in Features, NEW t \in Features, NEW word \in Words,
             LinkFeatures(s, t, word)
      PROVE  \E l : GrowsBy(l)
  <2> DEFINE l == [source |-> s, type |-> Canonical(word), target |-> t]
  <2>1. l.target = t /\ t \in Live /\ Live' = Live
    BY <1>3 DEF LinkFeatures, Live
  <2>2. links' = links \cup {l} /\ (tidy' => tidy)
    BY <1>3 DEF LinkFeatures
  <2> HIDE DEF l
  <2> QED BY <2>1, <2>2 DEF GrowsBy
<1>4. CASE LinkInverse
  <2>1. call.link.target \in Live /\ Live' = Live
    BY <1>4 DEF LinkInverse, RelInv, CallOK, Live
  <2> QED BY <1>4, <2>1 DEF LinkInverse, GrowsBy
<1>6. CASE UNCHANGED vars
  BY <1>1, <1>6 DEF vars
<1>7. CASE \E f \in Features : Create(f) \/ ClearBegin(f) \/ DeleteBegin(f)
  BY <1>1, <1>7 DEF Create, ClearBegin, DeleteBegin
<1>8. CASE \E l \in links : Unlink(l)
  BY <1>1, <1>8 DEF Unlink
<1>9. CASE \E l \in call.todo : ClearOpposite(l) \/ ClearOppositeFails(l)
  BY <1>1, <1>9 DEF ClearOpposite, ClearOppositeFails
<1>10. CASE ClearOwn \/ DeleteFile \/ FixBegin \/ FixDone \/ Stop
  BY <1>1, <1>10 DEF ClearOwn, DeleteFile, FixBegin, FixDone, Stop
<1>11. CASE \E g \in call.todo : DeleteCleanup(g)
  BY <1>1, <1>11 DEF DeleteCleanup
<1> QED BY <1>2, <1>3, <1>4, <1>6, <1>7, <1>8, <1>9, <1>10, <1>11 DEF Next, FixSteps

\* A fix is under way after such a step only if it begins or nothing happens.
LEMMA FixUnderWay ==
    ASSUME RelInv, [Next]_vars, ~FixSteps, call'.op = "fix"
    PROVE  (call.op = "fix" /\ call'.memory = call.memory) \/ call'.memory = links
<1>1. CASE FixBegin \/ UNCHANGED vars
  BY <1>1 DEF FixBegin, vars
<1>2. CASE \/ \E f \in Features : Create(f) \/ \E x \in Targets : CreateUnder(f, x)
           \/ LinkInverse \/ ClearOwn \/ DeleteFile \/ FixDone \/ Stop
           \/ \E l \in links : Unlink(l)
  <2>1. call' = Idle
    BY <1>2 DEF Create, CreateUnder, LinkInverse, ClearOwn, DeleteFile, FixDone, Stop, Unlink
  <2> QED BY <2>1 DEF Idle
<1>3. CASE \E f \in Features : ClearBegin(f) \/ DeleteBegin(f)
  <2>1. call'.op \in {"clear", "delete"}
    BY <1>3 DEF ClearBegin, DeleteBegin
  <2> QED BY <2>1
<1>4. CASE \E s, t \in Features, word \in Words : LinkFeatures(s, t, word)
  <2>1. call' = Idle \/ call'.op = "inverse"
    BY <1>4 DEF LinkFeatures
  <2> QED BY <2>1 DEF Idle
<1>5. CASE call.op = "clear" /\ \E l \in call.todo : ClearOpposite(l) \/ ClearOppositeFails(l)
  <2>1. call \in [op : {"clear"}, feature : Features, todo : SUBSET Link]
    BY <1>5, CallTyping DEF RelInv, TypeOK
  <2>2. call'.op = "clear"
    BY <1>5, <2>1 DEF ClearOpposite, ClearOppositeFails
  <2> QED BY <2>2
<1>6. CASE call.op = "delete" /\ \E g \in call.todo : DeleteCleanup(g)
  <2>1. call \in [op : {"delete"}, feature : Features, todo : SUBSET Features]
    BY <1>6, CallTyping DEF RelInv, TypeOK
  <2>2. call'.op = "delete"
    BY <1>6, <2>1 DEF DeleteCleanup
  <2> QED BY <2>2
<1> QED BY <1>1, <1>2, <1>3, <1>4, <1>5, <1>6 DEF Next, FixSteps

LEMMA FiniteStep ==
    ASSUME RelInv, Finite, [Next]_vars
    PROVE  Finite'
<1>1. PICK f : Live' \subseteq Live \cup {f}
  BY LiveGrows
<1>2. IsFiniteSet(Live')
  <2>1. IsFiniteSet(Live \cup {f})
    BY FS_AddElement DEF Finite
  <2> QED BY <1>1, <2>1, FS_Subset
<1>3. CASE FixSteps
  <2>1. PICK k : links' \cup call'.memory \subseteq (links \cup call.memory) \cup {k}
    BY <1>3, FixAdds DEF FixGrowth
  <2>2. IsFiniteSet(links \cup call.memory)
    BY <1>3, FS_Union DEF Finite, FixSteps
  <2>3. IsFiniteSet((links \cup call.memory) \cup {k})
    BY <2>2, FS_AddElement
  <2>4. IsFiniteSet(links') /\ IsFiniteSet(call'.memory)
    <3>1. links' \subseteq (links \cup call.memory) \cup {k}
      BY <2>1
    <3>2. call'.memory \subseteq (links \cup call.memory) \cup {k}
      BY <2>1
    <3> QED BY <2>3, <3>1, <3>2, FS_Subset
  <2> QED BY <1>2, <2>4 DEF Finite
<1>4. CASE ~FixSteps
  <2>1. PICK l : links' \subseteq links \cup {l}
    BY <1>4, LinksGrow DEF GrowsBy
  <2>2. IsFiniteSet(links \cup {l})
    BY FS_AddElement DEF Finite
  <2>3. IsFiniteSet(links')
    BY <2>1, <2>2, FS_Subset
  <2>4. call'.op = "fix" => IsFiniteSet(call'.memory)
    BY <1>4, FixUnderWay DEF Finite
  <2> QED BY <1>2, <2>3, <2>4 DEF Finite
<1> QED BY <1>3, <1>4

LEMMA LeadToLiveStep ==
    ASSUME RelInv, LeadToLive, [Next]_vars
    PROVE  LeadToLive'
<1>1. CASE FixSteps
  <2>1. Live' = Live /\ (tidy' => tidy) /\ \A l \in links' : l \in links \/ Joins(l)
    BY <1>1, FixAdds DEF FixGrowth
  <2> QED BY <2>1 DEF LeadToLive, Joins
<1>2. CASE DeleteFile
  <2>1. call.feature \in Features /\ \A l \in links : l.target # call.feature
    BY <1>2 DEF DeleteFile, RelInv, CallOK, Incoming, Live
  <2>2. /\ status' = [status EXCEPT ![call.feature] = "deleted"]
        /\ links' \subseteq links /\ tidy' = tidy
    BY <1>2 DEF DeleteFile
  <2>3. Live' = Live \ {call.feature}
    BY <2>1, <2>2 DEF RelInv, TypeOK, Live
  <2> QED BY <2>1, <2>2, <2>3 DEF LeadToLive
<1>3. CASE ~FixSteps /\ Live \subseteq Live'
  BY <1>3, LinksGrow DEF LeadToLive, GrowsBy
<1>4. CASE ~FixSteps /\ ~DeleteFile
  <2>1. CASE status' = status
    BY <1>3, <1>4, <2>1 DEF Live
  <2>2. CASE \E f \in Features : Create(f) \/ \E x \in Targets : CreateUnder(f, x)
    <3>1. Live \subseteq Live'
      BY <2>2 DEF Create, CreateUnder, RelInv, TypeOK, Live
    <3> QED BY <1>3, <1>4, <3>1
  <2> QED BY <1>4, <2>1, <2>2
       DEF Next, FixSteps, vars, ClearBegin, DeleteBegin, LinkFeatures, LinkInverse, Unlink,
           ClearOpposite, ClearOppositeFails, ClearOwn, DeleteCleanup, FixBegin, FixDone, Stop
<1> QED BY <1>1, <1>2, <1>4

\* What the searches can count on between two commands.
GraphInv == RelInv /\ Finite /\ LeadToLive

LEMMA GraphInvAlways == Spec => []GraphInv
<1>1. Init => GraphInv
  <2>1. Init => links = {} /\ Live = {} /\ call.op = "idle"
    BY DEF Init, Live, Idle
  <2> QED BY <2>1, RelInvInit, FS_EmptySet DEF GraphInv, Finite, LeadToLive
<1>2. GraphInv /\ [Next]_vars => GraphInv'
  BY RelInvStep, FiniteStep, LeadToLiveStep DEF GraphInv
<1> QED BY <1>1, <1>2, PTL DEF Spec
-----------------------------------------------------------------------------
(***************************************************************************)
(* Graphs, once more.  The direction of the edges does not matter to       *)
(* whether a finite graph has a cycle: without one, some node of every set *)
(* has no edge into the set, and some node has none from it.               *)
(***************************************************************************)
LEMMA AcyclicSource ==
    ASSUME NEW E, Acyclic(E), NEW S \in SUBSET Features, IsFiniteSet(S), S # {}
    PROVE  \E n \in S : \A m \in S : <<m, n>> \notin E
<1> DEFINE Sourced(T) == \E n \in T : \A m \in T : <<m, n>> \notin E
           N == {k \in Nat : \A T \in SUBSET S : T # {} /\ Cardinality(T) <= k => Sourced(T)}
<1>1. \A T \in SUBSET S : IsFiniteSet(T) /\ Cardinality(T) \in Nat
  BY FS_Subset, FS_CardinalityType
<1>2. 0 \in N
  <2>1. \A T \in SUBSET S : T # {} => Cardinality(T) # 0
    BY <1>1, FS_EmptySet
  <2> QED BY <1>1, <2>1
<1>3. ASSUME NEW k \in Nat, k \in N
      PROVE  k + 1 \in N
  <2>1. SUFFICES ASSUME NEW T \in SUBSET S, T # {}, Cardinality(T) <= k + 1
                 PROVE  Sourced(T)
    OBVIOUS
  <2>2. PICK m \in T : \A n \in T : <<m, n>> \notin E
    BY <2>1 DEF Acyclic
  <2>3. Cardinality(T \ {m}) <= k
    BY <1>1, <2>1, FS_RemoveElement
  <2>4. CASE T = {m}
    BY <2>2, <2>4
  <2>5. CASE T # {m}
    <3>1. PICK n \in T \ {m} : \A x \in T \ {m} : <<x, n>> \notin E
      BY <1>3, <2>3, <2>5
    <3> QED BY <2>2, <3>1
  <2> QED BY <2>4, <2>5
<1> HIDE DEF N
<1>4. Nat \subseteq N
  BY <1>2, <1>3, SetInduction
<1>5. Cardinality(S) \in N
  BY <1>1, <1>4
<1> QED BY <1>1, <1>5 DEF N

\* With the edges turned round, of nodes that are finitely many.
LEMMA AcyclicReversed ==
    ASSUME NEW E, Acyclic(E), IsFiniteSet(Live), NEW D,
           \A e \in D : /\ e[1] \in Live
                        /\ <<e[2], e[1]>> \in E
    PROVE  Acyclic(D)
<1> SUFFICES ASSUME NEW S \in SUBSET Features, S # {}
             PROVE  \E n \in S : \A m \in S : <<n, m>> \notin D
  BY DEF Acyclic
<1>1. CASE S \subseteq Live
  <2>1. IsFiniteSet(S)
    BY <1>1, FS_Subset
  <2>2. PICK n \in S : \A m \in S : <<m, n>> \notin E
    BY <2>1, AcyclicSource
  <2>3. ASSUME NEW m \in S, <<n, m>> \in D
        PROVE  FALSE
    <3>1. <<(<<n, m>>[2]), (<<n, m>>[1])>> \in E
      BY <2>3
    <3> QED BY <2>2, <3>1
  <2> QED BY <2>3
<1>2. CASE ~(S \subseteq Live)
  <2>1. PICK n \in S : n \notin Live
    BY <1>2
  <2>2. ASSUME NEW m \in S, <<n, m>> \in D
        PROVE  FALSE
    <3>1. <<n, m>>[1] \in Live
      BY <2>2
    <3> QED BY <2>1, <3>1
  <2> QED BY <2>2
<1> QED BY <1>1, <1>2
-----------------------------------------------------------------------------
(***************************************************************************)
(* tree.  A feature has an edge to each of its parents, so that a level is *)
(* what leads into the one above it.                                       *)
(***************************************************************************)
Below(D, type) == UNION {FindChildren(g, type) : g \in D}

LEMMA PrintedLevels ==
    ASSUME NEW type
    PROVE  /\ Printed(type)[0] = FindRoots(type)
           /\ \A n \in Nat : Printed(type)[n + 1] = Below(Printed(type)[n], type)
           /\ \A n \in Nat : Printed(type)[n] \in SUBSET Live
<1> DEFINE C == SUBSET Live
           F == [D \in C |-> Below(D, type)]
           Levels(g) == g = [depth \in Nat |-> IF depth = 0 THEN FindRoots(type)
                                               ELSE Below(g[depth - 1], type)]
<1>1. \A D : Below(D, type) \in C
  BY DEF Below, FindChildren
<1>2. FindRoots(type) \in C
  BY DEF FindRoots
<1>3. PICK g \in [Nat -> C] : g = [n \in Nat |-> IF n = 0 THEN FindRoots(type) ELSE F[g[n - 1]]]
  <2>1. F \in [C -> C]
    BY <1>1
  <2> HIDE DEF F, C
  <2> QED BY <1>2, <2>1, Iteration
<1>4. ASSUME NEW n \in Nat
      PROVE  g[n] = IF n = 0 THEN FindRoots(type) ELSE Below(g[n - 1], type)
  <2>1. CASE n # 0
    <3>1. n - 1 \in Nat
      BY <2>1
    <3>2. g[n] = F[g[n - 1]]
      <4> HIDE DEF F
      <4> QED BY <1>3, <2>1
    <3>3. g[n - 1] \in C
      BY <3>1
    <3> QED BY <2>1, <3>2, <3>3
  <2> QED BY <1>3, <2>1
<1>5. Levels(g)
  BY <1>4
<1>6. Printed(type) = CHOOSE h : Levels(h)
  BY DEF Printed, Below
<1>7. Levels(Printed(type))
  BY <1>5, <1>6
<1>8. Printed(type)[0] = FindRoots(type)
  BY <1>7
<1>9. ASSUME NEW n \in Nat
      PROVE  Printed(type)[n + 1] = Below(Printed(type)[n], type)
  <2>1. n + 1 \in Nat /\ n + 1 # 0 /\ (n + 1) - 1 = n
    OBVIOUS
  <2> QED BY <1>7, <2>1
<1>10. ASSUME NEW n \in Nat
       PROVE  Printed(type)[n] \in SUBSET Live
  <2>1. CASE n # 0
    <3>1. Printed(type)[n] = Below(Printed(type)[n - 1], type)
      BY <1>7, <2>1
    <3> QED BY <1>1, <3>1
  <2> QED BY <1>2, <1>8, <2>1
<1> QED BY <1>8, <1>9, <1>10

\* Of what is left, one feature at least has its parents elsewhere: below it
\* there are fewer, until there are none.
LEMMA PrintedEnds ==
    ASSUME NEW type, IsFiniteSet(Live), Acyclic(Edges({type}, links))
    PROVE  Printed(type)[Cardinality(Live)] = {}
<1> DEFINE level == Printed(type)
           N == Cardinality(Live)
           Inside(D, n) == /\ level[n] \subseteq D
                           /\ Below(D, type) \subseteq D
                           /\ n <= N => Cardinality(D) <= N - n
           S == {n \in Nat : \E D \in SUBSET Live : Inside(D, n)}
<1>1. N \in Nat /\ \A D \in SUBSET Live : IsFiniteSet(D) /\ Cardinality(D) \in Nat
  BY FS_Subset, FS_CardinalityType
<1>2. 0 \in S
  <2>1. Below(Live, type) \subseteq Live
    BY DEF Below, FindChildren
  <2>2. level[0] \subseteq Live
    BY PrintedLevels
  <2> QED BY <1>1, <2>1, <2>2
<1>3. ASSUME NEW n \in Nat, n \in S
      PROVE  n + 1 \in S
  <2>1. PICK D \in SUBSET Live : Inside(D, n)
    BY <1>3
  <2>2. level[n + 1] = Below(level[n], type)
    BY PrintedLevels
  <2>3. level[n + 1] \subseteq Below(D, type)
    BY <2>1, <2>2 DEF Below
  <2>4. CASE D = {}
    <3>1. Below({}, type) = {}
      BY DEF Below
    <3>2. Cardinality({}) = 0
      BY FS_EmptySet
    <3>3. Inside({}, n + 1)
      BY <1>1, <2>3, <2>4, <3>1, <3>2
    <3> QED BY <3>3
  <2>5. CASE D # {}
    <3>1. D \in SUBSET Features
      BY DEF Live
    <3>2. PICK m \in D : \A p \in D : <<m, p>> \notin Edges({type}, links)
      BY <2>5, <3>1 DEF Acyclic
    <3>3. m \notin Below(D, type)
      BY <3>2 DEF Below, FindChildren, Edges, Outgoing
    <3> DEFINE R == D \ {m}
    <3>4. Below(D, type) \subseteq R
      BY <2>1, <3>3
    <3>5. Below(R, type) \subseteq Below(D, type)
      BY DEF Below
    <3>6. Cardinality(R) = Cardinality(D) - 1
      BY <1>1, FS_RemoveElement
    <3>7. n + 1 <= N => Cardinality(R) <= N - (n + 1)
      BY <1>1, <2>1, <3>6
    <3>8. Inside(R, n + 1)
      BY <2>3, <3>4, <3>5, <3>7
    <3> QED BY <3>8
  <2> QED BY <2>4, <2>5
<1>4. N \in S
  <2> HIDE DEF S, N
  <2> QED BY <1>1, <1>2, <1>3, SetInduction
<1>5. PICK D \in SUBSET Live : Inside(D, N)
  BY <1>4
<1>6. Cardinality(D) = 0
  BY <1>1, <1>5
<1>7. D = {}
  BY <1>1, <1>6, FS_EmptySet
<1> QED BY <1>5, <1>7

\* Of what is not printed, one feature at least has its parents printed.
LEMMA PrintedAll ==
    ASSUME NEW type, RelInv, IsFiniteSet(Live), Acyclic(Edges({type}, links)),
           \A l \in links : l.target \in Live
    PROVE  UNION {Printed(type)[n] : n \in 0..Cardinality(Live)} = Live
<1> DEFINE level == Printed(type)
           N == Cardinality(Live)
           U == Live \ UNION {level[n] : n \in 0..N}
<1>1. N \in Nat
  BY FS_CardinalityType
<1>2. UNION {level[n] : n \in 0..N} \subseteq Live
  BY PrintedLevels
<1>3. SUFFICES ASSUME U # {}
               PROVE  FALSE
  BY <1>2
<1>4. PICK m \in U : \A p \in U : <<m, p>> \notin Edges({type}, links)
  <2>1. U \in SUBSET Features
    BY DEF Live
  <2> HIDE DEF U
  <2> QED BY <1>3, <2>1 DEF Acyclic
<1>5. m \notin FindRoots(type)
  <2>1. 0 \in 0..N /\ level[0] = FindRoots(type)
    BY <1>1, PrintedLevels
  <2> QED BY <2>1
<1>6. PICK l \in links : l.source = m /\ l.type = type
  BY <1>5 DEF FindRoots, Outgoing
<1>7. <<m, l.target>> \in Edges({type}, links)
  BY <1>6 DEF Edges
<1>8. PICK n \in 0..N : l.target \in level[n]
  BY <1>4, <1>7
<1>9. n # N
  BY <1>8, PrintedEnds
<1>10. m \in level[n + 1]
  <2>1. level[n + 1] = Below(level[n], type)
    BY <1>1, PrintedLevels
  <2>2. m \in FindChildren(l.target, type)
    BY <1>6 DEF FindChildren, Outgoing
  <2> QED BY <1>8, <2>1, <2>2 DEF Below
<1>11. n + 1 \in 0..N
  BY <1>1, <1>9
<1> QED BY <1>4, <1>10, <1>11

\* getForwardRelationshipTypes takes the smaller name of each pair; it leaves out
\* only a type that is its own inverse and not declared bidirectional.
OneForward ==
    \A t \in Types : Category[t] \in Strict => t \in Forward \/ InverseOf[t] \in Forward

LEMMA HierarchyAcyclic ==
    ASSUME GraphInv, PairsComplete, StrictAcyclic, TidyAcyclic, StrictTypesPaired, OneForward,
           call = Idle, tidy, NEW t \in Types, Category[t] \in Strict
    PROVE  Acyclic(Edges({t}, links))
<1>1. auto \in BOOLEAN /\ links \subseteq Link /\ \A l \in links : l.source \in Live
  BY DEF GraphInv, RelInv, TypeOK
<1>2. \A T : t \in T => Edges({t}, links) \subseteq Edges(T, links)
  BY DEF Edges
<1>3. CASE ~auto
  <2>1. Acyclic(Edges(TypesIn(Category[t]), links))
    BY <1>3 DEF StrictAcyclic
  <2>2. t \in TypesIn(Category[t])
    BY DEF TypesIn
  <2> QED BY <1>2, <2>1, <2>2, AcyclicSubset
<1>4. CASE auto
  <2>1. \A s \in Types : s \in Forward /\ Category[s] \in Strict
                            => Acyclic(Edges({s}, links))
    <3> TAKE s \in Types
    <3> HAVE s \in Forward /\ Category[s] \in Strict
    <3>1. Acyclic(Edges(TypesIn(Category[s]) \cap Forward, links))
      BY <1>4 DEF TidyAcyclic
    <3>2. s \in TypesIn(Category[s]) \cap Forward
      BY DEF TypesIn
    <3>3. Edges({s}, links) \subseteq Edges(TypesIn(Category[s]) \cap Forward, links)
      BY <3>2 DEF Edges
    <3> QED BY <3>1, <3>3, AcyclicSubset
  <2>2. CASE t \in Forward
    BY <2>1, <2>2
  <2>3. CASE t \notin Forward
    <3> DEFINE s == InverseOf[t]
    <3>1. s \in Types /\ s \in Forward /\ Category[s] \in Strict
      BY <2>3, ConfigAssumption DEF StrictTypesPaired, OneForward
    <3>2. Acyclic(Edges({s}, links))
      BY <2>1, <3>1
    <3>3. ASSUME NEW l \in links, l.type = t
          PROVE  l.source \in Live /\ <<l.target, l.source>> \in Edges({s}, links)
      <4>1. Paired(l)
        BY <3>3 DEF Paired, StrictTypesPaired
      <4>2. Opposite(l) \in links
        BY <1>4, <4>1 DEF PairsComplete
      <4>3. Opposite(l).source = l.target /\ Opposite(l).type = s /\ Opposite(l).target = l.source
        BY <3>3 DEF Opposite
      <4> QED BY <1>1, <4>2, <4>3 DEF Edges
    <3>4. \A e \in Edges({t}, links) : e[1] \in Live /\ <<e[2], e[1]>> \in Edges({s}, links)
      BY <3>3 DEF Edges
    <3>5. IsFiniteSet(Live)
      BY DEF GraphInv, Finite
    <3> HIDE DEF s
    <3> QED BY <3>2, <3>4, <3>5, AcyclicReversed
  <2> QED BY <2>2, <2>3
<1> QED BY <1>1, <1>3, <1>4

\* With automatic inverses or without, in a configuration whose strict types
\* are paired like the default one's: as long as nothing left one half of a
\* pair, tree shows every feature over a type whose cycles are refused, though
\* it starts only at features without a parent, and it ends, though it never
\* looks at what it printed.
THEOREM TreeShowsAllAlways ==
    ASSUME StrictTypesPaired, OneForward
    PROVE  Spec => []TreeShowsAll
<1>1. GraphInv /\ PairsComplete /\ StrictAcyclic /\ TidyAcyclic => TreeShowsAll
  <2> SUFFICES ASSUME GraphInv, PairsComplete, StrictAcyclic, TidyAcyclic, call = Idle, tidy,
                      NEW t \in Types, Category[t] \in Strict
               PROVE  /\ UNION {Printed(t)[n] : n \in 0..Cardinality(Live)} = Live
                      /\ Printed(t)[Cardinality(Live)] = {}
    BY DEF TreeShowsAll
  <2>1. Acyclic(Edges({t}, links))
    BY HierarchyAcyclic
  <2>2. IsFiniteSet(Live) /\ RelInv
    BY DEF GraphInv, Finite
  <2>3. \A l \in links : l.target \in Live
    BY DEF GraphInv, LeadToLive
  <2> QED BY <2>1, <2>2, <2>3, PrintedAll, PrintedEnds
<1> QED BY <1>1, GraphInvAlways, PairsCompleteAlways, StrictAcyclicAlways, TidyAcyclicAlways, PTL
-----------------------------------------------------------------------------
(***************************************************************************)
(* The depth-first searches.  The stack of calls, and the edges a set of   *)
(* relationships makes.                                                    *)
(***************************************************************************)
Nodes(p) == {p[i] : i \in 1..Len(p)}

LEMMA Push ==
    ASSUME NEW C, NEW p \in Seq(C), NEW n \in C
    PROVE  /\ <<n>> \o p \in Seq(C)
           /\ <<n>> \o p # <<>>
           /\ Len(<<n>> \o p) = Len(p) + 1
           /\ (<<n>> \o p)[1] = n
           /\ \A i \in 1..Len(p) : (<<n>> \o p)[i + 1] = p[i]
           /\ Nodes(<<n>> \o p) = Nodes(p) \cup {n}
<1>1. <<n>> \in Seq(C) /\ Len(<<n>>) = 1 /\ <<n>>[1] = n
  OBVIOUS
<1>2. <<n>> \o p \in Seq(C) /\ Len(<<n>> \o p) = Len(p) + 1
  BY <1>1
<1>3. (<<n>> \o p)[1] = n
  BY <1>1
<1>4. \A i \in 1..Len(p) : (<<n>> \o p)[i + 1] = p[i]
  BY <1>1
<1>5. Nodes(<<n>> \o p) \subseteq Nodes(p) \cup {n}
  <2> SUFFICES ASSUME NEW i \in 1..Len(<<n>> \o p), i # 1
               PROVE  (<<n>> \o p)[i] \in Nodes(p)
    BY <1>3 DEF Nodes
  <2>1. i - 1 \in 1..Len(p) /\ (i - 1) + 1 = i
    BY <1>2
  <2> QED BY <1>4, <2>1 DEF Nodes
<1>6. Nodes(p) \cup {n} \subseteq Nodes(<<n>> \o p)
  <2>1. n \in Nodes(<<n>> \o p)
    BY <1>2, <1>3 DEF Nodes
  <2>2. ASSUME NEW i \in 1..Len(p)
        PROVE  p[i] \in Nodes(<<n>> \o p)
    <3>1. i + 1 \in 1..Len(<<n>> \o p)
      BY <1>2
    <3> QED BY <1>4, <3>1 DEF Nodes
  <2> QED BY <2>1, <2>2 DEF Nodes
<1>7. <<n>> \o p # <<>>
  BY <1>2
<1> QED BY <1>2, <1>3, <1>4, <1>5, <1>6, <1>7

LEMMA Pop ==
    ASSUME NEW C, NEW p \in Seq(C), p # <<>>
    PROVE  /\ Head(p) \in C /\ Head(p) = p[1]
           /\ Tail(p) \in Seq(C)
           /\ Len(p) \in Nat /\ Len(p) >= 1
           /\ Len(Tail(p)) = Len(p) - 1
           /\ \A i \in 1..Len(Tail(p)) : Tail(p)[i] = p[i + 1]
           /\ Nodes(p) = Nodes(Tail(p)) \cup {Head(p)}
<1>1. /\ Head(p) \in C /\ Head(p) = p[1]
      /\ Tail(p) \in Seq(C)
      /\ Len(p) \in Nat /\ Len(p) >= 1
      /\ Len(Tail(p)) = Len(p) - 1
      /\ \A i \in 1..Len(Tail(p)) : Tail(p)[i] = p[i + 1]
  OBVIOUS
<1>2. Nodes(Tail(p)) \cup {Head(p)} \subseteq Nodes(p)
  <2>1. Head(p) \in Nodes(p)
    BY <1>1 DEF Nodes
  <2>2. ASSUME NEW i \in 1..Len(Tail(p))
        PROVE  Tail(p)[i] \in Nodes(p)
    <3>1. i + 1 \in 1..Len(p)
      BY <1>1
    <3> QED BY <1>1, <3>1 DEF Nodes
  <2> QED BY <2>1, <2>2 DEF Nodes
<1>3. Nodes(p) \subseteq Nodes(Tail(p)) \cup {Head(p)}
  <2> SUFFICES ASSUME NEW i \in 1..Len(p), i # 1
               PROVE  p[i] \in Nodes(Tail(p))
    BY <1>1 DEF Nodes
  <2>1. i - 1 \in 1..Len(Tail(p)) /\ (i - 1) + 1 = i
    BY <1>1
  <2>2. Tail(p)[i - 1] = p[i]
    BY <1>1, <2>1
  <2> QED BY <2>1, <2>2 DEF Nodes
<1> QED BY <1>1, <1>2, <1>3

LEMMA EdgesOfLinks ==
    ASSUME GraphInv, NEW T
    PROVE  /\ Edges(T, links) \in SUBSET (Live \X Targets)
           /\ IsFiniteSet(Edges(T, links))
<1> DEFINE K == {k \in links : k.type \in T}
           f == [k \in K |-> <<k.source, k.target>>]
<1>1. \A l \in links : l.source \in Live /\ l.target \in Targets
  BY DEF GraphInv, RelInv, TypeOK, Link
<1>2. IsFiniteSet(K)
  BY FS_Subset DEF GraphInv, Finite
<1>3. f \in Surjection(K, Edges(T, links))
  <2>1. f \in [K -> Edges(T, links)]
    BY DEF Edges
  <2>2. \A e \in Edges(T, links) : \E k \in K : f[k] = e
    BY DEF Edges
  <2> HIDE DEF f, K
  <2> QED BY <2>1, <2>2, Fun_IsSurj
<1>4. IsFiniteSet(Edges(T, links))
  <2> HIDE DEF f, K
  <2> QED BY <1>2, <1>3, FS_Surjection
<1> QED BY <1>1, <1>4 DEF Edges
-----------------------------------------------------------------------------
(***************************************************************************)
(* dfsSearchByCategory.                                                    *)
(***************************************************************************)
Searches(E) == [path : Seq(Live), seen : SUBSET E, visited : SUBSET Targets, found : BOOLEAN]

SearchOver(acc) == acc.found \/ acc.path = <<>>

\* What one more turn of the search does.
SearchReturns(E, acc, new) ==
    /\ \A e \in E : e[1] = Head(acc.path) => e \in acc.seen
    /\ new = [path |-> Tail(acc.path), seen |-> acc.seen, visited |-> acc.visited, found |-> acc.found]

SearchLooks(target, acc, new, e) ==
    /\ e \notin acc.seen /\ e[1] = Head(acc.path)
    /\ new.seen = acc.seen \cup {e}
    /\ \/ /\ e[2] = target /\ new.found
          /\ new.path = acc.path /\ new.visited = acc.visited
       \/ /\ e[2] # target /\ new.found = acc.found
          /\ new.visited = acc.visited \cup {e[2]}
          /\ new.path = IF e[2] \in Live /\ e[2] \notin acc.visited
                        THEN <<e[2]>> \o acc.path ELSE acc.path

LEMMA EnterUnvisitedFields ==
    ASSUME NEW E, NEW acc \in Searches(E), NEW n \in Targets
    PROVE  /\ EnterUnvisited(acc, n) \in Searches(E)
           /\ EnterUnvisited(acc, n).seen = acc.seen
           /\ EnterUnvisited(acc, n).found = acc.found
           /\ EnterUnvisited(acc, n).visited = acc.visited \cup {n}
           /\ EnterUnvisited(acc, n).path = IF n \in Live /\ n \notin acc.visited
                                            THEN <<n>> \o acc.path ELSE acc.path
<1>1. CASE n \in acc.visited
  BY <1>1 DEF EnterUnvisited, Searches
<1>2. CASE n \notin acc.visited /\ n \notin Live
  BY <1>2 DEF EnterUnvisited, Searches
<1>3. CASE n \notin acc.visited /\ n \in Live
  <2>1. <<n>> \o acc.path \in Seq(Live)
    BY <1>3, Push DEF Searches
  <2>2. EnterUnvisited(acc, n) = [path |-> <<n>> \o acc.path, seen |-> acc.seen,
                                  visited |-> acc.visited \cup {n}, found |-> acc.found]
    BY <1>3 DEF EnterUnvisited, Enter, Searches
  <2> QED BY <1>3, <2>1, <2>2 DEF Searches
<1> QED BY <1>1, <1>2, <1>3

LEMMA SearchStepCases ==
    ASSUME NEW E \in SUBSET (Live \X Targets), NEW target, NEW acc \in Searches(E)
    PROVE  LET new == SearchStep(E, target, acc)
           IN  /\ new \in Searches(E)
               /\ SearchOver(acc) => new = acc
               /\ ~SearchOver(acc) => \/ SearchReturns(E, acc, new)
                                      \/ \E e \in E : SearchLooks(target, acc, new, e)
<1> DEFINE new == SearchStep(E, target, acc)
<1>1. CASE SearchOver(acc)
  BY <1>1 DEF SearchOver, SearchStep
<1>2. CASE ~SearchOver(acc) /\ Left(E, acc) = {}
  <2>1. acc.path \in Seq(Live) /\ acc.path # <<>>
    BY <1>2 DEF SearchOver, Searches
  <2>2. Tail(acc.path) \in Seq(Live)
    BY <2>1, Pop
  <2>3. new = [path |-> Tail(acc.path), seen |-> acc.seen, visited |-> acc.visited,
               found |-> acc.found]
    BY <1>2 DEF SearchStep, SearchOver, Return, Searches
  <2>4. \A e \in E : e[1] = Head(acc.path) => e \in acc.seen
    BY <1>2 DEF Left
  <2> QED BY <1>2, <2>2, <2>3, <2>4 DEF Searches, SearchReturns
<1>3. CASE ~SearchOver(acc) /\ Left(E, acc) # {}
  <2> DEFINE e == Look(E, acc)
             looked == [acc EXCEPT !.seen = @ \cup {e}]
  <2>1. e \in Left(E, acc)
    BY <1>3 DEF Look
  <2>2. e \in E /\ e \notin acc.seen /\ e[1] = Head(acc.path) /\ e[2] \in Targets
    BY <2>1 DEF Left
  <2>3. new = IF e[2] = target THEN [looked EXCEPT !.found = TRUE] ELSE EnterUnvisited(looked, e[2])
    BY <1>3 DEF SearchStep, SearchOver
  <2> HIDE DEF e
  <2>4. /\ looked \in Searches(E)
        /\ looked.seen = acc.seen \cup {e} /\ looked.path = acc.path
        /\ looked.visited = acc.visited /\ looked.found = acc.found
    BY <2>2 DEF Searches
  <2> HIDE DEF looked, new
  <2>5. CASE e[2] = target
    <3>1. new \in Searches(E) /\ new.seen = looked.seen /\ new.path = looked.path
          /\ new.visited = looked.visited /\ new.found
      BY <2>3, <2>4, <2>5 DEF Searches
    <3>2. SearchLooks(target, acc, new, e)
      BY <2>2, <2>4, <2>5, <3>1 DEF SearchLooks
    <3> QED BY <1>3, <2>2, <3>1, <3>2 DEF new
  <2>6. CASE e[2] # target
    <3>1. new = EnterUnvisited(looked, e[2])
      BY <2>3, <2>6
    <3>2. /\ new \in Searches(E) /\ new.seen = looked.seen /\ new.found = looked.found
          /\ new.visited = looked.visited \cup {e[2]}
          /\ new.path = IF e[2] \in Live /\ e[2] \notin looked.visited
                        THEN <<e[2]>> \o looked.path ELSE looked.path
      BY <2>2, <2>4, <3>1, EnterUnvisitedFields
    <3>3. SearchLooks(target, acc, new, e)
      BY <2>2, <2>4, <2>6, <3>2 DEF SearchLooks
    <3> QED BY <1>3, <2>2, <3>2, <3>3 DEF new
  <2> QED BY <2>5, <2>6
<1> QED BY <1>1, <1>2, <1>3

SearchBegin(start) ==
    EnterUnvisited([path |-> <<>>, seen |-> {}, visited |-> {}, found |-> FALSE], start)

LEMMA SearchBeginFields ==
    ASSUME NEW E, NEW start \in Targets
    PROVE  /\ SearchBegin(start) \in Searches(E)
           /\ SearchBegin(start).seen = {}
           /\ SearchBegin(start).found = FALSE
           /\ SearchBegin(start).visited = {start}
           /\ SearchBegin(start).path = IF start \in Live THEN <<start>> ELSE <<>>
<1> DEFINE begin == [path |-> <<>>, seen |-> {}, visited |-> {}, found |-> FALSE]
<1>1. begin \in Searches(E) /\ begin.path = <<>> /\ begin.seen = {} /\ begin.visited = {}
      /\ begin.found = FALSE
  BY DEF Searches
<1>2. SearchBegin(start) = EnterUnvisited(begin, start)
  BY DEF SearchBegin
<1>3. <<start>> \o <<>> = <<start>>
  OBVIOUS
<1> HIDE DEF begin, SearchBegin
<1>4. /\ EnterUnvisited(begin, start) \in Searches(E)
      /\ EnterUnvisited(begin, start).seen = begin.seen
      /\ EnterUnvisited(begin, start).found = begin.found
      /\ EnterUnvisited(begin, start).visited = begin.visited \cup {start}
      /\ EnterUnvisited(begin, start).path = IF start \in Live /\ start \notin begin.visited
                                             THEN <<start>> \o begin.path ELSE begin.path
  BY <1>1, EnterUnvisitedFields
<1>5. begin.visited \cup {start} = {start}
  BY <1>1
<1> HIDE DEF EnterUnvisited
<1> QED BY <1>1, <1>2, <1>3, <1>4, <1>5

LEMMA SearchRun ==
    ASSUME NEW E \in SUBSET (Live \X Targets), NEW start \in Targets, NEW target
    PROVE  LET run == DfsSearch(E, start, target)
           IN  /\ run[0] = SearchBegin(start)
               /\ \A n \in Nat : run[n] \in Searches(E)
               /\ \A n \in Nat : run[n + 1] = SearchStep(E, target, run[n])
<1> DEFINE C == Searches(E)
           F == [acc \in C |-> SearchStep(E, target, acc)]
           Runs(g) == g = [n \in Nat |-> IF n = 0 THEN SearchBegin(start)
                                         ELSE SearchStep(E, target, g[n - 1])]
           run == DfsSearch(E, start, target)
<1>1. \A acc \in C : SearchStep(E, target, acc) \in C
  BY SearchStepCases
<1>2. SearchBegin(start) \in C
  BY SearchBeginFields
<1>3. PICK g \in [Nat -> C] : g = [n \in Nat |-> IF n = 0 THEN SearchBegin(start) ELSE F[g[n - 1]]]
  <2>1. F \in [C -> C]
    BY <1>1
  <2> HIDE DEF F, C
  <2> QED BY <1>2, <2>1, Iteration
<1> HIDE DEF C
<1>4. ASSUME NEW n \in Nat
      PROVE  g[n] = IF n = 0 THEN SearchBegin(start) ELSE SearchStep(E, target, g[n - 1])
  <2>1. CASE n # 0
    <3>1. n - 1 \in Nat
      BY <2>1
    <3>2. g[n] = F[g[n - 1]]
      <4> HIDE DEF F
      <4> QED BY <1>3, <2>1
    <3>3. g[n - 1] \in C
      BY <3>1
    <3> QED BY <2>1, <3>2, <3>3
  <2> QED BY <1>3, <2>1
<1>5. Runs(g)
  BY <1>4
<1>6. run = CHOOSE h : Runs(h)
  BY DEF DfsSearch, SearchBegin
<1>7. Runs(run)
  BY <1>5, <1>6
<1> HIDE DEF run
<1>8. run[0] = SearchBegin(start)
  BY <1>7
<1>9. ASSUME NEW n \in Nat
      PROVE  run[n + 1] = SearchStep(E, target, run[n])
  <2>1. n + 1 \in Nat /\ n + 1 # 0 /\ (n + 1) - 1 = n
    OBVIOUS
  <2> QED BY <1>7, <2>1
<1>10. \A n \in Nat : run[n] \in C
  <2> DEFINE S == {n \in Nat : run[n] \in C}
  <2>1. 0 \in S /\ \A n \in Nat : n \in S => n + 1 \in S
    BY <1>1, <1>2, <1>8, <1>9
  <2> HIDE DEF S
  <2>2. Nat \subseteq S
    BY <2>1, SetInduction
  <2> QED BY <2>2 DEF S
<1> QED BY <1>8, <1>9, <1>10 DEF run, C

\* The search holds on to what it was asked: whatever it visited the start
\* leads to, and a visited node whose call returned has no edge it did not look
\* at.  Until the target is found none of those edges leads to it.
SearchInv(E, start, target, acc) ==
    /\ acc \in Searches(E)
    /\ start \in acc.visited
    /\ Nodes(acc.path) \subseteq acc.visited
    /\ \A x \in acc.visited : Reaches(E, start, x)
    /\ \A e \in E : e[1] \in acc.visited => e \in acc.seen \/ e[1] \in Nodes(acc.path)
    /\ acc.found => Reaches(E, start, target)
    /\ ~acc.found => target \notin acc.visited /\ \A e \in acc.seen : e[2] \in acc.visited

LEMMA ReachesFurther ==
    ASSUME NEW E \in SUBSET (Live \X Targets), NEW x, NEW e \in E, Reaches(E, x, e[1])
    PROVE  Reaches(E, x, e[2])
BY DEF Reaches

LEMMA SearchInvBegin ==
    ASSUME NEW E \in SUBSET (Live \X Targets), NEW start \in Targets, NEW target, start # target
    PROVE  SearchInv(E, start, target, SearchBegin(start))
<1> DEFINE acc == SearchBegin(start)
<1>1. /\ acc \in Searches(E) /\ acc.seen = {} /\ acc.found = FALSE /\ acc.visited = {start}
      /\ acc.path = IF start \in Live THEN <<start>> ELSE <<>>
  BY SearchBeginFields
<1>2. Nodes(<<start>>) = {start} /\ Nodes(<<>>) = {}
  BY DEF Nodes
<1>3. Nodes(acc.path) = IF start \in Live THEN {start} ELSE {}
  BY <1>1, <1>2
<1>4. Reaches(E, start, start)
  BY DEF Reaches
<1>5. \A e \in E : e[1] \in Live
  OBVIOUS
<1> SUFFICES SearchInv(E, start, target, acc)
  OBVIOUS
<1> HIDE DEF acc
<1> QED BY <1>1, <1>3, <1>4, <1>5 DEF SearchInv

LEMMA SearchInvStep ==
    ASSUME NEW E \in SUBSET (Live \X Targets), NEW start, NEW target, NEW acc,
           SearchInv(E, start, target, acc)
    PROVE  SearchInv(E, start, target, SearchStep(E, target, acc))
<1> DEFINE new == SearchStep(E, target, acc)
<1>1. acc \in Searches(E)
  BY DEF SearchInv
<1>2. /\ new \in Searches(E)
      /\ SearchOver(acc) => new = acc
      /\ ~SearchOver(acc) => \/ SearchReturns(E, acc, new)
                             \/ \E e \in E : SearchLooks(target, acc, new, e)
  BY <1>1, SearchStepCases
<1>3. acc.path \in Seq(Live) /\ acc.seen \in SUBSET E /\ acc.found \in BOOLEAN
  BY <1>1 DEF Searches
<1> SUFFICES SearchInv(E, start, target, new)
  OBVIOUS
<1> HIDE DEF new
<1>4. CASE SearchOver(acc)
  BY <1>2, <1>4
<1>5. CASE ~SearchOver(acc) /\ SearchReturns(E, acc, new)
  <2>1. acc.path # <<>> /\ ~acc.found
    BY <1>5 DEF SearchOver
  <2>2. /\ new.path = Tail(acc.path) /\ new.seen = acc.seen /\ new.visited = acc.visited
        /\ new.found = acc.found
        /\ \A e \in E : e[1] = Head(acc.path) => e \in acc.seen
    BY <1>5 DEF SearchReturns
  <2>3. Nodes(acc.path) = Nodes(Tail(acc.path)) \cup {Head(acc.path)}
    BY <1>3, <2>1, Pop
  <2> QED BY <1>2, <2>1, <2>2, <2>3 DEF SearchInv
<1>6. ASSUME ~SearchOver(acc), NEW e \in E, SearchLooks(target, acc, new, e)
      PROVE  SearchInv(E, start, target, new)
  <2>1. acc.path # <<>> /\ ~acc.found
    BY <1>6 DEF SearchOver
  <2>2. e[1] = Head(acc.path) /\ Head(acc.path) \in Nodes(acc.path) /\ e[2] \in Targets
    BY <1>3, <1>6, <2>1, Pop DEF SearchLooks
  <2>3. Reaches(E, start, e[2])
    BY <2>2, ReachesFurther DEF SearchInv
  <2>4. new.seen = acc.seen \cup {e}
    BY <1>6 DEF SearchLooks
  <2>5. CASE e[2] = target
    <3>1. new.found /\ new.path = acc.path /\ new.visited = acc.visited
      BY <1>6, <2>5 DEF SearchLooks
    <3> QED BY <1>2, <2>3, <2>4, <2>5, <3>1 DEF SearchInv
  <2>6. CASE e[2] # target
    <3>1. /\ new.found = acc.found /\ new.visited = acc.visited \cup {e[2]}
          /\ new.path = IF e[2] \in Live /\ e[2] \notin acc.visited
                        THEN <<e[2]>> \o acc.path ELSE acc.path
      BY <1>6, <2>6 DEF SearchLooks
    <3>2. Nodes(new.path) = IF e[2] \in Live /\ e[2] \notin acc.visited
                            THEN Nodes(acc.path) \cup {e[2]} ELSE Nodes(acc.path)
      <4>1. e[2] \in Live => Nodes(<<e[2]>> \o acc.path) = Nodes(acc.path) \cup {e[2]}
        BY <1>3, Push
      <4> QED BY <3>1, <4>1
    <3>3. \A d \in E : d[1] \in new.visited => d \in new.seen \/ d[1] \in Nodes(new.path)
      <4> SUFFICES ASSUME NEW d \in E, d[1] \in new.visited, d \notin new.seen
                   PROVE  d[1] \in Nodes(new.path)
        OBVIOUS
      <4>1. d[1] \in Live
        OBVIOUS
      <4> QED BY <2>4, <3>1, <3>2, <4>1 DEF SearchInv
    <3>4. Nodes(new.path) \subseteq new.visited
      BY <3>1, <3>2 DEF SearchInv
    <3>5. \A x \in new.visited : Reaches(E, start, x)
      BY <2>3, <3>1 DEF SearchInv
    <3>6. target \notin new.visited /\ \A d \in new.seen : d[2] \in new.visited
      BY <2>1, <2>4, <2>6, <3>1 DEF SearchInv
    <3> QED BY <1>2, <2>1, <3>1, <3>3, <3>4, <3>5, <3>6 DEF SearchInv
  <2> QED BY <2>5, <2>6
<1> QED BY <1>2, <1>4, <1>5, <1>6

\* Every turn looks at another edge or returns from a call, and a call is made
\* only for an edge looked at: the number of turns left goes down.
SearchLeft(E, acc) == 2 * Cardinality(E \ acc.seen) + Len(acc.path)

LEMMA SearchLeftStep ==
    ASSUME NEW E \in SUBSET (Live \X Targets), IsFiniteSet(E), NEW target,
           NEW acc \in Searches(E), ~SearchOver(acc)
    PROVE  LET new == SearchStep(E, target, acc)
           IN  /\ SearchLeft(E, acc) \in Nat /\ SearchLeft(E, new) \in Nat
               /\ SearchLeft(E, new) <= SearchLeft(E, acc) - 1
<1> DEFINE new == SearchStep(E, target, acc)
<1>1. /\ new \in Searches(E)
      /\ \/ SearchReturns(E, acc, new)
         \/ \E e \in E : SearchLooks(target, acc, new, e)
  BY SearchStepCases
<1> HIDE DEF new
<1>2. \A a \in Searches(E) : Len(a.path) \in Nat /\ Cardinality(E \ a.seen) \in Nat
  <2> TAKE a \in Searches(E)
  <2>1. IsFiniteSet(E \ a.seen)
    BY FS_Difference
  <2> QED BY <2>1, FS_CardinalityType DEF Searches
<1>3. acc.path \in Seq(Live) /\ acc.path # <<>>
  BY DEF Searches, SearchOver
<1>4. CASE SearchReturns(E, acc, new)
  <2>1. Len(new.path) = Len(acc.path) - 1 /\ new.seen = acc.seen
    BY <1>3, <1>4, Pop DEF SearchReturns
  <2> QED BY <1>1, <1>2, <2>1 DEF SearchLeft, new
<1>5. ASSUME NEW e \in E, SearchLooks(target, acc, new, e)
      PROVE  SearchLeft(E, new) <= SearchLeft(E, acc) - 1
  <2>1. e \in E \ acc.seen /\ new.seen = acc.seen \cup {e} /\ e[2] \in Targets
    BY <1>5 DEF SearchLooks
  <2>2. E \ new.seen = (E \ acc.seen) \ {e}
    BY <2>1
  <2>3. IsFiniteSet(E \ acc.seen)
    BY FS_Difference
  <2>4. Cardinality(E \ new.seen) = Cardinality(E \ acc.seen) - 1
    <3>1. Cardinality((E \ acc.seen) \ {e}) = Cardinality(E \ acc.seen) - 1
      BY <2>1, <2>3, FS_RemoveElement
    <3> QED BY <2>2, <3>1
  <2>5. Len(new.path) <= Len(acc.path) + 1
    <3>1. new.path = acc.path \/ (e[2] \in Live /\ new.path = <<e[2]>> \o acc.path)
      BY <1>5 DEF SearchLooks
    <3> QED BY <1>2, <1>3, <3>1, Push
  <2> QED BY <1>1, <1>2, <2>4, <2>5 DEF SearchLeft
<1>6. SearchLeft(E, acc) \in Nat /\ SearchLeft(E, new) \in Nat
  BY <1>1, <1>2 DEF SearchLeft
<1> QED BY <1>1, <1>4, <1>5, <1>6 DEF new

\* The search comes to an end, with the target found if the start reaches it.
LEMMA SearchEnds ==
    ASSUME NEW E \in SUBSET (Live \X Targets), IsFiniteSet(E),
           NEW start \in Targets, NEW target \in Targets, start # target
    PROVE  LET end == DfsSearch(E, start, target)[DfsSearchLength(E)]
           IN  /\ SearchOver(end)
               /\ end.found <=> Reaches(E, start, target)
<1> DEFINE run == DfsSearch(E, start, target)
           L == DfsSearchLength(E)
           end == run[L]
           S == {n \in Nat : /\ SearchInv(E, start, target, run[n])
                             /\ SearchOver(run[n]) \/ SearchLeft(E, run[n]) + n <= L}
<1>1. /\ run[0] = SearchBegin(start)
      /\ \A n \in Nat : run[n] \in Searches(E)
      /\ \A n \in Nat : run[n + 1] = SearchStep(E, target, run[n])
  BY SearchRun
<1>2. Cardinality(E) \in Nat /\ L \in Nat /\ L = 2 * Cardinality(E) + 1
  BY FS_CardinalityType DEF DfsSearchLength
<1> HIDE DEF run, L
<1>3. 0 \in S
  <2>1. SearchInv(E, start, target, run[0])
    BY <1>1, SearchInvBegin
  <2>2. run[0].seen = {} /\ Len(run[0].path) \in {0, 1}
    <3>1. /\ SearchBegin(start) \in Searches(E)
          /\ SearchBegin(start).seen = {}
          /\ SearchBegin(start).path = IF start \in Live THEN <<start>> ELSE <<>>
      BY SearchBeginFields
    <3> QED BY <1>1, <3>1
  <2>3. Cardinality(E \ run[0].seen) = Cardinality(E)
    <3>1. E \ run[0].seen = E
      BY <2>2
    <3> QED BY <3>1, Zenon
  <2>4. SearchLeft(E, run[0]) = 2 * Cardinality(E) + Len(run[0].path)
    BY <2>3 DEF SearchLeft
  <2>5. SearchLeft(E, run[0]) + 0 <= L
    <3>1. CASE Len(run[0].path) = 0
      BY <1>2, <2>4, <3>1
    <3>2. CASE Len(run[0].path) = 1
      BY <1>2, <2>4, <3>2
    <3> QED BY <2>2, <3>1, <3>2
  <2> QED BY <2>1, <2>5
<1>4. ASSUME NEW n \in Nat, n \in S
      PROVE  n + 1 \in S
  <2>1. run[n + 1] = SearchStep(E, target, run[n]) /\ run[n] \in Searches(E)
    BY <1>1
  <2>2. SearchInv(E, start, target, run[n + 1])
    BY <1>4, <2>1, SearchInvStep
  <2>3. CASE SearchOver(run[n])
    <3>1. run[n + 1] = run[n]
      BY <2>1, <2>3, SearchStepCases
    <3> QED BY <2>2, <2>3, <3>1
  <2>4. CASE ~SearchOver(run[n])
    <3>1. /\ SearchLeft(E, run[n]) \in Nat /\ SearchLeft(E, run[n + 1]) \in Nat
          /\ SearchLeft(E, run[n + 1]) <= SearchLeft(E, run[n]) - 1
      BY <2>1, <2>4, SearchLeftStep
    <3>2. SearchLeft(E, run[n]) + n <= L
      BY <1>4, <2>4
    <3>3. SearchLeft(E, run[n + 1]) + (n + 1) <= L
      BY <1>2, <3>1, <3>2
    <3> QED BY <2>2, <3>3
  <2> QED BY <2>3, <2>4
<1>5. L \in S
  <2> HIDE DEF S
  <2> QED BY <1>2, <1>3, <1>4, SetInduction
<1>6. SearchInv(E, start, target, end) /\ end \in Searches(E)
  BY <1>1, <1>2, <1>5
<1>7. SearchOver(end)
  <2> SUFFICES ASSUME SearchLeft(E, end) + L <= L
               PROVE  end.path = <<>>
    BY <1>5 DEF SearchOver
  <2>1. IsFiniteSet(E \ end.seen)
    BY FS_Difference
  <2>2. Cardinality(E \ end.seen) \in Nat /\ Len(end.path) \in Nat /\ end.path \in Seq(Live)
    BY <1>6, <2>1, FS_CardinalityType DEF Searches
  <2>3. Len(end.path) = 0
    BY <1>2, <2>2 DEF SearchLeft
  <2> QED BY <2>2, <2>3
<1>8. end.found => Reaches(E, start, target)
  BY <1>6 DEF SearchInv
<1>9. ASSUME ~end.found
      PROVE  ~Reaches(E, start, target)
  <2>1. Nodes(end.path) = {}
    BY <1>7, <1>9 DEF SearchOver, Nodes
  <2>2. \A e \in E : e[1] \in end.visited => e[2] \in end.visited
    BY <1>6, <1>9, <2>1 DEF SearchInv
  <2>3. end.visited \in SUBSET Targets /\ start \in end.visited /\ target \notin end.visited
    BY <1>6, <1>9 DEF SearchInv, Searches
  <2> QED BY <2>2, <2>3 DEF Reaches
<1> QED BY <1>7, <1>8, <1>9 DEF run, L

\* Between two commands, in any graph the features' relationships form: the
\* search link makes from the target comes to an end, through unknown IDs and
\* cycles too, and finds the source exactly when the target leads there, so that
\* with one set of visited features for the whole search nothing is missed.
THEOREM SearchFindsPathsAlways == Spec => []SearchFindsPaths
<1>1. GraphInv => SearchFindsPaths
  <2> SUFFICES ASSUME GraphInv, NEW c \in Strict, NEW s \in Features, NEW t \in Features, s # t
               PROVE  LET E   == Edges(TypesIn(c), links)
                          end == DfsSearch(E, t, s)[DfsSearchLength(E)]
                      IN  /\ end.found \/ end.path = <<>>
                          /\ end.found <=> Reaches(E, t, s)
    BY DEF SearchFindsPaths
  <2>1. s \in Targets /\ t \in Targets
    BY DEF Targets
  <2> QED BY <2>1, EdgesOfLinks, SearchEnds DEF SearchOver
<1> QED BY <1>1, GraphInvAlways, PTL
-----------------------------------------------------------------------------
(***************************************************************************)
(* detectCyclesInCategory.                                                 *)
(***************************************************************************)
Checks(E) == [path : Seq(Targets), seen : SUBSET E, black : SUBSET Targets, cycle : BOOLEAN]

CheckOver(acc) == acc.path = <<>> /\ White(acc) = {}

\* What one more turn of the check does: start at a feature, be done with a
\* node, or look at an edge.
CheckStarts(acc, new, f) ==
    /\ acc.path = <<>> /\ f \in White(acc)
    /\ new.path = <<f>> \o acc.path
    /\ new.seen = acc.seen /\ new.black = acc.black /\ new.cycle = acc.cycle

CheckReturns(E, acc, new) ==
    /\ acc.path # <<>>
    /\ \A e \in E : e[1] = Head(acc.path) => e \in acc.seen
    /\ new.path = Tail(acc.path)
    /\ new.seen = acc.seen /\ new.cycle = acc.cycle
    /\ new.black = acc.black \cup {Head(acc.path)}

CheckLooks(acc, new, e) ==
    /\ acc.path # <<>>
    /\ e \notin acc.seen /\ e[1] = Head(acc.path)
    /\ new.seen = acc.seen \cup {e} /\ new.black = acc.black
    /\ \/ /\ e[2] \notin Nodes(acc.path) \cup acc.black
          /\ new.path = <<e[2]>> \o acc.path /\ new.cycle = acc.cycle
       \/ /\ e[2] \in Nodes(acc.path) /\ e[2] # e[1]
          /\ new.path = acc.path /\ new.cycle
       \/ /\ e[2] \in acc.black \/ e[2] = e[1]
          /\ new.path = acc.path /\ new.cycle = acc.cycle

LEMMA EnterFields ==
    ASSUME NEW E, NEW acc \in Checks(E), NEW n \in Targets
    PROVE  /\ Enter(acc, n) \in Checks(E)
           /\ Enter(acc, n).path = <<n>> \o acc.path
           /\ Enter(acc, n).seen = acc.seen
           /\ Enter(acc, n).black = acc.black
           /\ Enter(acc, n).cycle = acc.cycle
<1>1. <<n>> \o acc.path \in Seq(Targets)
  BY Push DEF Checks
<1> DEFINE path == <<n>> \o acc.path
<1>2. Enter(acc, n) = [acc EXCEPT !.path = path]
  BY DEF Enter
<1> HIDE DEF path
<1>3. Enter(acc, n) = [path |-> path, seen |-> acc.seen, black |-> acc.black, cycle |-> acc.cycle]
  BY <1>2 DEF Checks
<1>4. path \in Seq(Targets) /\ path = <<n>> \o acc.path
  BY <1>1 DEF path
<1> QED BY <1>3, <1>4 DEF Checks

LEMMA CheckStepCases ==
    ASSUME NEW E \in SUBSET (Live \X Targets), NEW acc \in Checks(E)
    PROVE  LET new == VisitStep(E, acc)
           IN  /\ new \in Checks(E)
               /\ CheckOver(acc) => new = acc
               /\ ~CheckOver(acc) => \/ \E f \in Live : CheckStarts(acc, new, f)
                                     \/ CheckReturns(E, acc, new)
                                     \/ \E e \in E : CheckLooks(acc, new, e)
<1> DEFINE new == VisitStep(E, acc)
<1>1. CASE CheckOver(acc)
  BY <1>1 DEF CheckOver, VisitStep
<1>2. CASE acc.path = <<>> /\ White(acc) # {}
  <2> DEFINE f == CHOOSE f \in White(acc) : TRUE
  <2>1. f \in White(acc) /\ f \in Live
    BY <1>2 DEF White
  <2>2. new = Enter(acc, f)
    BY <1>2 DEF VisitStep
  <2> HIDE DEF f
  <2>3. f \in Targets
    BY <2>1 DEF Live, Targets
  <2>4. new \in Checks(E) /\ CheckStarts(acc, new, f)
    BY <1>2, <2>1, <2>2, <2>3, EnterFields DEF CheckStarts
  <2> QED BY <1>2, <2>1, <2>4 DEF CheckOver
<1>3. CASE acc.path # <<>> /\ Left(E, acc) = {}
  <2>1. acc.path \in Seq(Targets)
    BY DEF Checks
  <2>2. Tail(acc.path) \in Seq(Targets) /\ Head(acc.path) \in Targets
    BY <1>3, <2>1, Pop
  <2>3. new = [path |-> Tail(acc.path), seen |-> acc.seen,
               black |-> acc.black \cup {Head(acc.path)}, cycle |-> acc.cycle]
    BY <1>3 DEF VisitStep, Return, Checks
  <2>4. \A e \in E : e[1] = Head(acc.path) => e \in acc.seen
    BY <1>3 DEF Left
  <2>5. CheckReturns(E, acc, new)
    BY <1>3, <2>3, <2>4 DEF CheckReturns
  <2> QED BY <1>3, <2>2, <2>3, <2>5 DEF Checks, CheckOver
<1>4. CASE acc.path # <<>> /\ Left(E, acc) # {}
  <2> DEFINE e == Look(E, acc)
             looked == [acc EXCEPT !.seen = @ \cup {e}]
  <2>1. e \in Left(E, acc)
    BY <1>4 DEF Look
  <2>2. e \in E /\ e \notin acc.seen /\ e[1] = Head(acc.path) /\ e[2] \in Targets
    BY <2>1 DEF Left
  <2>3. new = Visit(looked, Head(acc.path), e[2])
    BY <1>4 DEF VisitStep
  <2> HIDE DEF e
  <2>4. /\ looked \in Checks(E)
        /\ looked.seen = acc.seen \cup {e} /\ looked.path = acc.path
        /\ looked.black = acc.black /\ looked.cycle = acc.cycle
    BY <2>2 DEF Checks
  <2> HIDE DEF looked, new
  <2>5. OnPath(looked) = Nodes(acc.path)
    BY <2>4 DEF OnPath, Nodes
  <2>6. CASE e[2] \notin Nodes(acc.path) \cup acc.black
    <3>1. new = Enter(looked, e[2])
      BY <2>3, <2>4, <2>5, <2>6 DEF Visit
    <3>2. new \in Checks(E) /\ CheckLooks(acc, new, e)
      BY <1>4, <2>2, <2>4, <2>6, <3>1, EnterFields, SMTT(20) DEF CheckLooks
    <3> QED BY <1>4, <2>2, <3>2 DEF CheckOver, new
  <2>7. CASE e[2] \in Nodes(acc.path) /\ e[2] # e[1]
    <3>1. new = [looked EXCEPT !.cycle = TRUE]
      BY <2>2, <2>3, <2>4, <2>5, <2>7 DEF Visit
    <3>2. new \in Checks(E) /\ CheckLooks(acc, new, e)
      BY <1>4, <2>2, <2>4, <2>7, <3>1 DEF CheckLooks, Checks
    <3> QED BY <1>4, <2>2, <3>2 DEF CheckOver, new
  <2>8. CASE /\ e[2] \in Nodes(acc.path) \cup acc.black
             /\ ~(e[2] \in Nodes(acc.path) /\ e[2] # e[1])
    <3>1. new = looked
      BY <2>2, <2>3, <2>4, <2>5, <2>8 DEF Visit
    <3>2. new \in Checks(E) /\ CheckLooks(acc, new, e)
      BY <1>4, <2>2, <2>4, <2>8, <3>1 DEF CheckLooks
    <3> QED BY <1>4, <2>2, <3>2 DEF CheckOver, new
  <2> QED BY <2>6, <2>7, <2>8
<1> QED BY <1>1, <1>2, <1>3, <1>4 DEF CheckOver

CheckBegin == [path |-> <<>>, seen |-> {}, black |-> {}, cycle |-> FALSE]

LEMMA CheckRun ==
    ASSUME NEW E \in SUBSET (Live \X Targets)
    PROVE  LET run == DetectCycles(E)
           IN  /\ run[0] = CheckBegin
               /\ \A n \in Nat : run[n] \in Checks(E)
               /\ \A n \in Nat : run[n + 1] = VisitStep(E, run[n])
<1> DEFINE C == Checks(E)
           F == [acc \in C |-> VisitStep(E, acc)]
           Runs(g) == g = [n \in Nat |-> IF n = 0 THEN CheckBegin ELSE VisitStep(E, g[n - 1])]
           run == DetectCycles(E)
<1>1. \A acc \in C : VisitStep(E, acc) \in C
  BY CheckStepCases
<1>2. CheckBegin \in C
  BY DEF CheckBegin, Checks
<1>3. PICK g \in [Nat -> C] : g = [n \in Nat |-> IF n = 0 THEN CheckBegin ELSE F[g[n - 1]]]
  <2>1. F \in [C -> C]
    BY <1>1
  <2> HIDE DEF F, C
  <2> QED BY <1>2, <2>1, Iteration
<1> HIDE DEF C
<1>4. ASSUME NEW n \in Nat
      PROVE  g[n] = IF n = 0 THEN CheckBegin ELSE VisitStep(E, g[n - 1])
  <2>1. CASE n # 0
    <3>1. n - 1 \in Nat
      BY <2>1
    <3>2. g[n] = F[g[n - 1]]
      <4> HIDE DEF F
      <4> QED BY <1>3, <2>1
    <3>3. g[n - 1] \in C
      BY <3>1
    <3> QED BY <2>1, <3>2, <3>3
  <2> QED BY <1>3, <2>1
<1>5. Runs(g)
  BY <1>4
<1>6. run = CHOOSE h : Runs(h)
  BY DEF DetectCycles, CheckBegin
<1>7. Runs(run)
  BY <1>5, <1>6
<1> HIDE DEF run
<1>8. run[0] = CheckBegin
  BY <1>7
<1>9. ASSUME NEW n \in Nat
      PROVE  run[n + 1] = VisitStep(E, run[n])
  <2>1. n + 1 \in Nat /\ n + 1 # 0 /\ (n + 1) - 1 = n
    OBVIOUS
  <2> QED BY <1>7, <2>1
<1>10. \A n \in Nat : run[n] \in C
  <2> DEFINE S == {n \in Nat : run[n] \in C}
  <2>1. 0 \in S /\ \A n \in Nat : n \in S => n + 1 \in S
    BY <1>1, <1>2, <1>8, <1>9
  <2> HIDE DEF S
  <2>2. Nat \subseteq S
    BY <2>1, SetInduction
  <2> QED BY <2>2 DEF S
<1> QED BY <1>8, <1>9, <1>10 DEF run, C

(***************************************************************************)
(* The path of the check: no node twice, each call made for a successor of *)
(* the node of the call before.  An edge goes inward when it leads from a  *)
(* node of the path to one called for later.                               *)
(***************************************************************************)
Straight(p) == \A i, j \in 1..Len(p) : p[i] = p[j] => i = j

Follows(E, p) == \A i, j \in 1..Len(p) : j = i + 1 => <<p[j], p[i]>> \in E

Inward(p, x, y) == \E i, j \in 1..Len(p) : i < j /\ p[j] = x /\ p[i] = y

LEMMA PathPush ==
    ASSUME NEW C, NEW p \in Seq(C), NEW n \in C, n \notin Nodes(p), NEW E,
           Straight(p), Follows(E, p), p # <<>> => <<Head(p), n>> \in E
    PROVE  LET q == <<n>> \o p
           IN  /\ Straight(q) /\ Follows(E, q)
               /\ p # <<>> => Inward(q, Head(p), n)
               /\ \A x, y : Inward(p, x, y) => Inward(q, x, y)
<1> DEFINE q == <<n>> \o p
<1>1. /\ q \in Seq(C) /\ Len(p) \in Nat /\ Len(q) = Len(p) + 1
      /\ q[1] = n /\ \A i \in 1..Len(p) : q[i + 1] = p[i]
  BY Push
<1> HIDE DEF q
<1>2. \A i \in 1..Len(q) : i # 1 => i - 1 \in 1..Len(p) /\ (i - 1) + 1 = i /\ q[i] = p[i - 1]
  <2> SUFFICES ASSUME NEW i \in 1..Len(q), i # 1
               PROVE  i - 1 \in 1..Len(p) /\ (i - 1) + 1 = i /\ q[i] = p[i - 1]
    OBVIOUS
  <2>1. i - 1 \in 1..Len(p) /\ (i - 1) + 1 = i
    BY <1>1
  <2>2. q[(i - 1) + 1] = p[i - 1]
    BY <1>1, <2>1
  <2> QED BY <2>1, <2>2
<1>3. \A i \in 1..Len(p) : p[i] # n
  BY DEF Nodes
<1>4. Straight(q)
  <2> SUFFICES ASSUME NEW i \in 1..Len(q), NEW j \in 1..Len(q), q[i] = q[j]
               PROVE  i = j
    BY DEF Straight
  <2>1. CASE i # 1 /\ j # 1
    <3>1. i - 1 = j - 1
      BY <1>2, <2>1 DEF Straight
    <3> QED BY <1>1, <3>1
  <2> QED BY <1>1, <1>2, <1>3, <2>1
<1>5. p # <<>> => Head(p) = p[1] /\ 1 \in 1..Len(p)
  BY <1>1
<1>6. Follows(E, q)
  <2> SUFFICES ASSUME NEW i \in 1..Len(q), NEW j \in 1..Len(q), j = i + 1
               PROVE  <<q[j], q[i]>> \in E
    BY DEF Follows
  <2>1. j # 1 /\ j - 1 = i
    BY <1>1
  <2>2. q[j] = p[i] /\ i \in 1..Len(p)
    BY <1>2, <2>1
  <2>3. CASE i = 1
    BY <1>1, <1>5, <2>2, <2>3
  <2>4. CASE i # 1
    <3>1. q[i] = p[i - 1] /\ i - 1 \in 1..Len(p) /\ i = (i - 1) + 1
      BY <1>2, <2>4
    <3> QED BY <2>2, <3>1 DEF Follows
  <2> QED BY <2>3, <2>4
<1>7. ASSUME p # <<>>
      PROVE  Inward(q, Head(p), n)
  <2>1. 1 \in 1..Len(q) /\ 2 \in 1..Len(q)
    BY <1>1, <1>5, <1>7
  <2>2. q[1] = n /\ q[2] = Head(p)
    BY <1>1, <1>2, <1>5, <1>7, <2>1
  <2> QED BY <2>1, <2>2 DEF Inward
<1>8. ASSUME NEW x, NEW y, Inward(p, x, y)
      PROVE  Inward(q, x, y)
  <2>1. PICK i, j \in 1..Len(p) : i < j /\ p[j] = x /\ p[i] = y
    BY <1>8 DEF Inward
  <2>2. i + 1 \in 1..Len(q) /\ j + 1 \in 1..Len(q) /\ i + 1 < j + 1
    BY <1>1, <2>1
  <2>3. q[j + 1] = x /\ q[i + 1] = y
    BY <1>1, <2>1
  <2> QED BY <2>2, <2>3 DEF Inward
<1> QED BY <1>4, <1>6, <1>7, <1>8 DEF q

LEMMA PathPop ==
    ASSUME NEW C, NEW p \in Seq(C), p # <<>>, NEW E, Straight(p), Follows(E, p)
    PROVE  /\ Straight(Tail(p)) /\ Follows(E, Tail(p))
           /\ Head(p) \notin Nodes(Tail(p))
           /\ \A x, y : Inward(p, x, y) => x # Head(p) /\ (y = Head(p) \/ Inward(Tail(p), x, y))
<1> DEFINE t == Tail(p)
<1>1. /\ Head(p) = p[1] /\ Len(p) \in Nat /\ Len(p) >= 1 /\ Len(t) = Len(p) - 1
      /\ \A i \in 1..Len(t) : t[i] = p[i + 1]
  BY Pop
<1> SUFFICES /\ Straight(t) /\ Follows(E, t) /\ Head(p) \notin Nodes(t)
             /\ \A x, y : Inward(p, x, y) => x # Head(p) /\ (y = Head(p) \/ Inward(t, x, y))
  OBVIOUS
<1> HIDE DEF t
<1>2. \A i \in 1..Len(t) : i + 1 \in 1..Len(p) /\ i + 1 # 1
  BY <1>1
<1>3. Straight(t)
  <2> SUFFICES ASSUME NEW i \in 1..Len(t), NEW j \in 1..Len(t), t[i] = t[j]
               PROVE  i = j
    BY DEF Straight
  <2>1. i + 1 = j + 1
    BY <1>1, <1>2 DEF Straight
  <2> QED BY <1>1, <2>1
<1>4. Follows(E, t)
  <2> SUFFICES ASSUME NEW i \in 1..Len(t), NEW j \in 1..Len(t), j = i + 1
               PROVE  <<t[j], t[i]>> \in E
    BY DEF Follows
  <2>1. j + 1 = (i + 1) + 1
    BY <1>1
  <2> QED BY <1>1, <1>2, <2>1 DEF Follows
<1>5. 1 \in 1..Len(p)
  BY <1>1
<1>6. Head(p) \notin Nodes(t)
  <2> SUFFICES ASSUME NEW i \in 1..Len(t), t[i] = Head(p)
               PROVE  FALSE
    BY DEF Nodes
  <2> QED BY <1>1, <1>2, <1>5 DEF Straight
<1>7. ASSUME NEW x, NEW y, Inward(p, x, y)
      PROVE  x # Head(p) /\ (y = Head(p) \/ Inward(t, x, y))
  <2>1. PICK i, j \in 1..Len(p) : i < j /\ p[j] = x /\ p[i] = y
    BY <1>7 DEF Inward
  <2>2. j # 1 /\ j - 1 \in 1..Len(t) /\ (j - 1) + 1 = j
    BY <1>1, <2>1
  <2>3. x # Head(p)
    BY <1>1, <1>5, <2>1, <2>2 DEF Straight
  <2>4. CASE i # 1
    <3>1. i - 1 \in 1..Len(t) /\ (i - 1) + 1 = i /\ i - 1 < j - 1
      BY <1>1, <2>1, <2>4
    <3>2. t[i - 1] = p[(i - 1) + 1] /\ t[j - 1] = p[(j - 1) + 1]
      BY <1>1, <2>2, <3>1
    <3>3. t[i - 1] = y /\ t[j - 1] = x
      BY <2>1, <2>2, <3>1, <3>2
    <3> QED BY <2>2, <2>3, <3>1, <3>3 DEF Inward
  <2> QED BY <1>1, <2>1, <2>3, <2>4
<1> QED BY <1>3, <1>4, <1>6, <1>7

\* A call made for a node of the path, and an edge back from the innermost one,
\* are a cycle.
LEMMA PathCycle ==
    ASSUME NEW E \in SUBSET (Live \X Targets), NEW p \in Seq(Targets), p # <<>>,
           Follows(E, p), NEW n \in Nodes(p), <<Head(p), n>> \in E
    PROVE  ~Acyclic(E)
<1>1. Len(p) \in Nat /\ Len(p) >= 1 /\ Head(p) = p[1]
  BY Pop
<1>2. PICK k \in 1..Len(p) : p[k] = n
  BY DEF Nodes
<1> DEFINE S == {p[i] : i \in 1..k}
<1>3. \A i \in 1..k : \E m \in S : <<p[i], m>> \in E
  <2> SUFFICES ASSUME NEW i \in 1..k
               PROVE  \E m \in S : <<p[i], m>> \in E
    OBVIOUS
  <2>1. CASE i = 1
    <3>1. k \in 1..k
      BY <1>1
    <3> QED BY <1>1, <1>2, <2>1, <3>1
  <2>2. CASE i # 1
    <3>1. i - 1 \in 1..k /\ i - 1 \in 1..Len(p) /\ i \in 1..Len(p) /\ i = (i - 1) + 1
      BY <1>1, <2>2
    <3>2. <<p[i], p[i - 1]>> \in E
      BY <3>1 DEF Follows
    <3> QED BY <3>1, <3>2
  <2> QED BY <2>1, <2>2
<1>4. S \subseteq Live
  BY <1>3
<1>5. S # {} /\ S \in SUBSET Features
  <2>1. 1 \in 1..k
    BY <1>1
  <2> QED BY <1>4, <2>1 DEF Live
<1>6. \A x \in S : \E m \in S : <<x, m>> \in E
  BY <1>3
<1> HIDE DEF S
<1> QED BY <1>5, <1>6 DEF Acyclic

\* Every set of done nodes holds one with no successor in it.
Settled(E, black) == \A S \in SUBSET black : S # {} => \E n \in S : \A m \in S : <<n, m>> \notin E

\* The check holds on to its colours: all edges of a black node were looked at;
\* until a cycle is found they lead to black nodes, and those of the path
\* inward or to black nodes, so that no cycle is among them.
CheckInv(E, acc) ==
    /\ acc \in Checks(E)
    /\ Straight(acc.path) /\ Follows(E, acc.path)
    /\ \A x \in acc.black : x \notin Nodes(acc.path)
    /\ \A e \in E : e[1] \in acc.black => e \in acc.seen
    /\ ~acc.cycle => /\ Settled(E, acc.black)
                     /\ \A e \in acc.seen : e[2] \in acc.black \/ Inward(acc.path, e[1], e[2])
    /\ acc.cycle => ~Acyclic(E)

LEMMA CheckInvBegin ==
    ASSUME NEW E \in SUBSET (Live \X Targets)
    PROVE  CheckInv(E, CheckBegin)
BY DEF CheckInv, CheckBegin, Checks, Straight, Follows, Nodes, Settled

LEMMA CheckInvStarts ==
    ASSUME NEW E \in SUBSET (Live \X Targets), NEW acc, CheckInv(E, acc),
           NEW new \in Checks(E), NEW f \in Live, CheckStarts(acc, new, f)
    PROVE  CheckInv(E, new)
<1>1. /\ f \in White(acc) /\ new.path = <<f>> \o acc.path
      /\ new.seen = acc.seen /\ new.black = acc.black /\ new.cycle = acc.cycle
  BY DEF CheckStarts
<1>2. acc.path \in Seq(Targets) /\ f \in Targets
  BY DEF CheckInv, Checks, Live, Targets
<1>3. f \notin Nodes(acc.path) /\ f \notin acc.black
  BY <1>1 DEF White, OnPath, Nodes
<1>4. Nodes(new.path) = Nodes(acc.path) \cup {f}
  BY <1>1, <1>2, Push
<1>5. /\ Straight(new.path) /\ Follows(E, new.path)
      /\ \A x, y : Inward(acc.path, x, y) => Inward(new.path, x, y)
  <2>1. Straight(acc.path) /\ Follows(E, acc.path) /\ (acc.path # <<>> => <<Head(acc.path), f>> \in E)
    BY DEF CheckInv, CheckStarts
  <2> QED BY <1>1, <1>2, <1>3, <2>1, PathPush
<1> QED BY <1>1, <1>3, <1>4, <1>5 DEF CheckInv

LEMMA CheckInvReturns ==
    ASSUME NEW E \in SUBSET (Live \X Targets), \A e \in E : e[1] # e[2],
           NEW acc, CheckInv(E, acc), NEW new \in Checks(E), CheckReturns(E, acc, new)
    PROVE  CheckInv(E, new)
<1> DEFINE x == Head(acc.path)
<1>1. /\ acc.path # <<>> /\ new.path = Tail(acc.path)
      /\ \A e \in E : e[1] = x => e \in acc.seen
      /\ new.seen = acc.seen /\ new.cycle = acc.cycle /\ new.black = acc.black \cup {x}
  BY DEF CheckReturns
<1>2. acc.path \in Seq(Targets) /\ acc.seen \in SUBSET E /\ acc.cycle \in BOOLEAN
  BY DEF CheckInv, Checks
<1>3. Nodes(acc.path) = Nodes(new.path) \cup {x}
  BY <1>1, <1>2, Pop
<1>4. /\ Straight(new.path) /\ Follows(E, new.path) /\ x \notin Nodes(new.path)
      /\ \A u, v : Inward(acc.path, u, v) => u # x /\ (v = x \/ Inward(new.path, u, v))
  BY <1>1, <1>2, PathPop DEF CheckInv
<1> HIDE DEF x
<1>5. \A z \in new.black : z \notin Nodes(new.path)
  BY <1>1, <1>3, <1>4 DEF CheckInv
<1>6. \A e \in E : e[1] \in new.black => e \in new.seen
  BY <1>1 DEF CheckInv
<1>7. ASSUME ~acc.cycle
      PROVE  /\ Settled(E, new.black)
             /\ \A e \in new.seen : e[2] \in new.black \/ Inward(new.path, e[1], e[2])
  <2>1. \A e \in acc.seen : e[2] \in acc.black \/ Inward(acc.path, e[1], e[2])
    BY <1>7 DEF CheckInv
  <2>2. \A e \in new.seen : e[2] \in new.black \/ Inward(new.path, e[1], e[2])
    BY <1>1, <1>4, <2>1
  <2>3. \A e \in E : e[1] = x => e[2] \in acc.black
    BY <1>1, <1>4, <2>1
  <2>4. x \notin acc.black
    BY <1>3 DEF CheckInv
  <2>5. \A e \in E : e[1] \in acc.black => e[2] # x
    <3> SUFFICES ASSUME NEW e \in E, e[1] \in acc.black, e[2] = x
                 PROVE  FALSE
      OBVIOUS
    <3>1. e \in acc.seen
      BY DEF CheckInv
    <3>2. Inward(acc.path, e[1], e[2])
      BY <2>1, <2>4, <3>1
    <3>3. e[1] \in Nodes(acc.path)
      BY <3>2 DEF Inward, Nodes
    <3> QED BY <3>3 DEF CheckInv
  <2>6. Settled(E, new.black)
    <3> SUFFICES ASSUME NEW S \in SUBSET new.black, S # {}
                 PROVE  \E n \in S : \A m \in S : <<n, m>> \notin E
      BY DEF Settled
    <3>1. CASE S \cap acc.black = {}
      <4>1. S = {x}
        BY <1>1, <3>1
      <4>2. <<x, x>> \notin E
        OBVIOUS
      <4> QED BY <4>1, <4>2
    <3>2. CASE S \cap acc.black # {}
      <4>1. PICK n \in S \cap acc.black : \A m \in S \cap acc.black : <<n, m>> \notin E
        BY <1>7, <3>2 DEF CheckInv, Settled
      <4>2. <<n, x>> \notin E
        BY <2>5, <4>1
      <4>3. \A m \in S : m \in acc.black \/ m = x
        BY <1>1
      <4> QED BY <4>1, <4>2, <4>3
    <3> QED BY <3>1, <3>2
  <2> QED BY <2>2, <2>6
<1> QED BY <1>1, <1>4, <1>5, <1>6, <1>7 DEF CheckInv

LEMMA CheckInvLooks ==
    ASSUME NEW E \in SUBSET (Live \X Targets), \A e \in E : e[1] # e[2],
           NEW acc, CheckInv(E, acc), NEW new \in Checks(E), NEW e \in E, CheckLooks(acc, new, e)
    PROVE  CheckInv(E, new)
<1>1. /\ acc.path # <<>> /\ e[1] = Head(acc.path) /\ e \notin acc.seen
      /\ new.seen = acc.seen \cup {e} /\ new.black = acc.black
  BY DEF CheckLooks
<1>2. acc.path \in Seq(Targets) /\ acc.seen \in SUBSET E /\ acc.cycle \in BOOLEAN /\ e[2] \in Targets
      /\ e = <<e[1], e[2]>>
  BY DEF CheckInv, Checks
<1>3. \A d \in E : d[1] \in new.black => d \in new.seen
  BY <1>1 DEF CheckInv
<1>4. CASE e[2] \notin Nodes(acc.path) \cup acc.black
  <2>1. new.path = <<e[2]>> \o acc.path /\ new.cycle = acc.cycle
    BY <1>1, <1>4 DEF CheckLooks
  <2>2. Nodes(new.path) = Nodes(acc.path) \cup {e[2]}
    BY <1>2, <2>1, Push
  <2>3. /\ Straight(new.path) /\ Follows(E, new.path)
        /\ Inward(new.path, Head(acc.path), e[2])
        /\ \A x, y : Inward(acc.path, x, y) => Inward(new.path, x, y)
    <3>1. Straight(acc.path) /\ Follows(E, acc.path) /\ <<Head(acc.path), e[2]>> \in E
      BY <1>1, <1>2 DEF CheckInv
    <3> QED BY <1>1, <1>2, <1>4, <2>1, <3>1, PathPush
  <2>4. \A x \in new.black : x \notin Nodes(new.path)
    BY <1>1, <1>4, <2>2 DEF CheckInv
  <2>5. ASSUME ~acc.cycle
        PROVE  \A d \in new.seen : d[2] \in new.black \/ Inward(new.path, d[1], d[2])
    BY <1>1, <2>3, <2>5 DEF CheckInv
  <2> QED BY <1>1, <1>3, <2>1, <2>3, <2>4, <2>5 DEF CheckInv
<1>5. CASE e[2] \in Nodes(acc.path)
  <2>1. e[2] \notin acc.black
    BY <1>5 DEF CheckInv
  <2>2. new.path = acc.path /\ new.cycle
    BY <1>1, <1>5, <2>1 DEF CheckLooks
  <2>3. ~Acyclic(E)
    BY <1>1, <1>2, <1>5, PathCycle DEF CheckInv
  <2> QED BY <1>1, <1>3, <2>2, <2>3 DEF CheckInv
<1>6. CASE e[2] \in acc.black
  <2>1. e[2] \notin Nodes(acc.path)
    BY <1>6 DEF CheckInv
  <2>2. new.path = acc.path /\ new.cycle = acc.cycle
    BY <1>1, <1>6, <2>1 DEF CheckLooks
  <2> QED BY <1>1, <1>3, <1>6, <2>2 DEF CheckInv
<1> QED BY <1>4, <1>5, <1>6

LEMMA CheckInvStep ==
    ASSUME NEW E \in SUBSET (Live \X Targets), \A e \in E : e[1] # e[2], NEW acc, CheckInv(E, acc)
    PROVE  CheckInv(E, VisitStep(E, acc))
<1>1. acc \in Checks(E)
  BY DEF CheckInv
<1>2. LET new == VisitStep(E, acc)
      IN  /\ new \in Checks(E)
          /\ CheckOver(acc) => new = acc
          /\ ~CheckOver(acc) => \/ \E f \in Live : CheckStarts(acc, new, f)
                                \/ CheckReturns(E, acc, new)
                                \/ \E e \in E : CheckLooks(acc, new, e)
  BY <1>1, CheckStepCases
<1> QED BY <1>2, CheckInvStarts, CheckInvReturns, CheckInvLooks

\* Every turn looks at another edge, starts at a white feature or is done with a
\* node: the number of turns left goes down.
CheckLeft(E, acc) == 2 * (Cardinality(E \ acc.seen) + Cardinality(White(acc))) + Len(acc.path)

LEMMA CheckLeftNat ==
    ASSUME NEW E, IsFiniteSet(E), IsFiniteSet(Live), NEW acc \in Checks(E)
    PROVE  /\ Cardinality(E \ acc.seen) \in Nat /\ Cardinality(White(acc)) \in Nat
           /\ Len(acc.path) \in Nat /\ CheckLeft(E, acc) \in Nat
           /\ IsFiniteSet(E \ acc.seen) /\ IsFiniteSet(White(acc))
<1>1. IsFiniteSet(E \ acc.seen)
  BY FS_Difference
<1>2. IsFiniteSet(White(acc))
  BY FS_Difference DEF White
<1>3. Cardinality(E \ acc.seen) \in Nat /\ Cardinality(White(acc)) \in Nat
  BY <1>1, <1>2, FS_CardinalityType
<1>4. Len(acc.path) \in Nat
  BY DEF Checks
<1> QED BY <1>1, <1>2, <1>3, <1>4 DEF CheckLeft

LEMMA CheckLeftStep ==
    ASSUME NEW E \in SUBSET (Live \X Targets), IsFiniteSet(E), IsFiniteSet(Live),
           NEW acc \in Checks(E), ~CheckOver(acc)
    PROVE  CheckLeft(E, VisitStep(E, acc)) <= CheckLeft(E, acc) - 1
<1> DEFINE new == VisitStep(E, acc)
<1>1. /\ new \in Checks(E)
      /\ \/ \E f \in Live : CheckStarts(acc, new, f)
         \/ CheckReturns(E, acc, new)
         \/ \E e \in E : CheckLooks(acc, new, e)
  BY CheckStepCases
<1> HIDE DEF new
<1>2. /\ Cardinality(E \ acc.seen) \in Nat /\ Cardinality(White(acc)) \in Nat
      /\ Len(acc.path) \in Nat
      /\ IsFiniteSet(E \ acc.seen) /\ IsFiniteSet(White(acc))
  BY CheckLeftNat
<1>3. /\ Cardinality(E \ new.seen) \in Nat /\ Cardinality(White(new)) \in Nat
      /\ Len(new.path) \in Nat
  BY <1>1, CheckLeftNat
<1>4. acc.path \in Seq(Targets)
  BY DEF Checks
<1>5. \A a : White(a) = Live \ (Nodes(a.path) \cup a.black)
  BY DEF White, OnPath, Nodes
<1>6. ASSUME NEW f \in Live, CheckStarts(acc, new, f)
      PROVE  CheckLeft(E, new) <= CheckLeft(E, acc) - 1
  <2>1. f \in White(acc) /\ new.path = <<f>> \o acc.path /\ new.seen = acc.seen /\ new.black = acc.black
    BY <1>6 DEF CheckStarts
  <2>2. f \in Targets
    BY DEF Live, Targets
  <2>3. Len(new.path) = Len(acc.path) + 1 /\ Nodes(new.path) = Nodes(acc.path) \cup {f}
    BY <1>4, <2>1, <2>2, Push
  <2>4. White(new) = White(acc) \ {f}
    BY <1>5, <2>1, <2>3
  <2>5. Cardinality(White(acc) \ {f}) = Cardinality(White(acc)) - 1
    BY <1>2, <2>1, FS_RemoveElement
  <2>6. Cardinality(White(new)) = Cardinality(White(acc)) - 1
    BY <2>4, <2>5
  <2> QED BY <1>2, <1>3, <2>1, <2>3, <2>6 DEF CheckLeft
<1>7. ASSUME CheckReturns(E, acc, new)
      PROVE  CheckLeft(E, new) <= CheckLeft(E, acc) - 1
  <2>1. /\ acc.path # <<>> /\ new.path = Tail(acc.path) /\ new.seen = acc.seen
        /\ new.black = acc.black \cup {Head(acc.path)}
    BY <1>7 DEF CheckReturns
  <2>2. Len(new.path) = Len(acc.path) - 1 /\ Nodes(acc.path) = Nodes(new.path) \cup {Head(acc.path)}
    BY <1>4, <2>1, Pop
  <2>3. White(new) = White(acc)
    BY <1>5, <2>1, <2>2
  <2> QED BY <1>2, <1>3, <2>1, <2>2, <2>3 DEF CheckLeft
<1>8. ASSUME NEW e \in E, CheckLooks(acc, new, e)
      PROVE  CheckLeft(E, new) <= CheckLeft(E, acc) - 1
  <2>1. /\ e \in E \ acc.seen /\ new.seen = acc.seen \cup {e} /\ e[2] \in Targets
        /\ new.black = acc.black
        /\ new.path = acc.path \/ new.path = <<e[2]>> \o acc.path
    BY <1>8 DEF CheckLooks
  <2>2. E \ new.seen = (E \ acc.seen) \ {e}
    BY <2>1
  <2>3. Cardinality((E \ acc.seen) \ {e}) = Cardinality(E \ acc.seen) - 1
    BY <1>2, <2>1, FS_RemoveElement
  <2>4. Cardinality(E \ new.seen) = Cardinality(E \ acc.seen) - 1
    BY <2>2, <2>3
  <2>5. Len(new.path) <= Len(acc.path) + 1 /\ Nodes(acc.path) \subseteq Nodes(new.path)
    <3>1. CASE new.path = acc.path
      BY <1>2, <3>1
    <3>2. CASE new.path = <<e[2]>> \o acc.path
      <4>1. Len(new.path) = Len(acc.path) + 1 /\ Nodes(new.path) = Nodes(acc.path) \cup {e[2]}
        BY <1>4, <2>1, <3>2, Push
      <4> QED BY <1>2, <4>1
    <3> QED BY <2>1, <3>1, <3>2
  <2>6. White(new) \subseteq White(acc)
    BY <1>5, <2>1, <2>5
  <2>7. Cardinality(White(new)) <= Cardinality(White(acc))
    BY <1>2, <2>6, FS_Subset
  <2>8. Len(new.path) <= Len(acc.path) + 1
    BY <2>5
  <2> QED BY <1>2, <1>3, <2>4, <2>7, <2>8, SMTT(20) DEF CheckLeft
<1> QED BY <1>1, <1>6, <1>7, <1>8 DEF new

\* The check comes to an end with every feature done, and a cycle found if there
\* is one.
LEMMA CheckEnds ==
    ASSUME NEW E \in SUBSET (Live \X Targets), \A e \in E : e[1] # e[2],
           IsFiniteSet(E), IsFiniteSet(Live)
    PROVE  LET end == DetectCycles(E)[DetectCyclesLength(E)]
           IN  /\ end.path = <<>> /\ Live \subseteq end.black
               /\ end.cycle <=> ~Acyclic(E)
<1> DEFINE run == DetectCycles(E)
           L == DetectCyclesLength(E)
           end == run[L]
           S == {n \in Nat : /\ CheckInv(E, run[n])
                             /\ CheckOver(run[n]) \/ CheckLeft(E, run[n]) + n <= L}
<1>1. /\ run[0] = CheckBegin
      /\ \A n \in Nat : run[n] \in Checks(E)
      /\ \A n \in Nat : run[n + 1] = VisitStep(E, run[n])
  BY CheckRun
<1>2. L \in Nat /\ L = 2 * (Cardinality(E) + Cardinality(Live))
  BY FS_CardinalityType DEF DetectCyclesLength
<1> HIDE DEF run, L
<1>3. 0 \in S
  <2>1. CheckInv(E, run[0])
    BY <1>1, CheckInvBegin
  <2>2. E \ run[0].seen = E /\ White(run[0]) = Live /\ Len(run[0].path) = 0
    BY <1>1 DEF CheckBegin, White, OnPath
  <2>3. Cardinality(E \ run[0].seen) = Cardinality(E) /\ Cardinality(White(run[0])) = Cardinality(Live)
    BY <2>2, Zenon
  <2>4. CheckLeft(E, run[0]) = L + 0
    <3>1. Cardinality(E) \in Nat /\ Cardinality(Live) \in Nat
      BY FS_CardinalityType
    <3> QED BY <1>2, <2>2, <2>3, <3>1 DEF CheckLeft
  <2> QED BY <1>2, <2>1, <2>4
<1>4. ASSUME NEW n \in Nat, n \in S
      PROVE  n + 1 \in S
  <2>1. run[n + 1] = VisitStep(E, run[n]) /\ run[n] \in Checks(E) /\ run[n + 1] \in Checks(E)
    BY <1>1
  <2>2. CheckInv(E, run[n + 1])
    BY <1>4, <2>1, CheckInvStep
  <2>3. CASE CheckOver(run[n])
    <3>1. run[n + 1] = run[n]
      BY <2>1, <2>3, CheckStepCases
    <3> QED BY <2>2, <2>3, <3>1
  <2>4. CASE ~CheckOver(run[n])
    <3>1. CheckLeft(E, run[n]) \in Nat /\ CheckLeft(E, run[n + 1]) \in Nat
      BY <2>1, CheckLeftNat
    <3>2. CheckLeft(E, run[n + 1]) <= CheckLeft(E, run[n]) - 1
      BY <2>1, <2>4, CheckLeftStep
    <3>3. CheckLeft(E, run[n]) + n <= L
      BY <1>4, <2>4
    <3>4. CheckLeft(E, run[n + 1]) + (n + 1) <= L
      BY <1>2, <3>1, <3>2, <3>3
    <3> QED BY <2>2, <3>4
  <2> QED BY <2>3, <2>4
<1>5. L \in S
  <2> HIDE DEF S
  <2> QED BY <1>2, <1>3, <1>4, SetInduction
<1>6. CheckInv(E, end) /\ end \in Checks(E)
  BY <1>1, <1>2, <1>5
<1>7. CheckOver(end)
  <2> SUFFICES ASSUME CheckLeft(E, end) + L <= L
               PROVE  CheckOver(end)
    BY <1>5
  <2>1. /\ Cardinality(E \ end.seen) \in Nat /\ Cardinality(White(end)) \in Nat
        /\ Len(end.path) \in Nat /\ CheckLeft(E, end) \in Nat
        /\ IsFiniteSet(White(end))
    BY <1>6, CheckLeftNat
  <2>2. Cardinality(White(end)) = 0 /\ Len(end.path) = 0
    BY <1>2, <2>1 DEF CheckLeft
  <2>3. White(end) = {}
    BY <2>1, <2>2, FS_EmptySet
  <2>4. end.path = <<>>
    BY <1>6, <2>2 DEF Checks
  <2> QED BY <2>3, <2>4 DEF CheckOver
<1>8. end.path = <<>> /\ Live \subseteq end.black
  BY <1>7 DEF CheckOver, White, OnPath
<1>9. ASSUME ~end.cycle
      PROVE  Acyclic(E)
  <2> SUFFICES ASSUME NEW R \in SUBSET Features, R # {}
               PROVE  \E n \in R : \A m \in R : <<n, m>> \notin E
    BY DEF Acyclic
  <2>1. CASE R \subseteq Live
    BY <1>6, <1>8, <1>9, <2>1 DEF CheckInv, Settled
  <2>2. CASE ~(R \subseteq Live)
    BY <2>2
  <2> QED BY <2>1, <2>2
<1>10. end.cycle => ~Acyclic(E)
  BY <1>6 DEF CheckInv
<1> QED BY <1>8, <1>9, <1>10 DEF run, L

\* Between two commands, in any graph the features' relationships form: the
\* check of validate comes to an end with every live feature done, and reports a
\* cycle exactly when there is one, although it never looks at a node twice.
THEOREM CheckerFindsCyclesAlways == Spec => []CheckerFindsCycles
<1>1. GraphInv => CheckerFindsCycles
  <2> SUFFICES ASSUME GraphInv, NEW c \in Strict
               PROVE  LET E   == CategoryEdges(c)
                          end == DetectCycles(E)[DetectCyclesLength(E)]
                      IN  /\ end.path = <<>> /\ Live \subseteq end.black
                          /\ end.cycle <=> ~Acyclic(E)
    BY DEF CheckerFindsCycles, CheckCycles
  <2> DEFINE E == CategoryEdges(c)
  <2>1. E \in SUBSET (Live \X Targets) /\ IsFiniteSet(E)
    BY EdgesOfLinks DEF CategoryEdges
  <2>2. \A e \in E : e[1] # e[2]
    BY DEF CategoryEdges, Edges, GraphInv, RelInv, NoSelfLinks
  <2>3. IsFiniteSet(Live)
    BY DEF GraphInv, Finite
  <2> HIDE DEF E
  <2>4. LET end == DetectCycles(E)[DetectCyclesLength(E)]
        IN  /\ end.path = <<>> /\ Live \subseteq end.black
            /\ end.cycle <=> ~Acyclic(E)
    BY <2>1, <2>2, <2>3, CheckEnds
  <2> QED BY <2>4 DEF E
<1> QED BY <1>1, GraphInvAlways, PTL
-----------------------------------------------------------------------------
(***************************************************************************)
(* Sequences put together, and sets put in order.                          *)
(***************************************************************************)
LEMMA Joined ==
    ASSUME NEW C, NEW p \in Seq(C), NEW q \in Seq(C)
    PROVE  /\ p \o q \in Seq(C) /\ Len(p) \in Nat /\ Len(q) \in Nat
           /\ Len(p \o q) = Len(p) + Len(q)
           /\ \A i \in 1..Len(p) : (p \o q)[i] = p[i]
           /\ \A i \in 1..Len(q) : (p \o q)[Len(p) + i] = q[i]
           /\ Nodes(p \o q) = Nodes(p) \cup Nodes(q)
           /\ \A i \in 1..Len(p \o q) :
                  i \in 1..Len(p) \/ (i - Len(p) \in 1..Len(q) /\ (p \o q)[i] = q[i - Len(p)])
<1>1. /\ p \o q \in Seq(C) /\ Len(p) \in Nat /\ Len(q) \in Nat
      /\ Len(p \o q) = Len(p) + Len(q)
  OBVIOUS
<1>2. \A i \in 1..Len(p) : (p \o q)[i] = p[i]
  OBVIOUS
<1>3. \A i \in 1..Len(q) : (p \o q)[Len(p) + i] = q[i]
  <2> SUFFICES ASSUME NEW i \in 1..Len(q)
               PROVE  (p \o q)[Len(p) + i] = q[i]
    OBVIOUS
  <2>1. Len(p) + i \in 1..(Len(p) + Len(q)) /\ ~(Len(p) + i <= Len(p)) /\ (Len(p) + i) - Len(p) = i
    BY <1>1
  <2> QED BY <1>1, <2>1
<1>4. \A i \in 1..Len(p \o q) :
          i \in 1..Len(p) \/ (i - Len(p) \in 1..Len(q) /\ (p \o q)[i] = q[i - Len(p)])
  <2> SUFFICES ASSUME NEW i \in 1..Len(p \o q), i \notin 1..Len(p)
               PROVE  i - Len(p) \in 1..Len(q) /\ (p \o q)[i] = q[i - Len(p)]
    OBVIOUS
  <2>1. i - Len(p) \in 1..Len(q) /\ Len(p) + (i - Len(p)) = i
    BY <1>1
  <2>2. (p \o q)[Len(p) + (i - Len(p))] = q[i - Len(p)]
    BY <1>3, <2>1
  <2> QED BY <2>1, <2>2
<1> DEFINE r == p \o q
<1>5. /\ r \in Seq(C) /\ Len(r) = Len(p) + Len(q)
      /\ \A i \in 1..Len(p) : r[i] = p[i]
      /\ \A i \in 1..Len(q) : r[Len(p) + i] = q[i]
      /\ \A i \in 1..Len(r) : i \in 1..Len(p) \/ (i - Len(p) \in 1..Len(q) /\ r[i] = q[i - Len(p)])
  BY <1>1, <1>2, <1>3, <1>4
<1> HIDE DEF r
<1>6. Nodes(r) \subseteq Nodes(p) \cup Nodes(q)
  BY <1>5 DEF Nodes
<1>7. Nodes(p) \subseteq Nodes(r)
  <2>1. \A i \in 1..Len(p) : i \in 1..Len(r)
    BY <1>1, <1>5
  <2> QED BY <1>5, <2>1 DEF Nodes
<1>8. Nodes(q) \subseteq Nodes(r)
  <2> SUFFICES ASSUME NEW i \in 1..Len(q)
               PROVE  q[i] \in Nodes(r)
    BY DEF Nodes
  <2>1. Len(p) + i \in 1..Len(r)
    BY <1>1, <1>5
  <2>2. r[Len(p) + i] = q[i]
    BY <1>5
  <2> QED BY <2>1, <2>2 DEF Nodes
<1> QED BY <1>1, <1>2, <1>3, <1>4, <1>6, <1>7, <1>8 DEF r

LEMMA JoinedStraight ==
    ASSUME NEW C, NEW p \in Seq(C), NEW q \in Seq(C), Straight(p), Straight(q),
           \A x \in Nodes(p) : x \notin Nodes(q)
    PROVE  Straight(p \o q)
<1> DEFINE r == p \o q
<1>1. /\ Len(p) \in Nat /\ Len(q) \in Nat /\ Len(r) = Len(p) + Len(q)
      /\ \A i \in 1..Len(p) : r[i] = p[i]
      /\ \A i \in 1..Len(r) : i \in 1..Len(p) \/ (i - Len(p) \in 1..Len(q) /\ r[i] = q[i - Len(p)])
  BY Joined
<1> SUFFICES Straight(r)
  OBVIOUS
<1> HIDE DEF r
<1> SUFFICES ASSUME NEW i \in 1..Len(r), NEW j \in 1..Len(r), r[i] = r[j]
             PROVE  i = j
  BY DEF Straight
<1>2. CASE i \in 1..Len(p) /\ j \in 1..Len(p)
  BY <1>1, <1>2 DEF Straight
<1>3. ASSUME NEW k \in 1..Len(r), NEW m \in 1..Len(r), k \in 1..Len(p), m \notin 1..Len(p)
      PROVE  r[k] # r[m]
  <2>1. r[k] = p[k] /\ p[k] \in Nodes(p)
    BY <1>1, <1>3 DEF Nodes
  <2>2. m - Len(p) \in 1..Len(q) /\ r[m] = q[m - Len(p)]
    BY <1>1, <1>3
  <2>3. r[m] \in Nodes(q)
    BY <2>2 DEF Nodes
  <2> QED BY <2>1, <2>3
<1>4. i \in 1..Len(p) <=> j \in 1..Len(p)
  BY <1>3
<1>5. CASE i \notin 1..Len(p) /\ j \notin 1..Len(p)
  <2>1. i - Len(p) = j - Len(p)
    BY <1>1, <1>5 DEF Straight
  <2> QED BY <1>1, <2>1
<1> QED BY <1>2, <1>4, <1>5

\* InOrder lists every member once.
LEMMA InOrderProperties ==
    ASSUME NEW set, IsFiniteSet(set)
    PROVE  /\ InOrder(set) \in Seq(set) /\ Cardinality(set) \in Nat
           /\ Len(InOrder(set)) = Cardinality(set)
           /\ Nodes(InOrder(set)) = set
           /\ Straight(InOrder(set))
<1> DEFINE n == Cardinality(set)
           order == InOrder(set)
<1>1. n \in Nat /\ ExistsBijection(1..n, set)
  BY FS_CardinalityType
<1>2. PICK g : g \in Bijection(1..n, set)
  BY <1>1 DEF ExistsBijection
<1>3. g \in [1..n -> set] /\ \A i, j \in 1..n : g[i] = g[j] => i = j
  BY <1>2, Fun_BijectionProperties
<1>4. IsInjective(g)
  BY <1>3 DEF IsInjective
<1>5. order \in [1..n -> set] /\ IsInjective(order)
  BY <1>3, <1>4 DEF InOrder
<1> HIDE DEF order
<1>6. DOMAIN order = 1..n
  BY <1>5
<1>7. \A i, j \in 1..n : order[i] = order[j] => i = j
  BY <1>5, <1>6 DEF IsInjective
<1> HIDE DEF n
<1>8. order \in Injection(1..n, set)
  BY <1>5, <1>7, Fun_IsInj
<1>9. Cardinality(1..n) = n
  <2>1. 1 \in Int /\ n \in Int
    BY <1>1
  <2>2. Cardinality(1..n) = IF 1 > n THEN 0 ELSE n - 1 + 1
    BY <2>1, FS_Interval
  <2> QED BY <1>1, <2>2
<1>10. order \in Surjection(1..n, set)
  <2>1. Cardinality(1..n) = Cardinality(set)
    BY <1>9 DEF n
  <2> QED BY <1>8, <2>1, FS_Injection
<1>11. \A x \in set : \E i \in 1..n : order[i] = x
  BY <1>10 DEF Surjection
<1>12. order \in Seq(set) /\ Len(order) = n
  BY <1>1, <1>5
<1>13. Nodes(order) = set
  BY <1>5, <1>11, <1>12 DEF Nodes
<1>14. Straight(order)
  BY <1>7, <1>12 DEF Straight
<1> QED BY <1>1, <1>12, <1>13, <1>14 DEF order, n
-----------------------------------------------------------------------------
(***************************************************************************)
(* The reference: what leads to f in so many steps.                        *)
(***************************************************************************)
Into(E, near) == {e[1] : e \in {d \in E : d[2] \in near}}

LEMMA WithinRun ==
    ASSUME NEW V, NEW f \in V, NEW E, \A e \in E : e[1] \in V
    PROVE  LET W == Within(f, E)
           IN  /\ W \in [Nat -> SUBSET V] /\ W[0] = {f}
               /\ \A n \in Nat : W[n + 1] = W[n] \cup Into(E, W[n])
<1> DEFINE C == SUBSET V
           Grow(near) == near \cup {e[1] : e \in {d \in E : d[2] \in near}}
           F == [near \in C |-> Grow(near)]
           Runs(g) == g = [n \in Nat |-> IF n = 0 THEN {f} ELSE Grow(g[n - 1])]
           W == Within(f, E)
<1>1. \A near \in C : Grow(near) \in C
  OBVIOUS
<1>2. {f} \in C
  OBVIOUS
<1>3. PICK g \in [Nat -> C] : g = [n \in Nat |-> IF n = 0 THEN {f} ELSE F[g[n - 1]]]
  <2>1. F \in [C -> C]
    BY <1>1
  <2> HIDE DEF F, C
  <2> QED BY <1>2, <2>1, Iteration
<1> HIDE DEF C
<1>4. ASSUME NEW n \in Nat
      PROVE  g[n] = IF n = 0 THEN {f} ELSE Grow(g[n - 1])
  <2>1. CASE n # 0
    <3>1. n - 1 \in Nat
      BY <2>1
    <3>2. g[n] = F[g[n - 1]]
      <4> HIDE DEF F
      <4> QED BY <1>3, <2>1
    <3>3. g[n - 1] \in C
      BY <3>1
    <3> HIDE DEF Grow
    <3> QED BY <2>1, <3>2, <3>3
  <2> HIDE DEF Grow
  <2> QED BY <1>3, <2>1
<1>5. Runs(g)
  <2> HIDE DEF Grow
  <2> QED BY <1>4
<1>6. W = CHOOSE h : Runs(h)
  BY DEF Within
<1>7. Runs(W)
  <2> HIDE DEF Runs, W
  <2> QED BY <1>5, <1>6
<1> HIDE DEF W
<1>8. W[0] = {f}
  BY <1>7
<1>9. ASSUME NEW n \in Nat
      PROVE  W[n + 1] = Grow(W[n])
  <2>1. n + 1 \in Nat /\ n + 1 # 0 /\ (n + 1) - 1 = n
    OBVIOUS
  <2> HIDE DEF Grow
  <2> QED BY <1>7, <2>1
<1>10. \A n \in Nat : W[n] \in C
  <2> DEFINE S == {n \in Nat : W[n] \in C}
  <2>1. 0 \in S
    BY <1>2, <1>8
  <2>2. \A n \in Nat : n \in S => n + 1 \in S
    <3> HIDE DEF Grow
    <3> QED BY <1>1, <1>9
  <2> HIDE DEF S
  <2>3. Nat \subseteq S
    BY <2>1, <2>2, SetInduction
  <2> QED BY <2>3 DEF S
<1>11. W \in [Nat -> C]
  <2>1. W = [n \in Nat |-> IF n = 0 THEN {f} ELSE Grow(W[n - 1])]
    BY <1>7
  <2> HIDE DEF Grow
  <2> QED BY <1>10, <2>1
<1> QED BY <1>8, <1>9, <1>11 DEF W, C, Into

LEMMA WithinGrows ==
    ASSUME NEW V, NEW f \in V, NEW E, \A e \in E : e[1] \in V, NEW k \in Nat
    PROVE  \A n \in Nat : k <= n => Within(f, E)[k] \subseteq Within(f, E)[n]
<1> DEFINE W == Within(f, E)
           S == {n \in Nat : k <= n => W[k] \subseteq W[n]}
<1>1. \A n \in Nat : W[n + 1] = W[n] \cup Into(E, W[n])
  BY WithinRun
<1> HIDE DEF W
<1>2. 0 \in S
  <2>1. k <= 0 => k = 0
    OBVIOUS
  <2> QED BY <2>1
<1>3. ASSUME NEW n \in Nat, n \in S
      PROVE  n + 1 \in S
  <2>1. k <= n + 1 => k <= n \/ k = n + 1
    OBVIOUS
  <2>2. W[n] \subseteq W[n + 1]
    BY <1>1
  <2> QED BY <1>3, <2>1, <2>2
<1> HIDE DEF S
<1>4. Nat \subseteq S
  BY <1>2, <1>3, SetInduction
<1> QED BY <1>4 DEF S, W
-----------------------------------------------------------------------------
(***************************************************************************)
(* The breadth-first search impacts and relationships --recursive have in  *)
(* common.  known are the features met, each with the depth it was met at, *)
(* queue those of them still to be looked at.  Of a feature taken from the *)
(* queue the features leading to it are met, unless it is too deep.        *)
(***************************************************************************)
Known == [id : Live, depth : Nat]

Start(f) == [id |-> f, depth |-> 0]

Ids(known) == {r.id : r \in known}

\* What is met at x.
News(E, maxDepth, x, known) ==
    IF TooDeep(x.depth, maxDepth) THEN {}
    ELSE {[id |-> g, depth |-> x.depth + 1] : g \in Into(E, {x.id}) \ Ids(known)}

\* A feature is met once, and next to one met a level higher.
MetOnce(f, maxDepth, known) ==
    /\ known \in SUBSET Known /\ IsFiniteSet(known) /\ Start(f) \in known
    /\ \A r, s \in known : r.id = s.id => r = s
    /\ \A r \in known : r.depth # 0 => \E s \in known : s.depth = r.depth - 1
    /\ maxDepth > 0 => \A r \in known : r.depth <= maxDepth

\* The depth is the distance.
AtDistance(E, f, known) ==
    \A r \in known : /\ r.id \in Within(f, E)[r.depth]
                     /\ \A k \in Nat : k < r.depth => r.id \notin Within(f, E)[k]

\* The queue goes by depth, and whatever left it was no deeper than what waits.
InTurn(queue, known) ==
    /\ queue \in Seq(Known) /\ Nodes(queue) \subseteq known /\ Straight(queue)
    /\ \A i, j \in 1..Len(queue) : i <= j => /\ queue[i].depth <= queue[j].depth
                                             /\ queue[j].depth <= queue[i].depth + 1
    /\ \A r \in known : r \in Nodes(queue) \/ \A i \in 1..Len(queue) : r.depth <= queue[i].depth

\* All that leads to r is met, at most a level below r.
Explored(E, known, r) ==
    \A e \in E : e[2] = r.id => \E s \in known : s.id = e[1] /\ s.depth <= r.depth + 1

Done(maxDepth, queue, known) ==
    {r \in known : r \notin Nodes(queue) /\ ~TooDeep(r.depth, maxDepth)}

BreadthFirst(E, f, maxDepth, queue, known) ==
    /\ MetOnce(f, maxDepth, known)
    /\ AtDistance(E, f, known)
    /\ InTurn(queue, known)
    /\ \A r \in Done(maxDepth, queue, known) : Explored(E, known, r)

LEMMA BreadthFirstBegin ==
    ASSUME NEW E \in SUBSET (Live \X Targets), NEW f \in Live, NEW maxDepth \in Nat
    PROVE  BreadthFirst(E, f, maxDepth, <<Start(f)>>, {Start(f)})
<1> DEFINE s == Start(f)
<1>1. s \in Known /\ s.id = f /\ s.depth = 0
  BY DEF Start, Known
<1>2. Within(f, E)[0] = {f}
  <2>1. \A e \in E : e[1] \in Live
    OBVIOUS
  <2> QED BY <2>1, WithinRun
<1> HIDE DEF s
<1>3. <<s>> \in Seq(Known) /\ Len(<<s>>) = 1 /\ <<s>>[1] = s
  BY <1>1
<1>4. Nodes(<<s>>) = {s}
  BY <1>3 DEF Nodes
<1>5. MetOnce(f, maxDepth, {s})
  <2>1. IsFiniteSet({s})
    BY FS_Singleton
  <2> QED BY <1>1, <2>1 DEF MetOnce, s
<1>6. AtDistance(E, f, {s})
  BY <1>1, <1>2 DEF AtDistance
<1>7. InTurn(<<s>>, {s})
  BY <1>1, <1>3, <1>4 DEF InTurn, Straight
<1>8. Done(maxDepth, <<s>>, {s}) = {}
  BY <1>4 DEF Done
<1> QED BY <1>5, <1>6, <1>7, <1>8 DEF BreadthFirst, s

LEMMA NewsFields ==
    ASSUME NEW E \in SUBSET (Live \X Targets), IsFiniteSet(Live), NEW maxDepth \in Nat,
           NEW known \in SUBSET Known, NEW x \in known
    PROVE  LET news == News(E, maxDepth, x, known)
           IN  /\ news \in SUBSET Known /\ IsFiniteSet(news)
               /\ \A s \in news : /\ s.depth = x.depth + 1 /\ s.id \notin Ids(known)
                                  /\ <<s.id, x.id>> \in E /\ ~TooDeep(x.depth, maxDepth)
                                  /\ s \notin known
               /\ \A r, s \in news : r.id = s.id => r = s
               /\ ~TooDeep(x.depth, maxDepth) =>
                      \A e \in E : e[2] = x.id => \E s \in known \cup news : s.id = e[1]
<1> DEFINE news == News(E, maxDepth, x, known)
           I == Into(E, {x.id}) \ Ids(known)
           h == [g \in I |-> [id |-> g, depth |-> x.depth + 1]]
<1>1. x.id \in Live /\ x.depth \in Nat
  BY DEF Known
<1>2. \A g \in I : g \in Live /\ g \notin Ids(known) /\ <<g, x.id>> \in E
  BY DEF Into
<1>3. IsFiniteSet(I)
  BY <1>2, FS_Subset
<1>4. CASE TooDeep(x.depth, maxDepth)
  BY <1>4, FS_EmptySet DEF News
<1>5. CASE ~TooDeep(x.depth, maxDepth)
  <2>1. news = {[id |-> g, depth |-> x.depth + 1] : g \in I}
    BY <1>5 DEF News
  <2> HIDE DEF news, I
  <2>2. h \in Surjection(I, news)
    <3>1. h \in [I -> news] /\ \A s \in news : \E g \in I : h[g] = s
      BY <2>1
    <3> HIDE DEF h
    <3> QED BY <3>1, Fun_IsSurj
  <2>3. IsFiniteSet(news)
    <3> HIDE DEF h
    <3> QED BY <1>3, <2>2, FS_Surjection
  <2>4. news \in SUBSET Known
    <3>1. \A g \in Live : [id |-> g, depth |-> x.depth + 1] \in Known
      BY <1>1 DEF Known
    <3> HIDE DEF Known
    <3> QED BY <1>2, <2>1, <3>1
  <2>5. \A s \in news : /\ s.depth = x.depth + 1 /\ s.id \notin Ids(known)
                        /\ <<s.id, x.id>> \in E
    BY <1>2, <2>1
  <2>6. \A s \in news : s \notin known
    BY <2>5 DEF Ids
  <2>7. \A r, s \in news : r.id = s.id => r = s
    BY <2>1
  <2>8. ASSUME NEW e \in E, e[2] = x.id
        PROVE  \E s \in known \cup news : s.id = e[1]
    <3>1. CASE e[1] \in Ids(known)
      BY <3>1 DEF Ids
    <3>2. CASE e[1] \notin Ids(known)
      <4>1. e[1] \in I
        BY <2>8, <3>2 DEF I, Into
      <4>2. [id |-> e[1], depth |-> x.depth + 1] \in news
        BY <2>1, <4>1
      <4> QED BY <4>2
    <3> QED BY <3>1, <3>2
  <2> QED BY <1>5, <2>3, <2>4, <2>5, <2>6, <2>7, <2>8 DEF news
<1> QED BY <1>4, <1>5

\* Once everything above a level is explored, all within it are met.
LEMMA MetWithin ==
    ASSUME NEW E \in SUBSET (Live \X Targets), NEW f \in Live, NEW maxDepth \in Nat,
           NEW known, MetOnce(f, maxDepth, known), NEW d \in Nat,
           \A r \in known : r.depth < d => Explored(E, known, r)
    PROVE  \A k \in Nat : k <= d => \A g \in Within(f, E)[k] : \E s \in known : s.id = g /\ s.depth <= k
<1> DEFINE W == Within(f, E)
           S == {k \in Nat : k <= d => \A g \in W[k] : \E s \in known : s.id = g /\ s.depth <= k}
<1>1. W[0] = {f} /\ \A n \in Nat : W[n + 1] = W[n] \cup Into(E, W[n])
  <2>1. \A e \in E : e[1] \in Live
    OBVIOUS
  <2> QED BY <2>1, WithinRun
<1> HIDE DEF W
<1>2. \A r \in known : r.depth \in Nat
  BY DEF MetOnce, Known
<1>3. 0 \in S
  <2>1. Start(f) \in known /\ Start(f).id = f /\ Start(f).depth = 0
    BY DEF MetOnce, Start
  <2> QED BY <1>1, <2>1
<1>4. ASSUME NEW k \in Nat, k \in S
      PROVE  k + 1 \in S
  <2> SUFFICES ASSUME k + 1 <= d, NEW g \in W[k + 1]
               PROVE  \E s \in known : s.id = g /\ s.depth <= k + 1
    OBVIOUS
  <2>1. k <= d /\ \A h \in W[k] : \E s \in known : s.id = h /\ s.depth <= k
    BY <1>4
  <2>2. CASE g \in W[k]
    <3>1. PICK s \in known : s.id = g /\ s.depth <= k
      BY <2>1, <2>2
    <3> QED BY <1>2, <3>1
  <2>3. CASE g \notin W[k]
    <3>1. PICK e \in E : e[2] \in W[k] /\ e[1] = g
      BY <1>1, <2>3 DEF Into
    <3>2. PICK r \in known : r.id = e[2] /\ r.depth <= k
      BY <2>1, <3>1
    <3>3. r.depth < d
      BY <1>2, <2>1, <3>2
    <3>4. PICK s \in known : s.id = g /\ s.depth <= r.depth + 1
      BY <3>1, <3>2, <3>3 DEF Explored
    <3> QED BY <1>2, <3>2, <3>4
  <2> QED BY <2>2, <2>3
<1> HIDE DEF S
<1>5. Nat \subseteq S
  BY <1>3, <1>4, SetInduction
<1> QED BY <1>5 DEF S, W

\* What the order of the queue says of its first feature.
LEMMA FirstInTurn ==
    ASSUME NEW known \in SUBSET Known, NEW queue, InTurn(queue, known), queue # <<>>
    PROVE  LET x == Head(queue)
               t == Tail(queue)
           IN  /\ x \in known /\ x.depth \in Nat
               /\ t \in Seq(Known) /\ Len(queue) \in Nat /\ Len(t) = Len(queue) - 1 /\ Straight(t)
               /\ Nodes(queue) = Nodes(t) \cup {x} /\ x \notin Nodes(t)
               /\ \A r \in Nodes(queue) : x.depth <= r.depth /\ r.depth <= x.depth + 1
               /\ \A r \in known : r.depth \in Nat /\ (r \in Nodes(queue) \/ r.depth <= x.depth)
               /\ \A i, j \in 1..Len(t) : i <= j => /\ t[i].depth <= t[j].depth
                                                    /\ t[j].depth <= t[i].depth + 1
<1> DEFINE x == Head(queue)
           t == Tail(queue)
<1>1. queue \in Seq(Known)
  BY DEF InTurn
<1>2. /\ x \in Known /\ x = queue[1] /\ t \in Seq(Known)
      /\ Len(queue) \in Nat /\ Len(queue) >= 1 /\ Len(t) = Len(queue) - 1
      /\ \A i \in 1..Len(t) : t[i] = queue[i + 1]
      /\ Nodes(queue) = Nodes(t) \cup {x}
  BY <1>1, Pop
<1> HIDE DEF x, t
<1>3. 1 \in 1..Len(queue)
  BY <1>2
<1>4. \A i \in 1..Len(t) : i + 1 \in 1..Len(queue) /\ i + 1 # 1
  BY <1>2
<1>5. Straight(t)
  <2> SUFFICES ASSUME NEW i \in 1..Len(t), NEW j \in 1..Len(t), t[i] = t[j]
               PROVE  i = j
    BY DEF Straight
  <2>1. i + 1 = j + 1
    BY <1>2, <1>4 DEF Straight, InTurn
  <2> QED BY <1>2, <2>1
<1>6. x \notin Nodes(t)
  <2> SUFFICES ASSUME NEW i \in 1..Len(t), t[i] = x
               PROVE  FALSE
    BY DEF Nodes
  <2> QED BY <1>2, <1>3, <1>4 DEF Straight, InTurn
<1>7. x \in known
  BY <1>2 DEF InTurn
<1>8. \A r \in known : r.depth \in Nat
  BY DEF Known
<1>9. ASSUME NEW r \in Nodes(queue)
      PROVE  x.depth <= r.depth /\ r.depth <= x.depth + 1
  <2>1. PICK i \in 1..Len(queue) : queue[i] = r
    BY DEF Nodes
  <2>2. 1 <= i
    BY <1>2
  <2> QED BY <1>2, <1>3, <2>1, <2>2 DEF InTurn
<1>10. \A r \in known : r \in Nodes(queue) \/ r.depth <= x.depth
  BY <1>2, <1>3 DEF InTurn
<1>11. ASSUME NEW i \in 1..Len(t), NEW j \in 1..Len(t), i <= j
       PROVE  t[i].depth <= t[j].depth /\ t[j].depth <= t[i].depth + 1
  <2>1. i + 1 <= j + 1
    BY <1>2, <1>11
  <2> QED BY <1>2, <1>4, <2>1 DEF InTurn
<1> QED BY <1>2, <1>5, <1>6, <1>7, <1>8, <1>9, <1>10, <1>11 DEF x, t

LEMMA MetOnceStep ==
    ASSUME NEW E \in SUBSET (Live \X Targets), IsFiniteSet(Live), NEW f \in Live,
           NEW maxDepth \in Nat, NEW known, MetOnce(f, maxDepth, known), NEW x \in known
    PROVE  LET news == News(E, maxDepth, x, known)
           IN  /\ MetOnce(f, maxDepth, known \cup news)
               /\ Cardinality(known) \in Nat /\ Cardinality(news) \in Nat
               /\ Cardinality(known \cup news) = Cardinality(known) + Cardinality(news)
<1> DEFINE news == News(E, maxDepth, x, known)
<1>1. known \in SUBSET Known /\ IsFiniteSet(known) /\ x.depth \in Nat
  BY DEF MetOnce, Known
<1>2. /\ news \in SUBSET Known /\ IsFiniteSet(news)
      /\ \A s \in news : /\ s.depth = x.depth + 1 /\ s.id \notin Ids(known)
                         /\ <<s.id, x.id>> \in E /\ ~TooDeep(x.depth, maxDepth)
                         /\ s \notin known
      /\ \A r, s \in news : r.id = s.id => r = s
      /\ ~TooDeep(x.depth, maxDepth) =>
             \A e \in E : e[2] = x.id => \E s \in known \cup news : s.id = e[1]
  BY <1>1, NewsFields
<1> HIDE DEF news
<1>3. known \cup news \in SUBSET Known /\ IsFiniteSet(known \cup news) /\ Start(f) \in known \cup news
  BY <1>1, <1>2, FS_Union DEF MetOnce
<1>4. \A r, s \in known \cup news : r.id = s.id => r = s
  <2>1. \A r \in known : r.id \in Ids(known)
    BY DEF Ids
  <2> QED BY <1>2, <2>1 DEF MetOnce
<1>10. \A s \in news : s.depth = x.depth + 1 /\ ~TooDeep(x.depth, maxDepth)
  BY <1>2
<1>5. \A r \in known \cup news : r.depth # 0 => \E s \in known \cup news : s.depth = r.depth - 1
  <2>1. \A r \in news : x.depth = r.depth - 1
    BY <1>1, <1>10
  <2> QED BY <2>1 DEF MetOnce
<1>6. maxDepth > 0 => \A r \in known \cup news : r.depth <= maxDepth
  <2>1. maxDepth > 0 => \A r \in news : r.depth <= maxDepth
    BY <1>1, <1>10 DEF TooDeep
  <2> QED BY <2>1 DEF MetOnce
<1>7. known \cap news = {}
  BY <1>2
<1>8. /\ Cardinality(known) \in Nat /\ Cardinality(news) \in Nat
      /\ Cardinality(known \cup news) = Cardinality(known) + Cardinality(news) - Cardinality({})
  BY <1>1, <1>2, <1>7, FS_CardinalityType, FS_Union
<1>9. Cardinality(known \cup news) = Cardinality(known) + Cardinality(news)
  BY <1>8, FS_EmptySet
<1> QED BY <1>3, <1>4, <1>5, <1>6, <1>8, <1>9 DEF MetOnce, news

LEMMA InTurnStep ==
    ASSUME NEW E \in SUBSET (Live \X Targets), IsFiniteSet(Live), NEW maxDepth \in Nat,
           NEW known \in SUBSET Known, NEW queue, InTurn(queue, known), queue # <<>>
    PROVE  LET news == News(E, maxDepth, Head(queue), known)
               rest == Tail(queue) \o InOrder(news)
           IN  /\ InTurn(rest, known \cup news)
               /\ Nodes(rest) = (Nodes(queue) \ {Head(queue)}) \cup news
               /\ Len(queue) \in Nat /\ Len(rest) \in Nat /\ Cardinality(news) \in Nat
               /\ Len(rest) = Len(queue) - 1 + Cardinality(news)
<1> DEFINE x == Head(queue)
           t == Tail(queue)
           news == News(E, maxDepth, x, known)
           o == InOrder(news)
           rest == t \o o
<1>1. /\ x \in known /\ x.depth \in Nat
      /\ t \in Seq(Known) /\ Len(queue) \in Nat /\ Len(t) = Len(queue) - 1 /\ Straight(t)
      /\ Nodes(queue) = Nodes(t) \cup {x} /\ x \notin Nodes(t)
      /\ \A r \in Nodes(queue) : x.depth <= r.depth /\ r.depth <= x.depth + 1
      /\ \A r \in known : r.depth \in Nat /\ (r \in Nodes(queue) \/ r.depth <= x.depth)
      /\ \A i, j \in 1..Len(t) : i <= j => /\ t[i].depth <= t[j].depth
                                           /\ t[j].depth <= t[i].depth + 1
  BY FirstInTurn
<1>2. /\ news \in SUBSET Known /\ IsFiniteSet(news)
      /\ \A s \in news : /\ s.depth = x.depth + 1 /\ s.id \notin Ids(known)
                         /\ <<s.id, x.id>> \in E /\ ~TooDeep(x.depth, maxDepth)
                         /\ s \notin known
  <2> HIDE DEF x
  <2> QED BY <1>1, NewsFields
<1> HIDE DEF x, t, news
<1>3. /\ o \in Seq(news) /\ Cardinality(news) \in Nat
      /\ Len(o) = Cardinality(news) /\ Nodes(o) = news /\ Straight(o)
  BY <1>2, InOrderProperties
<1>4. o \in Seq(Known)
  BY <1>2, <1>3
<1> HIDE DEF o
<1>5. /\ rest \in Seq(Known) /\ Len(t) \in Nat /\ Len(o) \in Nat
      /\ Len(rest) = Len(t) + Len(o)
      /\ \A i \in 1..Len(t) : rest[i] = t[i]
      /\ Nodes(rest) = Nodes(t) \cup Nodes(o)
      /\ \A i \in 1..Len(rest) : i \in 1..Len(t) \/ (i - Len(t) \in 1..Len(o) /\ rest[i] = o[i - Len(t)])
  <2>1. t \in Seq(Known)
    BY <1>1
  <2> QED BY <1>4, <2>1, Joined
<1>6. Straight(rest)
  <2>1. \A y \in Nodes(t) : y \notin Nodes(o)
    BY <1>1, <1>2, <1>3 DEF InTurn
  <2> QED BY <1>1, <1>3, <1>4, <2>1, JoinedStraight
<1> HIDE DEF rest
<1>7. Nodes(rest) = (Nodes(queue) \ {x}) \cup news /\ Nodes(rest) \subseteq known \cup news
  BY <1>1, <1>3, <1>5 DEF InTurn
<1>8. \A i \in 1..Len(rest) : i \notin 1..Len(t) => rest[i].depth = x.depth + 1
  <2> SUFFICES ASSUME NEW i \in 1..Len(rest), i \notin 1..Len(t)
               PROVE  rest[i].depth = x.depth + 1
    OBVIOUS
  <2>1. rest[i] \in Nodes(o)
    BY <1>5 DEF Nodes
  <2> QED BY <1>2, <1>3, <2>1
<1>9. \A i \in 1..Len(t) : /\ x.depth <= t[i].depth /\ t[i].depth <= x.depth + 1
                           /\ t[i].depth \in Nat
  <2> TAKE i \in 1..Len(t)
  <2>1. t[i] \in Nodes(queue)
    BY <1>1 DEF Nodes
  <2>2. t[i] \in known
    BY <2>1 DEF InTurn
  <2> QED BY <1>1, <2>1, <2>2
<1>10. ASSUME NEW i \in 1..Len(rest), NEW j \in 1..Len(rest), i <= j
       PROVE  rest[i].depth <= rest[j].depth /\ rest[j].depth <= rest[i].depth + 1
  <2>1. CASE j \in 1..Len(t)
    <3>1. i \in 1..Len(t)
      BY <1>5, <1>10, <2>1
    <3> QED BY <1>1, <1>5, <1>10, <2>1, <3>1
  <2>2. CASE i \in 1..Len(t) /\ j \notin 1..Len(t)
    <3>1. rest[i] = t[i] /\ rest[j].depth = x.depth + 1
      BY <1>5, <1>8, <2>2
    <3>2. x.depth <= t[i].depth /\ t[i].depth <= x.depth + 1 /\ t[i].depth \in Nat
      BY <1>9, <2>2
    <3> QED BY <1>1, <3>1, <3>2
  <2>3. CASE i \notin 1..Len(t) /\ j \notin 1..Len(t)
    BY <1>1, <1>8, <2>3
  <2> QED BY <2>1, <2>2, <2>3
<1>11. ASSUME NEW r \in known \cup news, r \notin Nodes(rest), NEW i \in 1..Len(rest)
       PROVE  r.depth <= rest[i].depth
  <2>1. r \in known /\ r.depth \in Nat /\ r.depth <= x.depth
    BY <1>1, <1>7, <1>11
  <2>2. x.depth <= rest[i].depth /\ rest[i].depth \in Nat
    <3>1. CASE i \in 1..Len(t)
      BY <1>5, <1>9, <3>1
    <3>2. CASE i \notin 1..Len(t)
      BY <1>1, <1>8, <3>2
    <3> QED BY <3>1, <3>2
  <2> QED BY <1>1, <2>1, <2>2
<1>12. InTurn(rest, known \cup news)
  BY <1>5, <1>6, <1>7, <1>10, <1>11 DEF InTurn
<1> QED BY <1>1, <1>3, <1>5, <1>7, <1>12 DEF x, t, news, o, rest

\* One turn of the search: the features met are one level deeper than the one
\* looked at, since everything nearer was met before.
LEMMA BreadthFirstStep ==
    ASSUME NEW E \in SUBSET (Live \X Targets), IsFiniteSet(Live), NEW f \in Live,
           NEW maxDepth \in Nat, NEW queue, NEW known,
           BreadthFirst(E, f, maxDepth, queue, known), queue # <<>>
    PROVE  LET news == News(E, maxDepth, Head(queue), known)
           IN  BreadthFirst(E, f, maxDepth, Tail(queue) \o InOrder(news), known \cup news)
<1> DEFINE x == Head(queue)
           news == News(E, maxDepth, x, known)
           rest == Tail(queue) \o InOrder(news)
           W == Within(f, E)
<1>1. MetOnce(f, maxDepth, known) /\ AtDistance(E, f, known) /\ InTurn(queue, known)
  BY DEF BreadthFirst
<1>2. known \in SUBSET Known
  BY <1>1 DEF MetOnce
<1>3. /\ x \in known /\ x.depth \in Nat /\ Nodes(queue) = Nodes(Tail(queue)) \cup {x}
      /\ \A r \in Nodes(queue) : x.depth <= r.depth /\ r.depth <= x.depth + 1
      /\ \A r \in known : r.depth \in Nat /\ (r \in Nodes(queue) \/ r.depth <= x.depth)
  BY <1>1, <1>2, FirstInTurn
<1>4. /\ InTurn(rest, known \cup news)
      /\ Nodes(rest) = (Nodes(queue) \ {x}) \cup news
      /\ Len(queue) \in Nat /\ Len(rest) \in Nat /\ Cardinality(news) \in Nat
      /\ Len(rest) = Len(queue) - 1 + Cardinality(news)
  BY <1>1, <1>2, InTurnStep
<1> HIDE DEF x, rest
<1>5. /\ news \in SUBSET Known /\ IsFiniteSet(news)
      /\ \A s \in news : /\ s.depth = x.depth + 1 /\ s.id \notin Ids(known)
                         /\ <<s.id, x.id>> \in E /\ ~TooDeep(x.depth, maxDepth)
                         /\ s \notin known
      /\ \A r, s \in news : r.id = s.id => r = s
      /\ ~TooDeep(x.depth, maxDepth) =>
             \A e \in E : e[2] = x.id => \E s \in known \cup news : s.id = e[1]
  BY <1>2, <1>3, NewsFields, SMTT(20)
<1>6. MetOnce(f, maxDepth, known \cup news)
  BY <1>1, <1>3, MetOnceStep
<1> HIDE DEF news
<1>7. \A s \in known \cup news : s.depth \in Nat /\ s.depth <= x.depth + 1
  <2>1. \A s \in known : s.depth \in Nat /\ s.depth <= x.depth + 1
    BY <1>3
  <2>2. \A s \in news : s.depth = x.depth + 1
    BY <1>5
  <2> QED BY <1>3, <2>1, <2>2
<1>8. ASSUME NEW s \in news
      PROVE  /\ s.id \in W[s.depth]
             /\ \A k \in Nat : k < s.depth => s.id \notin W[k]
  <2>1. /\ s.depth = x.depth + 1 /\ s.id \notin Ids(known) /\ <<s.id, x.id>> \in E
        /\ ~TooDeep(x.depth, maxDepth)
    BY <1>5
  <2>2. W[x.depth + 1] = W[x.depth] \cup Into(E, W[x.depth])
    <3>1. \A e \in E : e[1] \in Live
      OBVIOUS
    <3>2. W \in [Nat -> SUBSET Live] /\ \A n \in Nat : W[n + 1] = W[n] \cup Into(E, W[n])
      BY <3>1, WithinRun
    <3> HIDE DEF W
    <3> QED BY <1>3, <3>2
  <2>3. x.id \in W[x.depth]
    BY <1>1, <1>3 DEF AtDistance
  <2> HIDE DEF W
  <2>4. s.id \in W[s.depth]
    <3>1. s.id \in Into(E, W[x.depth])
      BY <2>1, <2>3 DEF Into
    <3> QED BY <2>1, <2>2, <3>1
  <2>5. \A r \in known : r.depth < x.depth => Explored(E, known, r)
    <3> SUFFICES ASSUME NEW r \in known, r.depth < x.depth
                 PROVE  Explored(E, known, r)
      OBVIOUS
    <3>1. r \notin Nodes(queue)
      BY <1>3
    <3>2. ~TooDeep(r.depth, maxDepth)
      BY <1>3, <2>1 DEF TooDeep
    <3> QED BY <3>1, <3>2 DEF BreadthFirst, Done
  <2>6. \A k \in Nat : k <= x.depth =>
            \A g \in W[k] : \E r \in known : r.id = g /\ r.depth <= k
    BY <1>1, <1>3, <2>5, MetWithin DEF W
  <2>7. ASSUME NEW k \in Nat, k < s.depth
        PROVE  s.id \notin W[k]
    <3>1. k <= x.depth
      BY <1>3, <2>1, <2>7
    <3> QED BY <2>1, <2>6, <3>1 DEF Ids
  <2> QED BY <2>4, <2>7
<1>9. AtDistance(E, f, known \cup news)
  BY <1>1, <1>8 DEF AtDistance
<1>10. ASSUME NEW r \in Done(maxDepth, rest, known \cup news)
       PROVE  Explored(E, known \cup news, r)
  <2>1. r \in known /\ ~TooDeep(r.depth, maxDepth) /\ (r = x \/ r \notin Nodes(queue))
    BY <1>4 DEF Done
  <2>2. CASE r = x
    <3>1. \A e \in E : e[2] = r.id => \E s \in known \cup news : s.id = e[1]
      BY <1>5, <2>1, <2>2
    <3> QED BY <1>7, <2>2, <3>1 DEF Explored
  <2>3. CASE r \notin Nodes(queue)
    <3>1. Explored(E, known, r)
      BY <2>1, <2>3 DEF BreadthFirst, Done
    <3> QED BY <3>1 DEF Explored
  <2> QED BY <2>1, <2>2, <2>3
<1> QED BY <1>4, <1>6, <1>9, <1>10 DEF BreadthFirst, x, news, rest

\* A feature every level up to the deepest: no deeper than there are features.
LEMMA DepthBound ==
    ASSUME IsFiniteSet(Live), NEW f, NEW maxDepth, NEW known, MetOnce(f, maxDepth, known)
    PROVE  /\ Cardinality(Live) \in Nat /\ Cardinality(known) <= Cardinality(Live)
           /\ \A r \in known : r.depth \in Nat /\ r.depth + 1 <= Cardinality(Live)
<1>1. Cardinality(Live) \in Nat
  BY FS_CardinalityType
<1>2. \A r \in known : r.id \in Live /\ r.depth \in Nat
  BY DEF MetOnce, Known
<1>3. Cardinality(known) <= Cardinality(Live)
  <2> DEFINE h == [r \in known |-> r.id]
  <2>1. h \in [known -> Live] /\ \A r, s \in known : h[r] = h[s] => r = s
    BY <1>2 DEF MetOnce
  <2> HIDE DEF h
  <2>2. h \in Injection(known, Live)
    BY <2>1, Fun_IsInj
  <2> QED BY <2>2, FS_Injection
<1>4. ASSUME NEW r \in known
      PROVE  r.depth + 1 <= Cardinality(Live)
  <2> DEFINE n == r.depth
             S == {k \in Nat : k <= n => \E s \in known : s.depth = n - k}
  <2>1. n \in Nat
    BY <1>2
  <2>2. 0 \in S
    BY <2>1
  <2> HIDE DEF n
  <2>3. ASSUME NEW k \in Nat, k \in S
        PROVE  k + 1 \in S
    <3> SUFFICES ASSUME k + 1 <= n
                 PROVE  \E s \in known : s.depth = n - (k + 1)
      OBVIOUS
    <3>1. PICK s \in known : s.depth = n - k
      BY <2>1, <2>3
    <3>2. s.depth # 0 /\ s.depth - 1 = n - (k + 1)
      BY <2>1, <3>1
    <3> QED BY <3>2 DEF MetOnce
  <2> HIDE DEF S
  <2>4. Nat \subseteq S
    BY <2>2, <2>3, SetInduction
  <2>5. \A i \in 0..n : \E s \in known : s.depth = i
    <3> SUFFICES ASSUME NEW i \in 0..n
                 PROVE  \E s \in known : s.depth = i
      OBVIOUS
    <3>1. n - i \in Nat /\ n - i <= n /\ n - (n - i) = i
      BY <2>1
    <3> QED BY <2>4, <3>1 DEF S
  <2> DEFINE at(i) == CHOOSE s \in known : s.depth = i
             h == [i \in 0..n |-> at(i).id]
  <2>6. \A i \in 0..n : at(i) \in known /\ at(i).depth = i
    BY <2>5
  <2> HIDE DEF at
  <2>7. h \in [0..n -> Live]
    BY <1>2, <2>6
  <2>8. \A i, j \in 0..n : h[i] = h[j] => i = j
    <3> SUFFICES ASSUME NEW i \in 0..n, NEW j \in 0..n, at(i).id = at(j).id
                 PROVE  i = j
      OBVIOUS
    <3>1. at(i) = at(j)
      BY <2>6 DEF MetOnce
    <3> QED BY <2>6, <3>1
  <2> HIDE DEF h
  <2>9. h \in Injection(0..n, Live)
    BY <2>7, <2>8, Fun_IsInj
  <2>10. Cardinality(0..n) <= Cardinality(Live)
    BY <2>9, FS_Injection
  <2>11. Cardinality(0..n) = n + 1
    <3>1. 0 \in Int /\ n \in Int
      BY <2>1
    <3>2. Cardinality(0..n) = IF 0 > n THEN 0 ELSE n - 0 + 1
      BY <3>1, FS_Interval
    <3> QED BY <2>1, <3>2
  <2> QED BY <2>10, <2>11 DEF n
<1> QED BY <1>1, <1>2, <1>3, <1>4

\* As far as the search looks, and what it is to find there.
Far(maxDepth) == IF maxDepth = 0 THEN Cardinality(Live) ELSE maxDepth

Rings(W, far) == UNION {{[id |-> g, depth |-> n] : g \in W[n] \ W[n - 1]} : n \in 1..far}

Found(E, f, maxDepth, known) ==
    /\ known \ {Start(f)} = Rings(Within(f, E), Far(maxDepth))
    /\ Ids(Done(maxDepth, <<>>, known)) = Within(f, E)[Far(maxDepth) - 1]

\* When the queue is empty the search has met what leads to f, as deep as it was
\* asked to look, at its distance; and looked at all but the deepest.
LEMMA BreadthFirstEnds ==
    ASSUME NEW E \in SUBSET (Live \X Targets), IsFiniteSet(Live), NEW f \in Live,
           NEW maxDepth \in Nat, NEW known, BreadthFirst(E, f, maxDepth, <<>>, known)
    PROVE  Found(E, f, maxDepth, known)
<1> DEFINE far == Far(maxDepth)
           W == Within(f, E)
<1>1. MetOnce(f, maxDepth, known) /\ AtDistance(E, f, known)
  BY DEF BreadthFirst
<1>2. /\ known \in SUBSET Known /\ Start(f) \in known
      /\ Start(f).id = f /\ Start(f).depth = 0
      /\ \A r \in known : r = [id |-> r.id, depth |-> r.depth]
  BY <1>1 DEF MetOnce, Known, Start
<1>3. /\ Cardinality(Live) \in Nat
      /\ \A r \in known : r.depth \in Nat /\ r.depth + 1 <= Cardinality(Live)
  BY <1>1, DepthBound
<1>4. far \in Nat /\ far - 1 \in Nat
  BY <1>2, <1>3 DEF Far
<1>5. \A r \in known : ~TooDeep(r.depth, maxDepth) <=> r.depth <= far - 1
  BY <1>3 DEF TooDeep, Far
<1>6. \A r \in known : r.depth <= far
  BY <1>1, <1>3 DEF MetOnce, Far
<1> HIDE DEF far
<1>7. \A r \in known : ~TooDeep(r.depth, maxDepth) => Explored(E, known, r)
  BY DEF BreadthFirst, Done, Nodes
<1>8. \A k \in Nat : k <= far => \A g \in W[k] : \E s \in known : s.id = g /\ s.depth <= k
  <2>1. \A r \in known : r.depth < far => Explored(E, known, r)
    BY <1>3, <1>4, <1>5, <1>7
  <2> QED BY <1>1, <1>4, <2>1, MetWithin
<1>9. W[0] = {f} /\ \A k, n \in Nat : k <= n => W[k] \subseteq W[n]
  <2>1. \A e \in E : e[1] \in Live
    OBVIOUS
  <2> QED BY <2>1, WithinRun, WithinGrows
<1> HIDE DEF W
<1>10. \A r \in known : /\ r.id \in W[r.depth]
                        /\ \A k \in Nat : k < r.depth => r.id \notin W[k]
  BY <1>1 DEF AtDistance, W
<1> DEFINE Ring(n) == {[id |-> g, depth |-> n] : g \in W[n] \ W[n - 1]}
<1>11. ASSUME NEW r \in known, r # Start(f)
       PROVE  r.depth \in 1..far /\ r \in Ring(r.depth)
  <2>1. r.depth # 0
    <3> SUFFICES ASSUME r.depth = 0
                 PROVE  FALSE
      OBVIOUS
    <3>1. r.id = f
      BY <1>9, <1>10
    <3> QED BY <1>1, <1>2, <1>11, <3>1 DEF MetOnce
  <2>2. r.depth \in 1..far /\ r.depth - 1 \in Nat /\ r.depth - 1 < r.depth
    BY <1>3, <1>4, <1>6, <2>1
  <2>3. r.id \in W[r.depth] \ W[r.depth - 1]
    BY <1>10, <2>2
  <2> QED BY <1>2, <2>2, <2>3
<1>12. ASSUME NEW n \in 1..far, NEW r \in Ring(n)
       PROVE  r \in known /\ r # Start(f)
  <2>1. n \in Nat /\ n <= far /\ n # 0 /\ n - 1 \in Nat
    BY <1>4
  <2>2. PICK g \in W[n] \ W[n - 1] : r = [id |-> g, depth |-> n]
    OBVIOUS
  <2>3. PICK s \in known : s.id = g /\ s.depth <= n
    BY <1>8, <2>1, <2>2
  <2>4. s.depth = n
    <3> SUFFICES ASSUME s.depth # n
                 PROVE  FALSE
      OBVIOUS
    <3>1. s.depth \in Nat /\ s.depth <= n - 1
      BY <1>3, <2>1, <2>3
    <3>2. W[s.depth] \subseteq W[n - 1]
      BY <1>9, <2>1, <3>1
    <3> QED BY <1>10, <2>2, <2>3, <3>2
  <2>5. s = r
    BY <1>2, <2>2, <2>3, <2>4
  <2> QED BY <1>2, <2>1, <2>4, <2>5
<1>13. known \ {Start(f)} = Rings(W, far)
  <2>1. known \ {Start(f)} = UNION {Ring(n) : n \in 1..far}
    <3> HIDE DEF Ring
    <3> QED BY <1>11, <1>12
  <2> QED BY <2>1 DEF Rings
<1>14. Ids(Done(maxDepth, <<>>, known)) = W[far - 1]
  <2>1. Done(maxDepth, <<>>, known) = {r \in known : r.depth <= far - 1}
    BY <1>5 DEF Done, Nodes
  <2>2. \A r \in known : r.depth <= far - 1 => r.id \in W[far - 1]
    BY <1>3, <1>4, <1>9, <1>10
  <2>3. \A g \in W[far - 1] : \E r \in known : r.id = g /\ r.depth <= far - 1
    <3>1. far - 1 <= far
      BY <1>4
    <3> QED BY <1>4, <1>8, <3>1
  <2> QED BY <2>1, <2>2, <2>3 DEF Ids
<1> QED BY <1>13, <1>14 DEF far, W, Found
-----------------------------------------------------------------------------
(***************************************************************************)
(* impacts.                                                                *)
(***************************************************************************)
ImpactStates(E, f, maxDepth) ==
    {acc \in [queue : Seq(Known), reported : SUBSET Known] :
         BreadthFirst(E, f, maxDepth, acc.queue, acc.reported)}

\* The relationships impacts goes by are those of the edges.
GoesBy(ls, E) == \A id : {l.source : l \in {k \in ls : k.target = id}} = Into(E, {id})

LEMMA ImpactStepFields ==
    ASSUME NEW E \in SUBSET (Live \X Targets), NEW ls, GoesBy(ls, E), IsFiniteSet(Live),
           NEW f \in Live, NEW maxDepth \in Nat, NEW acc \in ImpactStates(E, f, maxDepth)
    PROVE  LET new == ImpactStep(ls, maxDepth, acc)
           IN  /\ new \in ImpactStates(E, f, maxDepth)
               /\ Len(acc.queue) \in Nat /\ Cardinality(acc.reported) \in Nat
               /\ Len(new.queue) \in Nat /\ Cardinality(new.reported) \in Nat
               /\ acc.queue = <<>> => new = acc
               /\ acc.queue # <<>> => Len(new.queue) + 1 - Cardinality(new.reported)
                                          = Len(acc.queue) - Cardinality(acc.reported)
<1> DEFINE new == ImpactStep(ls, maxDepth, acc)
           queue == acc.queue
           known == acc.reported
           news == News(E, maxDepth, Head(queue), known)
<1>1. /\ queue \in Seq(Known) /\ known \in SUBSET Known
      /\ BreadthFirst(E, f, maxDepth, queue, known)
  BY DEF ImpactStates
<1>2. MetOnce(f, maxDepth, known) /\ InTurn(queue, known)
  BY <1>1 DEF BreadthFirst
<1>3. Len(queue) \in Nat /\ Cardinality(known) \in Nat
  BY <1>1, <1>2, FS_CardinalityType DEF MetOnce
<1>4. CASE queue = <<>>
  BY <1>3, <1>4 DEF ImpactStep
<1>5. CASE queue # <<>>
  <2>1. Met(ls, maxDepth, Head(queue), known) = news
    <3>1. Dependants(ls, Head(queue).id, known) = Into(E, {Head(queue).id}) \ Ids(known)
      BY DEF Dependants, Ids, GoesBy
    <3> QED BY <3>1 DEF Met, News
  <2>2. new = [queue |-> Tail(queue) \o InOrder(news), reported |-> known \cup news]
    BY <1>5, <2>1 DEF ImpactStep
  <2> DEFINE rest == Tail(queue) \o InOrder(news)
  <2>3. BreadthFirst(E, f, maxDepth, rest, known \cup news)
    <3> HIDE DEF queue, known
    <3> QED BY <1>1, <1>5, BreadthFirstStep
  <2>4. Head(queue) \in known
    <3> HIDE DEF queue, known
    <3> QED BY <1>1, <1>2, <1>5, FirstInTurn
  <2>5. /\ Len(rest) \in Nat /\ Cardinality(news) \in Nat
        /\ Len(rest) = Len(queue) - 1 + Cardinality(news)
    <3> HIDE DEF queue, known
    <3> QED BY <1>1, <1>2, <1>5, InTurnStep
  <2>6. Cardinality(known \cup news) = Cardinality(known) + Cardinality(news)
    <3> DEFINE x == Head(queue)
    <3>1. x \in known
      BY <2>4
    <3>2. News(E, maxDepth, x, known) = news
      OBVIOUS
    <3> HIDE DEF queue, known, x, news
    <3>3. Cardinality(known \cup News(E, maxDepth, x, known))
              = Cardinality(known) + Cardinality(News(E, maxDepth, x, known))
      <4>1. LET met == News(E, maxDepth, x, known)
            IN  /\ MetOnce(f, maxDepth, known \cup met)
                /\ Cardinality(known) \in Nat /\ Cardinality(met) \in Nat
                /\ Cardinality(known \cup met) = Cardinality(known) + Cardinality(met)
        BY <1>2, <3>1, MetOnceStep
      <4> QED BY <4>1
    <3> QED BY <3>2, <3>3
  <2>7. rest \in Seq(Known) /\ known \cup news \in SUBSET Known
    BY <2>3 DEF BreadthFirst, InTurn, MetOnce
  <2> HIDE DEF news, rest
  <2>8. new.queue = rest /\ new.reported = known \cup news
    BY <2>2 DEF rest
  <2>9. new \in ImpactStates(E, f, maxDepth)
    <3>1. new \in [queue : Seq(Known), reported : SUBSET Known]
      BY <2>2, <2>7 DEF rest
    <3> HIDE DEF new
    <3> QED BY <2>3, <2>8, <3>1 DEF ImpactStates
  <2> HIDE DEF new
  <2>10. Len(new.queue) = Len(rest) /\ Cardinality(new.reported) = Cardinality(known) + Cardinality(news)
    BY <2>6, <2>8
  <2>11. /\ Len(new.queue) \in Nat /\ Cardinality(new.reported) \in Nat
         /\ Len(new.queue) + 1 - Cardinality(new.reported) = Len(queue) - Cardinality(known)
    BY <1>3, <2>5, <2>10
  <2> HIDE DEF queue, known
  <2> QED BY <1>3, <1>5, <2>9, <2>11 DEF new, queue, known
<1> QED BY <1>4, <1>5

ImpactBegin(f) == [queue |-> <<Start(f)>>, reported |-> {Start(f)}]

ImpactRuns(E, ls, f, maxDepth, run) ==
    /\ run[0] = ImpactBegin(f)
    /\ \A n \in Nat : run[n] \in ImpactStates(E, f, maxDepth)
    /\ \A n \in Nat : run[n + 1] = ImpactStep(ls, maxDepth, run[n])

LEMMA ImpactRun ==
    ASSUME NEW E \in SUBSET (Live \X Targets), NEW ls, GoesBy(ls, E), IsFiniteSet(Live),
           NEW f \in Live, NEW maxDepth \in Nat
    PROVE  ImpactRuns(E, ls, f, maxDepth, ImpactLoop(ls, maxDepth, Start(f)))
<1> DEFINE C == ImpactStates(E, f, maxDepth)
           F == [acc \in C |-> ImpactStep(ls, maxDepth, acc)]
           Runs(g) == g = [n \in Nat |-> IF n = 0 THEN ImpactBegin(f)
                                         ELSE ImpactStep(ls, maxDepth, g[n - 1])]
           run == ImpactLoop(ls, maxDepth, Start(f))
<1>1. \A acc \in C : ImpactStep(ls, maxDepth, acc) \in C
  BY ImpactStepFields
<1>2. ImpactBegin(f) \in C
  <2>1. BreadthFirst(E, f, maxDepth, <<Start(f)>>, {Start(f)})
    BY BreadthFirstBegin
  <2>2. Start(f) \in Known
    BY DEF Start, Known
  <2> QED BY <2>1, <2>2 DEF ImpactBegin, ImpactStates
<1>3. PICK g \in [Nat -> C] : g = [n \in Nat |-> IF n = 0 THEN ImpactBegin(f) ELSE F[g[n - 1]]]
  <2>1. F \in [C -> C]
    BY <1>1
  <2> HIDE DEF F, C
  <2> QED BY <1>2, <2>1, Iteration
<1> HIDE DEF C
<1>4. ASSUME NEW n \in Nat
      PROVE  g[n] = IF n = 0 THEN ImpactBegin(f) ELSE ImpactStep(ls, maxDepth, g[n - 1])
  <2>1. CASE n # 0
    <3>1. n - 1 \in Nat
      BY <2>1
    <3>2. g[n] = F[g[n - 1]]
      <4> HIDE DEF F
      <4> QED BY <1>3, <2>1
    <3>3. g[n - 1] \in C
      BY <3>1
    <3> QED BY <2>1, <3>2, <3>3
  <2> QED BY <1>3, <2>1
<1>5. Runs(g)
  BY <1>4
<1>6. run = CHOOSE h : Runs(h)
  BY DEF ImpactLoop, ImpactBegin
<1>7. Runs(run)
  BY <1>5, <1>6
<1> HIDE DEF run
<1>8. run[0] = ImpactBegin(f)
  BY <1>7
<1>9. ASSUME NEW n \in Nat
      PROVE  run[n + 1] = ImpactStep(ls, maxDepth, run[n])
  <2>1. n + 1 \in Nat /\ n + 1 # 0 /\ (n + 1) - 1 = n
    OBVIOUS
  <2> QED BY <1>7, <2>1
<1>10. \A n \in Nat : run[n] \in C
  <2> DEFINE S == {n \in Nat : run[n] \in C}
  <2>1. 0 \in S /\ \A n \in Nat : n \in S => n + 1 \in S
    BY <1>1, <1>2, <1>8, <1>9
  <2> HIDE DEF S
  <2>2. Nat \subseteq S
    BY <2>1, SetInduction
  <2> QED BY <2>2 DEF S
<1> QED BY <1>8, <1>9, <1>10 DEF run, C, ImpactRuns

\* Every feature met leaves the queue in a turn of its own: as many turns as
\* there are features are enough.
LEMMA ImpactEnds ==
    ASSUME NEW E \in SUBSET (Live \X Targets), NEW ls, GoesBy(ls, E), IsFiniteSet(Live),
           NEW f \in Live, NEW maxDepth \in Nat
    PROVE  BreadthFirst(E, f, maxDepth, <<>>,
                        ImpactLoop(ls, maxDepth, Start(f))[Cardinality(Live)].reported)
<1> DEFINE run == ImpactLoop(ls, maxDepth, Start(f))
           L == Cardinality(Live)
           S == {n \in Nat : \/ run[n].queue = <<>>
                             \/ n + Len(run[n].queue) = Cardinality(run[n].reported)}
<1>1. /\ run[0] = ImpactBegin(f)
      /\ \A n \in Nat : run[n] \in ImpactStates(E, f, maxDepth)
      /\ \A n \in Nat : run[n + 1] = ImpactStep(ls, maxDepth, run[n])
  <2>1. ImpactRuns(E, ls, f, maxDepth, run)
    BY ImpactRun
  <2> HIDE DEF run
  <2> QED BY <2>1 DEF ImpactRuns
<1>2. L \in Nat
  BY FS_CardinalityType
<1> HIDE DEF run, L
<1>3. 0 \in S
  <2>1. run[0].queue = <<Start(f)>> /\ run[0].reported = {Start(f)}
    BY <1>1 DEF ImpactBegin
  <2>2. Len(run[0].queue) = 1
    BY <2>1
  <2>3. Cardinality(run[0].reported) = 1
    <3>1. Cardinality({Start(f)}) = 1
      BY FS_Singleton
    <3> QED BY <2>1, <3>1, Zenon
  <2>4. 0 + Len(run[0].queue) = Cardinality(run[0].reported)
    BY <2>2, <2>3
  <2> QED BY <2>4
<1>4. ASSUME NEW n \in Nat, n \in S
      PROVE  n + 1 \in S
  <2> DEFINE acc == run[n]
             new == run[n + 1]
  <2>1. acc \in ImpactStates(E, f, maxDepth) /\ new = ImpactStep(ls, maxDepth, acc)
    BY <1>1
  <2>2. /\ Len(acc.queue) \in Nat /\ Cardinality(acc.reported) \in Nat
        /\ Len(new.queue) \in Nat /\ Cardinality(new.reported) \in Nat
        /\ acc.queue = <<>> => new = acc
        /\ acc.queue # <<>> => Len(new.queue) + 1 - Cardinality(new.reported)
                                   = Len(acc.queue) - Cardinality(acc.reported)
    <3> HIDE DEF acc, new
    <3> QED BY <2>1, ImpactStepFields
  <2>3. acc.queue = <<>> \/ n + Len(acc.queue) = Cardinality(acc.reported)
    BY <1>4
  <2>4. new.queue = <<>> \/ (n + 1) + Len(new.queue) = Cardinality(new.reported)
    <3> HIDE DEF acc, new
    <3>1. CASE acc.queue = <<>>
      BY <2>2, <3>1
    <3>2. CASE acc.queue # <<>>
      <4>1. n + Len(acc.queue) = Cardinality(acc.reported)
        BY <2>3, <3>2
      <4>2. Len(new.queue) + 1 - Cardinality(new.reported) = Len(acc.queue) - Cardinality(acc.reported)
        BY <2>2, <3>2
      <4> DEFINE a == Len(acc.queue)
                 b == Cardinality(acc.reported)
                 c == Len(new.queue)
                 d == Cardinality(new.reported)
      <4>3. a \in Nat /\ b \in Nat /\ c \in Nat /\ d \in Nat /\ n + a = b /\ c + 1 - d = a - b
        BY <2>2, <4>1, <4>2
      <4>4. (n + 1) + c = d
        <5> HIDE DEF a, b, c, d
        <5> QED BY <4>3
      <4> QED BY <4>4
    <3> QED BY <3>1, <3>2
  <2> HIDE DEF acc
  <2>5. n + 1 \in Nat
    OBVIOUS
  <2> QED BY <2>4, <2>5 DEF new
<1>5. L \in S
  <2> HIDE DEF S
  <2> QED BY <1>2, <1>3, <1>4, SetInduction
<1> DEFINE end == run[L]
<1>6. /\ end.queue \in Seq(Known)
      /\ BreadthFirst(E, f, maxDepth, end.queue, end.reported)
  BY <1>1, <1>2 DEF ImpactStates
<1>7. end.queue = <<>>
  <2> SUFFICES ASSUME L + Len(end.queue) = Cardinality(end.reported)
               PROVE  end.queue = <<>>
    BY <1>5
  <2> HIDE DEF end
  <2>1. Cardinality(end.reported) <= L
    <3>1. MetOnce(f, maxDepth, end.reported)
      BY <1>6 DEF BreadthFirst
    <3> QED BY <3>1, DepthBound DEF L
  <2>2. Len(end.queue) \in Nat
    BY <1>6
  <2>3. Len(end.queue) = 0
    BY <1>2, <2>1, <2>2
  <2> QED BY <1>6, <2>3
<1> QED BY <1>6, <1>7 DEF run, L

\* Between two commands, for every feature, every choice of categories and every
\* depth impacts is asked for.
OfCategories(categories) == Edges({t \in Types : Category[t] \in categories}, links)

LEMMA ImpactsOf ==
    ASSUME GraphInv, NEW f \in Live, NEW categories, NEW maxDepth \in Nat
    PROVE  Impacts(f, categories, maxDepth) = Rings(Within(f, OfCategories(categories)), Far(maxDepth))
<1> DEFINE E == OfCategories(categories)
           ls == Included(categories)
           reported == ImpactLoop(ls, maxDepth, Start(f))[Cardinality(Live)].reported
<1>1. E \in SUBSET (Live \X Targets) /\ IsFiniteSet(Live)
  BY EdgesOfLinks DEF GraphInv, Finite, OfCategories
<1>2. GoesBy(ls, E)
  <2>1. \A l \in links : l.type \in Types
    BY DEF GraphInv, RelInv, TypeOK, Link
  <2>2. E = {<<l.source, l.target>> : l \in ls}
    BY <2>1 DEF OfCategories, Edges, Included
  <2> HIDE DEF E, ls
  <2> SUFFICES ASSUME NEW id
               PROVE  {l.source : l \in {k \in ls : k.target = id}} = Into(E, {id})
    BY DEF GoesBy
  <2>3. \A l \in ls : l.target = id => l.source \in Into(E, {id})
    <3> SUFFICES ASSUME NEW l \in ls, l.target = id
                 PROVE  l.source \in Into(E, {id})
      OBVIOUS
    <3>1. <<l.source, id>> \in E
      BY <2>2
    <3> QED BY <3>1 DEF Into
  <2>4. \A e \in E : e[2] = id => \E l \in ls : l.target = id /\ l.source = e[1]
    BY <2>2
  <2> QED BY <2>3, <2>4 DEF Into
<1>3. Impacts(f, categories, maxDepth) = reported \ {Start(f)}
  BY DEF Impacts, Start
<1> HIDE DEF E, ls
<1>4. BreadthFirst(E, f, maxDepth, <<>>, reported)
  BY <1>1, <1>2, ImpactEnds
<1> HIDE DEF reported
<1>5. Found(E, f, maxDepth, reported)
  BY <1>1, <1>4, BreadthFirstEnds
<1> QED BY <1>3, <1>5 DEF E, Found

\* impacts reports every feature that leads to the one asked for over the
\* categories included, once and with its distance, whatever cycles the graph
\* has; with a depth it stops there.
THEOREM ImpactsByDistanceAlways == Spec => []ImpactsByDistance
<1>1. GraphInv => ImpactsByDistance
  <2> SUFFICES ASSUME GraphInv, NEW f \in Live, NEW maxDepth \in {0, 1}
               PROVE  LET categories == IF maxDepth = 0 THEN {Category[t] : t \in Types} ELSE Strict
                      IN  Impacts(f, categories, maxDepth)
                              = Rings(Within(f, OfCategories(categories)), Far(maxDepth))
    BY DEF ImpactsByDistance, Rings, OfCategories, Far
  <2>1. maxDepth \in Nat
    OBVIOUS
  <2> QED BY <2>1, ImpactsOf
<1> QED BY <1>1, GraphInvAlways, PTL
-----------------------------------------------------------------------------
(***************************************************************************)
(* relationships --recursive, outgoing or incoming.                        *)
(***************************************************************************)
ListStates == [queue : Seq(Known), visited : SUBSET Live, listed : Seq(Link)]

\* The edges the search goes by, from a feature to the one it is met from.
Ways(direction, types) ==
    IF direction = "outgoing"
    THEN {<<e[2], e[1]>> : e \in {d \in Edges(types, links) : d[2] \in Live}}
    ELSE Edges(types, links)

Sources(ls) == {l.source : l \in ls}

\* What is listed once the features done were looked at.
ListedOut(listed, types, done) ==
    /\ Straight(listed)
    /\ Nodes(listed) = {l \in links : l.type \in types /\ l.source \in done}

ListedIn(listed, types, f, done, met) ==
    /\ Sources(Nodes(listed)) = Into(Edges(types, links), done)
    /\ \A g \in met : g = f \/ g \in Sources(Nodes(listed))

Listed(direction, f, types, done, acc) ==
    IF direction = "outgoing" THEN ListedOut(acc.listed, types, done)
    ELSE ListedIn(acc.listed, types, f, done, acc.visited)

\* The relationships listed at a feature.
OutOf(id, types) == {l \in links : l.type \in types /\ l.source = id}

InTo(id, f, types, met) ==
    {l \in links : l.type \in types /\ l.target = id /\ (l.source \notin met \/ l.source = f)}

ListInv(direction, f, types, maxDepth, acc, known) ==
    /\ acc \in ListStates
    /\ BreadthFirst(Ways(direction, types), f, maxDepth, acc.queue, known)
    /\ acc.visited = Ids(known)
    /\ Listed(direction, f, types, Ids(Done(maxDepth, acc.queue, known)), acc)

LEMMA WaysType ==
    ASSUME GraphInv, NEW types, NEW direction
    PROVE  Ways(direction, types) \in SUBSET (Live \X Targets)
<1>1. Edges(types, links) \in SUBSET (Live \X Targets)
  BY EdgesOfLinks
<1>2. Live \subseteq Targets
  BY DEF Live, Targets
<1> HIDE DEF Live, Targets
<1> QED BY <1>1, <1>2 DEF Ways

DoneGrows(x, maxDepth, was, now) ==
    /\ x.id \notin Ids(was)
    /\ Ids(now) = IF TooDeep(x.depth, maxDepth) THEN Ids(was) ELSE Ids(was) \cup {x.id}

\* The feature looked at is done, unless it is too deep.
LEMMA DoneStep ==
    ASSUME NEW known, NEW queue, Nodes(queue) \subseteq known, NEW x \in Nodes(queue),
           \A r, s \in known : r.id = s.id => r = s,
           NEW maxDepth, NEW news, \A s \in news : s \notin known,
           NEW rest, Nodes(rest) = (Nodes(queue) \ {x}) \cup news
    PROVE  DoneGrows(x, maxDepth, Done(maxDepth, queue, known), Done(maxDepth, rest, known \cup news))
<1> DEFINE was == Done(maxDepth, queue, known)
           now == Done(maxDepth, rest, known \cup news)
<1>1. x.id \notin Ids(was)
  BY DEF Ids, Done
<1>2. \A r : r \in now <=> r \in was \/ (r = x /\ ~TooDeep(x.depth, maxDepth))
  BY DEF Done
<1> HIDE DEF was, now
<1>3. Ids(now) = IF TooDeep(x.depth, maxDepth) THEN Ids(was) ELSE Ids(was) \cup {x.id}
  BY <1>2 DEF Ids
<1> QED BY <1>1, <1>3 DEF was, now, DoneGrows

\* Nothing more comes of a feature that is too deep.
LEMMA InOrderEmpty ==
    ASSUME NEW C, NEW p \in Seq(C)
    PROVE  p \o InOrder({}) = p
<1>1. InOrder({}) \in Seq({}) /\ Len(InOrder({})) = Cardinality({})
  BY FS_EmptySet, InOrderProperties
<1>2. Len(InOrder({})) = 0
  BY <1>1, FS_EmptySet
<1>3. InOrder({}) = <<>>
  BY <1>1, <1>2
<1> QED BY <1>3

Adds(E, maxDepth, x, known, acc, ls, next, new) ==
    LET news == News(E, maxDepth, x, known)
    IN  /\ new = [queue   |-> acc.queue \o InOrder(news),
                  visited |-> Ids(known \cup news),
                  listed  |-> acc.listed \o InOrder(ls)]
        /\ Ids(known \cup news) = Ids(known) \cup (next \cap Live)

\* What Lists adds is what the search meets.
LEMMA ListsFields ==
    ASSUME NEW E, NEW maxDepth, NEW known, NEW x \in Known, ~TooDeep(x.depth, maxDepth),
           NEW acc \in ListStates, acc.visited = Ids(known), NEW ls, NEW next,
           (next \cap Live) \ Ids(known) = Into(E, {x.id}) \ Ids(known)
    PROVE  Adds(E, maxDepth, x, known, acc, ls, next, Lists(acc, ls, next, x.depth))
<1> DEFINE news == News(E, maxDepth, x, known)
           met == (next \cap Live) \ acc.visited
<1>1. met = Into(E, {x.id}) \ Ids(known)
  OBVIOUS
<1> HIDE DEF met
<1>2. news = {[id |-> g, depth |-> x.depth + 1] : g \in met}
  BY <1>1 DEF News
<1>3. Ids(known \cup news) = Ids(known) \cup met
  <2>1. \A s \in news : s.id \in met
    BY <1>2
  <2>2. ASSUME NEW g \in met
        PROVE  \E s \in news : s.id = g
    <3>1. [id |-> g, depth |-> x.depth + 1] \in news
      BY <1>2
    <3> QED BY <3>1
  <2> HIDE DEF news
  <2> QED BY <2>1, <2>2 DEF Ids
<1>4. Lists(acc, ls, next, x.depth) = [queue   |-> acc.queue \o InOrder(news),
                                       visited |-> acc.visited \cup met,
                                       listed  |-> acc.listed \o InOrder(ls)]
  BY <1>2 DEF Lists, met
<1>5. Ids(known) \cup met = Ids(known) \cup (next \cap Live)
  BY DEF met
<1> QED BY <1>3, <1>4, <1>5 DEF Adds

OutFields(types, maxDepth, known, x, acc, new) ==
    LET news == News(Ways("outgoing", types), maxDepth, x, known)
    IN  new = [queue   |-> acc.queue \o InOrder(news),
               visited |-> Ids(known \cup news),
               listed  |-> acc.listed \o InOrder(OutOf(x.id, types))]

LEMMA ListOutFields ==
    ASSUME GraphInv, NEW types, NEW maxDepth, NEW known, NEW x \in Known,
           ~TooDeep(x.depth, maxDepth), NEW acc \in ListStates, acc.visited = Ids(known)
    PROVE  OutFields(types, maxDepth, known, x, acc, ListOut(acc, x, types))
<1> DEFINE out == {l \in Outgoing(x.id) : l.type \in types}
           next == {l.target : l \in out}
           E == Ways("outgoing", types)
<1>0. out = OutOf(x.id, types)
  BY DEF Outgoing, OutOf
<1>1. out = {l \in links : l.type \in types /\ l.source = x.id}
  BY DEF Outgoing
<1>2. next \cap Live = Into(E, {x.id})
  <2>1. ASSUME NEW l \in out, l.target \in Live
        PROVE  <<l.target, x.id>> \in E
    <3> DEFINE e == <<l.source, l.target>>
    <3>1. e \in Edges(types, links) /\ e[1] = x.id /\ e[2] = l.target
      BY <1>1 DEF Edges
    <3> HIDE DEF e
    <3> QED BY <2>1, <3>1 DEF Ways
  <2>2. \A e \in E : e[2] = x.id => \E l \in out : l.target = e[1] /\ e[1] \in Live
    BY <1>1 DEF Ways, Edges
  <2> HIDE DEF out, E
  <2> QED BY <2>1, <2>2 DEF Into
<1>3. ListOut(acc, x, types) = Lists(acc, out, next, x.depth)
  BY DEF ListOut
<1> HIDE DEF next, E
<1>4. (next \cap Live) \ Ids(known) = Into(E, {x.id}) \ Ids(known)
  BY <1>2
<1> HIDE DEF out
<1>5. Lists(acc, out, next, x.depth)
          = [queue   |-> acc.queue \o InOrder(News(E, maxDepth, x, known)),
             visited |-> Ids(known \cup News(E, maxDepth, x, known)),
             listed  |-> acc.listed \o InOrder(out)]
  <2>1. Adds(E, maxDepth, x, known, acc, out, next, Lists(acc, out, next, x.depth))
    BY <1>4, ListsFields
  <2> QED BY <2>1 DEF Adds
<1> HIDE DEF OutOf
<1> QED BY <1>0, <1>3, <1>5 DEF E, OutFields

InFields(f, types, maxDepth, known, x, acc, new) ==
    LET E    == Edges(types, links)
        news == News(E, maxDepth, x, known)
        in   == InTo(x.id, f, types, Ids(known))
    IN  /\ new = [queue   |-> acc.queue \o InOrder(news),
                  visited |-> Ids(known \cup news),
                  listed  |-> acc.listed \o InOrder(in)]
        /\ Sources(in) \subseteq Into(E, {x.id})
        /\ \A g \in Into(E, {x.id}) : g \in Sources(in) \/ (g \in Ids(known) /\ g # f)
        /\ Ids(known \cup news) \subseteq Ids(known) \cup Sources(in)

LEMMA ListInFields ==
    ASSUME GraphInv, NEW types, NEW maxDepth, NEW known, NEW x \in Known,
           ~TooDeep(x.depth, maxDepth), NEW acc \in ListStates, acc.visited = Ids(known),
           NEW f \in Ids(known)
    PROVE  InFields(f, types, maxDepth, known, x, acc, ListIn(acc, f, x, types))
<1> DEFINE E == Edges(types, links)
           in == {l \in Incoming(x.id) : l.type \in types /\ (l.source \notin acc.visited \/ l.source = f)}
           next == {l.source : l \in in}
<1>1. in = {l \in links : /\ l.type \in types /\ l.target = x.id
                          /\ l.source \notin Ids(known) \/ l.source = f}
  BY DEF Incoming
<1>0. in = InTo(x.id, f, types, Ids(known))
  BY DEF Incoming, InTo
<1>2. E = Edges(types, links) /\ \A l \in links : l.source \in Live
  BY DEF GraphInv, RelInv, TypeOK
<1>3. next \subseteq Into(E, {x.id}) /\ next \subseteq Live
  <2>1. ASSUME NEW l \in in
        PROVE  l.source \in Into(E, {x.id}) /\ l.source \in Live
    <3>1. <<l.source, x.id>> \in E
      BY <1>1, <1>2 DEF Edges
    <3> HIDE DEF E
    <3> QED BY <1>1, <1>2, <3>1 DEF Into
  <2> HIDE DEF in, E
  <2> QED BY <2>1
<1>4. \A g \in Into(E, {x.id}) : g \in next \/ (g \in Ids(known) /\ g # f)
  <2>1. \A e \in E : e[2] = x.id => \E l \in links : l.type \in types /\ l.target = x.id /\ l.source = e[1]
    BY <1>2 DEF Edges
  <2> HIDE DEF E
  <2>2. \A g \in Into(E, {x.id}) : \E l \in links : l.type \in types /\ l.target = x.id /\ l.source = g
    BY <2>1 DEF Into
  <2> QED BY <1>1, <2>2
<1>5. next = Sources(in)
  BY DEF Sources
<1>6. ListIn(acc, f, x, types) = Lists(acc, in, next, x.depth)
  BY DEF ListIn
<1> HIDE DEF in, next, E
<1>7. (next \cap Live) \ Ids(known) = Into(E, {x.id}) \ Ids(known)
  BY <1>3, <1>4
<1> DEFINE news == News(E, maxDepth, x, known)
<1>8. /\ Lists(acc, in, next, x.depth) = [queue   |-> acc.queue \o InOrder(news),
                                          visited |-> Ids(known \cup news),
                                          listed  |-> acc.listed \o InOrder(in)]
      /\ Ids(known \cup news) = Ids(known) \cup (next \cap Live)
  <2>1. Adds(E, maxDepth, x, known, acc, in, next, Lists(acc, in, next, x.depth))
    BY <1>7, ListsFields
  <2> QED BY <2>1 DEF Adds
<1> HIDE DEF news
<1>9. Sources(in) \subseteq Into(E, {x.id}) /\ Ids(known \cup news) \subseteq Ids(known) \cup Sources(in)
  BY <1>3, <1>5, <1>8
<1>10. \A g \in Into(E, {x.id}) : g \in Sources(in) \/ (g \in Ids(known) /\ g # f)
  BY <1>4, <1>5
<1> QED BY <1>0, <1>6, <1>8, <1>9, <1>10 DEF E, news, InFields

ListBegin(f) == [queue |-> <<Start(f)>>, visited |-> {f}, listed |-> <<>>]

LEMMA ListInvBegin ==
    ASSUME GraphInv, NEW f \in Live, NEW direction, NEW types, NEW maxDepth \in Nat
    PROVE  ListInv(direction, f, types, maxDepth, ListBegin(f), {Start(f)})
<1> DEFINE acc == ListBegin(f)
           s == Start(f)
<1>1. acc.queue = <<s>> /\ acc.visited = {f} /\ acc.listed = <<>>
  BY DEF ListBegin
<1>2. s \in Known /\ s.id = f
  BY DEF Start, Known
<1>3. acc \in ListStates
  BY <1>2 DEF ListBegin, ListStates
<1>4. BreadthFirst(Ways(direction, types), f, maxDepth, <<s>>, {s})
  BY WaysType, BreadthFirstBegin
<1> HIDE DEF acc, s
<1>5. Ids({s}) = {f}
  BY <1>2 DEF Ids
<1>6. Ids(Done(maxDepth, <<s>>, {s})) = {}
  <2>1. s \in Nodes(<<s>>)
    BY DEF Nodes
  <2> QED BY <2>1 DEF Ids, Done
<1>7. Nodes(<<>>) = {} /\ Straight(<<>>)
  BY DEF Nodes, Straight
<1>8. Listed(direction, f, types, {}, acc)
  BY <1>1, <1>7 DEF Listed, ListedOut, ListedIn, Sources, Into
<1> QED BY <1>1, <1>3, <1>4, <1>5, <1>6, <1>8 DEF ListInv, acc, s

\* What is known when a feature is taken from the queue.
LEMMA ListTaken ==
    ASSUME GraphInv, NEW f \in Live, NEW direction, NEW types, NEW maxDepth \in Nat,
           NEW acc, NEW known, ListInv(direction, f, types, maxDepth, acc, known),
           acc.queue # <<>>
    PROVE  LET x    == Head(acc.queue)
               E    == Ways(direction, types)
               news == News(E, maxDepth, x, known)
               rest == Tail(acc.queue) \o InOrder(news)
           IN  /\ known \in SUBSET Known /\ x \in Known /\ x \in known /\ f \in Ids(known)
               /\ Tail(acc.queue) \in Seq(Known) /\ rest \in Seq(Known)
               /\ BreadthFirst(E, f, maxDepth, rest, known \cup news)
               /\ Ids(known \cup news) \in SUBSET Live
               /\ DoneGrows(x, maxDepth, Done(maxDepth, acc.queue, known),
                            Done(maxDepth, rest, known \cup news))
<1> DEFINE queue == acc.queue
           x == Head(queue)
           E == Ways(direction, types)
           news == News(E, maxDepth, x, known)
           rest == Tail(queue) \o InOrder(news)
<1>1. E \in SUBSET (Live \X Targets) /\ IsFiniteSet(Live)
  BY WaysType DEF GraphInv, Finite
<1>2. BreadthFirst(E, f, maxDepth, queue, known) /\ queue # <<>>
  BY DEF ListInv
<1> HIDE DEF queue, E
<1>3. MetOnce(f, maxDepth, known) /\ InTurn(queue, known)
  BY <1>2 DEF BreadthFirst
<1>4. known \in SUBSET Known /\ f \in Ids(known) /\ \A r, s \in known : r.id = s.id => r = s
  BY <1>3 DEF MetOnce, Ids, Start
<1>5. x \in known /\ Tail(queue) \in Seq(Known) /\ Nodes(queue) = Nodes(Tail(queue)) \cup {x}
  BY <1>2, <1>3, <1>4, FirstInTurn
<1>6. BreadthFirst(E, f, maxDepth, rest, known \cup news)
  BY <1>1, <1>2, BreadthFirstStep
<1>7. /\ InTurn(rest, known \cup news)
      /\ Nodes(rest) = (Nodes(queue) \ {x}) \cup news
      /\ Len(queue) \in Nat /\ Len(rest) \in Nat /\ Cardinality(news) \in Nat
      /\ Len(rest) = Len(queue) - 1 + Cardinality(news)
  BY <1>1, <1>2, <1>3, <1>4, InTurnStep
<1> HIDE DEF x
<1>8. /\ news \in SUBSET Known /\ IsFiniteSet(news)
      /\ \A s \in news : /\ s.depth = x.depth + 1 /\ s.id \notin Ids(known)
                         /\ <<s.id, x.id>> \in E /\ ~TooDeep(x.depth, maxDepth)
                         /\ s \notin known
  BY <1>1, <1>4, <1>5, NewsFields
<1> HIDE DEF news, rest
<1>9. rest \in Seq(Known) /\ known \cup news \in SUBSET Known
  BY <1>6 DEF BreadthFirst, InTurn, MetOnce
<1>10. Ids(known \cup news) \in SUBSET Live
  BY <1>9 DEF Ids, Known
<1>11. DoneGrows(x, maxDepth, Done(maxDepth, queue, known), Done(maxDepth, rest, known \cup news))
  <2>1. Nodes(queue) \subseteq known /\ x \in Nodes(queue) /\ \A s \in news : s \notin known
    BY <1>3, <1>5, <1>8 DEF InTurn
  <2> QED BY <1>4, <1>7, <2>1, DoneStep
<1> QED BY <1>4, <1>5, <1>6, <1>9, <1>10, <1>11 DEF queue, x, E, news, rest

\* Outgoing, the relationships of the feature looked at are listed behind the
\* others, which are those of other features.
LEMMA ListedOutStep ==
    ASSUME GraphInv, NEW types, NEW was, NEW id, id \notin was, NEW p \in Seq(Link),
           ListedOut(p, types, was)
    PROVE  LET q == p \o InOrder(OutOf(id, types))
           IN  q \in Seq(Link) /\ ListedOut(q, types, was \cup {id})
<1> DEFINE out == OutOf(id, types)
           o == InOrder(out)
           q == p \o o
           old == {l \in links : l.type \in types /\ l.source \in was}
           all == {l \in links : l.type \in types /\ l.source \in was \cup {id}}
<1>1. out \subseteq links /\ IsFiniteSet(links) /\ links \subseteq Link
  BY DEF GraphInv, Finite, RelInv, TypeOK, OutOf
<1>2. Straight(p) /\ Nodes(p) = old
  BY DEF ListedOut
<1>3. (\A l \in out : l \notin old) /\ old \cup out = all
  BY DEF OutOf
<1> HIDE DEF out, old, all
<1>4. IsFiniteSet(out)
  BY <1>1, FS_Subset
<1>5. o \in Seq(out) /\ Nodes(o) = out /\ Straight(o)
  BY <1>4, InOrderProperties
<1>6. o \in Seq(Link)
  <2>1. out \subseteq Link
    BY <1>1
  <2> HIDE DEF o
  <2> QED BY <1>5, <2>1
<1> HIDE DEF o
<1>7. q \in Seq(Link) /\ Nodes(q) = Nodes(p) \cup Nodes(o)
  BY <1>6, Joined
<1>8. Straight(q)
  <2>1. \A l \in Nodes(p) : l \notin Nodes(o)
    BY <1>2, <1>3, <1>5
  <2> QED BY <1>2, <1>5, <1>6, <2>1, JoinedStraight
<1> HIDE DEF q
<1>9. Nodes(q) = all
  BY <1>2, <1>3, <1>5, <1>7
<1> QED BY <1>7, <1>8, <1>9 DEF q, o, out, all, ListedOut

\* Incoming, the relationships left out come from features met before, other
\* than the one asked for: one from each is listed already.
LEMMA ListedInStep ==
    ASSUME GraphInv, NEW f, NEW types, NEW was, NEW id, NEW met, NEW p \in Seq(Link),
           ListedIn(p, types, f, was, met),
           NEW in \in SUBSET links, Sources(in) \subseteq Into(Edges(types, links), {id}),
           \A g \in Into(Edges(types, links), {id}) : g \in Sources(in) \/ (g \in met /\ g # f),
           NEW more, more \subseteq met \cup Sources(in)
    PROVE  LET q == p \o InOrder(in)
           IN  q \in Seq(Link) /\ ListedIn(q, types, f, was \cup {id}, more)
<1> DEFINE E == Edges(types, links)
           o == InOrder(in)
           q == p \o o
<1>1. in \subseteq Link /\ IsFiniteSet(in)
  BY FS_Subset DEF GraphInv, Finite, RelInv, TypeOK
<1>2. o \in Seq(in) /\ Nodes(o) = in
  BY <1>1, InOrderProperties
<1> HIDE DEF o
<1>3. o \in Seq(Link)
  BY <1>1, <1>2
<1>4. q \in Seq(Link) /\ Nodes(q) = Nodes(p) \cup Nodes(o)
  BY <1>3, Joined
<1> HIDE DEF q, E
<1>5. /\ Sources(Nodes(p)) = Into(E, was) /\ \A g \in met : g = f \/ g \in Sources(Nodes(p))
      /\ Sources(in) \subseteq Into(E, {id})
      /\ \A g \in Into(E, {id}) : g \in Sources(in) \/ (g \in met /\ g # f)
  BY DEF ListedIn, E
<1>6. Sources(Nodes(q)) = Sources(Nodes(p)) \cup Sources(in)
  <2>1. Nodes(q) = Nodes(p) \cup in
    BY <1>2, <1>4
  <2> QED BY <2>1 DEF Sources
<1>7. Into(E, was \cup {id}) = Into(E, was) \cup Into(E, {id})
  BY DEF Into
<1>8. Sources(Nodes(q)) = Into(E, was \cup {id})
  <2> HIDE DEF Sources, Into
  <2> QED BY <1>5, <1>6, <1>7
<1>9. \A g \in more : g = f \/ g \in Sources(Nodes(q))
  BY <1>5, <1>6
<1> QED BY <1>4, <1>8, <1>9 DEF q, o, E, ListedIn

\* What one turn makes of the search.
Turned(direction, f, types, maxDepth, acc, known, new) ==
    LET news == News(Ways(direction, types), maxDepth, Head(acc.queue), known)
    IN  /\ new.queue = Tail(acc.queue) \o InOrder(news)
        /\ ListInv(direction, f, types, maxDepth, new, known \cup news)

LEMMA ListTurn ==
    ASSUME GraphInv, NEW f \in Live, NEW direction \in {"outgoing", "incoming"}, NEW types,
           NEW maxDepth \in Nat, NEW acc, NEW known,
           ListInv(direction, f, types, maxDepth, acc, known), acc.queue # <<>>
    PROVE  Turned(direction, f, types, maxDepth, acc, known,
                  ListStep(acc, f, direction, types, maxDepth))
<1> DEFINE x == Head(acc.queue)
           E == Ways(direction, types)
           news == News(E, maxDepth, x, known)
           tail == Tail(acc.queue)
           rest == tail \o InOrder(news)
           was == Ids(Done(maxDepth, acc.queue, known))
           now == Ids(Done(maxDepth, rest, known \cup news))
           pop == [queue |-> tail, visited |-> acc.visited, listed |-> acc.listed]
           new == ListStep(acc, f, direction, types, maxDepth)
           deep == TooDeep(x.depth, maxDepth)
<1>1. /\ known \in SUBSET Known /\ x \in Known /\ x \in known /\ f \in Ids(known)
      /\ tail \in Seq(Known) /\ rest \in Seq(Known)
      /\ BreadthFirst(E, f, maxDepth, rest, known \cup news)
      /\ Ids(known \cup news) \in SUBSET Live
      /\ DoneGrows(x, maxDepth, Done(maxDepth, acc.queue, known),
                   Done(maxDepth, rest, known \cup news))
  BY ListTaken
<1>2. x.id \notin was /\ now = IF deep THEN was ELSE was \cup {x.id}
  BY <1>1 DEF DoneGrows
<1>3. /\ acc.visited = Ids(known) /\ acc.visited \in SUBSET Live /\ acc.listed \in Seq(Link)
      /\ [acc EXCEPT !.queue = Tail(@)] = pop
      /\ Listed(direction, f, types, was, acc)
  <2>1. /\ acc \in ListStates /\ acc.visited = Ids(known)
        /\ Listed(direction, f, types, was, acc)
    BY DEF ListInv
  <2>2. \A q : [acc EXCEPT !.queue = q] = [queue |-> q, visited |-> acc.visited, listed |-> acc.listed]
    BY <2>1 DEF ListStates
  <2>3. [acc EXCEPT !.queue = Tail(@)] = pop
    BY <2>2, Zenon
  <2>4. acc.visited \in SUBSET Live /\ acc.listed \in Seq(Link)
    BY <2>1 DEF ListStates
  <2> HIDE DEF was, pop
  <2> QED BY <2>1, <2>3, <2>4
<1>4. pop \in ListStates /\ pop.queue = tail /\ pop.visited = Ids(known) /\ pop.listed = acc.listed
  BY <1>1, <1>3 DEF ListStates
<1>5. deep => news = {}
  BY DEF News
<1>6. new = IF deep THEN pop
            ELSE IF direction = "outgoing" THEN ListOut(pop, x, types) ELSE ListIn(pop, f, x, types)
  BY <1>3 DEF ListStep
<1> DEFINE Fits(queue, visited, listed) ==
               /\ queue = rest /\ visited = Ids(known \cup news) /\ listed \in Seq(Link)
               /\ Listed(direction, f, types, now, [queue |-> queue, visited |-> visited, listed |-> listed])
<1>7. ASSUME NEW queue, NEW visited, NEW listed, Fits(queue, visited, listed),
             new = [queue |-> queue, visited |-> visited, listed |-> listed]
      PROVE  new.queue = rest /\ ListInv(direction, f, types, maxDepth, new, known \cup news)
  <2> HIDE DEF new
  <2>1. new.queue = rest /\ new.visited = Ids(known \cup news) /\ new.listed \in Seq(Link)
    BY <1>7
  <2>2. new \in ListStates
    BY <1>1, <1>7 DEF ListStates
  <2>3. Listed(direction, f, types, now, new)
    BY <1>7
  <2>4. BreadthFirst(Ways(direction, types), f, maxDepth, new.queue, known \cup news)
    <3> HIDE DEF rest, news
    <3> QED BY <1>1, <2>1
  <2>5. Listed(direction, f, types, Ids(Done(maxDepth, new.queue, known \cup news)), new)
    <3> HIDE DEF rest, news
    <3> QED BY <2>1, <2>3
  <2> HIDE DEF rest, news
  <2> QED BY <2>1, <2>2, <2>4, <2>5 DEF ListInv
<1> SUFFICES new.queue = rest /\ ListInv(direction, f, types, maxDepth, new, known \cup news)
  BY DEF Turned
<1>8. ASSUME deep
      PROVE  new.queue = rest /\ ListInv(direction, f, types, maxDepth, new, known \cup news)
  <2>1. rest = tail /\ known \cup news = known
    BY <1>1, <1>5, <1>8, InOrderEmpty
  <2>2. now = was /\ new = pop
    BY <1>2, <1>6, <1>8
  <2> HIDE DEF new, rest, news, was, now, x, E
  <2>3. Listed(direction, f, types, now, pop)
    BY <1>3, <2>2 DEF Listed
  <2>4. Fits(tail, acc.visited, acc.listed)
    BY <1>3, <2>1, <2>3
  <2> QED BY <1>7, <2>2, <2>4
<1>9. ASSUME ~deep, direction = "outgoing"
      PROVE  new.queue = rest /\ ListInv(direction, f, types, maxDepth, new, known \cup news)
  <2> DEFINE listed == acc.listed \o InOrder(OutOf(x.id, types))
  <2>1. new = [queue |-> rest, visited |-> Ids(known \cup news), listed |-> listed]
    <3>1. new = ListOut(pop, x, types)
      BY <1>6, <1>9
    <3>2. OutFields(types, maxDepth, known, x, pop, ListOut(pop, x, types))
      <4>1. x \in Known /\ ~TooDeep(x.depth, maxDepth) /\ pop \in ListStates /\ pop.visited = Ids(known)
        BY <1>1, <1>4, <1>9
      <4> HIDE DEF x, pop
      <4> QED BY <4>1, ListOutFields
    <3> HIDE DEF new
    <3> QED BY <1>4, <1>9, <3>1, <3>2 DEF OutFields
  <2>2. listed \in Seq(Link) /\ ListedOut(listed, types, was \cup {x.id})
    <3>1. ListedOut(acc.listed, types, was) /\ x.id \notin was /\ acc.listed \in Seq(Link)
      BY <1>2, <1>3, <1>9 DEF Listed
    <3> HIDE DEF was, x
    <3> QED BY <3>1, ListedOutStep
  <2> HIDE DEF listed, new, rest, news, was, now, E
  <2>3. Listed(direction, f, types, now, [queue |-> rest, visited |-> Ids(known \cup news), listed |-> listed])
    BY <1>2, <1>9, <2>2 DEF Listed
  <2>4. Fits(rest, Ids(known \cup news), listed)
    BY <2>2, <2>3
  <2> QED BY <1>7, <2>1, <2>4
<1>10. ASSUME ~deep, direction = "incoming"
       PROVE  new.queue = rest /\ ListInv(direction, f, types, maxDepth, new, known \cup news)
  <2> DEFINE in == InTo(x.id, f, types, Ids(known))
             listed == acc.listed \o InOrder(in)
             D == Edges(types, links)
  <2>1. E = D
    BY <1>10 DEF Ways
  <2>2. /\ new = [queue |-> rest, visited |-> Ids(known \cup news), listed |-> listed]
        /\ Sources(in) \subseteq Into(D, {x.id})
        /\ \A g \in Into(D, {x.id}) : g \in Sources(in) \/ (g \in Ids(known) /\ g # f)
        /\ Ids(known \cup news) \subseteq Ids(known) \cup Sources(in)
    <3>1. new = ListIn(pop, f, x, types)
      BY <1>6, <1>10
    <3>2. InFields(f, types, maxDepth, known, x, pop, ListIn(pop, f, x, types))
      <4>1. /\ x \in Known /\ ~TooDeep(x.depth, maxDepth) /\ pop \in ListStates
            /\ pop.visited = Ids(known) /\ f \in Ids(known)
        BY <1>1, <1>4, <1>10
      <4> HIDE DEF x, pop
      <4> QED BY <4>1, ListInFields
    <3>3. news = News(D, maxDepth, x, known)
      BY <2>1
    <3> HIDE DEF new, E, news, x, D, in
    <3> QED BY <1>4, <3>1, <3>2, <3>3 DEF InFields, D, in
  <2>3. listed \in Seq(Link) /\ ListedIn(listed, types, f, was \cup {x.id}, Ids(known \cup news))
    <3>1. ListedIn(acc.listed, types, f, was, Ids(known)) /\ acc.listed \in Seq(Link)
      BY <1>3, <1>10 DEF Listed
    <3>2. in \in SUBSET links
      BY DEF InTo
    <3> HIDE DEF was, x, in, news
    <3> QED BY <2>2, <3>1, <3>2, ListedInStep
  <2> HIDE DEF listed, in, new, rest, news, was, now, E
  <2>4. Listed(direction, f, types, now, [queue |-> rest, visited |-> Ids(known \cup news), listed |-> listed])
    BY <1>2, <1>10, <2>3 DEF Listed
  <2>5. Fits(rest, Ids(known \cup news), listed)
    BY <2>3, <2>4
  <2> QED BY <1>7, <2>2, <2>5
<1> QED BY <1>8, <1>9, <1>10

\* A turn takes one feature from the queue, and puts there what it makes known.
LEMMA BreadthFirstCounts ==
    ASSUME NEW E \in SUBSET (Live \X Targets), IsFiniteSet(Live), NEW f \in Live,
           NEW maxDepth \in Nat, NEW queue, NEW known,
           BreadthFirst(E, f, maxDepth, queue, known), queue # <<>>
    PROVE  LET news == News(E, maxDepth, Head(queue), known)
               rest == Tail(queue) \o InOrder(news)
           IN  /\ Len(queue) \in Nat /\ Cardinality(known) \in Nat
               /\ Len(rest) \in Nat /\ Cardinality(known \cup news) \in Nat
               /\ Len(rest) + 1 - Cardinality(known \cup news) = Len(queue) - Cardinality(known)
<1> DEFINE x == Head(queue)
           news == News(E, maxDepth, x, known)
           rest == Tail(queue) \o InOrder(news)
<1>1. MetOnce(f, maxDepth, known) /\ InTurn(queue, known)
  BY DEF BreadthFirst
<1>2. known \in SUBSET Known
  BY <1>1 DEF MetOnce
<1>3. x \in known
  BY <1>1, <1>2, FirstInTurn
<1>4. /\ Len(queue) \in Nat /\ Len(rest) \in Nat /\ Cardinality(news) \in Nat
      /\ Len(rest) = Len(queue) - 1 + Cardinality(news)
  BY <1>1, <1>2, InTurnStep
<1> HIDE DEF x
<1>5. /\ MetOnce(f, maxDepth, known \cup news)
      /\ Cardinality(known) \in Nat /\ Cardinality(news) \in Nat
      /\ Cardinality(known \cup news) = Cardinality(known) + Cardinality(news)
  BY <1>1, <1>3, MetOnceStep
<1> DEFINE a == Len(queue)
           b == Cardinality(known)
           c == Len(rest)
           d == Cardinality(known \cup news)
           e == Cardinality(news)
<1>6. a \in Nat /\ b \in Nat /\ c \in Nat /\ e \in Nat /\ c = a - 1 + e /\ d = b + e
  BY <1>4, <1>5
<1>7. d \in Nat /\ c + 1 - d = a - b
  <2> HIDE DEF a, b, c, d, e
  <2> QED BY <1>6
<1> QED BY <1>6, <1>7 DEF x

Searched(direction, f, types, maxDepth) ==
    {acc \in ListStates : \E known : ListInv(direction, f, types, maxDepth, acc, known)}

ListRuns(direction, f, types, maxDepth, run) ==
    /\ run[0] = ListBegin(f)
    /\ \A n \in Nat : run[n + 1] = ListStep(run[n], f, direction, types, maxDepth)

LEMMA ListRun ==
    ASSUME GraphInv, NEW f \in Live, NEW direction \in {"outgoing", "incoming"}, NEW types,
           NEW maxDepth \in Nat
    PROVE  ListRuns(direction, f, types, maxDepth, ListLoop(f, direction, types, maxDepth))
<1> DEFINE C == Searched(direction, f, types, maxDepth)
           Step(acc) == ListStep(acc, f, direction, types, maxDepth)
           F == [acc \in C |-> Step(acc)]
           Runs(g) == g = [n \in Nat |-> IF n = 0 THEN ListBegin(f) ELSE Step(g[n - 1])]
           run == ListLoop(f, direction, types, maxDepth)
<1>1. ASSUME NEW acc \in C
      PROVE  Step(acc) \in C
  <2>1. PICK known : ListInv(direction, f, types, maxDepth, acc, known)
    BY DEF Searched
  <2>2. CASE acc.queue = <<>>
    BY <2>2 DEF ListStep
  <2>3. CASE acc.queue # <<>>
    <3> DEFINE new == Step(acc)
    <3> SUFFICES new \in C
      OBVIOUS
    <3>1. Turned(direction, f, types, maxDepth, acc, known, new)
      BY <2>1, <2>3, ListTurn
    <3> HIDE DEF new
    <3>2. \E more : ListInv(direction, f, types, maxDepth, new, more)
      BY <3>1 DEF Turned
    <3> QED BY <3>2 DEF Searched, ListInv
  <2> QED BY <2>2, <2>3
<1>2. ListBegin(f) \in C
  <2> HIDE DEF ListBegin
  <2>1. ListInv(direction, f, types, maxDepth, ListBegin(f), {Start(f)})
    BY ListInvBegin
  <2> QED BY <2>1 DEF Searched, ListInv
<1> HIDE DEF C, Step
<1>3. PICK g \in [Nat -> C] : g = [n \in Nat |-> IF n = 0 THEN ListBegin(f) ELSE F[g[n - 1]]]
  <2>1. F \in [C -> C]
    BY <1>1
  <2> HIDE DEF F
  <2> QED BY <1>2, <2>1, Iteration, SMTT(20)
<1>4. ASSUME NEW n \in Nat
      PROVE  g[n] = IF n = 0 THEN ListBegin(f) ELSE Step(g[n - 1])
  <2>1. CASE n # 0
    <3>1. n - 1 \in Nat
      BY <2>1
    <3>2. g[n] = F[g[n - 1]]
      <4> HIDE DEF F
      <4> QED BY <1>3, <2>1
    <3>3. g[n - 1] \in C
      BY <3>1
    <3> QED BY <2>1, <3>2, <3>3
  <2> QED BY <1>3, <2>1
<1>5. Runs(g)
  BY <1>4
<1>6. run = CHOOSE h : Runs(h)
  BY DEF ListLoop, ListBegin, Step, Start
<1>7. Runs(run)
  BY <1>5, <1>6
<1> HIDE DEF run
<1>8. run[0] = ListBegin(f)
  BY <1>7
<1>9. ASSUME NEW n \in Nat
      PROVE  run[n + 1] = Step(run[n])
  <2>1. n + 1 \in Nat /\ n + 1 # 0 /\ (n + 1) - 1 = n
    OBVIOUS
  <2> QED BY <1>7, <2>1
<1> QED BY <1>8, <1>9 DEF run, Step, ListRuns

\* The search after n turns: it is over, or has looked at one feature a turn.
InTurns(direction, f, types, maxDepth, n, acc) ==
    \E known : /\ ListInv(direction, f, types, maxDepth, acc, known)
               /\ acc.queue = <<>> \/ n + Len(acc.queue) = Cardinality(known)

LEMMA InTurnsStep ==
    ASSUME GraphInv, NEW f \in Live, NEW direction \in {"outgoing", "incoming"}, NEW types,
           NEW maxDepth \in Nat, NEW n \in Nat, NEW acc,
           InTurns(direction, f, types, maxDepth, n, acc)
    PROVE  InTurns(direction, f, types, maxDepth, n + 1,
                   ListStep(acc, f, direction, types, maxDepth))
<1> DEFINE new == ListStep(acc, f, direction, types, maxDepth)
<1>1. PICK known : /\ ListInv(direction, f, types, maxDepth, acc, known)
                   /\ acc.queue = <<>> \/ n + Len(acc.queue) = Cardinality(known)
  BY DEF InTurns
<1>2. CASE acc.queue = <<>>
  BY <1>1, <1>2 DEF InTurns, ListStep
<1>3. CASE acc.queue # <<>>
  <2> DEFINE E == Ways(direction, types)
             queue == acc.queue
             news == News(E, maxDepth, Head(queue), known)
             rest == Tail(queue) \o InOrder(news)
             more == known \cup news
  <2>1. new.queue = rest /\ ListInv(direction, f, types, maxDepth, new, more)
    <3>1. Turned(direction, f, types, maxDepth, acc, known, new)
      BY <1>1, <1>3, ListTurn
    <3> QED BY <3>1 DEF Turned
  <2> SUFFICES InTurns(direction, f, types, maxDepth, n + 1, new)
    OBVIOUS
  <2> HIDE DEF new
  <2>2. E \in SUBSET (Live \X Targets) /\ IsFiniteSet(Live)
    BY WaysType DEF GraphInv, Finite
  <2>3. BreadthFirst(E, f, maxDepth, queue, known) /\ queue # <<>>
    BY <1>1, <1>3 DEF ListInv
  <2> HIDE DEF E, queue
  <2>4. /\ Len(queue) \in Nat /\ Cardinality(known) \in Nat
        /\ Len(rest) \in Nat /\ Cardinality(more) \in Nat
        /\ Len(rest) + 1 - Cardinality(more) = Len(queue) - Cardinality(known)
    BY <2>2, <2>3, BreadthFirstCounts
  <2>5. n + Len(queue) = Cardinality(known)
    BY <1>1, <1>3 DEF queue
  <2> DEFINE a == Len(queue)
             b == Cardinality(known)
             c == Len(rest)
             d == Cardinality(more)
  <2>6. a \in Nat /\ b \in Nat /\ c \in Nat /\ d \in Nat /\ n + a = b /\ c + 1 - d = a - b
    BY <2>4, <2>5
  <2>7. (n + 1) + c = d
    <3> HIDE DEF a, b, c, d
    <3> QED BY <2>6
  <2> HIDE DEF rest, more
  <2>8. (n + 1) + Len(new.queue) = Cardinality(more)
    BY <2>1, <2>7
  <2> QED BY <2>1, <2>8 DEF InTurns
<1> QED BY <1>2, <1>3

\* When the turns are over, so is the search.
LEMMA ListEnds ==
    ASSUME GraphInv, NEW f \in Live, NEW direction \in {"outgoing", "incoming"}, NEW types,
           NEW maxDepth \in Nat
    PROVE  \E acc, known : /\ ListInv(direction, f, types, maxDepth, acc, known)
                           /\ acc.queue = <<>>
                           /\ Listing(f, direction, types, maxDepth) = acc.listed
<1> DEFINE run == ListLoop(f, direction, types, maxDepth)
           L == Cardinality(Live)
           S == {n \in Nat : InTurns(direction, f, types, maxDepth, n, run[n])}
           end == run[L]
<1>1. /\ run[0] = ListBegin(f)
      /\ \A n \in Nat : run[n + 1] = ListStep(run[n], f, direction, types, maxDepth)
  <2>1. ListRuns(direction, f, types, maxDepth, run)
    BY ListRun
  <2> HIDE DEF run
  <2> QED BY <2>1 DEF ListRuns
<1>2. L \in Nat /\ IsFiniteSet(Live)
  BY FS_CardinalityType DEF GraphInv, Finite
<1>3. Listing(f, direction, types, maxDepth) = end.listed
  BY DEF Listing
<1> HIDE DEF run, L
<1>4. 0 \in S
  <2>1. Len(ListBegin(f).queue) = 1
    BY DEF ListBegin
  <2>2. Cardinality({Start(f)}) = 1
    BY FS_Singleton
  <2>3. 0 + Len(ListBegin(f).queue) = Cardinality({Start(f)})
    BY <2>1, <2>2
  <2> HIDE DEF ListBegin, Start
  <2>4. ListInv(direction, f, types, maxDepth, ListBegin(f), {Start(f)})
    BY ListInvBegin
  <2> QED BY <1>1, <2>3, <2>4 DEF InTurns
<1>5. ASSUME NEW n \in Nat, n \in S
      PROVE  n + 1 \in S
  <2>1. InTurns(direction, f, types, maxDepth, n, run[n])
    BY <1>5
  <2>2. InTurns(direction, f, types, maxDepth, n + 1, run[n + 1])
    BY <1>1, <2>1, InTurnsStep
  <2> QED BY <2>2
<1>6. InTurns(direction, f, types, maxDepth, L, end)
  <2> HIDE DEF S
  <2>1. L \in S
    BY <1>2, <1>4, <1>5, SetInduction
  <2> QED BY <2>1 DEF S
<1> HIDE DEF end
<1>7. PICK known : /\ ListInv(direction, f, types, maxDepth, end, known)
                   /\ end.queue = <<>> \/ L + Len(end.queue) = Cardinality(known)
  BY <1>6 DEF InTurns
<1>8. end.queue = <<>>
  <2> SUFFICES ASSUME L + Len(end.queue) = Cardinality(known)
               PROVE  end.queue = <<>>
    BY <1>7
  <2>1. MetOnce(f, maxDepth, known) /\ end.queue \in Seq(Known)
    BY <1>7 DEF ListInv, BreadthFirst, InTurn
  <2>2. Cardinality(known) <= L
    BY <1>2, <2>1, DepthBound DEF L
  <2>3. Len(end.queue) \in Nat
    BY <2>1
  <2>4. Len(end.queue) = 0
    BY <1>2, <2>2, <2>3
  <2> QED BY <2>1, <2>4
<1> QED BY <1>3, <1>7, <1>8

Back(E) == {<<e[2], e[1]>> : e \in E}

\* Outgoing, a target that is not on this branch leads no further.
LEMMA WithinLive ==
    ASSUME GraphInv, NEW f \in Live, NEW types, NEW k \in Nat
    PROVE  Within(f, Ways("outgoing", types))[k] = Within(f, Back(Edges(types, links)))[k] \cap Live
<1> DEFINE E == Edges(types, links)
           B == Back(E)
           D == Ways("outgoing", types)
           U == Within(f, B)
           W == Within(f, D)
           S == {n \in Nat : W[n] = U[n] \cap Live}
<1>1. E \in SUBSET (Live \X Targets) /\ Live \subseteq Targets
  BY EdgesOfLinks DEF Live, Targets
<1>2. D = {<<e[2], e[1]>> : e \in {d \in E : d[2] \in Live}}
  BY DEF Ways
<1> HIDE DEF E, D
<1>3. W[0] = {f} /\ \A n \in Nat : W[n] \subseteq Live /\ W[n + 1] = W[n] \cup Into(D, W[n])
  <2>1. \A e \in D : e[1] \in Live
    BY <1>2
  <2>2. /\ W \in [Nat -> SUBSET Live] /\ W[0] = {f}
        /\ \A n \in Nat : W[n + 1] = W[n] \cup Into(D, W[n])
    BY <2>1, WithinRun
  <2> HIDE DEF W
  <2> QED BY <2>2
<1>4. U[0] = {f} /\ \A n \in Nat : U[n + 1] = U[n] \cup Into(B, U[n])
  <2>1. f \in Targets /\ \A e \in B : e[1] \in Targets
    BY <1>1 DEF Back
  <2>2. /\ U \in [Nat -> SUBSET Targets] /\ U[0] = {f}
        /\ \A n \in Nat : U[n + 1] = U[n] \cup Into(B, U[n])
    <3> HIDE DEF B
    <3> QED BY <2>1, WithinRun
  <2> QED BY <2>2
<1> HIDE DEF U, W
<1>5. \A near : Into(D, near \cap Live) = Into(B, near) \cap Live
  <2> SUFFICES ASSUME NEW near
               PROVE  Into(D, near \cap Live) = Into(B, near) \cap Live
    OBVIOUS
  <2>1. ASSUME NEW g \in Into(D, near \cap Live)
        PROVE  g \in Into(B, near) \cap Live
    <3>1. PICK d \in D : d[2] \in near /\ g = d[1]
      BY DEF Into
    <3>2. PICK e \in E : e[2] \in Live /\ d = <<e[2], e[1]>>
      BY <1>2
    <3>3. d \in B /\ d[1] \in Live
      BY <3>2 DEF Back
    <3> QED BY <3>1, <3>3 DEF Into
  <2>2. ASSUME NEW g \in Into(B, near), g \in Live
        PROVE  g \in Into(D, near \cap Live)
    <3>1. PICK d \in B : d[2] \in near /\ g = d[1]
      BY DEF Into
    <3>2. PICK e \in E : d = <<e[2], e[1]>>
      BY DEF Back
    <3>3. d[2] \in Live /\ d \in D
      BY <1>1, <1>2, <2>2, <3>1, <3>2
    <3> QED BY <3>1, <3>3 DEF Into
  <2> HIDE DEF Into
  <2> QED BY <2>1, <2>2
<1> HIDE DEF B
<1>6. 0 \in S
  <2>1. {f} = {f} \cap Live
    OBVIOUS
  <2> QED BY <1>3, <1>4, <2>1
<1>7. ASSUME NEW n \in Nat, n \in S
      PROVE  n + 1 \in S
  <2>1. W[n] = U[n] \cap Live
    BY <1>7
  <2>2. Into(D, W[n]) = Into(B, U[n]) \cap Live
    BY <1>5, <2>1
  <2>3. W[n + 1] = U[n + 1] \cap Live
    BY <1>3, <1>4, <2>1, <2>2
  <2> QED BY <2>3
<1>8. Nat \subseteq S
  <2> HIDE DEF S
  <2> QED BY <1>6, <1>7, SetInduction
<1>9. W[k] = U[k] \cap Live
  BY <1>8
<1> QED BY <1>9 DEF W, U, B, D, E

LEMMA StraightCount ==
    ASSUME NEW C, NEW p \in Seq(C), Straight(p)
    PROVE  Range(p) = Nodes(p) /\ Len(p) = Cardinality(Nodes(p))
<1> DEFINE n == Len(p)
           N == Nodes(p)
<1>1. n \in Nat /\ DOMAIN p = 1..n
  OBVIOUS
<1>2. Range(p) = N
  BY <1>1 DEF Range, Nodes
<1>3. /\ p \in [1..n -> N] /\ \A i, j \in 1..n : p[i] = p[j] => i = j
      /\ \A x \in N : \E i \in 1..n : p[i] = x
  BY DEF Nodes, Straight
<1> HIDE DEF n, N
<1>4. p \in Bijection(1..n, N)
  BY <1>3, Fun_IsBij
<1>5. Cardinality(N) = n
  BY <1>1, <1>4, FS_CountingElements DEF ExistsBijection
<1> QED BY <1>2, <1>5 DEF n, N

ListsOut(f, types, maxDepth) ==
    LET to  == Within(f, Back(Edges(types, links)))[Far(maxDepth) - 1]
        out == Listing(f, "outgoing", types, maxDepth)
    IN  /\ Range(out) = {l \in links : l.type \in types /\ l.source \in to}
        /\ Len(out) = Cardinality(Range(out))

ListsIn(f, types, maxDepth) ==
    LET from == Within(f, Edges(types, links))[Far(maxDepth) - 1]
    IN  Sources(Range(Listing(f, "incoming", types, maxDepth))) = Into(Edges(types, links), from)

\* When the search is over, what it has looked at is what it was to find.
LEMMA ListedAt ==
    ASSUME GraphInv, NEW f \in Live, NEW direction \in {"outgoing", "incoming"}, NEW types,
           NEW maxDepth \in Nat
    PROVE  \E acc : /\ Listing(f, direction, types, maxDepth) = acc.listed
                    /\ acc.listed \in Seq(Link)
                    /\ Listed(direction, f, types,
                              Within(f, Ways(direction, types))[Far(maxDepth) - 1], acc)
<1>1. PICK acc, known : /\ ListInv(direction, f, types, maxDepth, acc, known)
                        /\ acc.queue = <<>>
                        /\ Listing(f, direction, types, maxDepth) = acc.listed
  BY ListEnds
<1> DEFINE E == Ways(direction, types)
           done == Ids(Done(maxDepth, acc.queue, known))
<1>2. E \in SUBSET (Live \X Targets) /\ IsFiniteSet(Live)
  BY WaysType DEF GraphInv, Finite
<1>3. /\ acc.listed \in Seq(Link) /\ Listed(direction, f, types, done, acc)
      /\ BreadthFirst(E, f, maxDepth, acc.queue, known)
  BY <1>1 DEF ListInv, ListStates
<1>4. BreadthFirst(E, f, maxDepth, <<>>, known)
  BY <1>1, <1>3
<1> HIDE DEF E
<1>5. Found(E, f, maxDepth, known)
  BY <1>2, <1>4, BreadthFirstEnds
<1>6. done = Within(f, E)[Far(maxDepth) - 1]
  BY <1>1, <1>5 DEF Found
<1> HIDE DEF done
<1> QED BY <1>1, <1>3, <1>6 DEF E

LEMMA ListsOf ==
    ASSUME GraphInv, NEW f \in Live, NEW types, NEW maxDepth \in Nat
    PROVE  ListsOut(f, types, maxDepth) /\ ListsIn(f, types, maxDepth)
<1> DEFINE E == Edges(types, links)
           k == Far(maxDepth) - 1
<1>1. k \in Nat
  <2>1. f \in Live /\ IsFiniteSet(Live)
    BY DEF GraphInv, Finite
  <2>2. Cardinality(Live) \in Nat /\ Cardinality(Live) # 0
    BY <2>1, FS_CardinalityType, FS_EmptySet
  <2> QED BY <2>2 DEF Far
<1> HIDE DEF k
<1>2. ListsOut(f, types, maxDepth)
  <2> DEFINE W == Within(f, Ways("outgoing", types))[k]
             to == Within(f, Back(E))[k]
             out == Listing(f, "outgoing", types, maxDepth)
  <2>1. out \in Seq(Link) /\ ListedOut(out, types, W)
    <3>1. PICK acc : /\ out = acc.listed /\ acc.listed \in Seq(Link)
                     /\ Listed("outgoing", f, types, W, acc)
      BY ListedAt DEF k
    <3> HIDE DEF out, W
    <3> QED BY <3>1 DEF Listed
  <2>2. W = to \cap Live
    BY <1>1, WithinLive
  <2> HIDE DEF out, W, to
  <2>3. Straight(out) /\ Nodes(out) = {l \in links : l.type \in types /\ l.source \in W}
    BY <2>1 DEF ListedOut
  <2>4. Range(out) = Nodes(out) /\ Len(out) = Cardinality(Nodes(out))
    BY <2>1, <2>3, StraightCount
  <2>5. \A l \in links : l.source \in W <=> l.source \in to
    BY <2>2 DEF GraphInv, RelInv, TypeOK
  <2>6. Range(out) = {l \in links : l.type \in types /\ l.source \in to}
    BY <2>3, <2>4, <2>5
  <2>7. Len(out) = Cardinality(Range(out))
    BY <2>4
  <2> QED BY <2>6, <2>7 DEF ListsOut, to, out, k
<1>3. ListsIn(f, types, maxDepth)
  <2> DEFINE in == Listing(f, "incoming", types, maxDepth)
             from == Within(f, E)[k]
  <2>1. Ways("incoming", types) = E
    BY DEF Ways
  <2>2. in \in Seq(Link) /\ ListedIn(in, types, f, from, {})
    <3>1. PICK acc : /\ in = acc.listed /\ acc.listed \in Seq(Link)
                     /\ Listed("incoming", f, types, from, acc)
      BY <2>1, ListedAt DEF k
    <3> HIDE DEF in, from
    <3> QED BY <3>1 DEF Listed, ListedIn
  <2> HIDE DEF in, from
  <2>3. Range(in) = Nodes(in)
    BY <2>2 DEF Range, Nodes
  <2>4. Sources(Nodes(in)) = Into(E, from)
    BY <2>2 DEF ListedIn
  <2> HIDE DEF E
  <2>5. Sources(Range(in)) = Into(E, from)
    BY <2>3, <2>4, Zenon
  <2> QED BY <2>5 DEF ListsIn, in, from, k, E
<1> QED BY <1>2, <1>3

\* relationships --recursive lists, outgoing, each relationship of what the
\* feature leads to and once, and incoming one at least of each feature that
\* leads to it, as deep as it is asked to look and whatever cycles the graph has.
THEOREM ListsWhatItReachesAlways == Spec => []ListsWhatItReaches
<1>1. GraphInv => ListsWhatItReaches
  <2> SUFFICES ASSUME GraphInv, NEW f \in Live, NEW maxDepth \in {0, 1}
               PROVE  LET types == IF maxDepth = 0 THEN Types ELSE Forward
                      IN  ListsOut(f, types, maxDepth) /\ ListsIn(f, types, maxDepth)
    BY DEF ListsWhatItReaches, ListsOut, ListsIn, Sources, Into, Back, Far
  <2>1. maxDepth \in Nat
    OBVIOUS
  <2> QED BY <2>1, ListsOf
<1> QED BY <1>1, GraphInvAlways, PTL
=============================================================================
