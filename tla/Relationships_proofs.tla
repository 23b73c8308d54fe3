------------------------ MODULE Relationships_proofs ------------------------
(***************************************************************************)
(* Proofs about Relationships for every set of features, every type system *)
(* that Config.Validate accepts and every way a command may be cut short:  *)
(* its types; that no relationship comes to lead nowhere; that             *)
(* categories which forbid cycles have none, with automatic inverses and   *)
(* without; that pairs are complete as long as nothing leaves a half of    *)
(* one behind; and that validate --fix unties nothing but what it lists as *)
(* failed.                                                                 *)
(***************************************************************************)
EXTENDS Relationships, TLAPS

-----------------------------------------------------------------------------
(***************************************************************************)
(* Graphs.                                                                 *)
(***************************************************************************)
LEMMA AcyclicSubset ==
    ASSUME NEW E, NEW D, D \subseteq E, Acyclic(E)
    PROVE  Acyclic(D)
BY DEF Acyclic

\* A new edge closes no cycle when its head does not lead to its tail: a set S
\* that meets the closed set C of the head has a sink in S \cap C, any other
\* set keeps the sink it had.
LEMMA AcyclicInsert ==
    ASSUME NEW E, Acyclic(E), NEW s \in Features, NEW t \in Targets,
           ~Reaches(E, t, s)
    PROVE  Acyclic(E \cup {<<s, t>>})
<1> DEFINE D == E \cup {<<s, t>>}
<1>1. PICK C \in SUBSET Targets :
          /\ t \in C /\ s \notin C
          /\ \A e \in E : e[1] \in C => e[2] \in C
  BY DEF Reaches
<1>2. SUFFICES ASSUME NEW S \in SUBSET Features, S # {}
               PROVE  \E n \in S : \A m \in S : <<n, m>> \notin D
  BY DEF Acyclic
<1>3. CASE S \cap C = {}
  <2>1. PICK n \in S : \A m \in S : <<n, m>> \notin E
    BY <1>2 DEF Acyclic
  <2>2. \A m \in S : <<n, m>> # <<s, t>>
    BY <1>1, <1>3
  <2> QED BY <2>1, <2>2
<1>4. CASE S \cap C # {}
  <2>1. PICK n \in S \cap C : \A m \in S \cap C : <<n, m>> \notin E
    <3>1. S \cap C \in SUBSET Features
      BY <1>2
    <3> QED BY <3>1, <1>4 DEF Acyclic
  <2>2. ASSUME NEW m \in S, <<n, m>> \in D
        PROVE  FALSE
    <3>1. <<n, m>> # <<s, t>>
      BY <1>1
    <3>2. <<n, m>> \in E
      BY <2>2, <3>1
    <3>3. m \in C
      <4>1. <<n, m>>[1] \in C => <<n, m>>[2] \in C
        BY <1>1, <3>2
      <4> QED BY <4>1
    <3> QED BY <2>1, <3>2, <3>3
  <2> QED BY <2>2
<1> QED BY <1>3, <1>4

\* An edge out of a node nothing leads to closes no cycle either.
LEMMA AcyclicFresh ==
    ASSUME NEW E, Acyclic(E), NEW f \in Features, NEW x \in Targets, x # f,
           \A e \in E : e[2] \in Targets /\ e[2] # f
    PROVE  Acyclic(E \cup {<<f, x>>})
<1> DEFINE C == Targets \ {f}
<1>1. C \in SUBSET Targets /\ x \in C /\ f \notin C
  OBVIOUS
<1>2. \A e \in E : e[1] \in C => e[2] \in C
  OBVIOUS
<1>3. ~Reaches(E, x, f)
  BY <1>1, <1>2 DEF Reaches
<1> QED BY <1>3, AcyclicInsert

LEMMA EdgesMonotone ==
    ASSUME NEW T, NEW ls, NEW ks, ks \subseteq ls
    PROVE  Edges(T, ks) \subseteq Edges(T, ls)
BY DEF Edges

LEMMA EdgesInsert ==
    ASSUME NEW T, NEW ls, NEW l
    PROVE  Edges(T, ls \cup {l}) =
               IF l.type \in T THEN Edges(T, ls) \cup {<<l.source, l.target>>}
               ELSE Edges(T, ls)
<1>1. CASE l.type \in T
  <2>1. {k \in ls \cup {l} : k.type \in T} = {k \in ls : k.type \in T} \cup {l}
    BY <1>1
  <2> QED BY <1>1, <2>1 DEF Edges
<1>2. CASE l.type \notin T
  <2>1. {k \in ls \cup {l} : k.type \in T} = {k \in ls : k.type \in T}
    BY <1>2
  <2> QED BY <1>2, <2>1 DEF Edges
<1> QED BY <1>1, <1>2
-----------------------------------------------------------------------------
(***************************************************************************)
(* The inductive invariant.  What a command still has to do stays true     *)
(* while it runs: the relationships it will add join two live features,    *)
(* whoever still refers to a feature being deleted is still to be cleaned  *)
(* up, and what a fix has in memory and not on disk are inverses.          *)
(***************************************************************************)
TargetsNamed == \A l \in links : l.target \in Nameable

NoSelfLinks == \A l \in links : l.source # l.target

Joins(l) == auto /\ {l.source, l.target} \subseteq Live /\ l.source # l.target

CallOK ==
    /\ call.op = "inverse" =>
          /\ auto
          /\ {call.link.source, call.link.target} \subseteq Live
          /\ call.link.source # call.link.target
    /\ call.op = "delete" =>
          /\ call.feature \in Live
          /\ \A l \in Incoming(call.feature) : l.source \in call.todo
    /\ call.op = "fix" =>
          /\ \A l \in call.missing :
                /\ auto /\ Paired(l)
                /\ l.source \in Live
                /\ l.source # l.target
          /\ \A l \in call.memory : l \in links \/ Joins(l)

FixCalls == [op : {"fix"}, orphaned : SUBSET Link, missing : SUBSET Link,
             dangling : SUBSET Link, memory : SUBSET Link, failed : SUBSET Link]

RelInv == TypeOK /\ TargetsNamed /\ NoSelfLinks /\ CallOK

\* The shape of the call by its operation.
LEMMA CallTyping ==
    ASSUME call \in Calls
    PROVE  /\ call.op \in {"idle", "inverse", "clear", "delete", "fix"}
           /\ call.op = "idle" => call = Idle
           /\ call.op = "inverse" => call \in [op : {"inverse"}, link : Link]
           /\ call.op = "clear" => call \in [op : {"clear"}, feature : Features,
                                             todo : SUBSET Link]
           /\ call.op = "delete" => call \in [op : {"delete"}, feature : Features,
                                              todo : SUBSET Features]
           /\ call.op = "fix" => call \in FixCalls
BY DEF Calls, FixCalls, Idle

LEMMA OppositeTyping ==
    ASSUME NEW l \in Link, Paired(l), l.target \in Features
    PROVE  /\ Opposite(l) \in Link
           /\ Opposite(l).source = l.target
           /\ Opposite(l).target = l.source
BY ConfigAssumption DEF Opposite, Paired, Link, Targets

LEMMA CanonicalTyping ==
    ASSUME NEW word \in Words
    PROVE  Canonical(word) \in Types
BY ConfigAssumption DEF Canonical, Words

\* A step that adds nothing and leaves the features alone.
LEMMA Shrinking ==
    ASSUME RelInv, links' \subseteq links, UNCHANGED <<auto, status>>,
           tidy' \in BOOLEAN
    PROVE  /\ auto' \in BOOLEAN
           /\ status' \in [Features -> {"new", "live", "deleted"}]
           /\ links' \subseteq Link
           /\ tidy' \in BOOLEAN
           /\ Live' = Live
           /\ (\A l \in links : l.source \in Live)'
           /\ Nameable' = Nameable
           /\ TargetsNamed'
           /\ NoSelfLinks'
BY DEF RelInv, TypeOK, Live, Nameable, TargetsNamed, NoSelfLinks

LEMMA ShrinkingToIdle ==
    ASSUME RelInv, links' \subseteq links, UNCHANGED <<auto, status>>,
           tidy' \in BOOLEAN, call' = Idle
    PROVE  RelInv'
<1>1. call' \in Calls /\ call'.op = "idle"
  BY DEF Calls, Idle
<1>2. CallOK'
  BY <1>1 DEF CallOK
<1>3. TypeOK'
  BY <1>1, Shrinking DEF TypeOK, Calls, Idle
<1> QED BY <1>2, <1>3, Shrinking DEF RelInv

LEMMA LiveNameable == Live \subseteq Nameable
BY DEF Live, Nameable

LEMMA RelInvInit == Init => RelInv
BY DEF Init, RelInv, TypeOK, Calls, Idle, TargetsNamed, NoSelfLinks, CallOK, Live

\* The actions that add a feature or a relationship.
LEMMA RelInvGrow ==
    ASSUME RelInv,
           \/ \E f \in Features : Create(f) \/ \E x \in Targets : CreateUnder(f, x)
           \/ \E s, t \in Features, word \in Words : LinkFeatures(s, t, word)
           \/ LinkInverse
    PROVE  RelInv'
<1>1. ASSUME NEW f \in Features, Create(f)
      PROVE  RelInv'
  <2>1. Live' = Live \cup {f} /\ Nameable' = Nameable \cup {f}
    BY <1>1 DEF Create, RelInv, TypeOK, Live, Nameable
  <2>2. call'.op = "idle"
    BY <1>1 DEF Create, Idle
  <2>3. CallOK'
    BY <2>2 DEF CallOK
  <2>4. TypeOK'
    BY <1>1, <2>1 DEF Create, RelInv, TypeOK
  <2> QED BY <1>1, <2>1, <2>3, <2>4 DEF Create, RelInv, TargetsNamed, NoSelfLinks
<1>2. ASSUME NEW f \in Features, NEW x \in Targets, CreateUnder(f, x)
      PROVE  RelInv'
  <2> DEFINE l == [source |-> f, type |-> ContainedBy, target |-> x]
  <2>1. /\ Live' = Live \cup {f} /\ f \notin Live /\ x # f
        /\ Nameable' = Nameable \cup {f} /\ x \in Nameable
    BY <1>2, ConfigAssumption DEF CreateUnder, RelInv, TypeOK, Live, Nameable
  <2>2. call'.op = "idle"
    BY <1>2 DEF CreateUnder, Idle
  <2>3. CallOK'
    BY <2>2 DEF CallOK
  <2>4. l \in Link /\ links' = links \cup {l}
    <3>1. l \in Link
      BY ConfigAssumption DEF Link
    <3>2. links' = links \cup {l}
      BY <1>2 DEF CreateUnder
    <3> QED BY <3>1, <3>2
  <2>5. TypeOK'
    <3>1. /\ status' = [status EXCEPT ![f] = "live"]
          /\ tidy' = FALSE
          /\ UNCHANGED <<auto, call>>
      BY <1>2 DEF CreateUnder
    <3>2. status' \in [Features -> {"new", "live", "deleted"}]
      BY <3>1 DEF RelInv, TypeOK
    <3>3. links' \subseteq Link /\ \A k \in links' : k.source \in Live'
      <4>1. l.source = f
        OBVIOUS
      <4> QED BY <2>1, <2>4, <4>1 DEF RelInv, TypeOK
    <3> QED BY <3>1, <3>2, <3>3 DEF RelInv, TypeOK
  <2>6. TargetsNamed'
    <3>1. l.target = x
      OBVIOUS
    <3> QED BY <2>1, <2>4, <3>1 DEF RelInv, TargetsNamed
  <2>7. NoSelfLinks'
    <3>1. l.source # l.target
      BY <2>1
    <3> QED BY <2>4, <3>1 DEF RelInv, NoSelfLinks
  <2> QED BY <2>3, <2>5, <2>6, <2>7 DEF RelInv
<1>3. ASSUME NEW s \in Features, NEW t \in Features, NEW word \in Words,
             LinkFeatures(s, t, word)
      PROVE  RelInv'
  <2> DEFINE l == [source |-> s, type |-> Canonical(word), target |-> t]
  <2>1. /\ l \in Link
        /\ links' = links \cup {l}
        /\ s \in Live /\ t \in Live /\ s # t
        /\ UNCHANGED <<auto, status>>
    BY <1>3, CanonicalTyping DEF LinkFeatures, Link, Targets
  <2>2. Live' = Live /\ Nameable' = Nameable
    BY <2>1 DEF Live, Nameable
  <2>3. TargetsNamed' /\ NoSelfLinks'
    BY <2>1, <2>2, LiveNameable DEF RelInv, TargetsNamed, NoSelfLinks
  <2>4. tidy' \in BOOLEAN
    BY <1>3 DEF LinkFeatures, RelInv, TypeOK
  <2>5. CASE WantsInverse(word) /\ Opposite(l) \notin links
    <3>1. call' = [op |-> "inverse", link |-> Opposite(l)]
      BY <1>3, <2>5 DEF LinkFeatures
    <3>2. word \in Types /\ Paired(l) /\ auto
      BY <2>5 DEF WantsInverse, Paired, Canonical
    <3>3. /\ Opposite(l) \in Link
          /\ Opposite(l).source = t
          /\ Opposite(l).target = s
      BY <2>1, <3>2, OppositeTyping
    <3>4. call' \in Calls
      BY <3>1, <3>3 DEF Calls
    <3>5. TypeOK'
      BY <2>1, <2>2, <2>4, <3>4 DEF RelInv, TypeOK
    <3>6. call'.op = "inverse" /\ call'.link = Opposite(l)
      BY <3>1
    <3>7. CallOK'
      BY <2>1, <2>2, <3>2, <3>3, <3>6 DEF CallOK
    <3> QED BY <2>3, <3>5, <3>7 DEF RelInv
  <2>6. CASE ~(WantsInverse(word) /\ Opposite(l) \notin links)
    <3>1. call' = Idle
      BY <1>3, <2>6 DEF LinkFeatures
    <3>2. call' \in Calls /\ call'.op = "idle"
      BY <3>1 DEF Calls, Idle
    <3>3. CallOK'
      BY <3>2 DEF CallOK
    <3>4. TypeOK'
      BY <2>1, <2>2, <2>4, <3>2 DEF RelInv, TypeOK
    <3> QED BY <2>3, <3>3, <3>4 DEF RelInv
  <2> QED BY <2>5, <2>6
<1>4. ASSUME LinkInverse
      PROVE  RelInv'
  <2>1. call.link \in Link
    BY <1>4, CallTyping DEF LinkInverse, RelInv, TypeOK
  <2>2. /\ call.link.source \in Live /\ call.link.target \in Live
        /\ call.link.source # call.link.target
    BY <1>4 DEF LinkInverse, RelInv, CallOK
  <2>3. links' = links \cup {call.link} /\ UNCHANGED <<auto, status, tidy>>
    BY <1>4 DEF LinkInverse
  <2>4. Live' = Live /\ Nameable' = Nameable
    BY <2>3 DEF Live, Nameable
  <2>5. call' \in Calls /\ call'.op = "idle"
    BY <1>4 DEF LinkInverse, Calls, Idle
  <2>6. TypeOK'
    BY <2>1, <2>2, <2>3, <2>4, <2>5 DEF RelInv, TypeOK
  <2>7. TargetsNamed' /\ NoSelfLinks'
    BY <2>2, <2>3, <2>4, LiveNameable DEF RelInv, TargetsNamed, NoSelfLinks
  <2>8. CallOK'
    BY <2>5 DEF CallOK
  <2> QED BY <2>6, <2>7, <2>8 DEF RelInv
<1> QED BY <1>1, <1>2, <1>3, <1>4

\* The actions of clear and delete before the file is removed.
LEMMA RelInvClearDelete ==
    ASSUME RelInv,
           \/ \E f \in Features : ClearBegin(f) \/ DeleteBegin(f)
           \/ call.op = "clear"
                 /\ \E l \in call.todo : ClearOpposite(l) \/ ClearOppositeFails(l)
           \/ call.op = "delete" /\ \E g \in call.todo : DeleteCleanup(g)
    PROVE  RelInv'
<1>1. ASSUME NEW f \in Features, ClearBegin(f)
      PROVE  RelInv'
  <2>1. /\ call'.op = "clear"
        /\ call' \in [op : {"clear"}, feature : Features, todo : SUBSET Link]
    BY <1>1 DEF ClearBegin, RelInv, TypeOK
  <2>2. call' \in Calls
    BY <2>1 DEF Calls
  <2>3. CallOK'
    BY <2>1 DEF CallOK
  <2> QED BY <1>1, <2>2, <2>3, Shrinking DEF ClearBegin, RelInv, TypeOK
<1>2. ASSUME NEW f \in Features, DeleteBegin(f)
      PROVE  RelInv'
  <2> DEFINE referring == {l.source : l \in Incoming(f)} \ {f}
  <2>1. call' = [op |-> "delete", feature |-> f, todo |-> referring]
    BY <1>2 DEF DeleteBegin
  <2>2. referring \in SUBSET Features
    BY DEF Incoming, RelInv, TypeOK, Link
  <2>3. call' \in Calls
    BY <2>1, <2>2 DEF Calls
  <2>4. UNCHANGED <<auto, status, links, tidy>> /\ f \in Live
    BY <1>2 DEF DeleteBegin
  <2>5. Live' = Live /\ Incoming(f)' = Incoming(f)
    BY <2>4 DEF Live, Incoming
  <2>6. \A l \in Incoming(f) : l.source \in referring
    BY DEF Incoming, RelInv, NoSelfLinks
  <2>7. call'.op = "delete" /\ call'.feature = f /\ call'.todo = referring
    BY <2>1
  <2>8. CallOK'
    BY <2>4, <2>5, <2>6, <2>7 DEF CallOK, Incoming
  <2> QED BY <2>3, <2>4, <2>8, Shrinking DEF RelInv, TypeOK
<1>3. ASSUME call.op = "clear", NEW l \in call.todo,
             ClearOpposite(l) \/ ClearOppositeFails(l)
      PROVE  RelInv'
  <2>1. call \in [op : {"clear"}, feature : Features, todo : SUBSET Link]
    BY <1>3, CallTyping DEF RelInv, TypeOK
  <2>2. call' = [call EXCEPT !.todo = @ \ {l}]
    BY <1>3 DEF ClearOpposite, ClearOppositeFails
  <2>3. /\ call'.op = "clear"
        /\ call' \in [op : {"clear"}, feature : Features, todo : SUBSET Link]
    BY <2>1, <2>2
  <2>4. call' \in Calls
    BY <2>3 DEF Calls
  <2>5. CallOK'
    BY <2>3 DEF CallOK
  <2>6. links' \subseteq links /\ UNCHANGED <<auto, status>> /\ tidy' \in BOOLEAN
    BY <1>3 DEF ClearOpposite, ClearOppositeFails, RelInv, TypeOK
  <2> QED BY <2>4, <2>5, <2>6, Shrinking DEF RelInv, TypeOK
<1>4. ASSUME call.op = "delete", NEW g \in call.todo, DeleteCleanup(g)
      PROVE  RelInv'
  <2>1. call \in [op : {"delete"}, feature : Features, todo : SUBSET Features]
    BY <1>4, CallTyping DEF RelInv, TypeOK
  <2>2. /\ call' = [call EXCEPT !.todo = @ \ {g}]
        /\ links' = links \ (Outgoing(g) \cap Incoming(call.feature))
        /\ UNCHANGED <<auto, status, tidy>>
    BY <1>4 DEF DeleteCleanup
  <2>3. /\ call'.op = "delete"
        /\ call'.feature = call.feature
        /\ call'.todo = call.todo \ {g}
        /\ call' \in [op : {"delete"}, feature : Features, todo : SUBSET Features]
    BY <2>1, <2>2
  <2>4. call' \in Calls
    BY <2>3 DEF Calls
  <2>5. Live' = Live
    BY <2>2 DEF Live
  <2>6. CallOK'
    <3>1. call.feature \in Live /\ \A l \in Incoming(call.feature) : l.source \in call.todo
      BY <1>4 DEF RelInv, CallOK
    <3>2. \A l \in links' : l.target = call.feature => l.source \in call.todo \ {g}
      BY <2>2, <3>1 DEF Incoming, Outgoing
    <3> QED BY <2>3, <2>5, <3>1, <3>2 DEF CallOK, Incoming
  <2>7. links' \subseteq links /\ tidy' \in BOOLEAN
    BY <2>2 DEF RelInv, TypeOK
  <2> QED BY <2>2, <2>4, <2>6, <2>7, Shrinking DEF RelInv, TypeOK
<1> QED BY <1>1, <1>2, <1>3, <1>4

\* The removal of the file: nobody refers to the feature any more.
LEMMA RelInvDeleteFile ==
    ASSUME RelInv, DeleteFile
    PROVE  RelInv'
<1>1. call \in [op : {"delete"}, feature : Features, todo : SUBSET Features]
  BY CallTyping DEF RelInv, TypeOK, DeleteFile
<1>2. /\ status' = [status EXCEPT ![call.feature] = "deleted"]
      /\ links' = links \ Outgoing(call.feature)
      /\ UNCHANGED <<auto, tidy>>
      /\ call' = Idle
  BY DEF DeleteFile
<1>3. Live' = Live \ {call.feature}
  BY <1>1, <1>2 DEF Live, RelInv, TypeOK
<1>4. \A l \in links : l.target # call.feature
  BY DEF DeleteFile, RelInv, CallOK, Incoming
<1>5. call' \in Calls /\ call'.op = "idle"
  BY <1>2 DEF Calls, Idle
<1>6. \A l \in links' : l \in links /\ l.source # call.feature
  BY <1>2 DEF Outgoing
<1>7. status' \in [Features -> {"new", "live", "deleted"}]
  BY <1>1, <1>2 DEF RelInv, TypeOK
<1>8. TypeOK'
  BY <1>2, <1>3, <1>5, <1>6, <1>7 DEF RelInv, TypeOK
<1>9. TargetsNamed'
  <2>1. Nameable' = Nameable
    BY <1>1, <1>2 DEF Nameable, RelInv, TypeOK, CallOK, DeleteFile, Live
  <2> QED BY <1>6, <2>1 DEF RelInv, TargetsNamed
<1>10. NoSelfLinks' /\ CallOK'
  BY <1>5, <1>6 DEF RelInv, NoSelfLinks, CallOK
<1> QED BY <1>8, <1>9, <1>10 DEF RelInv

\* What a fix in memory and the save after it, failed or not, leave: the files
\* get nothing that is not in memory, and hold what memory kept.
LEMMA FixEffect ==
    ASSUME RelInv, NEW f, NEW next, Fix(next, f) \/ FixFails(next)
    PROVE  /\ call' = next
           /\ auto' = auto /\ status' = status /\ Live' = Live
           /\ tidy' \in BOOLEAN /\ (tidy' => tidy)
           /\ links' \subseteq links \cup next.memory
           /\ links \cap next.memory \subseteq links'
<1>1. call' = next /\ auto' = auto /\ status' = status
  BY DEF Fix, FixFails
<1>4. tidy \in BOOLEAN /\ (tidy' = tidy \/ tidy' = FALSE)
  BY DEF Fix, FixFails, RelInv, TypeOK
<1>5. tidy' \in BOOLEAN /\ (tidy' => tidy)
  <2>1. CASE tidy' = tidy
    BY <1>4, <2>1
  <2>2. CASE tidy' = FALSE
    BY <2>2
  <2> QED BY <1>4, <2>1, <2>2
<1>2. CASE links' = links
  BY <1>1, <1>2, <1>5 DEF Live
<1>3. CASE links' = (links \ Outgoing(f)) \cup {l \in next.memory : l.source = f}
  BY <1>1, <1>3, <1>5 DEF Live, Outgoing
<1> QED BY <1>2, <1>3 DEF Fix, FixFails

\* Such a step keeps the invariant when what is new in memory are inverses.
LEMMA FixKeepsRelInv ==
    ASSUME RelInv, call.op = "fix", NEW f, NEW next \in FixCalls,
           Fix(next, f) \/ FixFails(next),
           next.missing \subseteq call.missing,
           \A l \in next.memory : l \in call.memory \/ Joins(l)
    PROVE  RelInv'
<1>1. /\ call' = next
      /\ auto' = auto /\ status' = status /\ Live' = Live
      /\ tidy' \in BOOLEAN
      /\ links' \subseteq links \cup next.memory
      /\ links \cap next.memory \subseteq links'
  BY FixEffect
<1>2. next.op = "fix" /\ next.memory \subseteq Link /\ next \in Calls
  BY DEF FixCalls, Calls
<1>3. \A l \in next.memory : l \in links \/ Joins(l)
  BY DEF RelInv, CallOK
<1>4. \A l : Joins(l)' <=> Joins(l)
  BY <1>1 DEF Joins
<1>5. CallOK'
  <2>1. \A l \in next.missing : auto /\ Paired(l) /\ l.source \in Live /\ l.source # l.target
    BY DEF RelInv, CallOK
  <2> QED BY <1>1, <1>2, <1>3, <1>4, <2>1 DEF CallOK, Paired
<1>6. \A l \in links' : l \in links \/ Joins(l)
  BY <1>1, <1>3
<1>7. TypeOK'
  BY <1>1, <1>2, <1>6 DEF RelInv, TypeOK, Joins
<1>8. TargetsNamed'
  <2>1. Nameable' = Nameable
    BY <1>1 DEF Nameable
  <2> QED BY <1>6, <2>1, LiveNameable DEF RelInv, TargetsNamed, Joins
<1>9. NoSelfLinks'
  BY <1>6 DEF RelInv, NoSelfLinks, Joins
<1> QED BY <1>5, <1>7, <1>8, <1>9 DEF RelInv

\* The call after an issue was worked through.
LEMMA NextFixCalls ==
    ASSUME call \in FixCalls, NEW l
    PROVE  /\ WithoutOrphan(l) \in FixCalls
           /\ WithoutOrphan(l).orphaned = call.orphaned \ {l}
           /\ WithoutOrphan(l).missing = call.missing
           /\ WithoutOrphan(l).dangling = call.dangling
           /\ WithoutOrphan(l).memory =
                  {k \in call.memory : k.source # l.source \/ k.target # l.target}
           /\ WithoutOrphan(l).failed = call.failed
           /\ Opposite(l) \in Link => WithInverse(l) \in FixCalls
           /\ WithInverse(l).op = "fix"
           /\ WithInverse(l).orphaned = call.orphaned
           /\ WithInverse(l).missing = call.missing \ {l}
           /\ WithInverse(l).dangling = call.dangling
           /\ WithInverse(l).memory = call.memory \cup {Opposite(l)}
           /\ WithInverse(l).failed = call.failed
           /\ WithoutDangling(l) \in FixCalls
           /\ WithoutDangling(l).orphaned = call.orphaned
           /\ WithoutDangling(l).missing = call.missing
           /\ WithoutDangling(l).dangling = call.dangling \ {l}
           /\ WithoutDangling(l).memory = call.memory \ {l}
           /\ WithoutDangling(l).failed = call.failed
<1>1. {k \in call.memory : k.source # l.source \/ k.target # l.target} \subseteq Link
  BY DEF FixCalls
<1>2. Opposite(l) \in Link => call.memory \cup {Opposite(l)} \subseteq Link
  BY DEF FixCalls
<1>3. /\ WithoutOrphan(l) \in FixCalls
      /\ WithoutOrphan(l).orphaned = call.orphaned \ {l}
      /\ WithoutOrphan(l).missing = call.missing
      /\ WithoutOrphan(l).dangling = call.dangling
      /\ WithoutOrphan(l).memory =
             {k \in call.memory : k.source # l.source \/ k.target # l.target}
      /\ WithoutOrphan(l).failed = call.failed
  <2> DEFINE M == {k \in call.memory : k.source # l.source \/ k.target # l.target}
  <2>1. WithoutOrphan(l) = [call EXCEPT !.orphaned = @ \ {l}, !.memory = M]
    BY DEF WithoutOrphan
  <2>2. M \subseteq Link
    BY <1>1
  <2> HIDE DEF M
  <2>3. /\ WithoutOrphan(l) \in FixCalls
        /\ WithoutOrphan(l).orphaned = call.orphaned \ {l}
        /\ WithoutOrphan(l).missing = call.missing
        /\ WithoutOrphan(l).dangling = call.dangling
        /\ WithoutOrphan(l).memory = M
        /\ WithoutOrphan(l).failed = call.failed
    BY <2>1, <2>2 DEF FixCalls
  <2> QED BY <2>3 DEF M
<1>4. /\ Opposite(l) \in Link => WithInverse(l) \in FixCalls
      /\ WithInverse(l).op = "fix"
      /\ WithInverse(l).orphaned = call.orphaned
      /\ WithInverse(l).missing = call.missing \ {l}
      /\ WithInverse(l).dangling = call.dangling
      /\ WithInverse(l).memory = call.memory \cup {Opposite(l)}
      /\ WithInverse(l).failed = call.failed
  BY <1>2 DEF WithInverse, FixCalls
<1>5. /\ WithoutDangling(l) \in FixCalls
      /\ WithoutDangling(l).orphaned = call.orphaned
      /\ WithoutDangling(l).missing = call.missing
      /\ WithoutDangling(l).dangling = call.dangling \ {l}
      /\ WithoutDangling(l).memory = call.memory \ {l}
      /\ WithoutDangling(l).failed = call.failed
  BY DEF WithoutDangling, FixCalls
<1> QED BY <1>3, <1>4, <1>5

\* The call after an inverse failed: as after it was added, and on the list.
LEMMA NextFailed ==
    ASSUME call \in FixCalls, NEW l \in Link, Opposite(l) \in Link,
           NEW next, next = [WithInverse(l) EXCEPT !.failed = @ \cup {l}]
    PROVE  /\ next \in FixCalls
           /\ next.orphaned = call.orphaned
           /\ next.missing = call.missing \ {l}
           /\ next.dangling = call.dangling
           /\ next.memory = call.memory \cup {Opposite(l)}
           /\ next.failed = call.failed \cup {l}
<1>1. /\ WithInverse(l) \in FixCalls
      /\ WithInverse(l).orphaned = call.orphaned
      /\ WithInverse(l).missing = call.missing \ {l}
      /\ WithInverse(l).dangling = call.dangling
      /\ WithInverse(l).memory = call.memory \cup {Opposite(l)}
      /\ WithInverse(l).failed = call.failed
  BY NextFixCalls
<1> QED BY <1>1 DEF FixCalls

\* An inverse that is added joins two live features.
LEMMA InverseJoins ==
    ASSUME RelInv, call.op = "fix", NEW l \in call.missing, l.target \in Live
    PROVE  /\ l \in Link /\ Opposite(l) \in Link
           /\ Joins(Opposite(l))
<1>1. l \in Link /\ auto /\ Paired(l) /\ l.source \in Live /\ l.source # l.target
  BY CallTyping DEF RelInv, TypeOK, CallOK, FixCalls
<1>2. Opposite(l) \in Link /\ Opposite(l).source = l.target /\ Opposite(l).target = l.source
  BY <1>1, OppositeTyping DEF Live
<1> QED BY <1>1, <1>2 DEF Joins

FixSteps ==
    call.op = "fix" /\ (\/ \E l \in call.orphaned : FixOrphaned(l)
                        \/ \E l \in call.missing : FixMissing(l) \/ FixMissingElsewhere(l)
                        \/ \E l \in call.dangling : FixDangling(l))

\* What validate finds to fix.
LEMMA RelInvFix ==
    ASSUME RelInv, FixBegin \/ FixSteps
    PROVE  RelInv'
<1>1. ASSUME FixBegin
      PROVE  RelInv'
  <2>1. /\ call' = [op |-> "fix", orphaned |-> Orphaned, missing |-> MissingInverse,
                    dangling |-> DanglingInverse, memory |-> links, failed |-> {}]
        /\ UNCHANGED <<auto, status, links, tidy>>
    BY <1>1 DEF FixBegin
  <2>2. /\ Orphaned \subseteq links
        /\ MissingInverse \subseteq links
        /\ DanglingInverse \subseteq links
    BY DEF Orphaned, MissingInverse, DanglingInverse
  <2>3. /\ call' \in FixCalls
        /\ call'.op = "fix"
        /\ call'.missing = MissingInverse /\ call'.memory = links
    BY <2>1, <2>2 DEF RelInv, TypeOK, FixCalls
  <2>4. call' \in Calls
    BY <2>3 DEF Calls, FixCalls
  <2>5. Live' = Live
    BY <2>1 DEF Live
  <2>6. \A l \in MissingInverse : /\ auto /\ Paired(l)
                                  /\ l.source \in Live
                                  /\ l.source # l.target
    BY DEF MissingInverse, RelInv, TypeOK, NoSelfLinks
  <2>7. CallOK'
    BY <2>1, <2>3, <2>5, <2>6 DEF CallOK, Paired
  <2> QED BY <2>1, <2>4, <2>7, Shrinking DEF RelInv, TypeOK
<1>2. ASSUME call.op = "fix" PROVE call \in FixCalls
  BY <1>2, CallTyping DEF RelInv, TypeOK
<1>3. ASSUME call.op = "fix", NEW l \in call.orphaned, FixOrphaned(l)
      PROVE  RelInv'
  <2> DEFINE next == WithoutOrphan(l)
  <2>1. /\ next \in FixCalls /\ next.missing = call.missing
        /\ next.memory \subseteq call.memory
    BY <1>2, <1>3, NextFixCalls
  <2>2. Fix(next, l.source) \/ FixFails(next)
    BY <1>3 DEF FixOrphaned
  <2> HIDE DEF next
  <2> QED BY <1>3, <2>1, <2>2, FixKeepsRelInv
<1>4. ASSUME call.op = "fix", NEW l \in call.dangling, FixDangling(l)
      PROVE  RelInv'
  <2> DEFINE next == WithoutDangling(l)
  <2>1. /\ next \in FixCalls /\ next.missing = call.missing
        /\ next.memory \subseteq call.memory
    BY <1>2, <1>4, NextFixCalls
  <2>2. Fix(next, l.source) \/ FixFails(next)
    BY <1>4 DEF FixDangling
  <2> HIDE DEF next
  <2> QED BY <1>4, <2>1, <2>2, FixKeepsRelInv
<1>5. ASSUME call.op = "fix", NEW l \in call.missing, FixMissing(l)
      PROVE  RelInv'
  <2>1. l.target \in Live
    BY <1>5 DEF FixMissing
  <2>2. l \in Link /\ Opposite(l) \in Link /\ Joins(Opposite(l))
    BY <1>5, <2>1, InverseJoins
  <2>3. PICK next : /\ Fix(next, l.target) \/ FixFails(next)
                    /\ \/ next = WithInverse(l)
                       \/ next = [WithInverse(l) EXCEPT !.failed = @ \cup {l}]
    BY <1>5 DEF FixMissing
  <2>4. /\ next \in FixCalls /\ next.missing = call.missing \ {l}
        /\ next.memory = call.memory \cup {Opposite(l)}
    <3>1. CASE next = WithInverse(l)
      BY <1>2, <1>5, <2>2, <3>1, NextFixCalls
    <3>2. CASE next = [WithInverse(l) EXCEPT !.failed = @ \cup {l}]
      BY <1>2, <1>5, <2>2, <3>2, NextFailed
    <3> QED BY <2>3, <3>1, <3>2
  <2> QED BY <1>5, <2>2, <2>3, <2>4, FixKeepsRelInv
<1>6. ASSUME call.op = "fix", NEW l \in call.missing, FixMissingElsewhere(l)
      PROVE  RelInv'
  <2>1. /\ call' = [call EXCEPT !.missing = @ \ {l}, !.failed = @ \cup {l}]
        /\ UNCHANGED <<auto, status, links, tidy>>
    BY <1>6 DEF FixMissingElsewhere
  <2>2. l \in Link
    BY <1>2, <1>6 DEF FixCalls
  <2>3. /\ call' \in FixCalls /\ call'.op = "fix"
        /\ call'.missing = call.missing \ {l} /\ call'.memory = call.memory
    BY <1>2, <1>6, <2>1, <2>2 DEF FixCalls
  <2>4. call' \in Calls
    BY <2>3 DEF Calls, FixCalls
  <2>5. Live' = Live
    BY <2>1 DEF Live
  <2>6. CallOK'
    BY <1>6, <2>1, <2>3, <2>5 DEF RelInv, CallOK, Joins, Paired
  <2> QED BY <2>1, <2>4, <2>6, Shrinking DEF RelInv, TypeOK
<1> QED BY <1>1, <1>3, <1>4, <1>5, <1>6 DEF FixSteps

\* What a fix adds to the files and to memory joins two live features, and is
\* one relationship at a time.
FixGrowth ==
    /\ auto' = auto /\ status' = status /\ Live' = Live
    /\ tidy' => tidy
    /\ call' \in FixCalls /\ call'.op = "fix"
    /\ \A l \in links' \cup call'.memory : l \in links \/ Joins(l)
    /\ \E k : links' \cup call'.memory \subseteq links \cup call.memory \cup {k}

LEMMA FixAdds ==
    ASSUME RelInv, FixSteps
    PROVE  FixGrowth
<1>1. call.op = "fix" /\ call \in FixCalls
  BY CallTyping DEF FixSteps, RelInv, TypeOK
<1>2. \A l \in call.memory : l \in links \/ Joins(l)
  BY <1>1 DEF RelInv, CallOK
<1>3. ASSUME NEW next \in FixCalls, NEW f, Fix(next, f) \/ FixFails(next), NEW k,
             next.memory \subseteq call.memory \cup {k},
             \A l \in next.memory : l \in call.memory \/ Joins(l)
      PROVE  FixGrowth
  <2>1. /\ call' = next
        /\ auto' = auto /\ status' = status /\ Live' = Live
        /\ tidy' => tidy
        /\ links' \subseteq links \cup next.memory
    BY <1>3, FixEffect
  <2>2. next.op = "fix"
    BY DEF FixCalls
  <2>3. links' \cup call'.memory \subseteq links \cup call.memory \cup {k}
    BY <1>3, <2>1
  <2>4. \A l \in links' \cup call'.memory : l \in links \/ Joins(l)
    BY <1>2, <1>3, <2>1
  <2> QED BY <1>3, <2>1, <2>2, <2>3, <2>4 DEF FixGrowth
<1>4. ASSUME NEW l \in call.orphaned, FixOrphaned(l)
      PROVE  FixGrowth
  <2> DEFINE next == WithoutOrphan(l)
  <2>1. next \in FixCalls /\ next.memory \subseteq call.memory
    BY <1>1, NextFixCalls
  <2>2. Fix(next, l.source) \/ FixFails(next)
    BY <1>4 DEF FixOrphaned
  <2> HIDE DEF next
  <2> QED BY <1>3, <2>1, <2>2
<1>5. ASSUME NEW l \in call.dangling, FixDangling(l)
      PROVE  FixGrowth
  <2> DEFINE next == WithoutDangling(l)
  <2>1. next \in FixCalls /\ next.memory \subseteq call.memory
    BY <1>1, NextFixCalls
  <2>2. Fix(next, l.source) \/ FixFails(next)
    BY <1>5 DEF FixDangling
  <2> HIDE DEF next
  <2> QED BY <1>3, <2>1, <2>2
<1>6. ASSUME NEW l \in call.missing, FixMissing(l)
      PROVE  FixGrowth
  <2>1. l \in Link /\ Opposite(l) \in Link /\ Joins(Opposite(l))
    BY <1>1, <1>6, InverseJoins DEF FixMissing
  <2>2. PICK next : /\ Fix(next, l.target) \/ FixFails(next)
                    /\ \/ next = WithInverse(l)
                       \/ next = [WithInverse(l) EXCEPT !.failed = @ \cup {l}]
    BY <1>6 DEF FixMissing
  <2>3. next \in FixCalls /\ next.memory = call.memory \cup {Opposite(l)}
    <3>1. CASE next = WithInverse(l)
      BY <1>1, <2>1, <3>1, NextFixCalls
    <3>2. CASE next = [WithInverse(l) EXCEPT !.failed = @ \cup {l}]
      BY <1>1, <2>1, <3>2, NextFailed
    <3> QED BY <2>2, <3>1, <3>2
  <2> QED BY <1>3, <2>1, <2>2, <2>3
<1>7. ASSUME NEW l \in call.missing, FixMissingElsewhere(l)
      PROVE  FixGrowth
  <2>1. /\ call' = [call EXCEPT !.missing = @ \ {l}, !.failed = @ \cup {l}]
        /\ UNCHANGED <<auto, status, links, tidy>>
    BY <1>7 DEF FixMissingElsewhere
  <2>2. l \in Link
    BY <1>1 DEF FixCalls
  <2>3. call' \in FixCalls /\ call'.op = "fix" /\ call'.memory = call.memory
    BY <1>1, <2>1, <2>2 DEF FixCalls
  <2>4. links' \cup call'.memory \subseteq links \cup call.memory \cup {l}
    BY <2>1, <2>3
  <2> QED BY <1>2, <2>1, <2>3, <2>4 DEF FixGrowth, Live
<1> QED BY <1>4, <1>5, <1>6, <1>7 DEF FixSteps

LEMMA RelInvStep ==
    ASSUME RelInv, [Next]_vars
    PROVE  RelInv'
<1> USE DEF RelInv
<1>1. CASE \E l \in links : Unlink(l)
  BY <1>1, ShrinkingToIdle DEF Unlink, TypeOK
<1>2. CASE ClearOwn
  BY <1>2, ShrinkingToIdle DEF ClearOwn, TypeOK
<1>3. CASE FixDone
  BY <1>3, ShrinkingToIdle DEF FixDone, TypeOK
<1>4. CASE Stop
  BY <1>4, ShrinkingToIdle DEF Stop
<1>5. CASE UNCHANGED vars
  BY <1>5 DEF vars, TypeOK, TargetsNamed, Nameable, NoSelfLinks, CallOK, Joins, Live, Incoming, Paired
<1> QED BY <1>1, <1>2, <1>3, <1>4, <1>5, RelInvGrow, RelInvClearDelete,
           RelInvDeleteFile, RelInvFix DEF Next, FixSteps
-----------------------------------------------------------------------------
LEMMA RelInvAlways == Spec => []RelInv
<1>1. Init => RelInv
  BY RelInvInit
<1>2. RelInv /\ [Next]_vars => RelInv'
  BY RelInvStep
<1> QED BY <1>1, <1>2, PTL DEF Spec

\* The variables keep their types, and every relationship starts at a live
\* feature: the record of what a command has left to do fits the command.
THEOREM TypeCorrect == Spec => []TypeOK
<1>1. RelInv => TypeOK
  BY DEF RelInv
<1> QED BY <1>1, RelInvAlways, PTL

\* No step makes a relationship lead nowhere that led to a feature: what is
\* added leads to one, unless its own feature is new, and a file goes when
\* nobody refers to it any more.
LEMMA NoneOrphanedStep ==
    ASSUME RelInv, [Next]_vars
    PROVE  \A l \in Orphaned' \ Orphaned : l.source \notin Live
<1>1. ASSUME Live \subseteq Live',
             \A l \in links' \ links : l.target \in Live \/ l.source \notin Live
      PROVE  \A l \in Orphaned' \ Orphaned : l.source \notin Live
  BY <1>1 DEF Orphaned, Seen
<1>2. ASSUME Live' = Live, links' \subseteq links
      PROVE  \A l \in Orphaned' \ Orphaned : l.source \notin Live
  BY <1>1, <1>2
<1>3. CASE \E f \in Features : Create(f)
  BY <1>1, <1>3 DEF Create, RelInv, TypeOK, Live
<1>4. ASSUME NEW f \in Features, NEW x \in Targets, CreateUnder(f, x)
      PROVE  \A l \in Orphaned' \ Orphaned : l.source \notin Live
  <2>1. Live \subseteq Live' /\ f \notin Live
    BY <1>4 DEF CreateUnder, RelInv, TypeOK, Live
  <2>2. links' = links \cup {[source |-> f, type |-> ContainedBy, target |-> x]}
    BY <1>4 DEF CreateUnder
  <2> QED BY <1>1, <2>1, <2>2
<1>5. ASSUME NEW s \in Features, NEW t \in Features, NEW word \in Words,
             LinkFeatures(s, t, word)
      PROVE  \A l \in Orphaned' \ Orphaned : l.source \notin Live
  <2>1. Live' = Live /\ t \in Live
    BY <1>5 DEF LinkFeatures, Live
  <2>2. links' = links \cup {[source |-> s, type |-> Canonical(word), target |-> t]}
    BY <1>5 DEF LinkFeatures
  <2> QED BY <1>1, <2>1, <2>2
<1>6. CASE LinkInverse
  <2>1. Live' = Live /\ links' = links \cup {call.link} /\ call.link.target \in Live
    BY <1>6 DEF LinkInverse, Live, RelInv, CallOK
  <2> QED BY <1>1, <2>1
<1>7. CASE DeleteFile
  <2>1. call.feature \in Features /\ \A l \in links : l.target # call.feature
    BY <1>7 DEF DeleteFile, RelInv, CallOK, Incoming, Live
  <2>2. Live' = Live \ {call.feature} /\ links' \subseteq links
    BY <1>7, <2>1 DEF DeleteFile, RelInv, TypeOK, Live
  <2> QED BY <2>1, <2>2 DEF Orphaned, Seen
<1>8. CASE FixSteps
  <2>1. Live' = Live /\ \A l \in links' : l \in links \/ l.target \in Live
    BY <1>8, FixAdds DEF FixGrowth, Joins
  <2> QED BY <1>1, <2>1
<1>9. CASE \/ \E f \in Features : ClearBegin(f) \/ DeleteBegin(f)
           \/ \E l \in links : Unlink(l)
           \/ \E l \in call.todo : ClearOpposite(l) \/ ClearOppositeFails(l)
           \/ \E g \in call.todo : DeleteCleanup(g)
           \/ ClearOwn \/ FixBegin \/ FixDone \/ Stop \/ UNCHANGED vars
  <2>1. status' = status /\ links' \subseteq links
    BY <1>9 DEF ClearBegin, DeleteBegin, Unlink, ClearOpposite, ClearOppositeFails, DeleteCleanup,
                ClearOwn, FixBegin, FixDone, Stop, vars
  <2> QED BY <1>2, <2>1 DEF Live
<1> QED BY <1>3, <1>4, <1>5, <1>6, <1>7, <1>8, <1>9 DEF Next, FixSteps

\* A delete, a link, a fix or any other command, wherever it is cut short,
\* leaves no relationship to a feature that is gone: the only ones that lead
\* nowhere are those create --parent was told to write.
THEOREM NoneOrphanedAlways == Spec => NoneOrphaned
<1>1. RelInv /\ [Next]_vars => [\A l \in Orphaned' \ Orphaned : l.source \notin Live]_vars
  BY NoneOrphanedStep
<1> QED BY <1>1, RelInvAlways, PTL DEF Spec, NoneOrphaned

(***************************************************************************)
(* Acyclicity.  Only three actions add edges while auto_create_inverse is  *)
(* off, and none of them closes a cycle: a new feature's edge starts where *)
(* no edge ends, and link's was checked.                                   *)
(***************************************************************************)
LEMMA StrictAcyclicShrink ==
    ASSUME StrictAcyclic, auto' = auto, links' \subseteq links
    PROVE  StrictAcyclic'
BY AcyclicSubset, EdgesMonotone DEF StrictAcyclic

LEMMA EdgeTyping ==
    ASSUME RelInv, NEW T, NEW e \in Edges(T, links)
    PROVE  \E l \in links : e = <<l.source, l.target>>
BY DEF Edges

LEMMA StrictAcyclicCreate ==
    ASSUME RelInv, StrictAcyclic, NEW f \in Features, NEW x \in Targets,
           CreateUnder(f, x)
    PROVE  StrictAcyclic'
<1> DEFINE l == [source |-> f, type |-> ContainedBy, target |-> x]
<1>1. links' = links \cup {l} /\ auto' = auto
  BY DEF CreateUnder
<1>2. f \notin Nameable /\ x # f
  BY ConfigAssumption DEF CreateUnder, Nameable
<1>3. SUFFICES ASSUME ~auto, NEW c \in Strict
               PROVE  Acyclic(Edges(TypesIn(c), links'))
  BY <1>1 DEF StrictAcyclic
<1> DEFINE E == Edges(TypesIn(c), links)
<1>4. Acyclic(E)
  BY <1>3 DEF StrictAcyclic
<1>5. \A e \in E : e[2] \in Targets /\ e[2] # f
  <2>1. \A k \in links : k.target \in Targets /\ k.target # f
    BY <1>2 DEF RelInv, TypeOK, Link, TargetsNamed
  <2> QED BY <2>1, EdgeTyping
<1>6. Acyclic(E \cup {<<f, x>>})
  BY <1>2, <1>4, <1>5, AcyclicFresh
<1>7. l.source = f /\ l.target = x
  OBVIOUS
<1> QED BY <1>1, <1>4, <1>6, <1>7, EdgesInsert

LEMMA StrictAcyclicLink ==
    ASSUME RelInv, StrictAcyclic, NEW s \in Features, NEW t \in Features,
           NEW word \in Words, LinkFeatures(s, t, word)
    PROVE  StrictAcyclic'
<1> DEFINE l == [source |-> s, type |-> Canonical(word), target |-> t]
<1>1. links' = links \cup {l} /\ auto' = auto /\ ~CreatesCycle(l)
  BY DEF LinkFeatures
<1>2. l.source = s /\ l.target = t /\ l.type = Canonical(word)
  OBVIOUS
<1>3. SUFFICES ASSUME ~auto, NEW c \in Strict
               PROVE  Acyclic(Edges(TypesIn(c), links'))
  BY <1>1 DEF StrictAcyclic
<1> DEFINE E == Edges(TypesIn(c), links)
<1>4. Acyclic(E)
  BY <1>3 DEF StrictAcyclic
<1>5. CASE l.type \in TypesIn(c)
  <2>1. Category[l.type] = c
    BY <1>5 DEF TypesIn
  <2>2. ~Reaches(E, t, s)
    BY <1>1, <1>2, <2>1 DEF CreatesCycle
  <2>3. Acyclic(E \cup {<<s, t>>})
    BY <1>4, <2>2, AcyclicInsert DEF Targets
  <2> QED BY <1>1, <1>2, <1>5, <2>3, EdgesInsert
<1>6. CASE l.type \notin TypesIn(c)
  BY <1>1, <1>4, <1>6, EdgesInsert
<1> QED BY <1>5, <1>6

LEMMA StrictAcyclicStep ==
    ASSUME RelInv, StrictAcyclic, [Next]_vars
    PROVE  StrictAcyclic'
<1>1. CASE \E f \in Features, x \in Targets : CreateUnder(f, x)
  BY <1>1, StrictAcyclicCreate
<1>2. CASE \E s, t \in Features, word \in Words : LinkFeatures(s, t, word)
  BY <1>2, StrictAcyclicLink
<1>3. CASE LinkInverse
  BY <1>3 DEF LinkInverse, RelInv, CallOK, StrictAcyclic
<1>5. ASSUME auto' = auto /\ links' \subseteq links
      PROVE  StrictAcyclic'
  BY <1>5, StrictAcyclicShrink
<1>6. CASE \E f \in Features : Create(f) \/ ClearBegin(f) \/ DeleteBegin(f)
  BY <1>5, <1>6 DEF Create, ClearBegin, DeleteBegin
<1>7. CASE \E l \in links : Unlink(l)
  BY <1>5, <1>7 DEF Unlink
<1>8. CASE call.op = "clear"
              /\ \E l \in call.todo : ClearOpposite(l) \/ ClearOppositeFails(l)
  BY <1>5, <1>8 DEF ClearOpposite, ClearOppositeFails
<1>9. CASE ClearOwn \/ DeleteFile \/ FixBegin \/ FixDone \/ Stop \/ UNCHANGED vars
  BY <1>5, <1>9 DEF ClearOwn, DeleteFile, FixBegin, FixDone, Stop, vars
<1>10. CASE call.op = "delete" /\ \E g \in call.todo : DeleteCleanup(g)
  BY <1>5, <1>10 DEF DeleteCleanup
<1>4. CASE FixSteps
  <2>1. auto' = auto /\ (~auto => links' \subseteq links)
    BY <1>4, FixAdds DEF FixGrowth, Joins
  <2> QED BY <1>5, <2>1 DEF StrictAcyclic
<1> QED BY <1>1, <1>2, <1>3, <1>4, <1>6, <1>7, <1>8, <1>9, <1>10 DEF Next, FixSteps

\* With auto_create_inverse off, the relationships of a category that forbids
\* cycles never form one: DetectCycleWithConfig does prevent what it is for.
THEOREM StrictAcyclicAlways == Spec => []StrictAcyclic
<1>1. Init => RelInv /\ StrictAcyclic
  <2>1. Init => links = {}
    BY DEF Init
  <2>2. \A T : Edges(T, {}) = {}
    BY DEF Edges
  <2> QED BY <2>1, <2>2, RelInvInit DEF StrictAcyclic, Acyclic
<1>2. RelInv /\ StrictAcyclic /\ [Next]_vars => (RelInv /\ StrictAcyclic)'
  BY RelInvStep, StrictAcyclicStep
<1> QED BY <1>1, <1>2, PTL DEF Spec
-----------------------------------------------------------------------------
(***************************************************************************)
(* Pairs.  With automatic inverses and until something leaves one half of  *)
(* a pair behind, the only relationships without their opposite are those  *)
(* the command under way is about: the one whose inverse is still to be    *)
(* written, and those of the feature being cleared or deleted.             *)
(***************************************************************************)
Lonely == {l \in links : Paired(l) /\ Opposite(l) \notin links}

PairInv ==
    auto /\ tidy =>
        /\ call.op = "idle" => Lonely = {}
        /\ call.op = "inverse" =>
              /\ \A l \in Lonely : Opposite(l) = call.link
              /\ Opposite(call.link) \in links
        /\ call.op = "clear" =>
              /\ \A l \in Lonely : l.source = call.feature
              /\ \A l \in Outgoing(call.feature) :
                    Paired(l) /\ Opposite(l) \in links => Opposite(l) \in call.todo
              /\ \A k \in call.todo : k.target = call.feature /\ Paired(k)
        /\ call.op = "delete" => \A l \in Lonely : l.source = call.feature
        /\ call.op = "fix" =>
              /\ Lonely = {}
              /\ call.missing = {} /\ call.dangling = {} /\ call.memory = links
              /\ \A l \in call.orphaned : l.target \notin Live

\* The opposite of a relationship's opposite is the relationship.
LEMMA OppositeOpposite ==
    ASSUME NEW l \in Link, Paired(l)
    PROVE  /\ Opposite(Opposite(l)) = l
           /\ Paired(Opposite(l))
           /\ Opposite(l).type \in Types
           /\ Opposite(l).source = l.target
           /\ Opposite(l).target = l.source
<1>1. l = [source |-> l.source, type |-> l.type, target |-> l.target] /\ l.type \in Types
  BY DEF Link
<1>2. InverseOf[l.type] \in Types /\ InverseOf[InverseOf[l.type]] = l.type
  BY <1>1, ConfigAssumption DEF Paired
<1>3. /\ Opposite(l).source = l.target
      /\ Opposite(l).type = InverseOf[l.type]
      /\ Opposite(l).target = l.source
  BY DEF Opposite
<1>4. Opposite(Opposite(l)) = l
  BY <1>1, <1>2, <1>3 DEF Opposite
<1> QED BY <1>1, <1>2, <1>3, <1>4, ConfigAssumption DEF Paired

\* Of two relationships without their opposites none is the other's opposite.
LEMMA LonelyShrink ==
    ASSUME RelInv, NEW gone, links' = links \ gone,
           NEW l \in Lonely', l \notin Lonely
    PROVE  l \in links /\ Paired(l) /\ Opposite(l) \in links \cap gone
BY DEF Lonely, Paired, Opposite

\* A relationship whose target is no live feature has no opposite.
LEMMA StrangersLonely ==
    ASSUME RelInv, NEW l \in links, l.target \notin Live, Paired(l)
    PROVE  l \in Lonely
<1>1. l \in Link
  BY DEF RelInv, TypeOK
<1>2. Opposite(l).source \notin Live
  BY <1>1, OppositeOpposite
<1> QED BY <1>2 DEF Lonely, RelInv, TypeOK

LEMMA PairInvLink ==
    ASSUME RelInv, PairInv, NEW s \in Features, NEW t \in Features,
           NEW word \in Words, LinkFeatures(s, t, word)
    PROVE  PairInv'
<1> DEFINE l == [source |-> s, type |-> Canonical(word), target |-> t]
<1>1. /\ l \in Link /\ l \notin links
      /\ links' = links \cup {l}
      /\ s # t
      /\ call.op = "idle"
      /\ auto' = auto /\ (tidy' <=> (tidy /\ word \in Types))
  BY CanonicalTyping, CallTyping DEF LinkFeatures, Link, Targets, RelInv, TypeOK, Idle
<1>2. SUFFICES ASSUME auto, tidy, word \in Types
               PROVE  PairInv'
  BY <1>1 DEF PairInv
<1>3. Canonical(word) = word /\ l.type = word
  BY <1>2 DEF Canonical
<1>4. Lonely = {}
  BY <1>1, <1>2 DEF PairInv
<1>5. Lonely' \subseteq {l}
  BY <1>1, <1>4 DEF Lonely, Paired, Opposite
<1>6. CASE WantsInverse(word) /\ Opposite(l) \notin links
  <2>1. call' = [op |-> "inverse", link |-> Opposite(l)]
    BY <1>6 DEF LinkFeatures
  <2>2. Paired(l)
    BY <1>3, <1>6 DEF WantsInverse, Paired
  <2>3. Opposite(Opposite(l)) = l
    BY <1>1, <2>2, OppositeOpposite
  <2>4. call'.op = "inverse" /\ call'.link = Opposite(l)
    BY <2>1
  <2>5. (\A k \in Lonely : Opposite(k) = call.link)'
    BY <1>5, <2>4 DEF Opposite
  <2>6. (Opposite(call.link) \in links)'
    BY <1>1, <2>3, <2>4 DEF Opposite
  <2> QED BY <2>4, <2>5, <2>6 DEF PairInv
<1>7. CASE ~(WantsInverse(word) /\ Opposite(l) \notin links)
  <2>1. call' = Idle
    BY <1>7 DEF LinkFeatures
  <2>2. call'.op = "idle"
    BY <2>1 DEF Idle
  <2>3. Paired(l) => Opposite(l) \in links
    BY <1>2, <1>3, <1>7 DEF WantsInverse, Paired
  <2>4. l \notin Lonely'
    BY <1>1, <2>3 DEF Lonely, Paired, Opposite
  <2>5. Lonely' = {}
    BY <1>5, <2>4
  <2> QED BY <2>2, <2>5 DEF PairInv
<1> QED BY <1>6, <1>7

LEMMA PairInvInverse ==
    ASSUME RelInv, PairInv, LinkInverse
    PROVE  PairInv'
<1>1. /\ call.op = "inverse"
      /\ links' = links \cup {call.link}
      /\ call' = Idle /\ auto' = auto /\ tidy' = tidy
  BY DEF LinkInverse
<1>2. call'.op = "idle"
  BY <1>1 DEF Idle
<1>3. SUFFICES ASSUME auto, tidy, NEW k \in Lonely'
               PROVE  FALSE
  BY <1>1, <1>2 DEF PairInv
<1>4. /\ \A l \in Lonely : Opposite(l) = call.link
      /\ Opposite(call.link) \in links
  BY <1>1, <1>3 DEF PairInv
<1>5. /\ k \in links \cup {call.link}
      /\ Paired(k)
      /\ Opposite(k) \notin links \cup {call.link}
  BY <1>1, <1>3 DEF Lonely, Paired, Opposite
<1>6. CASE k \in links
  BY <1>4, <1>5, <1>6 DEF Lonely
<1>7. CASE k = call.link
  BY <1>4, <1>5, <1>7
<1> QED BY <1>5, <1>6, <1>7

LEMMA PairInvUnlink ==
    ASSUME RelInv, PairInv, NEW l \in links, Unlink(l)
    PROVE  PairInv'
<1>1. /\ links' = links \ {l}
      /\ call = Idle /\ call' = call
      /\ auto' = auto /\ (tidy' <=> (tidy /\ ~Paired(l)))
  BY DEF Unlink, RelInv, TypeOK
<1>2. call.op = "idle" /\ call'.op = "idle"
  BY <1>1 DEF Idle
<1>3. SUFFICES ASSUME auto, tidy, ~Paired(l), NEW k \in Lonely'
               PROVE  FALSE
  BY <1>1, <1>2 DEF PairInv
<1>4. k \in links /\ Paired(k) /\ Opposite(k) = l
  <2>1. Lonely = {}
    BY <1>2, <1>3 DEF PairInv
  <2>2. k \notin Lonely
    BY <2>1
  <2> QED BY <1>1, <2>2, LonelyShrink
<1>5. Paired(l)
  BY <1>4, OppositeOpposite DEF RelInv, TypeOK
<1> QED BY <1>3, <1>5

LEMMA PairInvClear ==
    ASSUME RelInv, PairInv,
           \/ \E f \in Features : ClearBegin(f)
           \/ call.op = "clear"
                 /\ \E l \in call.todo : ClearOpposite(l) \/ ClearOppositeFails(l)
           \/ ClearOwn
    PROVE  PairInv'
<1>0. links \subseteq Link
  BY DEF RelInv, TypeOK
<1>1. ASSUME NEW f \in Features, ClearBegin(f)
      PROVE  PairInv'
  <2>1. /\ call.op = "idle"
        /\ UNCHANGED <<auto, links, tidy>>
        /\ call'.op = "clear" /\ call'.feature = f
        /\ auto => call'.todo = {Opposite(l) : l \in {k \in Outgoing(f) :
                                  k.target \in Live /\ Paired(k)}} \cap links
    BY <1>1 DEF ClearBegin, Idle
  <2>2. SUFFICES ASSUME auto, tidy
                 PROVE  /\ Lonely' = {}
                        /\ (\A l \in Outgoing(f) : Paired(l) /\ Opposite(l) \in links
                               => Opposite(l) \in call.todo)'
                        /\ (\A k \in call.todo : k.target = f /\ Paired(k))'
    BY <2>1 DEF PairInv
  <2>3. Lonely' = {}
    BY <2>1, <2>2 DEF PairInv, Lonely, Paired, Opposite
  <2>4. ASSUME NEW l \in Outgoing(f), Paired(l), Opposite(l) \in links
        PROVE  Opposite(l) \in call'.todo
    <3>1. l \in Link
      BY <1>0 DEF Outgoing
    <3>2. l.target \in Live
      BY <2>4, <3>1, OppositeOpposite DEF RelInv, TypeOK
    <3> QED BY <2>1, <2>2, <2>4, <3>2
  <2>5. ASSUME NEW k \in call'.todo
        PROVE  k.target = f /\ Paired(k)
    <3>1. PICK l \in Outgoing(f) : Paired(l) /\ k = Opposite(l)
      BY <2>1, <2>2
    <3>2. l \in Link /\ l.source = f
      BY <1>0 DEF Outgoing
    <3> QED BY <3>1, <3>2, OppositeOpposite
  <2> QED BY <2>1, <2>3, <2>4, <2>5 DEF Outgoing, Paired, Opposite
<1>2. ASSUME call.op = "clear", NEW k \in call.todo,
             ClearOpposite(k) \/ ClearOppositeFails(k)
      PROVE  PairInv'
  <2>1. CASE ClearOppositeFails(k)
    BY <2>1 DEF ClearOppositeFails, PairInv
  <2>2. CASE ClearOpposite(k)
    <3>1. call \in [op : {"clear"}, feature : Features, todo : SUBSET Link]
      BY <1>2, CallTyping DEF RelInv, TypeOK
    <3>2. /\ links' = links \ {k}
          /\ UNCHANGED <<auto, tidy>>
          /\ call' = [call EXCEPT !.todo = @ \ {k}]
      BY <2>2 DEF ClearOpposite
    <3>3. /\ call'.op = "clear" /\ call'.feature = call.feature
          /\ call'.todo = call.todo \ {k}
      BY <3>1, <3>2
    <3>4. SUFFICES ASSUME auto, tidy
                   PROVE  /\ \A l \in Lonely' : l.source = call.feature
                          /\ (\A l \in Outgoing(call.feature) :
                                 Paired(l) /\ Opposite(l) \in links
                                     => Opposite(l) \in call.todo)'
                          /\ \A j \in call'.todo : j.target = call.feature /\ Paired(j)
      BY <3>2, <3>3 DEF PairInv, Paired
    <3>5. /\ \A l \in Lonely : l.source = call.feature
          /\ \A l \in Outgoing(call.feature) :
                Paired(l) /\ Opposite(l) \in links => Opposite(l) \in call.todo
          /\ \A j \in call.todo : j.target = call.feature /\ Paired(j)
      BY <1>2, <3>4 DEF PairInv
    <3>6. ASSUME NEW l \in Lonely'
          PROVE  l.source = call.feature
      <4>1. CASE l \in Lonely
        BY <3>5, <4>1
      <4>2. CASE l \notin Lonely
        <5>1. l \in links /\ Paired(l) /\ Opposite(l) = k
          BY <3>2, <4>2, LonelyShrink
        <5>2. l.source = Opposite(l).target
          BY <1>0, <5>1, OppositeOpposite
        <5> QED BY <3>5, <5>1, <5>2
      <4> QED BY <4>1, <4>2
    <3>7. (\A l \in Outgoing(call.feature) :
              Paired(l) /\ Opposite(l) \in links => Opposite(l) \in call.todo)'
      BY <3>2, <3>3, <3>5 DEF Outgoing, Paired, Opposite
    <3> QED BY <3>3, <3>5, <3>6, <3>7
  <2> QED BY <1>2, <2>1, <2>2
<1>3. ASSUME ClearOwn
      PROVE  PairInv'
  <2>1. /\ call.op = "clear" /\ call.todo = {}
        /\ links' = links \ Outgoing(call.feature)
        /\ call' = Idle /\ UNCHANGED <<auto, tidy>>
    BY <1>3 DEF ClearOwn
  <2>2. call'.op = "idle"
    BY <2>1 DEF Idle
  <2>3. SUFFICES ASSUME auto, tidy, NEW l \in Lonely'
                 PROVE  FALSE
    BY <2>1, <2>2 DEF PairInv
  <2>4. /\ \A k \in Lonely : k.source = call.feature
        /\ \A k \in Outgoing(call.feature) : Paired(k) => Opposite(k) \notin links
    BY <2>1, <2>3 DEF PairInv
  <2>5. l \in links /\ l.source # call.feature
    BY <2>1, <2>3 DEF Lonely, Outgoing
  <2>6. Paired(l) /\ Opposite(l) \in links \cap Outgoing(call.feature)
    <3>1. l \notin Lonely
      BY <2>4, <2>5
    <3> QED BY <2>1, <2>3, <3>1, LonelyShrink
  <2>7. Opposite(Opposite(l)) = l /\ Paired(Opposite(l))
    BY <1>0, <2>5, <2>6, OppositeOpposite
  <2> QED BY <2>4, <2>5, <2>6, <2>7
<1> QED BY <1>1, <1>2, <1>3

LEMMA PairInvDelete ==
    ASSUME RelInv, PairInv,
           \/ \E f \in Features : DeleteBegin(f)
           \/ call.op = "delete" /\ \E g \in call.todo : DeleteCleanup(g)
           \/ DeleteFile
    PROVE  PairInv'
<1>0. links \subseteq Link
  BY DEF RelInv, TypeOK
<1>1. ASSUME NEW f \in Features, DeleteBegin(f)
      PROVE  PairInv'
  <2>1. /\ call.op = "idle" /\ call'.op = "delete"
        /\ UNCHANGED <<auto, links, tidy>>
    BY <1>1 DEF DeleteBegin, Idle
  <2>2. Lonely' = Lonely
    BY <2>1 DEF Lonely, Paired, Opposite
  <2> QED BY <2>1, <2>2 DEF PairInv
<1>2. ASSUME call.op = "delete", NEW g \in call.todo, DeleteCleanup(g)
      PROVE  PairInv'
  <2>1. call \in [op : {"delete"}, feature : Features, todo : SUBSET Features]
    BY <1>2, CallTyping DEF RelInv, TypeOK
  <2>2. /\ links' = links \ (Outgoing(g) \cap Incoming(call.feature))
        /\ UNCHANGED <<auto, tidy>>
        /\ call' = [call EXCEPT !.todo = @ \ {g}]
    BY <1>2 DEF DeleteCleanup
  <2>3. call'.op = "delete" /\ call'.feature = call.feature
    BY <2>1, <2>2
  <2>4. SUFFICES ASSUME auto, tidy, NEW l \in Lonely'
                 PROVE  l.source = call.feature
    BY <2>2, <2>3 DEF PairInv
  <2>5. CASE l \in Lonely
    BY <1>2, <2>4, <2>5 DEF PairInv
  <2>6. CASE l \notin Lonely
    <3>1. l \in links /\ Paired(l) /\ Opposite(l) \in Incoming(call.feature)
      BY <2>2, <2>6, LonelyShrink
    <3>2. l.source = Opposite(l).target
      BY <1>0, <3>1, OppositeOpposite
    <3> QED BY <3>1, <3>2 DEF Incoming
  <2> QED BY <2>5, <2>6
<1>3. ASSUME DeleteFile
      PROVE  PairInv'
  <2>1. /\ call.op = "delete" /\ call.todo = {}
        /\ links' = links \ Outgoing(call.feature)
        /\ call' = Idle /\ UNCHANGED <<auto, tidy>>
    BY <1>3 DEF DeleteFile
  <2>2. call'.op = "idle"
    BY <2>1 DEF Idle
  <2>3. SUFFICES ASSUME auto, tidy, NEW l \in Lonely'
                 PROVE  FALSE
    BY <2>1, <2>2 DEF PairInv
  <2>4. \A k \in Lonely : k.source = call.feature
    BY <2>1, <2>3 DEF PairInv
  <2>5. l \in links /\ l.source # call.feature
    BY <2>1, <2>3 DEF Lonely, Outgoing
  <2>6. Paired(l) /\ Opposite(l) \in Outgoing(call.feature)
    <3>1. l \notin Lonely
      BY <2>4, <2>5
    <3> QED BY <2>1, <3>1, LonelyShrink
  <2>7. l.target = call.feature
    BY <1>0, <2>5, <2>6, OppositeOpposite DEF Outgoing
  <2>8. l \in Incoming(call.feature)
    BY <2>5, <2>7 DEF Incoming
  <2> QED BY <2>1, <2>8 DEF RelInv, CallOK
<1> QED BY <1>1, <1>2, <1>3

\* With every pair complete validate finds none to complete or to break up.
LEMMA PairInvFix ==
    ASSUME RelInv, PairInv, FixBegin \/ FixSteps \/ FixDone
    PROVE  PairInv'
<1>0. links \subseteq Link
  BY DEF RelInv, TypeOK
<1>1. CASE FixBegin
  <2>1. /\ call.op = "idle"
        /\ UNCHANGED <<auto, status, links, tidy>>
        /\ call' = [op |-> "fix", orphaned |-> Orphaned, missing |-> MissingInverse,
                    dangling |-> DanglingInverse, memory |-> links, failed |-> {}]
    BY <1>1 DEF FixBegin, Idle
  <2>2. /\ call'.op = "fix" /\ call'.orphaned = Orphaned
        /\ call'.missing = MissingInverse /\ call'.dangling = DanglingInverse
        /\ call'.memory = links
    BY <2>1
  <2>3. SUFFICES ASSUME auto, tidy
                 PROVE  /\ Lonely' = {} /\ MissingInverse = {} /\ DanglingInverse = {}
                        /\ \A l \in Orphaned : l.target \notin Live'
    BY <2>1, <2>2 DEF PairInv
  <2>4. Lonely = {}
    BY <2>1, <2>3 DEF PairInv
  <2>5. Lonely' = {}
    BY <2>1, <2>4 DEF Lonely, Paired, Opposite
  <2>6. MissingInverse = {}
    BY <2>4 DEF MissingInverse, Lonely
  <2>7. ASSUME NEW l \in DanglingInverse
        PROVE  FALSE
    <3>1. PICK t \in Types : /\ InverseOf[t] = l.type
                             /\ [source |-> l.target, type |-> t,
                                 target |-> l.source] \notin links
      BY DEF DanglingInverse
    <3>2. l \in links /\ l.type \in Types
      BY <1>0 DEF DanglingInverse, Link
    <3>3. InverseOf[l.type] = t /\ Paired(l)
      BY <3>1, <3>2, ConfigAssumption DEF Paired
    <3>4. l \in Lonely
      BY <3>1, <3>2, <3>3 DEF Lonely, Opposite
    <3> QED BY <2>4, <3>4
  <2>8. \A l \in Orphaned : l.target \notin Live'
    BY <2>1 DEF Orphaned, Seen, Live
  <2> QED BY <2>5, <2>6, <2>7, <2>8
<1>2. ASSUME call.op = "fix", NEW o \in call.orphaned, FixOrphaned(o)
      PROVE  PairInv'
  <2> DEFINE next == WithoutOrphan(o)
  <2>1. call \in FixCalls
    BY <1>2, CallTyping DEF RelInv, TypeOK
  <2>2. /\ next.op = "fix" /\ next.orphaned = call.orphaned \ {o}
        /\ next.missing = call.missing /\ next.dangling = call.dangling
        /\ next.memory = {k \in call.memory : k.source # o.source \/ k.target # o.target}
    BY <2>1, NextFixCalls DEF FixCalls
  <2>3. Fix(next, o.source) \/ FixFails(next)
    BY <1>2 DEF FixOrphaned
  <2> HIDE DEF next
  <2>4. /\ call' = next /\ auto' = auto /\ Live' = Live
        /\ tidy' => tidy
    BY <2>3, FixEffect
  <2>5. SUFFICES ASSUME auto, tidy, tidy'
                 PROVE  /\ Lonely' = {} /\ call.missing = {} /\ call.dangling = {}
                        /\ call'.memory = links'
                        /\ \A l \in call.orphaned : l.target \notin Live'
    BY <2>2, <2>4 DEF PairInv
  <2>6. /\ Lonely = {} /\ call.missing = {} /\ call.dangling = {} /\ call.memory = links
        /\ \A l \in call.orphaned : l.target \notin Live
    BY <1>2, <2>5 DEF PairInv
  <2>7. Fix(next, o.source)
    BY <2>3, <2>5 DEF FixFails
  <2>8. links' = next.memory
    BY <2>2, <2>6, <2>7 DEF Fix, Outgoing
  <2>9. links' = links \ (Outgoing(o.source) \cap Incoming(o.target))
    BY <2>2, <2>6, <2>8 DEF Outgoing, Incoming
  <2>10. ASSUME NEW l \in Lonely'
         PROVE  FALSE
    <3>1. l \in links /\ Paired(l) /\ Opposite(l) \in Incoming(o.target)
      BY <2>9, <2>6, LonelyShrink
    <3>2. l.source = o.target
      BY <1>0, <3>1, OppositeOpposite DEF Incoming
    <3> QED BY <2>6, <3>1, <3>2 DEF RelInv, TypeOK
  <2> QED BY <2>4, <2>6, <2>8, <2>10
<1>3. ASSUME FixSteps, ~(auto /\ tidy)
      PROVE  PairInv'
  BY <1>3, FixAdds DEF FixGrowth, PairInv
<1>5. ASSUME call.op = "fix", auto, tidy
      PROVE  call.missing = {} /\ call.dangling = {}
  BY <1>5 DEF PairInv
<1>4. CASE FixDone
  <2>1. call.op = "fix" /\ call' = Idle /\ UNCHANGED <<auto, links, tidy>>
    BY <1>4 DEF FixDone
  <2>2. call'.op = "idle" /\ Lonely' = Lonely
    BY <2>1 DEF Idle, Lonely, Paired, Opposite
  <2> QED BY <2>1, <2>2 DEF PairInv
<1> QED BY <1>1, <1>2, <1>3, <1>4, <1>5 DEF FixSteps

LEMMA PairInvStep ==
    ASSUME RelInv, PairInv, [Next]_vars
    PROVE  PairInv'
<1>1. CASE \E f \in Features : Create(f)
  <2>1. UNCHANGED <<auto, links, call, tidy>> /\ call.op = "idle"
    BY <1>1 DEF Create, Idle
  <2>2. Lonely' = Lonely
    BY <2>1 DEF Lonely, Paired, Opposite
  <2> QED BY <2>1, <2>2 DEF PairInv
<1>2. CASE (\E f \in Features, x \in Targets : CreateUnder(f, x)) \/ Stop
  BY <1>2 DEF CreateUnder, Stop, PairInv
<1>3. CASE UNCHANGED vars
  <2>1. UNCHANGED <<auto, status, links, call, tidy>>
    BY <1>3 DEF vars
  <2>2. Lonely' = Lonely /\ Live' = Live
    BY <2>1 DEF Lonely, Paired, Opposite, Live
  <2> QED BY <2>1, <2>2 DEF PairInv, Outgoing, Paired, Opposite
<1> QED BY <1>1, <1>2, <1>3, PairInvLink, PairInvInverse, PairInvUnlink, PairInvClear,
           PairInvDelete, PairInvFix DEF Next, FixSteps

LEMMA PairInvInit == Init => PairInv
BY DEF Init, Idle, PairInv, Lonely

\* With automatic inverses both halves of every pair are in the feature files
\* between any two commands, whatever link, unlink of unpaired relationships,
\* clear, delete and validate --fix did, until create --parent, a link by an
\* alias, an unlink of one half or a fault leaves a half behind.
THEOREM PairsCompleteAlways == Spec => []PairsComplete
<1>1. Init => RelInv /\ PairInv
  BY RelInvInit, PairInvInit
<1>2. RelInv /\ PairInv /\ [Next]_vars => (RelInv /\ PairInv)'
  BY RelInvStep, PairInvStep
<1>3. RelInv /\ PairInv => PairsComplete
  BY DEF PairInv, PairsComplete, Lonely, Idle
<1> QED BY <1>1, <1>2, <1>3, PTL DEF Spec
-----------------------------------------------------------------------------
(***************************************************************************)
(* Cycles with automatic inverses.  The relationships of a category then   *)
(* form an undirected graph, which link checks in both directions at once: *)
(* when the target does not lead back to the source, neither does the      *)
(* source lead to the target, and the inverse, which is not checked, is    *)
(* harmless.                                                               *)
(***************************************************************************)
\* What the default configuration has and Config.Validate does not demand: in
\* a category that forbids cycles every type has an inverse, of the same
\* category, and the validator looks at one of the two.
StrictTypesPaired ==
    \A t \in Types : Category[t] \in Strict =>
        /\ InverseOf[t] # None
        /\ Category[InverseOf[t]] = Category[t]
        /\ ~(t \in Forward /\ InverseOf[t] \in Forward)

Coming == IF call.op = "inverse" THEN {call.link} ELSE {}

\* TidyAcyclic of the relationships there are and the inverse about to be added.
ForwardAcyclic ==
    auto /\ tidy => \A c \in Strict :
        Acyclic(Edges(TypesIn(c) \cap Forward, links \cup Coming))

\* In a graph whose edges all go both ways, reaching does.
LEMMA ReachesBack ==
    ASSUME NEW E, \A e \in E : e[1] \in Targets /\ e[2] \in Targets /\ <<e[2], e[1]>> \in E,
           NEW x \in Targets, NEW y \in Targets, Reaches(E, x, y)
    PROVE  Reaches(E, y, x)
<1>1. SUFFICES ASSUME NEW C \in SUBSET Targets, y \in C,
                      \A e \in E : e[1] \in C => e[2] \in C
               PROVE  x \in C
  BY DEF Reaches
<1> DEFINE D == Targets \ C
<1>2. D \in SUBSET Targets
  OBVIOUS
<1>3. ASSUME NEW e \in E, e[1] \in D
      PROVE  e[2] \in D
  <2>1. e[2] \in Targets /\ <<e[2], e[1]>> \in E
    OBVIOUS
  <2>2. <<e[2], e[1]>>[1] \in C => <<e[2], e[1]>>[2] \in C
    BY <1>1, <2>1
  <2> QED BY <1>3, <2>1, <2>2
<1>4. x \in D => y \in D
  BY <1>2, <1>3 DEF Reaches
<1> QED BY <1>1, <1>4

\* Every pair complete, the edges of a category do go both ways.
LEMMA CategorySymmetric ==
    ASSUME RelInv, StrictTypesPaired, Lonely = {}, NEW c \in Strict,
           NEW e \in Edges(TypesIn(c), links)
    PROVE  /\ e[1] \in Targets /\ e[2] \in Targets
           /\ <<e[2], e[1]>> \in Edges(TypesIn(c), links)
<1>1. PICK l \in links : l.type \in TypesIn(c) /\ e = <<l.source, l.target>>
  BY DEF Edges
<1>2. l \in Link /\ l.type \in Types /\ Category[l.type] = c
  BY <1>1 DEF RelInv, TypeOK, Link, TypesIn
<1>3. e[1] = l.source /\ e[2] = l.target /\ l.source \in Targets /\ l.target \in Targets
  BY <1>1, <1>2 DEF Link, Targets
<1>4. Paired(l) /\ Category[InverseOf[l.type]] = c
  BY <1>2 DEF StrictTypesPaired, Paired
<1> DEFINE k == Opposite(l)
<1>5. k \in links
  BY <1>4 DEF Lonely
<1>6. k.type \in Types /\ k.source = l.target /\ k.target = l.source
  BY <1>2, <1>4, OppositeOpposite
<1>7. k.type \in TypesIn(c)
  <2>1. k.type = InverseOf[l.type]
    BY DEF Opposite
  <2> QED BY <1>4, <1>6, <2>1 DEF TypesIn
<1>8. <<k.source, k.target>> \in Edges(TypesIn(c), links)
  BY <1>5, <1>7 DEF Edges
<1> QED BY <1>3, <1>6, <1>8

LEMMA EdgesOfFewer ==
    ASSUME NEW T, NEW S, S \subseteq T, NEW ls
    PROVE  Edges(S, ls) \subseteq Edges(T, ls)
BY DEF Edges

LEMMA ReachesMonotone ==
    ASSUME NEW E, NEW D, D \subseteq E, NEW x, NEW y, Reaches(D, x, y)
    PROVE  Reaches(E, x, y)
BY DEF Reaches

LEMMA ForwardAcyclicLink ==
    ASSUME RelInv, PairInv, ForwardAcyclic, StrictTypesPaired,
           NEW s \in Features, NEW t \in Features, NEW word \in Words,
           LinkFeatures(s, t, word)
    PROVE  ForwardAcyclic'
<1> DEFINE l == [source |-> s, type |-> Canonical(word), target |-> t]
<1>1. /\ links' = links \cup {l}
      /\ call.op = "idle"
      /\ ~CreatesCycle(l)
      /\ auto' = auto /\ (tidy' <=> (tidy /\ word \in Types))
      /\ call' = IF WantsInverse(word) /\ Opposite(l) \notin links
                 THEN [op |-> "inverse", link |-> Opposite(l)] ELSE Idle
  BY DEF LinkFeatures, RelInv, TypeOK, Idle
<1>2. l.source = s /\ l.target = t /\ l.type = Canonical(word) /\ l.type \in Types
  BY CanonicalTyping
<1>3. l \in Link
  BY <1>2 DEF Link, Targets
<1>4. SUFFICES ASSUME auto, tidy, NEW c \in Strict
               PROVE  Acyclic(Edges(TypesIn(c) \cap Forward, links' \cup Coming'))
  BY <1>1 DEF ForwardAcyclic
<1> DEFINE T == TypesIn(c) \cap Forward
           E == Edges(TypesIn(c), links)
           F == Edges(T, links)
<1>5. Acyclic(F)
  <2>1. Coming = {}
    BY <1>1 DEF Coming
  <2> QED BY <1>4, <2>1 DEF ForwardAcyclic
<1>6. Lonely = {}
  BY <1>1, <1>4 DEF PairInv
<1>7. F \subseteq E
  BY EdgesOfFewer
<1>8. s \in Targets /\ t \in Targets
  BY DEF Targets
<1>9. \A e \in E : e[1] \in Targets /\ e[2] \in Targets /\ <<e[2], e[1]>> \in E
  BY <1>6, CategorySymmetric
<1>10. Coming' \subseteq {Opposite(l)}
  <2>1. CASE call' = Idle
    BY <2>1 DEF Coming, Idle
  <2>2. CASE call' = [op |-> "inverse", link |-> Opposite(l)]
    <3>1. call'.link = Opposite(l)
      BY <2>2
    <3> QED BY <3>1 DEF Coming
  <2> QED BY <1>1, <2>1, <2>2
<1>11. CASE Category[l.type] # c
  <2>1. l.type \notin T
    BY <1>11 DEF TypesIn
  <2>2. Paired(l) => Opposite(l).type \notin T
    <3>1. ASSUME Paired(l), Category[InverseOf[l.type]] = c
          PROVE  FALSE
      <4>1. InverseOf[l.type] \in Types /\ InverseOf[InverseOf[l.type]] = l.type
        BY <1>2, <3>1, ConfigAssumption DEF Paired
      <4> QED BY <1>11, <3>1, <4>1 DEF StrictTypesPaired
    <3> QED BY <3>1 DEF Opposite, TypesIn
  <2>3. Coming' # {} => Paired(l)
    BY <1>1, <1>4 DEF Coming, WantsInverse, Canonical, Paired, Idle
  <2>4. Edges(T, links') = F
    BY <1>1, <2>1, EdgesInsert
  <2>5. Edges(T, links' \cup Coming') = F
    <3>1. CASE Coming' = {}
      BY <2>4, <3>1
    <3>2. CASE Coming' = {Opposite(l)}
      BY <2>2, <2>3, <2>4, <3>2, EdgesInsert
    <3> QED BY <1>10, <3>1, <3>2
  <2> QED BY <1>5, <2>5
<1>12. CASE Category[l.type] = c
  <2>1. ~Reaches(E, t, s)
    BY <1>1, <1>2, <1>12 DEF CreatesCycle
  <2>2. ~Reaches(E, s, t)
    BY <1>8, <1>9, <2>1, ReachesBack
  <2>3. ~Reaches(F, t, s) /\ ~Reaches(F, s, t)
    BY <1>7, <2>1, <2>2, ReachesMonotone
  <2>4. Acyclic(F \cup {<<s, t>>}) /\ Acyclic(F \cup {<<t, s>>})
    BY <1>5, <1>8, <2>3, AcyclicInsert
  <2>5. Paired(l) /\ ~(l.type \in Forward /\ Opposite(l).type \in Forward)
    BY <1>2, <1>12 DEF StrictTypesPaired, Paired, Opposite
  <2>6. Opposite(l).source = t /\ Opposite(l).target = s
    BY <1>2, <1>3, <2>5, OppositeOpposite
  <2>7. Edges(T, links') = IF l.type \in T THEN F \cup {<<s, t>>} ELSE F
    BY <1>1, <1>2, EdgesInsert
  <2>8. Edges(T, links' \cup {Opposite(l)}) =
            IF Opposite(l).type \in T THEN Edges(T, links') \cup {<<t, s>>}
            ELSE Edges(T, links')
    <3> HIDE DEF T, E, F, l
    <3>1. Edges(T, links' \cup {Opposite(l)}) =
              IF Opposite(l).type \in T
              THEN Edges(T, links') \cup {<<Opposite(l).source, Opposite(l).target>>}
              ELSE Edges(T, links')
      BY EdgesInsert
    <3> QED BY <2>6, <3>1
  <2>9. Edges(T, links' \cup {Opposite(l)}) \in {F, F \cup {<<s, t>>}, F \cup {<<t, s>>}}
    BY <2>5, <2>7, <2>8
  <2>10. Acyclic(Edges(T, links' \cup {Opposite(l)}))
    BY <1>5, <2>4, <2>9
  <2>11. Edges(T, links' \cup Coming') \subseteq Edges(T, links' \cup {Opposite(l)})
    BY <1>10, EdgesMonotone
  <2> QED BY <2>10, <2>11, AcyclicSubset
<1> QED BY <1>11, <1>12

LEMMA ForwardAcyclicShrink ==
    ASSUME ForwardAcyclic, auto' = auto, tidy' => tidy,
           links' \cup Coming' \subseteq links \cup Coming
    PROVE  ForwardAcyclic'
<1>1. SUFFICES ASSUME auto, tidy, NEW c \in Strict
               PROVE  Acyclic(Edges(TypesIn(c) \cap Forward, links' \cup Coming'))
  BY DEF ForwardAcyclic
<1>2. Acyclic(Edges(TypesIn(c) \cap Forward, links \cup Coming))
  BY <1>1 DEF ForwardAcyclic
<1>3. Edges(TypesIn(c) \cap Forward, links' \cup Coming')
          \subseteq Edges(TypesIn(c) \cap Forward, links \cup Coming)
  BY EdgesMonotone
<1> QED BY <1>2, <1>3, AcyclicSubset

LEMMA ForwardAcyclicStep ==
    ASSUME RelInv, PairInv, ForwardAcyclic, StrictTypesPaired, [Next]_vars
    PROVE  ForwardAcyclic'
<1>1. CASE \E f \in Features, x \in Targets : CreateUnder(f, x)
  BY <1>1 DEF CreateUnder, ForwardAcyclic
<1>2. CASE \E s, t \in Features, word \in Words : LinkFeatures(s, t, word)
  BY <1>2, ForwardAcyclicLink
<1>3. CASE Stop
  BY <1>3 DEF Stop, ForwardAcyclic
<1>5. ASSUME auto' = auto, tidy' => tidy, call' = Idle \/ call'.op # "inverse",
             links' \subseteq links \cup Coming
      PROVE  ForwardAcyclic'
  <2>1. Coming' = {}
    BY <1>5 DEF Coming, Idle
  <2> QED BY <1>5, <2>1, ForwardAcyclicShrink
<1>6. CASE LinkInverse
  BY <1>5, <1>6 DEF LinkInverse, Coming
<1>7. CASE \E f \in Features : Create(f) \/ ClearBegin(f) \/ DeleteBegin(f)
  <2>1. CASE \E f \in Features : Create(f)
    BY <1>5, <2>1 DEF Create
  <2>2. CASE \E f \in Features : ClearBegin(f)
    <3>1. call'.op = "clear"
      BY <2>2 DEF ClearBegin
    <3> QED BY <1>5, <2>2, <3>1 DEF ClearBegin
  <2>3. CASE \E f \in Features : DeleteBegin(f)
    <3>1. call'.op = "delete"
      BY <2>3 DEF DeleteBegin
    <3> QED BY <1>5, <2>3, <3>1 DEF DeleteBegin
  <2> QED BY <1>7, <2>1, <2>2, <2>3
<1>8. CASE \E l \in links : Unlink(l)
  BY <1>5, <1>8 DEF Unlink
<1>9. CASE call.op = "clear"
              /\ \E l \in call.todo : ClearOpposite(l) \/ ClearOppositeFails(l)
  <2>1. call \in [op : {"clear"}, feature : Features, todo : SUBSET Link]
    BY <1>9, CallTyping DEF RelInv, TypeOK
  <2>2. call'.op = "clear"
    BY <1>9, <2>1 DEF ClearOpposite, ClearOppositeFails
  <2> QED BY <1>5, <1>9, <2>2 DEF ClearOpposite, ClearOppositeFails
<1>10. CASE call.op = "delete" /\ \E g \in call.todo : DeleteCleanup(g)
  <2>1. call \in [op : {"delete"}, feature : Features, todo : SUBSET Features]
    BY <1>10, CallTyping DEF RelInv, TypeOK
  <2>2. call'.op = "delete"
    BY <1>10, <2>1 DEF DeleteCleanup
  <2> QED BY <1>5, <1>10, <2>2 DEF DeleteCleanup
<1>11. CASE ClearOwn \/ DeleteFile \/ FixDone
  BY <1>5, <1>11 DEF ClearOwn, DeleteFile, FixDone
<1>12. CASE FixBegin
  <2>1. call'.op = "fix"
    BY <1>12 DEF FixBegin
  <2> QED BY <1>5, <1>12, <2>1 DEF FixBegin
<1>4. CASE FixSteps
  <2>1. /\ auto' = auto /\ (tidy' => tidy)
        /\ call'.op = "fix"
        /\ \A l \in links' : l \in links \/ Joins(l)
    BY <1>4, FixAdds DEF FixGrowth
  <2>2. CASE ~(auto /\ tidy)
    BY <2>1, <2>2 DEF ForwardAcyclic
  <2>3. CASE auto /\ tidy
    <3>1. call.missing = {} /\ call.dangling = {} /\ call.memory = links /\ call \in FixCalls
      BY <1>4, <2>3, CallTyping DEF FixSteps, PairInv, RelInv, TypeOK
    <3>2. PICK o \in call.orphaned : FixOrphaned(o)
      BY <1>4, <3>1 DEF FixSteps
    <3> DEFINE next == WithoutOrphan(o)
    <3>3. next.memory \subseteq links
      <4>1. next.memory = {k \in call.memory : k.source # o.source \/ k.target # o.target}
        BY <3>1, NextFixCalls
      <4> QED BY <3>1, <4>1
    <3>4. Fix(next, o.source) \/ FixFails(next)
      BY <3>2 DEF FixOrphaned
    <3> HIDE DEF next
    <3>5. links' \subseteq links
      BY <3>3, <3>4, FixEffect
    <3> QED BY <1>5, <2>1, <3>5
  <2> QED BY <2>2, <2>3
<1>14. CASE UNCHANGED vars
  BY <1>14, ForwardAcyclicShrink DEF vars, Coming
<1> QED BY <1>1, <1>2, <1>3, <1>4, <1>6, <1>7, <1>8, <1>9, <1>10, <1>11, <1>12,
           <1>14 DEF Next, FixSteps

\* With automatic inverses, in a configuration whose strict types are paired
\* like the default one's and until something leaves one half of a pair, the
\* validator's graph of a strict category has no cycle, although link adds the
\* inverse unchecked.
THEOREM TidyAcyclicAlways ==
    ASSUME StrictTypesPaired
    PROVE  Spec => []TidyAcyclic
<1>1. Init => RelInv /\ PairInv /\ ForwardAcyclic
  <2>1. Init => links = {} /\ Coming = {}
    BY DEF Init, Coming, Idle
  <2>2. \A T : Edges(T, {}) = {}
    BY DEF Edges
  <2>3. Acyclic({})
    BY DEF Acyclic
  <2> QED BY <2>1, <2>2, <2>3, RelInvInit, PairInvInit DEF ForwardAcyclic
<1>2. RelInv /\ PairInv /\ ForwardAcyclic /\ [Next]_vars
          => (RelInv /\ PairInv /\ ForwardAcyclic)'
  BY RelInvStep, PairInvStep, ForwardAcyclicStep
<1>3. ForwardAcyclic => TidyAcyclic
  <2>1. \A T : Edges(T, links) \subseteq Edges(T, links \cup Coming)
    BY EdgesMonotone
  <2> QED BY <2>1, AcyclicSubset DEF ForwardAcyclic, TidyAcyclic
<1> QED BY <1>1, <1>2, <1>3, PTL DEF Spec
-----------------------------------------------------------------------------
(***************************************************************************)
(* validate --fix.  What the fixer has in memory and what is on disk only  *)
(* differ in orphaned relationships, in inverses that failed and in halves *)
(* that are still tied by the other one: those are on disk and in memory   *)
(* and will not be broken up.  A relationship is broken up only when its   *)
(* opposite is there to keep the tie, or could not be added.               *)
(***************************************************************************)
Kept(l) == Opposite(l) \in links \cap call.memory

FixInv ==
    call.op = "fix" /\ auto =>
        /\ \A l \in call.orphaned : l.target \notin Seen
        /\ call.missing \cup call.dangling \subseteq links \cap call.memory
        /\ \A l \in call.missing \cup call.dangling : Paired(l) /\ l.target \in Seen
        /\ \A l \in call.memory \ links : Paired(l) /\ Opposite(l) \in call.failed
        /\ \A l \in links \ call.memory :
              Paired(l) /\ l.target \in Seen =>
                  l \in call.failed \/ (Kept(l) /\ Opposite(l) \notin call.dangling)
        /\ \A l \in call.dangling :
              /\ Opposite(l) \notin call.dangling
              /\ l \in call.missing \/ l \in call.failed \/ Kept(l)

\* What a step of the fix does, whichever issue it takes: the files get what is
\* in memory, if anything; an inverse that is not saved is listed as failed;
\* memory loses nothing but orphaned relationships and, once no inverse is
\* missing that could be added, the one to be broken up.
FixProgress ==
    /\ call' \in FixCalls /\ call'.op = "fix" /\ auto' = auto /\ status' = status
    /\ links' \subseteq links \cup call'.memory
    /\ links \cap call'.memory \subseteq links'
    /\ call'.orphaned \subseteq call.orphaned
    /\ call'.missing \subseteq call.missing
    /\ call'.dangling \subseteq call.dangling
    /\ call.failed \subseteq call'.failed
    /\ \A l \in call'.memory \ call.memory :
          \E m \in call.missing \ call'.missing : l = Opposite(m)
    /\ \A m \in call.missing \ call'.missing :
          m \in call'.failed \/ Opposite(m) \in links' \cap call'.memory
    /\ \A l \in call.memory \ call'.memory :
          \/ l.target \notin Seen
          \/ l \in call.dangling \ call'.dangling /\ call.missing = {}

LEMMA FixProgresses ==
    ASSUME RelInv, FixInv, auto, FixSteps
    PROVE  FixProgress
<1>1. call.op = "fix" /\ call \in FixCalls
  BY CallTyping DEF FixSteps, RelInv, TypeOK
<1>2. ASSUME NEW o \in call.orphaned, FixOrphaned(o)
      PROVE  FixProgress
  <2> DEFINE next == WithoutOrphan(o)
  <2>1. /\ next \in FixCalls
        /\ next.orphaned \subseteq call.orphaned
        /\ next.missing = call.missing /\ next.dangling = call.dangling
        /\ next.failed = call.failed
        /\ next.memory = {k \in call.memory : k.source # o.source \/ k.target # o.target}
    BY <1>1, NextFixCalls
  <2>2. Fix(next, o.source) \/ FixFails(next)
    BY <1>2 DEF FixOrphaned
  <2> HIDE DEF next
  <2>3. /\ call' = next /\ auto' = auto /\ status' = status
        /\ links' \subseteq links \cup next.memory
        /\ links \cap next.memory \subseteq links'
    BY <2>2, FixEffect
  <2>4. next.op = "fix"
    BY <2>1 DEF FixCalls
  <2>5. \A l \in call.memory \ next.memory : l.target \notin Seen
    BY <1>1, <2>1 DEF FixInv
  <2>6. next.memory \subseteq call.memory
    BY <2>1
  <2> QED BY <2>1, <2>3, <2>4, <2>5, <2>6 DEF FixProgress
<1>3. ASSUME NEW d \in call.dangling, FixDangling(d)
      PROVE  FixProgress
  <2> DEFINE next == WithoutDangling(d)
  <2>1. /\ next \in FixCalls
        /\ next.orphaned = call.orphaned
        /\ next.missing = call.missing /\ next.dangling = call.dangling \ {d}
        /\ next.failed = call.failed /\ next.memory = call.memory \ {d}
    BY <1>1, NextFixCalls
  <2>2. (Fix(next, d.source) \/ FixFails(next)) /\ call.missing = {}
    BY <1>3 DEF FixDangling
  <2> HIDE DEF next
  <2>3. /\ call' = next /\ auto' = auto /\ status' = status
        /\ links' \subseteq links \cup next.memory
        /\ links \cap next.memory \subseteq links'
    BY <2>2, FixEffect
  <2>4. next.op = "fix"
    BY <2>1 DEF FixCalls
  <2>5. \A l \in call.memory \ next.memory : l \in call.dangling \ next.dangling
    BY <2>1
  <2> QED BY <2>1, <2>2, <2>3, <2>4, <2>5 DEF FixProgress
<1>4. ASSUME NEW m \in call.missing, FixMissing(m)
      PROVE  FixProgress
  <2>1. m \in Link /\ Opposite(m) \in Link /\ Paired(m)
    BY <1>1, <1>4, InverseJoins DEF FixMissing, FixInv
  <2>2. Opposite(m).source = m.target /\ Opposite(Opposite(m)) = m
    BY <2>1, OppositeOpposite
  <2>3. ASSUME NEW next \in FixCalls, NEW failed,
               next.orphaned = call.orphaned, next.missing = call.missing \ {m},
               next.dangling = call.dangling, next.memory = call.memory \cup {Opposite(m)},
               next.failed = call.failed \cup failed,
               Fix(next, m.target) \/ FixFails(next),
               m \in next.failed \/ Opposite(m) \in links'
        PROVE  FixProgress
    <3>1. /\ call' = next /\ auto' = auto /\ status' = status
          /\ links' \subseteq links \cup next.memory
          /\ links \cap next.memory \subseteq links'
      BY <2>3, FixEffect
    <3>2. next.op = "fix"
      BY DEF FixCalls
    <3>3. \A l \in next.memory \ call.memory : l = Opposite(m)
      BY <2>3
    <3> QED BY <2>3, <3>1, <3>2, <3>3 DEF FixProgress
  <2>4. CASE Fix(WithInverse(m), m.target)
    <3> DEFINE next == WithInverse(m)
    <3>1. /\ next \in FixCalls
          /\ next.orphaned = call.orphaned /\ next.missing = call.missing \ {m}
          /\ next.dangling = call.dangling /\ next.failed = call.failed
          /\ next.memory = call.memory \cup {Opposite(m)}
      BY <1>1, <2>1, NextFixCalls
    <3>2. Fix(next, m.target)
      BY <2>4
    <3> HIDE DEF next
    <3>3. CASE next.memory = call.memory
      <4>1. Opposite(m) \in call.memory /\ links' = links
        BY <3>1, <3>2, <3>3 DEF Fix
      <4>2. Opposite(m) \in links \/ m \in call.failed
        BY <1>1, <2>2, <4>1 DEF FixInv
      <4> QED BY <2>3, <3>1, <3>2, <4>1, <4>2
    <3>4. CASE next.memory # call.memory
      <4>1. links' = (links \ Outgoing(m.target)) \cup {l \in next.memory : l.source = m.target}
        BY <3>2, <3>4 DEF Fix
      <4>2. Opposite(m) \in links'
        BY <2>2, <3>1, <4>1
      <4> QED BY <2>3, <3>1, <3>2, <4>2
    <3> QED BY <3>3, <3>4
  <2>5. CASE FixFails([WithInverse(m) EXCEPT !.failed = @ \cup {m}])
    <3> DEFINE next == [WithInverse(m) EXCEPT !.failed = @ \cup {m}]
    <3>1. /\ next \in FixCalls
          /\ next.orphaned = call.orphaned /\ next.missing = call.missing \ {m}
          /\ next.dangling = call.dangling /\ next.failed = call.failed \cup {m}
          /\ next.memory = call.memory \cup {Opposite(m)}
      BY <1>1, <2>1, NextFailed
    <3>2. FixFails(next)
      BY <2>5
    <3> HIDE DEF next
    <3> QED BY <2>3, <3>1, <3>2
  <2> QED BY <1>4, <2>4, <2>5 DEF FixMissing
<1>5. ASSUME NEW m \in call.missing, FixMissingElsewhere(m)
      PROVE  FixProgress
  <2>1. /\ call' = [call EXCEPT !.missing = @ \ {m}, !.failed = @ \cup {m}]
        /\ UNCHANGED <<auto, status, links>>
    BY <1>5 DEF FixMissingElsewhere
  <2>2. m \in Link
    BY <1>1 DEF FixCalls
  <2>3. /\ call' \in FixCalls /\ call'.op = "fix"
        /\ call'.orphaned = call.orphaned /\ call'.missing = call.missing \ {m}
        /\ call'.dangling = call.dangling /\ call'.failed = call.failed \cup {m}
        /\ call'.memory = call.memory
    BY <1>1, <2>1, <2>2 DEF FixCalls
  <2> QED BY <2>1, <2>3 DEF FixProgress
<1> QED BY <1>2, <1>3, <1>4, <1>5 DEF FixSteps

\* The half that keeps a tie stays on disk and in memory.
LEMMA KeptStays ==
    ASSUME RelInv, FixInv, auto, call.op = "fix", FixProgress,
           NEW l \in links, Paired(l), Kept(l), Opposite(l) \notin call.dangling
    PROVE  /\ Opposite(l) \in links' \cap call'.memory
           /\ Opposite(l) \notin call'.dangling
           /\ Paired(Opposite(l)) /\ Opposite(l).target \in Live
<1>1. l \in Link /\ l.source \in Live
  BY DEF RelInv, TypeOK
<1>2. Paired(Opposite(l)) /\ Opposite(l).target \in Live
  BY <1>1, OppositeOpposite
<1>3. Opposite(l) \in call'.memory
  <2>1. Opposite(l).target \in Seen
    BY <1>2 DEF Seen
  <2> QED BY <2>1 DEF FixProgress, Kept
<1> QED BY <1>2, <1>3 DEF FixProgress, Kept

\* A tie is that of either of its halves.
LEMMA TieOpposite ==
    ASSUME NEW l \in Link, Paired(l)
    PROVE  TieOf(Opposite(l)) = TieOf(l)
BY OppositeOpposite DEF TieOf

Tied == {k \in links : k.target \in Seen /\ Paired(k)}

\* Of the ties found only those of an inverse that failed are lost, and only
\* those are made anew.
LEMMA FixProgressTies ==
    ASSUME RelInv, FixInv, auto, call.op = "fix", FixProgress
    PROVE  (Ties \ Ties') \cup (Ties' \ Ties) \subseteq {TieOf(l) : l \in call.failed}
<1>0. /\ links \subseteq Link
      /\ call \in FixCalls
      /\ Seen' = Seen
  BY CallTyping DEF RelInv, TypeOK, FixProgress, Seen, Live
<1>1. Ties = {TieOf(l) : l \in Tied}
  BY DEF Ties, Tied
<1>2. Ties' = {TieOf(l) : l \in Tied'}
  BY DEF Ties, Tied, TieOf, Opposite, Paired
<1>3. \A l : l \in Tied' <=> l \in links' /\ l.target \in Seen /\ Paired(l)
  BY <1>0 DEF Tied, Paired
<1>4. ASSUME NEW l \in Tied, TieOf(l) \notin Ties'
      PROVE  l \in call.failed
  <2>1. l \in links /\ l \in Link /\ l.target \in Seen /\ Paired(l)
    BY <1>0 DEF Tied
  <2>2. l \notin links'
    BY <1>2, <1>3, <1>4, <2>1
  <2>3. l \notin call'.memory
    BY <2>1, <2>2 DEF FixProgress
  <2>4. ASSUME Kept(l), Opposite(l) \notin call.dangling
        PROVE  FALSE
    <3>1. Opposite(l) \in links' /\ Paired(Opposite(l)) /\ Opposite(l).target \in Live
      BY <2>1, <2>4, KeptStays
    <3>2. Opposite(l) \in Tied'
      BY <1>3, <3>1 DEF Seen
    <3> QED BY <1>2, <1>4, <2>1, <3>2, TieOpposite
  <2>5. CASE l \in call.memory
    <3>1. l \in call.dangling /\ call.missing = {}
      BY <2>1, <2>3, <2>5 DEF FixProgress
    <3>2. Opposite(l) \notin call.dangling /\ (l \in call.failed \/ Kept(l))
      BY <3>1 DEF FixInv
    <3> QED BY <2>4, <3>2
  <2>6. CASE l \notin call.memory
    <3>1. l \in call.failed \/ (Kept(l) /\ Opposite(l) \notin call.dangling)
      BY <2>1, <2>6 DEF FixInv
    <3> QED BY <2>4, <3>1
  <2> QED BY <2>5, <2>6
<1>5. ASSUME NEW l \in Tied', TieOf(l) \notin Ties
      PROVE  \E k \in call.failed : TieOf(l) = TieOf(k)
  <2>1. l \in links' /\ l.target \in Seen /\ Paired(l)
    BY <1>3
  <2>2. l \notin links
    BY <1>1, <1>5, <2>1 DEF Tied
  <2>3. l \in call'.memory
    BY <2>1, <2>2 DEF FixProgress
  <2>4. CASE l \in call.memory
    <3>1. Opposite(l) \in call.failed /\ l \in Link
      BY <1>0, <2>2, <2>4 DEF FixInv, FixCalls
    <3> QED BY <2>1, <3>1, TieOpposite
  <2>5. CASE l \notin call.memory
    <3>1. PICK m \in call.missing : l = Opposite(m)
      BY <2>3, <2>5 DEF FixProgress
    <3>2. m \in links /\ m \in Link /\ Paired(m) /\ m.target \in Seen
      BY <1>0, <3>1 DEF FixInv
    <3>3. TieOf(l) = TieOf(m) /\ m \in Tied
      BY <3>1, <3>2, TieOpposite DEF Tied
    <3> QED BY <1>1, <1>5, <3>3
  <2> QED BY <2>4, <2>5
<1>6. ASSUME NEW T \in Ties \ Ties'
      PROVE  T \in {TieOf(l) : l \in call.failed}
  BY <1>1, <1>4, <1>6
<1>7. ASSUME NEW T \in Ties' \ Ties
      PROVE  T \in {TieOf(l) : l \in call.failed}
  BY <1>2, <1>5, <1>7
<1> QED BY <1>6, <1>7

LEMMA FixKeepsTiesStep ==
    ASSUME RelInv, FixInv, [Next]_vars, call.op = "fix", auto
    PROVE  (Ties \ Ties') \cup (Ties' \ Ties) \subseteq {TieOf(l) : l \in call.failed}
<1>1. CASE FixSteps
  BY <1>1, FixProgresses, FixProgressTies
<1>2. CASE FixDone \/ Stop \/ UNCHANGED vars
  <2>1. UNCHANGED <<status, links>>
    BY <1>2 DEF FixDone, Stop, vars
  <2>2. Ties' = Ties
    BY <2>1 DEF Ties, TieOf, Seen, Live, Opposite, Paired
  <2> QED BY <2>2
<1>3. call # Idle
  BY DEF Idle
<1> QED BY <1>1, <1>2, <1>3 DEF Next, FixSteps, Create, CreateUnder, ClearBegin,
           DeleteBegin, LinkFeatures, LinkInverse, Unlink, ClearOwn, DeleteFile, FixBegin

LEMMA FixProgressInv ==
    ASSUME RelInv, FixInv, auto, call.op = "fix", FixProgress
    PROVE  FixInv'
<1>0. /\ links \subseteq Link
      /\ call \in FixCalls
      /\ Seen' = Seen
  BY CallTyping DEF RelInv, TypeOK, FixProgress, Seen, Live
<1> DEFINE Kept2(l) == Opposite(l) \in links' \cap call'.memory
<1>1. SUFFICES
          /\ \A l \in call'.orphaned : l.target \notin Seen
          /\ call'.missing \cup call'.dangling \subseteq links' \cap call'.memory
          /\ \A l \in call'.missing \cup call'.dangling : Paired(l) /\ l.target \in Seen
          /\ \A l \in call'.memory \ links' : Paired(l) /\ Opposite(l) \in call'.failed
          /\ \A l \in links' \ call'.memory :
                Paired(l) /\ l.target \in Seen =>
                    l \in call'.failed \/ (Kept2(l) /\ Opposite(l) \notin call'.dangling)
          /\ \A l \in call'.dangling :
                /\ Opposite(l) \notin call'.dangling
                /\ l \in call'.missing \/ l \in call'.failed \/ Kept2(l)
  BY <1>0 DEF FixInv, Kept, Paired, Opposite
<1>2. \A l \in call'.orphaned : l.target \notin Seen
  BY DEF FixInv, FixProgress
<1>3. \A l \in call'.missing \cup call'.dangling :
          l \in links /\ l \in call.memory /\ Paired(l) /\ l.target \in Seen
  BY DEF FixInv, FixProgress
<1>4. call'.missing \cup call'.dangling \subseteq links' \cap call'.memory
  <2>1. ASSUME NEW l \in call'.missing \cup call'.dangling
        PROVE  l \in links' \cap call'.memory
    <3>1. l \in call'.memory
      BY <1>3, <2>1 DEF FixProgress
    <3> QED BY <1>3, <2>1, <3>1 DEF FixProgress
  <2> QED BY <2>1
<1>5. ASSUME NEW l \in call'.memory \ links'
      PROVE  Paired(l) /\ Opposite(l) \in call'.failed
  <2>1. l \notin links
    BY <1>5 DEF FixProgress
  <2>2. CASE l \in call.memory
    BY <2>1, <2>2 DEF FixInv, FixProgress
  <2>3. CASE l \notin call.memory
    <3>1. PICK m \in call.missing \ call'.missing : l = Opposite(m)
      BY <1>5, <2>3 DEF FixProgress
    <3>2. m \in call'.failed
      BY <1>5, <3>1 DEF FixProgress
    <3>3. m \in Link /\ Paired(m)
      BY <1>0, <3>1 DEF FixInv
    <3> QED BY <3>1, <3>2, <3>3, OppositeOpposite
  <2> QED BY <2>2, <2>3
<1>6. ASSUME NEW l \in links' \ call'.memory, Paired(l), l.target \in Seen
      PROVE  l \in call'.failed \/ (Kept2(l) /\ Opposite(l) \notin call'.dangling)
  <2>1. l \in links
    BY <1>6 DEF FixProgress
  <2>2. l \in call.failed \/ (Kept(l) /\ Opposite(l) \notin call.dangling)
    <3>1. CASE l \in call.memory
      <4>1. l \in call.dangling /\ call.missing = {}
        BY <1>6, <3>1 DEF FixProgress
      <4> QED BY <4>1 DEF FixInv
    <3>2. CASE l \notin call.memory
      BY <1>6, <2>1, <3>2 DEF FixInv
    <3> QED BY <3>1, <3>2
  <2>3. CASE l \in call.failed
    BY <2>3 DEF FixProgress
  <2>4. CASE Kept(l) /\ Opposite(l) \notin call.dangling
    BY <1>6, <2>1, <2>4, KeptStays
  <2> QED BY <2>2, <2>3, <2>4
<1>7. ASSUME NEW l \in call'.dangling
      PROVE  /\ Opposite(l) \notin call'.dangling
             /\ l \in call'.missing \/ l \in call'.failed \/ Kept2(l)
  <2>1. /\ l \in call.dangling /\ Opposite(l) \notin call.dangling
        /\ l \in call.missing \/ l \in call.failed \/ Kept(l)
    BY DEF FixInv, FixProgress
  <2>2. Opposite(l) \notin call'.dangling
    BY <2>1 DEF FixProgress
  <2>3. CASE l \in call.missing
    BY <2>2, <2>3 DEF FixProgress
  <2>4. CASE l \in call.failed
    BY <2>2, <2>4 DEF FixProgress
  <2>5. CASE Kept(l)
    <3>1. l \in links /\ Paired(l)
      BY <1>3
    <3> QED BY <2>1, <2>2, <2>5, <3>1, KeptStays
  <2> QED BY <2>1, <2>2, <2>3, <2>4, <2>5
<1> QED BY <1>2, <1>3, <1>4, <1>5, <1>6, <1>7

LEMMA FixInvBegin ==
    ASSUME RelInv, auto, FixBegin
    PROVE  FixInv'
<1>0. links \subseteq Link
  BY DEF RelInv, TypeOK
<1>1. /\ UNCHANGED <<auto, status, links>>
      /\ call'.op = "fix" /\ call'.orphaned = Orphaned
      /\ call'.missing = MissingInverse /\ call'.dangling = DanglingInverse
      /\ call'.memory = links /\ call'.failed = {}
  BY DEF FixBegin
<1>2. Seen' = Seen
  BY <1>1 DEF Seen, Live
<1>3. ASSUME NEW l \in DanglingInverse
      PROVE  /\ l \in links /\ Paired(l) /\ l.target \in Seen
             /\ Opposite(l) \notin links
             /\ l \in MissingInverse
  <2>1. PICK t \in Types : /\ InverseOf[t] = l.type
                           /\ [source |-> l.target, type |-> t,
                               target |-> l.source] \notin links
    BY DEF DanglingInverse
  <2>2. l \in links /\ l.target \in Seen /\ l.type \in Types
    BY <1>0 DEF DanglingInverse, Link
  <2>3. InverseOf[l.type] = t /\ Paired(l)
    BY <2>1, <2>2, ConfigAssumption DEF Paired
  <2>4. Opposite(l) \notin links
    BY <2>1, <2>3 DEF Opposite
  <2> QED BY <2>2, <2>3, <2>4 DEF MissingInverse
<1>4. \A l \in MissingInverse : l \in links /\ Paired(l) /\ l.target \in Seen
  BY DEF MissingInverse
<1>5. \A l \in Orphaned : l.target \notin Seen
  BY DEF Orphaned
<1>6. \A l \in DanglingInverse : Opposite(l) \notin DanglingInverse
  BY <1>3
<1> QED BY <1>1, <1>2, <1>3, <1>4, <1>5, <1>6 DEF FixInv, Kept, Paired, Opposite

LEMMA FixInvStep ==
    ASSUME RelInv, FixInv, [Next]_vars
    PROVE  FixInv'
<1>0. auto' = auto
  <2>1. FixSteps => auto' = auto
    BY FixAdds DEF FixGrowth
  <2> QED BY <2>1 DEF Next, FixSteps, Create, CreateUnder, ClearBegin, DeleteBegin, LinkFeatures,
           LinkInverse, Unlink, ClearOwn, DeleteFile, FixBegin,
           FixDone, Stop, ClearOpposite, ClearOppositeFails, DeleteCleanup, vars
<1>1. SUFFICES ASSUME auto PROVE FixInv'
  BY <1>0 DEF FixInv
<1>2. CASE FixBegin
  BY <1>1, <1>2, FixInvBegin
<1>3. CASE FixSteps
  <2>1. call.op = "fix"
    BY <1>3 DEF FixSteps
  <2> QED BY <1>1, <1>3, <2>1, FixProgresses, FixProgressInv
<1>6. ASSUME call'.op # "fix"
      PROVE  FixInv'
  BY <1>6 DEF FixInv
<1>7. ASSUME call' = Idle
      PROVE  FixInv'
  BY <1>6, <1>7 DEF Idle
<1>8. CASE \E s, t \in Features, word \in Words : LinkFeatures(s, t, word)
  <2>1. call' = Idle \/ call'.op = "inverse"
    BY <1>8 DEF LinkFeatures
  <2> QED BY <1>6, <1>7, <2>1
<1>9. CASE \E f \in Features : ClearBegin(f) \/ DeleteBegin(f)
  <2>1. call'.op \in {"clear", "delete"}
    BY <1>9 DEF ClearBegin, DeleteBegin
  <2> QED BY <1>6, <2>1
<1>10. CASE call.op = "clear"
               /\ \E l \in call.todo : ClearOpposite(l) \/ ClearOppositeFails(l)
  <2>1. call \in [op : {"clear"}, feature : Features, todo : SUBSET Link]
    BY <1>10, CallTyping DEF RelInv, TypeOK
  <2>2. call'.op = "clear"
    BY <1>10, <2>1 DEF ClearOpposite, ClearOppositeFails
  <2> QED BY <1>6, <2>2
<1>11. CASE call.op = "delete" /\ \E g \in call.todo : DeleteCleanup(g)
  <2>1. call \in [op : {"delete"}, feature : Features, todo : SUBSET Features]
    BY <1>11, CallTyping DEF RelInv, TypeOK
  <2>2. call'.op = "delete"
    BY <1>11, <2>1 DEF DeleteCleanup
  <2> QED BY <1>6, <2>2
<1>12. CASE \/ \E f \in Features : Create(f) \/ \E x \in Targets : CreateUnder(f, x)
            \/ LinkInverse \/ ClearOwn \/ DeleteFile \/ FixDone \/ Stop
            \/ \E l \in links : Unlink(l)
  BY <1>7, <1>12 DEF Create, CreateUnder, LinkInverse, ClearOwn, DeleteFile, FixDone,
                     Stop, Unlink
<1>13. CASE UNCHANGED vars
  BY <1>13 DEF vars, FixInv, Kept, Seen, Live, Paired, Opposite
<1> QED BY <1>2, <1>3, <1>8, <1>9, <1>10, <1>11, <1>12, <1>13 DEF Next, FixSteps

\* validate --fix unties no two features it found tied and ties none it did
\* not, but those whose missing inverse it lists as failed, in whatever order it
\* takes the issues of one kind and wherever it is cut short.
THEOREM FixKeepsTiesAlways == Spec => FixKeepsTies
<1>1. Init => RelInv /\ FixInv
  BY RelInvInit DEF Init, Idle, FixInv
<1>2. RelInv /\ FixInv /\ [Next]_vars => (RelInv /\ FixInv)'
  BY RelInvStep, FixInvStep
<1>3. RelInv /\ FixInv /\ [Next]_vars =>
          [call.op = "fix" /\ auto =>
              (Ties \ Ties') \cup (Ties' \ Ties) \subseteq {TieOf(l) : l \in call.failed}]_vars
  BY FixKeepsTiesStep
<1> QED BY <1>1, <1>2, <1>3, PTL DEF Spec, FixKeepsTies
=============================================================================
