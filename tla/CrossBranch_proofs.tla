------------------------- MODULE CrossBranch_proofs -------------------------
(***************************************************************************)
(* Proofs about CrossBranch, for any features, branches, remote branches,  *)
(* files and bounds: its types; and, where every feature has a path of its *)
(* own, that nothing uncommitted is lost, that link changes no other file  *)
(* than the one it saves, that no relationship is lost from a branch, and  *)
(* that a link without a warning has both its halves.                      *)
(***************************************************************************)
EXTENDS CrossBranch, SequenceTheorems, TLAPS

-----------------------------------------------------------------------------
(* Trees and the stash *)

\* What path p may hold.
FileAt(p) == IF p = Notes THEN Note ELSE Feature

LEMMA TreeDef ==
    ASSUME NEW tree
    PROVE  tree \in Tree <=> /\ tree \in [Paths -> Feature \cup Note \cup {None}]
                             /\ \A p \in Paths : tree[p] = None \/ tree[p] \in FileAt(p)
BY DEF Tree, Files, FileAt

\* A tree may be put together of trees, path by path.
LEMMA TreeMixed ==
    ASSUME NEW tree, tree = [p \in Paths |-> tree[p]],
           \A p \in Paths : tree[p] = None \/ tree[p] \in FileAt(p)
    PROVE  tree \in Tree
BY TreeDef DEF FileAt

LEMMA EmptyTree == Empty \in Tree /\ Files(Empty) = {}
BY TreeDef DEF Empty, Files

Entry == [from : Tree, paths : SUBSET Paths, to : Tree]

LEMMA StashPushed ==
    ASSUME NEW s \in Seq(Entry), NEW e \in Entry
    PROVE  /\ Append(s, e) \in Seq(Entry) /\ Append(s, e) # <<>>
           /\ Len(Append(s, e)) = Len(s) + 1 /\ Last(Append(s, e)) = e
           /\ Append(s, e)[Len(s) + 1] = e
           /\ \A i \in 1..Len(s) : Append(s, e)[i] = s[i] /\ i \in 1..(Len(s) + 1)
BY AppendProperties, LenProperties DEF Last

LEMMA StashPopped ==
    ASSUME NEW s \in Seq(Entry), s # <<>>
    PROVE  /\ Front(s) \in Seq(Entry) /\ Len(s) \in 1..Len(s)
           /\ Last(s) = s[Len(s)] /\ Last(s) \in Entry
           /\ Len(Front(s)) = Len(s) - 1
           /\ \A i \in 1..Len(Front(s)) : Front(s)[i] = s[i] /\ i \in 1..Len(s)
           /\ \A i \in 1..Len(s) : i = Len(s) \/ i \in 1..Len(Front(s))
<1>1. Len(s) \in Nat /\ Len(s) > 0
    BY EmptySeq, LenProperties
<1>2. s[Len(s)] \in Entry
    BY <1>1, ElementOfSeq
<1>3. Front(s) \in Seq(Entry) /\ Len(Front(s)) = Len(s) - 1
      /\ \A i \in 1..Len(Front(s)) : Front(s)[i] = s[i]
    <2>1. \A i \in 1..(Len(s) - 1) : s[i] \in Entry
        BY <1>1, ElementOfSeq
    <2> DEFINE m == Len(s) - 1
    <2> HIDE DEF m
    <2>2. m \in Int /\ m >= 0 /\ \A i \in 1..m : s[i] \in Entry
        BY <1>1, <2>1 DEF m
    <2>3. /\ SubSeq(s, 1, m) \in Seq(Entry)
          /\ Len(SubSeq(s, 1, m)) = IF 1 <= m THEN m - 1 + 1 ELSE 0
          /\ \A i \in 1..(m - 1 + 1) : SubSeq(s, 1, m)[i] = s[1 + i - 1]
        BY <2>2, SubSeqProperties
    <2>4. /\ Len(SubSeq(s, 1, m)) = m
          /\ \A i \in 1..m : SubSeq(s, 1, m)[i] = s[i]
        BY <2>2, <2>3
    <2>5. /\ SubSeq(s, 1, Len(s) - 1) \in Seq(Entry)
          /\ Len(SubSeq(s, 1, Len(s) - 1)) = Len(s) - 1
          /\ \A i \in 1..(Len(s) - 1) : SubSeq(s, 1, Len(s) - 1)[i] = s[i]
        BY <2>3, <2>4 DEF m
    <2>. QED BY <2>5 DEF Front
<1>. QED BY <1>1, <1>2, <1>3 DEF Last

\* The saves a link has, and what is left of them when the first is over.
SaveOf == [id : Features, content : Feature, on : Branches \cup Remotes]
Saves  == {<<>>} \cup {<<a>> : a \in SaveOf} \cup {<<a, b>> : a \in SaveOf, b \in SaveOf}

LEMMA SavesTail ==
    ASSUME NEW s \in Saves, s # <<>>
    PROVE  /\ Head(s) \in SaveOf /\ Tail(s) \in Saves
           /\ Head(s) = s[1] /\ Len(s) \in {1, 2} /\ Len(Tail(s)) = Len(s) - 1
           /\ Len(s) = 2 => Tail(s)[1] = s[2]
           /\ \A i \in 1..Len(s) : s[i] \in SaveOf
<1>1. CASE \E a \in SaveOf : s = <<a>>
    BY <1>1 DEF Saves
<1>2. CASE \E a, b \in SaveOf : s = <<a, b>>
    <2>1. PICK a \in SaveOf, b \in SaveOf : s = <<a, b>>
        BY <1>2
    <2>2. Tail(s) = <<b>>
        BY <2>1
    <2>. QED BY <2>1, <2>2 DEF Saves
<1>. QED BY <1>1, <1>2 DEF Saves
-----------------------------------------------------------------------------
(* Types *)

GitType ==
    /\ tip \in [Branches -> Tree] /\ wt \in Tree /\ loose \in Tree
    /\ exists \subseteq Branches /\ head \in exists \cup Remotes
    /\ tracked \subseteq Paths
    /\ stash \in Seq(Entry)

LEMMA HeadTyping ==
    ASSUME GitType
    PROVE  /\ HeadTree \in Tree
           /\ \A b \in Branches \cup Remotes : TreeOf(b) \in Tree
           /\ Changed \subseteq Paths /\ Files(HeadTree) \subseteq Paths /\ Files(wt) \subseteq Paths
           /\ \A b \in Branches \cup Remotes : Files(TreeOf(b)) \subseteq Paths
BY CrossBranchAssumption DEF GitType, HeadTree, TreeOf, Changed, Files

LEMMA CheckoutTyping ==
    ASSUME GitType, NEW b \in exists \cup Remotes, Checkout(b) \/ CheckoutForce(b)
    PROVE  GitType'
<1>1. HeadTree \in Tree /\ TreeOf(b) \in Tree /\ wt \in Tree
      /\ Files(TreeOf(b)) \subseteq Paths
    BY HeadTyping DEF GitType
<1>2. PICK tree, index :
          /\ MovesTo(b, tree, index) /\ index \subseteq tracked \cup Files(TreeOf(b))
          /\ tree = [p \in Paths |-> tree[p]]
          /\ \A p \in Paths : tree[p] \in {wt[p], TreeOf(b)[p]}
    <2>1. CASE Checkout(b)
        <3> DEFINE tree == [p \in Paths |-> IF wt[p] = HeadTree[p] THEN TreeOf(b)[p] ELSE wt[p]]
        <3>1. MovesTo(b, tree, (tracked \ Files(HeadTree)) \cup Files(TreeOf(b)))
            BY <2>1 DEF Checkout
        <3>. QED BY <3>1
    <2>2. CASE CheckoutForce(b)
        <3> DEFINE tree == [p \in Paths |-> IF p \in Untracked /\ TreeOf(b)[p] = None
                                            THEN wt[p] ELSE TreeOf(b)[p]]
        <3>1. MovesTo(b, tree, Files(TreeOf(b)))
            BY <2>2 DEF CheckoutForce
        <3>. QED BY <3>1
    <2>. QED BY <2>1, <2>2
<1>3. tree \in Tree
    <2>1. \A p \in Paths : tree[p] = None \/ tree[p] \in FileAt(p)
        BY <1>1, <1>2, TreeDef
    <2>. QED BY <1>2, <2>1, TreeMixed
<1>4. (IF b \in Remotes THEN Fetched[b] ELSE Empty) \in Tree
    BY EmptyTree, CrossBranchAssumption
<1>. QED BY <1>1, <1>2, <1>3, <1>4 DEF MovesTo, GitType

LEMMA CreateBranchTyping ==
    ASSUME GitType, NEW b \in Branches, CreateBranch(b)
    PROVE  GitType'
BY HeadTyping, EmptyTree DEF GitType, CreateBranch

LEMMA CommitTyping ==
    ASSUME GitType, NEW S \in SUBSET Paths, NEW tree \in Tree, CommitPaths(S, tree)
    PROVE  GitType'
<1> DEFINE commit == [p \in Paths |-> IF p \in S THEN tree[p] ELSE HeadTree[p]]
<1>1. commit \in Tree
    <2>1. \A p \in Paths : commit[p] = None \/ commit[p] \in FileAt(p)
        BY HeadTyping, TreeDef
    <2>. QED BY <2>1, TreeMixed
<1>2. /\ wt' = tree
      /\ tracked' = tracked \cup (S \cap Files(tree))
      /\ IF head \in Branches
         THEN tip' = [tip EXCEPT ![head] = commit] /\ UNCHANGED loose
         ELSE loose' = commit /\ UNCHANGED tip
      /\ UNCHANGED <<exists, head, stash>>
    BY DEF CommitPaths
<1> HIDE DEF commit
<1>. QED BY <1>1, <1>2 DEF GitType

LEMMA PushTyping ==
    ASSUME GitType, StashPush
    PROVE  GitType'
<1> DEFINE tree == [p \in Paths |-> IF p \in tracked THEN HeadTree[p] ELSE wt[p]]
           e    == [from |-> HeadTree, paths |-> Changed, to |-> wt]
<1>1. tree \in Tree
    <2>1. \A p \in Paths : tree[p] = None \/ tree[p] \in FileAt(p)
        BY HeadTyping, TreeDef DEF GitType
    <2>. QED BY <2>1, TreeMixed
<1>2. e \in Entry
    BY HeadTyping DEF Entry, GitType
<1>3. stash' = Append(stash, e) /\ wt' = tree /\ tracked' = Files(HeadTree)
      /\ UNCHANGED <<tip, exists, head, loose>>
    BY DEF StashPush
<1> HIDE DEF e, tree
<1>4. stash' \in Seq(Entry)
    BY <1>2, <1>3, StashPushed DEF GitType
<1>. QED BY <1>1, <1>3, <1>4, HeadTyping DEF GitType

LEMMA PopTyping ==
    ASSUME GitType, StashPop
    PROVE  GitType'
<1> DEFINE last == Last(stash)
           tree == [p \in Paths |-> IF p \in last.paths THEN last.to[p] ELSE wt[p]]
<1>1. /\ stash # <<>> /\ wt' = tree /\ tracked' = tracked \cup last.paths
      /\ stash' = Front(stash) /\ UNCHANGED <<tip, exists, head, loose>>
    BY DEF StashPop
<1>2. stash' \in Seq(Entry) /\ last \in Entry
    BY <1>1, StashPopped DEF GitType
<1>3. last.to \in Tree /\ last.paths \subseteq Paths
    BY <1>2 DEF Entry
<1> HIDE DEF last
<1>4. tree \in Tree
    <2>1. \A p \in Paths : tree[p] = None \/ tree[p] \in FileAt(p)
        BY <1>3, TreeDef DEF GitType
    <2>. QED BY <2>1, TreeMixed
<1>. QED BY <1>1, <1>2, <1>3, <1>4 DEF GitType

\* The file a tree has of a feature.
LEMMA FileInTyping ==
    ASSUME NEW tree \in Tree, NEW f \in In(tree)
    PROVE  /\ FileIn(tree, f) \in Paths \ {Notes} /\ f \in Features
           /\ tree[FileIn(tree, f)] \in Feature /\ tree[FileIn(tree, f)].id = f
<1>1. PICK p \in Files(tree) \ {Notes} : tree[p].id = f
    BY DEF In
<1>2. FileIn(tree, f) \in Files(tree) \ {Notes} /\ tree[FileIn(tree, f)].id = f
    BY <1>1 DEF FileIn
<1>. QED BY <1>2, TreeDef DEF Files, FileAt, In

LEMMA FoundTyping ==
    ASSUME GitType, NEW f \in Features, NEW r \in Found(f)
    PROVE  /\ r.content \in Feature /\ r.content.id = f
           /\ r.branch \in Branches \cup Remotes
           /\ r = [content |-> r.content, branch |-> r.branch]
<1> DEFINE On(bs) == {[content |-> TreeOf(b)[FileIn(TreeOf(b), f)], branch |-> b] :
                          b \in {c \in bs : f \in In(TreeOf(c))}}
<1>1. CASE f \in In(wt)
    <2>1. r = [content |-> wt[FileIn(wt, f)], branch |-> head]
        BY <1>1 DEF Found
    <2>. QED BY <1>1, <2>1, FileInTyping DEF GitType
<1>2. CASE f \notin In(wt)
    <2>1. r \in On({Base}) \cup On(exists) \cup On(Remotes)
        BY <1>2 DEF Found
    <2>2. PICK b \in Branches \cup Remotes :
              f \in In(TreeOf(b)) /\ r = [content |-> TreeOf(b)[FileIn(TreeOf(b), f)], branch |-> b]
        BY <2>1, CrossBranchAssumption DEF GitType
    <2>. QED BY <2>2, FileInTyping, HeadTyping
<1>. QED BY <1>1, <1>2

CheckoutSteps == {"stash", "checkout", "commit", "return", "pop"}
LinkSteps     == CheckoutSteps \cup {"save", "done"}

Links == [step : LinkSteps, tie : Ties, start : Branches \cup Remotes,
          on : UNION {[S -> Branches \cup Remotes] : S \in SUBSET Features},
          saves : Saves, stashed : BOOLEAN, ok : BOOLEAN, warned : BOOLEAN]

LinkType ==
    /\ call \in Links
    /\ call.on \in [{call.tie[1], call.tie[2]} -> Branches \cup Remotes]
    /\ call.start \in exists \cup Remotes
    /\ call.step \in CheckoutSteps => call.saves # <<>>

CallType ==
    \/ call = Idle \/ call = [step |-> "created"]
    \/ LinkType

TypeInv ==
    /\ GitType /\ CallType
    /\ made \subseteq Features /\ edits \in 0..MaxEdits

LEMMA LinkUnderWay ==
    ASSUME CallType
    PROVE  /\ LinkType <=> call.step \in LinkSteps
           /\ ~At("idle") /\ ~At("created") <=> LinkType
BY DEF CallType, LinkType, Links, LinkSteps, CheckoutSteps, Idle, At

\* What the steps of a link change of the call.
LEMMA StepTyping ==
    ASSUME LinkType, exists' = exists, NEW step \in LinkSteps, NEW b \in BOOLEAN, NEW o \in BOOLEAN,
           step \in CheckoutSteps => call.saves # <<>>,
           call' = [call EXCEPT !.step = step, !.stashed = b, !.ok = o]
    PROVE  LinkType'
<1>1. call' \in Links
    BY DEF LinkType, Links
<1>2. /\ call'.tie = call.tie /\ call'.on = call.on /\ call'.start = call.start
      /\ call'.saves = call.saves /\ call'.step = step
    BY DEF LinkType, Links
<1>. QED BY <1>1, <1>2 DEF LinkType

LEMMA GoesTyping ==
    ASSUME LinkType, exists' = exists, NEW step \in LinkSteps,
           step \in CheckoutSteps => call.saves # <<>>, Goes(step)
    PROVE  LinkType'
<1>1. call' = [call EXCEPT !.step = step, !.stashed = call.stashed, !.ok = call.ok]
    BY DEF LinkType, Links, Goes
<1>2. call.stashed \in BOOLEAN /\ call.ok \in BOOLEAN
    BY DEF LinkType, Links
<1>. QED BY <1>1, <1>2, StepTyping

LEMMA SavedTyping ==
    ASSUME LinkType, exists' = exists, call.saves # <<>>, NEW ok \in BOOLEAN, Saved(ok)
    PROVE  /\ LinkType'
           /\ call'.step = IF ok \/ Save.id = call.tie[2] THEN "save" ELSE "done"
           /\ call'.saves = IF ok \/ Save.id = call.tie[2] THEN Tail(call.saves) ELSE <<>>
           /\ call'.tie = call.tie /\ call'.on = call.on /\ call'.start = call.start
           /\ call'.ok = TRUE /\ call'.stashed = FALSE /\ call'.warned = (call.warned \/ ~ok)
<1>1. Tail(call.saves) \in Saves /\ <<>> \in Saves
    BY SavesTail DEF LinkType, Links, Saves
<1>2. /\ call'.step = IF ok \/ Save.id = call.tie[2] THEN "save" ELSE "done"
      /\ call'.saves = IF ok \/ Save.id = call.tie[2] THEN Tail(call.saves) ELSE <<>>
      /\ call'.tie = call.tie /\ call'.on = call.on /\ call'.start = call.start
      /\ call'.ok = TRUE /\ call'.stashed = FALSE /\ call'.warned = (call.warned \/ ~ok)
    BY DEF LinkType, Links, Saved
<1>3. call' \in Links
    BY <1>1 DEF LinkType, Links, Saved, LinkSteps
<1>. QED BY <1>2, <1>3 DEF LinkType, CheckoutSteps

\* The save under way.
LEMMA SaveTyping ==
    ASSUME LinkType, call.saves # <<>>
    PROVE  Save \in SaveOf /\ Save.id \in Features /\ Save.content \in Feature
           /\ Save.on \in Branches \cup Remotes
BY SavesTail DEF LinkType, Links, Save, SaveOf

LEMMA WrittenTyping ==
    ASSUME GitType, LinkType, call.saves # <<>>
    PROVE  Written \in Tree /\ {SaveName[Save.id]} \subseteq Paths
<1>1. SaveName[Save.id] \in Paths \ {Notes}
    BY SaveTyping, CrossBranchAssumption
<1>2. Written = [p \in Paths |-> Written[p]]
    BY TreeDef DEF Written, GitType
<1>3. \A p \in Paths : Written[p] = None \/ Written[p] \in FileAt(p)
    BY <1>1, SaveTyping, TreeDef DEF Written, GitType, FileAt
<1>. QED BY <1>1, <1>2, <1>3, TreeMixed

\* The save of one half of a link, of the copy r that was found.
HalfOf(f, r, k) == [id |-> f, content |-> With(r.content, k), on |-> r.branch]

Begun(c, s, t, r, q) ==
    /\ c \in Links
    /\ c.step = "save" /\ c.tie = <<s, t>> /\ c.start = head
    /\ c.on[s] = r.branch /\ c.on[t] = q.branch
    /\ c.on \in [{s, t} -> Branches \cup Remotes]
    /\ c.saves = IF <<s, t>> \in q.content.ties THEN <<HalfOf(s, r, <<s, t>>)>>
                 ELSE <<HalfOf(s, r, <<s, t>>), HalfOf(t, q, <<s, t>>)>>
    /\ ~c.stashed /\ c.ok /\ ~c.warned
    /\ HalfOf(s, r, <<s, t>>) \in SaveOf /\ HalfOf(t, q, <<s, t>>) \in SaveOf

LEMMA LinkBegun ==
    ASSUME GitType, NEW s \in Features, NEW t \in Features, s # t,
           NEW r \in Found(s), NEW q \in Found(t)
    PROVE  Begun(LinkOf(s, t, r, q), s, t, r, q)
<1> DEFINE c == LinkOf(s, t, r, q)
           here  == HalfOf(s, r, <<s, t>>)
           back  == HalfOf(t, q, <<s, t>>)
           on    == [f \in {s, t} |-> IF f = s THEN r.branch ELSE q.branch]
           saves == IF <<s, t>> \in q.content.ties THEN <<here>> ELSE <<here, back>>
<1>1. /\ r.content \in Feature /\ r.branch \in Branches \cup Remotes
      /\ q.content \in Feature /\ q.branch \in Branches \cup Remotes
    BY FoundTyping
<1>2. <<s, t>> \in Ties
    BY DEF Ties
<1>3. With(r.content, <<s, t>>) \in Feature /\ With(q.content, <<s, t>>) \in Feature
    BY <1>1, <1>2 DEF With, Feature
<1>4. here \in SaveOf /\ back \in SaveOf
    BY <1>1, <1>3 DEF SaveOf, HalfOf
<1>5. c = [step |-> "save", tie |-> <<s, t>>, start |-> head, on |-> on, saves |-> saves,
           stashed |-> FALSE, ok |-> TRUE, warned |-> FALSE]
    BY DEF LinkOf, HalfOf
<1> HIDE DEF c
<1>6. on \in [{s, t} -> Branches \cup Remotes] /\ on[s] = r.branch /\ on[t] = q.branch
    BY <1>1
<1> HIDE DEF here, back, on
<1>7. saves \in Saves
    BY <1>4 DEF Saves
<1> HIDE DEF saves
<1>8. head \in Branches \cup Remotes
    BY DEF GitType
<1>9. on \in UNION {[S -> Branches \cup Remotes] : S \in SUBSET Features}
    BY <1>6
<1>10. c \in Links
    BY <1>2, <1>5, <1>7, <1>8, <1>9 DEF Links, LinkSteps
<1>11. /\ c.step = "save" /\ c.tie = <<s, t>> /\ c.start = head /\ c.on = on /\ c.saves = saves
       /\ ~c.stashed /\ c.ok /\ ~c.warned
    BY <1>5
<1>. QED BY <1>4, <1>6, <1>10, <1>11 DEF Begun, c, here, back, saves

LEMMA TypeStep == TypeInv /\ [Next]_vars => TypeInv'
<1> SUFFICES ASSUME TypeInv, [Next]_vars PROVE TypeInv'
    OBVIOUS
<1>0. /\ GitType /\ CallType /\ made \subseteq Features /\ edits \in 0..MaxEdits
      /\ Notes \in Paths /\ MaxEdits \in Nat /\ FileOf \in [Features -> Paths \ {Notes}]
      /\ BranchOf \in [Features -> Branches] /\ Base \in Branches
    BY CrossBranchAssumption DEF TypeInv
<1>a. ASSUME Begins, UNCHANGED call PROVE CallType'
    BY <1>a DEF Begins, CallType
<1>1. ASSUME Edit PROVE TypeInv'
    <2>1. call = Idle /\ UNCHANGED <<tip, exists, head, loose, tracked, stash, call, made>>
          /\ edits' \in 0..MaxEdits /\ wt' = [wt EXCEPT ![Notes] = [edit |-> edits']]
        BY <1>0, <1>1 DEF Edit, Begins
    <2>2. wt' \in Tree
        <3>1. [edit |-> edits'] \in FileAt(Notes)
            BY <2>1 DEF FileAt, Note
        <3>2. wt \in [Paths -> Feature \cup Note \cup {None}]
              /\ \A p \in Paths : wt[p] = None \/ wt[p] \in FileAt(p)
            BY <1>0, TreeDef DEF GitType
        <3>3. wt' = [p \in Paths |-> wt'[p]]
            BY <2>1, <3>2
        <3>4. \A p \in Paths : wt'[p] = None \/ wt'[p] \in FileAt(p)
            BY <2>1, <3>1, <3>2
        <3>. QED BY <3>3, <3>4, TreeMixed
    <2>3. GitType'
        BY <1>0, <2>1, <2>2 DEF GitType
    <2>4. CallType'
        BY <2>1 DEF CallType
    <2>. QED BY <1>0, <2>1, <2>3, <2>4 DEF TypeInv
<1>2. ASSUME CommitAll PROVE TypeInv'
    <2>1. Begins /\ CommitPaths(Paths, wt) /\ UNCHANGED <<call, made, edits>>
        BY <1>2 DEF CommitAll
    <2>2. GitType'
        BY <1>0, <2>1, CommitTyping DEF GitType
    <2>. QED BY <1>0, <1>a, <2>1, <2>2 DEF TypeInv
<1>3. ASSUME NEW b \in Branches, UserCheckout(b) PROVE TypeInv'
    <2>1. Begins /\ b \in exists /\ Checkout(b) /\ UNCHANGED <<call, made, edits>>
        BY <1>3 DEF UserCheckout
    <2>2. GitType'
        BY <1>0, <2>1, CheckoutTyping
    <2>. QED BY <1>0, <1>a, <2>1, <2>2 DEF TypeInv
<1>4. ASSUME NEW b \in Branches, UserBranch(b) PROVE TypeInv'
    <2>1. Begins /\ CreateBranch(b) /\ UNCHANGED <<call, made, edits>>
        BY <1>4 DEF UserBranch
    <2>2. GitType'
        BY <1>0, <2>1, CreateBranchTyping
    <2>. QED BY <1>0, <1>a, <2>1, <2>2 DEF TypeInv
<1>5. ASSUME UserPop PROVE TypeInv'
    <2>1. Begins /\ StashPop /\ UNCHANGED <<call, made, edits>>
        BY <1>5 DEF UserPop
    <2>2. GitType'
        BY <1>0, <2>1, PopTyping
    <2>. QED BY <1>0, <1>a, <2>1, <2>2 DEF TypeInv
<1>6. ASSUME NEW f \in Features, NEW flag, CreateFeature(f, flag) PROVE TypeInv'
    <2> DEFINE start  == IF ViaBase(flag) THEN tip[Base] ELSE HeadTree
               moved  == [p \in Paths |-> IF wt[p] = HeadTree[p] THEN start[p] ELSE wt[p]]
               new    == [id |-> f, ties |-> {}]
               placed == [moved EXCEPT ![FileOf[f]] = new]
    <2>1. /\ IF Stays(flag) THEN wt' = placed /\ UNCHANGED <<tip, exists, head, loose, tracked, stash>>
             ELSE StartsAt(start, BranchOf[f], placed)
          /\ NewFeature(f) /\ UNCHANGED edits
        BY <1>6 DEF CreateFeature
    <2>2. start \in Tree /\ wt \in Tree /\ Files(start) \subseteq Paths
        BY <1>0, HeadTyping DEF GitType, Files
    <2>3. placed \in Tree
        <3>1. new \in Feature
            BY DEF Feature
        <3>2. \A p \in Paths : moved[p] = None \/ moved[p] \in FileAt(p)
            BY <2>2, TreeDef
        <3>3. \A p \in Paths : placed[p] = None \/ placed[p] \in FileAt(p)
            BY <1>0, <3>1, <3>2 DEF FileAt
        <3>. QED BY <3>3, TreeMixed
    <2> HIDE DEF start, placed
    <2>4. GitType'
        <3>1. CASE Stays(flag)
            BY <1>0, <2>1, <2>3, <3>1 DEF GitType
        <3>2. CASE ~Stays(flag)
            <4>1. BranchOf[f] \in Branches
                BY <1>0
            <4>2. StartsAt(start, BranchOf[f], placed)
                BY <2>1, <3>2
            <4>. QED BY <1>0, <2>2, <2>3, <4>1, <4>2, EmptyTree DEF StartsAt, GitType
        <3>. QED BY <3>1, <3>2
    <2>5. CallType' /\ made' \subseteq Features
        BY <1>0, <2>1 DEF NewFeature, CallType
    <2>. QED BY <1>0, <2>1, <2>4, <2>5 DEF TypeInv
<1>7. ASSUME NEW f \in Features, NEW flag, CreateRefused(f, flag) PROVE TypeInv'
    <2>1. Begins /\ Checkout(Base) /\ UNCHANGED <<call, made, edits>>
        BY <1>7 DEF CreateRefused
    <2>2. Base \in exists \cup Remotes
        BY <2>1 DEF Checkout, CanCheckout, Known
    <2>3. GitType'
        BY <1>0, <2>1, <2>2, CheckoutTyping
    <2>. QED BY <1>0, <1>a, <2>1, <2>3 DEF TypeInv
<1>8. ASSUME NEW f \in Features, Switch(f) PROVE TypeInv'
    <2>1. PICK b \in Branches : SwitchTo(b)
        BY <1>8 DEF Switch
    <2>3. Begins /\ UNCHANGED <<call, made, edits>>
        BY <1>8 DEF Switch
    <2>2. GitType'
        BY <1>0, <2>1, <2>3, CheckoutTyping, CreateBranchTyping DEF SwitchTo
    <2>. QED BY <1>0, <1>a, <2>3, <2>2 DEF TypeInv
<1>9. ASSUME NEW s \in Features, NEW t \in Features, LinkBegin(s, t) PROVE TypeInv'
    <2>1. PICK r \in Found(s), q \in Found(t) : call' = LinkOf(s, t, r, q)
        BY <1>9 DEF LinkBegin
    <2>2. s # t /\ UNCHANGED <<git, made, edits>>
        BY <1>9 DEF LinkBegin
    <2>3. GitType'
        BY <1>0, <2>2 DEF GitType, git
    <2> DEFINE c == LinkOf(s, t, r, q)
    <2> HIDE DEF c
    <2>4. /\ c \in Links /\ c.step = "save" /\ c.tie = <<s, t>> /\ c.start = head
          /\ c.on \in [{s, t} -> Branches \cup Remotes]
        <3>1. Begun(LinkOf(s, t, r, q), s, t, r, q)
            BY <1>0, <2>2, LinkBegun
        <3>. QED BY <3>1 DEF Begun, c
    <2>5. LinkType'
        BY <1>0, <2>1, <2>2, <2>4 DEF LinkType, GitType, git, CheckoutSteps, c
    <2>. QED BY <1>0, <2>2, <2>3, <2>5 DEF TypeInv, CallType
<1>10. ASSUME CreateStep PROVE TypeInv'
    <2>1. call' = Idle /\ UNCHANGED <<made, edits>>
        BY <1>10 DEF CreateStep, AutoCommitFeature, AutoCommitFails
    <2>2. UNCHANGED git \/ CommitPaths(Paths, wt)
        BY <1>10 DEF CreateStep, AutoCommitFeature, AutoCommitFails
    <2>3. GitType'
        BY <1>0, <2>2, CommitTyping DEF GitType, git
    <2>. QED BY <1>0, <2>1, <2>3 DEF TypeInv, CallType
<1>11. ASSUME LinkStep PROVE TypeInv'
    <2>0. /\ LinkType \/ LinkEnd
          /\ UNCHANGED <<made, edits>>
        BY <1>0, <1>11, LinkUnderWay
        DEF LinkStep, SaveHere, SaveThere, StashChanges, CheckoutTarget, CheckoutRefused, CommitFile,
            CommitFails, Return, Pop, LinkEnd, At, LinkSteps, CheckoutSteps
    <2>1. ASSUME LinkEnd PROVE TypeInv'
        BY <1>0, <2>1 DEF LinkEnd, TypeInv, GitType, git, CallType
    <2>2. ASSUME SaveHere PROVE TypeInv'
        <3>1. LinkType /\ call.saves # <<>> /\ Save.id \in In(wt) /\ Saved(TRUE)
              /\ wt' = [wt EXCEPT ![FileIn(wt, Save.id)] = Save.content]
              /\ UNCHANGED <<tip, exists, head, loose, tracked, stash>>
            BY <1>0, <2>2, LinkUnderWay DEF SaveHere, At, LinkSteps
        <3>2. wt \in Tree /\ FileIn(wt, Save.id) \in Paths \ {Notes} /\ Save.content \in Feature
            BY <1>0, <3>1, FileInTyping, SaveTyping DEF GitType
        <3>3. wt' \in Tree
            <4>1. wt' = [p \in Paths |-> wt'[p]]
                BY <3>1, <3>2, TreeDef
            <4>2. \A p \in Paths : wt'[p] = None \/ wt'[p] \in FileAt(p)
                BY <3>1, <3>2, TreeDef DEF FileAt
            <4>. QED BY <4>1, <4>2, TreeMixed
        <3>4. LinkType'
            BY <3>1, SavedTyping
        <3>. QED BY <1>0, <2>0, <3>1, <3>3, <3>4 DEF TypeInv, GitType, CallType
    <2>3. ASSUME SaveThere PROVE TypeInv'
        <3>1. LinkType /\ call.saves # <<>> /\ UNCHANGED git /\ (Goes("stash") \/ Saved(FALSE))
            BY <1>0, <2>3, LinkUnderWay DEF SaveThere, At, LinkSteps
        <3>2. LinkType'
            BY <3>1, GoesTyping, SavedTyping DEF git, LinkSteps, CheckoutSteps
        <3>. QED BY <1>0, <2>0, <3>1, <3>2 DEF TypeInv, GitType, git, CallType
    <2>4. ASSUME StashChanges PROVE TypeInv'
        <3>1. LinkType /\ call.saves # <<>> /\ (StashPush \/ UNCHANGED git)
              /\ call' = [call EXCEPT !.step = "checkout", !.stashed = Changed # {}]
            BY <1>0, <2>4, LinkUnderWay DEF StashChanges, At, LinkType, CheckoutSteps, LinkSteps
        <3>2. call' = [call EXCEPT !.step = "checkout", !.stashed = Changed # {}, !.ok = call.ok]
              /\ call.ok \in BOOLEAN /\ exists' = exists
            BY <3>1 DEF LinkType, Links, StashPush, git
        <3>3. LinkType'
            BY <3>1, <3>2, StepTyping DEF LinkSteps, CheckoutSteps
        <3>4. GitType'
            BY <1>0, <3>1, PushTyping DEF GitType, git
        <3>. QED BY <1>0, <2>0, <3>3, <3>4 DEF TypeInv, CallType
    <2>5. ASSUME NEW b \in exists \cup Remotes, NEW step \in {"commit", "pop"},
                 LinkType, call.saves # <<>>, Checkout(b) \/ CheckoutForce(b), Goes(step)
          PROVE  TypeInv'
        <3>1. GitType' /\ exists' = exists
            BY <1>0, <2>5, CheckoutTyping DEF Checkout, CheckoutForce, MovesTo
        <3>2. LinkType'
            BY <2>5, <3>1, GoesTyping DEF LinkSteps, CheckoutSteps
        <3>. QED BY <1>0, <2>0, <3>1, <3>2 DEF TypeInv, CallType
    <2>9. ASSUME CheckoutTarget PROVE TypeInv'
        <3>1. LinkType /\ call.saves # <<>> /\ Checkout(Save.on) /\ Goes("commit")
            BY <1>0, <2>9, LinkUnderWay DEF CheckoutTarget, At, LinkType, CheckoutSteps, LinkSteps
        <3>2. Save.on \in exists \cup Remotes
            BY <3>1 DEF Checkout, CanCheckout, Known
        <3>. QED BY <2>5, <3>1, <3>2
    <2>10. ASSUME Return PROVE TypeInv'
        <3>1. LinkType /\ call.saves # <<>> /\ CheckoutForce(call.start) /\ Goes("pop")
            BY <1>0, <2>10, LinkUnderWay DEF Return, At, LinkType, CheckoutSteps, LinkSteps
        <3>2. call.start \in exists \cup Remotes
            BY <3>1 DEF LinkType
        <3>. QED BY <2>5, <3>1, <3>2
    <2>6. ASSUME CheckoutRefused \/ Pop PROVE TypeInv'
        <3>1. PICK ok \in BOOLEAN :
                  /\ LinkType /\ call.saves # <<>> /\ (StashPop \/ UNCHANGED git) /\ Saved(ok)
            BY <1>0, <2>6, LinkUnderWay
            DEF CheckoutRefused, Pop, At, LinkType, Links, CheckoutSteps, LinkSteps
        <3>2. GitType' /\ exists' = exists
            BY <1>0, <3>1, PopTyping DEF GitType, git, StashPop
        <3>3. LinkType'
            BY <3>1, <3>2, SavedTyping
        <3>. QED BY <1>0, <2>0, <3>2, <3>3 DEF TypeInv, CallType
    <2>7. ASSUME CommitFile PROVE TypeInv'
        <3>1. LinkType /\ call.saves # <<>> /\ CommitPaths({SaveName[Save.id]}, Written) /\ Goes("return")
            BY <1>0, <2>7, LinkUnderWay DEF CommitFile, At, LinkType, CheckoutSteps, LinkSteps
        <3>2. GitType' /\ exists' = exists
            BY <1>0, <3>1, WrittenTyping, CommitTyping DEF CommitPaths
        <3>3. LinkType'
            BY <3>1, <3>2, GoesTyping DEF LinkSteps, CheckoutSteps
        <3>. QED BY <1>0, <2>0, <3>2, <3>3 DEF TypeInv, CallType
    <2>8. ASSUME CommitFails PROVE TypeInv'
        <3>1. /\ LinkType /\ call.saves # <<>>
              /\ wt' = Written /\ tracked' = tracked \cup {SaveName[Save.id]}
              /\ call' = [call EXCEPT !.step = "return", !.ok = FALSE]
              /\ UNCHANGED <<tip, exists, head, loose, stash>>
            BY <1>0, <2>8, LinkUnderWay DEF CommitFails, At, LinkType, CheckoutSteps, LinkSteps
        <3>2. call' = [call EXCEPT !.step = "return", !.stashed = call.stashed, !.ok = FALSE]
              /\ call.stashed \in BOOLEAN
            BY <3>1 DEF LinkType, Links
        <3>3. LinkType'
            BY <3>1, <3>2, StepTyping DEF LinkSteps, CheckoutSteps
        <3>4. GitType'
            BY <1>0, <3>1, WrittenTyping DEF GitType
        <3>. QED BY <1>0, <2>0, <3>3, <3>4 DEF TypeInv, CallType
    <2>. QED BY <1>11, <2>1, <2>2, <2>3, <2>4, <2>6, <2>7, <2>8, <2>9, <2>10 DEF LinkStep
<1>12. ASSUME Kill PROVE TypeInv'
    BY <1>0, <1>12 DEF Kill, TypeInv, GitType, git, CallType
<1>13. CASE UNCHANGED vars
    <2>1. GitType' /\ LinkType' = LinkType
        BY <1>0, <1>13 DEF vars, git, GitType, LinkType
    <2>. QED BY <1>0, <1>13, <2>1 DEF vars, TypeInv, CallType
<1>. QED BY <1>1, <1>2, <1>3, <1>4, <1>5, <1>6, <1>7, <1>8, <1>9, <1>10, <1>11, <1>12, <1>13 DEF Next

LEMMA TypeInit == Init => TypeInv
<1> SUFFICES ASSUME Init PROVE TypeInv
    OBVIOUS
<1>1. ASSUME NEW b \in Branches PROVE FirstTip(b) \in Tree
    <2> DEFINE on(p) == {f \in Given : BranchOf[f] = b /\ FileOf[f] = p}
               file(p) == IF on(p) # {} THEN [id |-> CHOOSE f \in on(p) : TRUE, ties |-> {}]
                          ELSE IF p = Notes /\ \E f \in Given : BranchOf[f] = b THEN [edit |-> 0]
                          ELSE None
    <2>1. ASSUME NEW p \in Paths PROVE file(p) = None \/ file(p) \in FileAt(p)
        <3>1. CASE on(p) # {}
            <4>1. (CHOOSE f \in on(p) : TRUE) \in on(p)
                BY <3>1
            <4>2. (CHOOSE f \in on(p) : TRUE) \in Features /\ p # Notes
                BY <4>1, CrossBranchAssumption
            <4>3. file(p) = [id |-> CHOOSE f \in on(p) : TRUE, ties |-> {}]
                BY <3>1
            <4> HIDE DEF on
            <4>4. [id |-> CHOOSE f \in on(p) : TRUE, ties |-> {}] \in Feature
                BY <4>2 DEF Feature
            <4> HIDE DEF file
            <4>. QED BY <4>2, <4>3, <4>4 DEF FileAt
        <3>2. CASE on(p) = {}
            <4>1. [edit |-> 0] \in Note
                BY CrossBranchAssumption DEF Note
            <4>2. file(p) = IF p = Notes /\ \E f \in Given : BranchOf[f] = b THEN [edit |-> 0] ELSE None
                BY <3>2
            <4> HIDE DEF file
            <4>. QED BY <4>1, <4>2 DEF FileAt
        <3>. QED BY <3>1, <3>2
    <2> HIDE DEF file
    <2>2. [p \in Paths |-> file(p)] \in Tree
        BY <2>1, TreeMixed
    <2>. QED BY <2>2 DEF FirstTip, file
<1>2. GitType
    <2>1. [b \in Branches |-> FirstTip(b)] \in [Branches -> Tree]
        BY <1>1
    <2>2. {Base} \cup {BranchOf[f] : f \in Given} \subseteq Branches
        BY CrossBranchAssumption
    <2>. QED BY <2>1, <2>2, EmptyTree, CrossBranchAssumption DEF Init, GitType
<1>3. made \subseteq Features
    BY CrossBranchAssumption DEF Init, In
<1>. QED BY <1>2, <1>3, CrossBranchAssumption DEF Init, TypeInv, CallType

LEMMA TypeInvAlways == Spec => []TypeInv
BY TypeInit, TypeStep, PTL DEF Spec

(***************************************************************************)
(* The variables keep their types, with every command, edit, fault and     *)
(* kill: files hold what they hold, HEAD is on a branch there is or a      *)
(* remote one, and a link under way returns to where it can.               *)
(***************************************************************************)
THEOREM TypeCorrect == Spec => []TypeOK
<1>1. TypeInv => TypeOK
    <2> SUFFICES ASSUME TypeInv PROVE TypeOK
        OBVIOUS
    <2>1. ~At("idle") /\ ~At("created") => call.start \in exists \cup Remotes
        BY LinkUnderWay DEF TypeInv, LinkType
    <2>2. \A i \in 1..Len(stash) : stash[i].to \in Tree /\ stash[i].paths \subseteq Paths
        <3>1. \A i \in 1..Len(stash) : stash[i] \in Entry
            BY ElementOfSeq DEF TypeInv, GitType
        <3>. QED BY <3>1 DEF Entry
    <2>. QED BY <2>1, <2>2 DEF TypeInv, GitType, TypeOK
<1>. QED BY <1>1, TypeInvAlways, PTL
-----------------------------------------------------------------------------
(***************************************************************************)
(* The regime of the other theorems: every feature has a path of its own,  *)
(* the one its name makes, on every branch.  Where two features meet in    *)
(* one path, link writes one over the other (run SaveOverwrites).          *)
(***************************************************************************)
OwnPaths ==
    /\ SaveName = FileOf
    /\ \A f, g \in Features : FileOf[f] = FileOf[g] => f = g
    /\ \A r \in Remotes : \A p \in Files(Fetched[r]) :
          IF p = Notes THEN Fetched[r][p].edit = 0 ELSE FileOf[Fetched[r][p].id] = p

\* A tree has features in their own files, and no edit after the n-th.
OwnAt(p, c, n) == IF p = Notes THEN c.edit <= n ELSE FileOf[c.id] = p
Own(tree, n)   == \A p \in Paths : tree[p] # None => OwnAt(p, tree[p], n)

\* Tree new has every file of old, and every relationship.
KeepsAt(p, c, d) == c # None => d # None /\ (p # Notes => c.ties \subseteq d.ties)
Keeps(old, new)  == \A p \in Paths : KeepsAt(p, old[p], new[p])

EntryOwn(e, n) ==
    /\ Own(e.from, n) /\ Own(e.to, n) /\ Keeps(e.from, e.to)
    /\ \A p \in e.paths : e.to[p] # e.from[p]

Stashed(l, s) == \E i \in 1..Len(s) : l[1] \in s[i].paths /\ s[i].to[l[1]] = l[2]

\* What is live is in the stash, or is a change of the work tree.
Kept(l, s, tree, old) == Stashed(l, s) \/ (tree[l[1]] = l[2] /\ old[l[1]] # l[2])

TreesInv ==
    /\ \A b \in Branches : Own(tip[b], edits)
    /\ Own(wt, edits) /\ Own(loose, edits)
    /\ \A i \in 1..Len(stash) : EntryOwn(stash[i], edits)

WorkTreeInv == Files(HeadTree) \subseteq tracked /\ Keeps(HeadTree, wt)

LiveInv ==
    \A l \in live : l[1] \in Paths /\ l[2] # None /\ Kept(l, stash, wt, HeadTree)

RepoInv == TreesInv /\ WorkTreeInv /\ LiveInv
-----------------------------------------------------------------------------
(* What git's operations leave of it *)

LEMMA OwnTrees ==
    ASSUME OwnPaths, GitType, TreesInv, edits \in 0..MaxEdits
    PROVE  /\ Own(HeadTree, edits) /\ Own(Empty, edits)
           /\ \A b \in Branches \cup Remotes : Own(TreeOf(b), edits)
           /\ \A r \in Remotes : Own(Fetched[r], edits)
<1>1. ASSUME NEW r \in Remotes PROVE Own(Fetched[r], edits)
    <2>1. \A p \in Paths : Fetched[r][p] # None => p \in Files(Fetched[r])
        BY DEF Files
    <2>. QED BY <2>1 DEF OwnPaths, Own, OwnAt
<1>2. Own(Empty, edits)
    BY DEF Own, Empty
<1>. QED BY <1>1, <1>2 DEF TreesInv, HeadTree, TreeOf

\* More edits leave a tree its own.
LEMMA OwnLater ==
    ASSUME NEW tree \in Tree, NEW n \in 0..MaxEdits, NEW m \in 0..MaxEdits, n <= m, Own(tree, n)
    PROVE  Own(tree, m)
<1>1. ASSUME NEW p \in Paths, tree[p] # None PROVE OwnAt(p, tree[p], m)
    <2>1. OwnAt(p, tree[p], n) /\ tree[p] \in FileAt(p)
        BY <1>1, TreeDef DEF Own
    <2>2. CASE p = Notes
        <3>1. tree[p].edit \in 0..MaxEdits /\ tree[p].edit <= n /\ MaxEdits \in Nat
            BY <2>1, <2>2, CrossBranchAssumption DEF OwnAt, FileAt, Note
        <3>2. tree[p].edit <= m
            BY <3>1
        <3>. QED BY <2>2, <3>2 DEF OwnAt
    <2>3. CASE p # Notes
        BY <2>1, <2>3 DEF OwnAt
    <2>. QED BY <2>2, <2>3
<1>. QED BY <1>1 DEF Own

\* The feature in its own path.
LEMMA OwnFile ==
    ASSUME OwnPaths, NEW tree \in Tree, NEW n, Own(tree, n), NEW f \in Features
    PROVE  /\ FileOf[f] \in Paths \ {Notes}
           /\ f \in In(tree) <=> tree[FileOf[f]] # None
           /\ f \in In(tree) => FileIn(tree, f) = FileOf[f]
           /\ tree[FileOf[f]] # None => tree[FileOf[f]] \in Feature /\ tree[FileOf[f]].id = f
<1>1. FileOf[f] \in Paths \ {Notes}
    BY CrossBranchAssumption
<1>2. ASSUME tree[FileOf[f]] # None
      PROVE  tree[FileOf[f]] \in Feature /\ tree[FileOf[f]].id = f
    <2>1. tree[FileOf[f]] \in Feature /\ FileOf[tree[FileOf[f]].id] = FileOf[f]
        BY <1>1, <1>2, TreeDef DEF FileAt, Own, OwnAt
    <2>2. tree[FileOf[f]].id \in Features
        BY <2>1 DEF Feature
    <2>. QED BY <2>1, <2>2 DEF OwnPaths
<1>3. ASSUME tree[FileOf[f]] # None PROVE f \in In(tree)
    BY <1>1, <1>2, <1>3 DEF In, Files
<1>4. ASSUME f \in In(tree) PROVE FileIn(tree, f) = FileOf[f] /\ tree[FileOf[f]] # None
    <2>1. FileIn(tree, f) \in Paths \ {Notes} /\ tree[FileIn(tree, f)] \in Feature
          /\ tree[FileIn(tree, f)].id = f
        BY <1>4, FileInTyping
    <2>2. tree[FileIn(tree, f)] # None
        BY <2>1, CrossBranchAssumption
    <2>. QED BY <2>1, <2>2 DEF Own, OwnAt
<1>. QED BY <1>1, <1>2, <1>3, <1>4

LEMMA KeepsSame ==
    ASSUME NEW tree
    PROVE  Keeps(tree, tree)
BY DEF Keeps, KeepsAt

\* The work tree of a checkout, which carries changes over.
LEMMA Carried ==
    ASSUME GitType, RepoInv, NEW new \in Tree, Own(new, edits), NEW moved,
           \A p \in Paths : wt[p] = HeadTree[p] \/ HeadTree[p] = new[p],
           \A p \in Paths : moved[p] = IF wt[p] = HeadTree[p] THEN new[p] ELSE wt[p]
    PROVE  /\ Own(moved, edits) /\ Keeps(new, moved)
           /\ \A l \in live : Kept(l, stash, moved, new)
<1>1. Own(moved, edits)
    BY DEF RepoInv, TreesInv, Own
<1>2. ASSUME NEW p \in Paths PROVE KeepsAt(p, new[p], moved[p])
    <2>1. KeepsAt(p, HeadTree[p], wt[p]) /\ KeepsAt(p, new[p], new[p])
        BY KeepsSame DEF RepoInv, WorkTreeInv, Keeps
    <2>. QED BY <2>1
<1>3. ASSUME NEW l \in live PROVE Kept(l, stash, moved, new)
    BY DEF RepoInv, LiveInv, Kept
<1>. QED BY <1>1, <1>2, <1>3 DEF Keeps

LEMMA HeadAfter ==
    ASSUME GitType, NEW b \in exists \cup Remotes, NEW tree, NEW index, MovesTo(b, tree, index)
    PROVE  HeadTree' = TreeOf(b)
BY CrossBranchAssumption DEF GitType, HeadTree, TreeOf, MovesTo

LEMMA CheckoutRepo ==
    ASSUME OwnPaths, GitType, RepoInv, edits \in 0..MaxEdits, UNCHANGED <<live, edits>>,
           NEW b \in exists \cup Remotes, Checkout(b)
    PROVE  RepoInv' /\ HeadTree' = TreeOf(b)
<1> DEFINE moved == [p \in Paths |-> IF wt[p] = HeadTree[p] THEN TreeOf(b)[p] ELSE wt[p]]
           index == (tracked \ Files(HeadTree)) \cup Files(TreeOf(b))
<1>1. MovesTo(b, moved, index) /\ \A p \in Paths : wt[p] = HeadTree[p] \/ HeadTree[p] = TreeOf(b)[p]
    BY DEF Checkout, CanCheckout
<1>2. TreeOf(b) \in Tree /\ Own(TreeOf(b), edits) /\ b \in Branches \cup Remotes
    BY OwnTrees, HeadTyping DEF GitType, RepoInv
<1>3. \A p \in Paths : moved[p] = IF wt[p] = HeadTree[p] THEN TreeOf(b)[p] ELSE wt[p]
    OBVIOUS
<1>4. Files(TreeOf(b)) \subseteq index
    OBVIOUS
<1> HIDE DEF moved, index
<1>5. HeadTree' = TreeOf(b)
    BY <1>1, HeadAfter
<1>6. Own(moved, edits) /\ Keeps(TreeOf(b), moved) /\ \A l \in live : Kept(l, stash, moved, TreeOf(b))
    BY <1>1, <1>2, <1>3, Carried
<1>7. wt' = moved /\ tracked' = index /\ UNCHANGED <<tip, stash>>
      /\ (loose' = Empty \/ \E r \in Remotes : loose' = Fetched[r])
    BY <1>1 DEF MovesTo
<1>8. Own(loose', edits)
    BY <1>7, OwnTrees DEF RepoInv
<1>. QED BY <1>4, <1>5, <1>6, <1>7, <1>8 DEF RepoInv, TreesInv, WorkTreeInv, LiveInv

LEMMA ForceRepo ==
    ASSUME OwnPaths, GitType, RepoInv, edits \in 0..MaxEdits, UNCHANGED <<live, edits>>,
           NEW b \in exists \cup Remotes, CheckoutForce(b),
           \A l \in live : \/ Stashed(l, stash)
                           \/ wt[l[1]] = l[2] /\ l[1] \notin tracked /\ TreeOf(b)[l[1]] = None
    PROVE  RepoInv' /\ HeadTree' = TreeOf(b)
<1> DEFINE tree == [p \in Paths |-> IF p \in Untracked /\ TreeOf(b)[p] = None THEN wt[p] ELSE TreeOf(b)[p]]
<1>1. MovesTo(b, tree, Files(TreeOf(b)))
    BY DEF CheckoutForce
<1>2. TreeOf(b) \in Tree /\ Own(TreeOf(b), edits)
    BY OwnTrees, HeadTyping DEF GitType, RepoInv
<1>3. \A p \in Paths : tree[p] = IF p \in Untracked /\ TreeOf(b)[p] = None THEN wt[p] ELSE TreeOf(b)[p]
    OBVIOUS
<1> HIDE DEF tree
<1>4. HeadTree' = TreeOf(b)
    BY <1>1, HeadAfter
<1>5. Own(tree, edits)
    BY <1>2, <1>3 DEF RepoInv, TreesInv, Own
<1>6. Keeps(TreeOf(b), tree)
    BY <1>3 DEF Keeps, KeepsAt
<1>7. ASSUME NEW l \in live PROVE Kept(l, stash, tree, TreeOf(b))
    <2>1. l[1] \in Paths /\ l[2] # None
        BY DEF RepoInv, LiveInv
    <2>2. CASE wt[l[1]] = l[2] /\ l[1] \notin tracked /\ TreeOf(b)[l[1]] = None
        BY <1>3, <2>1, <2>2 DEF Untracked, Files, Kept
    <2>. QED BY <2>2 DEF Kept
<1>8. wt' = tree /\ tracked' = Files(TreeOf(b)) /\ UNCHANGED <<tip, stash>>
      /\ (loose' = Empty \/ \E r \in Remotes : loose' = Fetched[r])
    BY <1>1 DEF MovesTo
<1>9. Own(loose', edits)
    BY <1>8, OwnTrees DEF RepoInv
<1>. QED BY <1>4, <1>5, <1>6, <1>7, <1>8, <1>9 DEF RepoInv, TreesInv, WorkTreeInv, LiveInv

LEMMA CreateBranchRepo ==
    ASSUME OwnPaths, GitType, RepoInv, edits \in 0..MaxEdits, UNCHANGED <<live, edits>>,
           NEW b \in Branches, CreateBranch(b)
    PROVE  RepoInv'
<1>1. HeadTree' = HeadTree /\ UNCHANGED <<wt, tracked, stash>> /\ loose' = Empty
      /\ tip' = [tip EXCEPT ![b] = HeadTree]
    BY DEF CreateBranch, HeadTree, GitType
<1>2. Own(HeadTree, edits) /\ Own(Empty, edits)
    BY OwnTrees DEF RepoInv
<1>3. \A c \in Branches : tip'[c] = tip[c] \/ tip'[c] = HeadTree
    BY <1>1 DEF GitType
<1>. QED BY <1>1, <1>2, <1>3 DEF RepoInv, TreesInv, WorkTreeInv, LiveInv

\* A commit of all there is.
LEMMA CommitAllRepo ==
    ASSUME OwnPaths, GitType, RepoInv, UNCHANGED edits,
           CommitPaths(Paths, wt), live' = {l \in live : wt[l[1]] # l[2]}
    PROVE  RepoInv' /\ HeadTree' = wt /\ UNCHANGED wt
<1> DEFINE commit == [p \in Paths |-> IF p \in Paths THEN wt[p] ELSE HeadTree[p]]
<1>1. /\ UNCHANGED <<wt, exists, head, stash>> /\ tracked' = tracked \cup (Paths \cap Files(wt))
      /\ IF head \in Branches THEN tip' = [tip EXCEPT ![head] = commit] /\ UNCHANGED loose
         ELSE loose' = commit /\ UNCHANGED tip
    BY DEF CommitPaths
<1>2. commit = wt
    BY TreeDef DEF GitType
<1> HIDE DEF commit
<1>3. HeadTree' = wt
    BY <1>1, <1>2 DEF HeadTree, GitType
<1>4. (\A b \in Branches : tip'[b] \in {tip[b], wt}) /\ loose' \in {loose, wt}
    BY <1>1, <1>2 DEF GitType
<1>5. \A l \in live' : Kept(l, stash, wt, wt)
    BY DEF RepoInv, LiveInv, Kept
<1>6. Files(wt) \subseteq tracked'
    BY <1>1 DEF Files
<1>. QED BY <1>1, <1>3, <1>4, <1>5, <1>6, KeepsSame DEF RepoInv, TreesInv, WorkTreeInv, LiveInv

LEMMA PushRepo ==
    ASSUME OwnPaths, GitType, RepoInv, edits \in 0..MaxEdits, UNCHANGED <<live, edits>>, StashPush
    PROVE  /\ RepoInv' /\ HeadTree' = HeadTree
           /\ \A l \in live : \/ Stashed(l, stash')
                              \/ wt'[l[1]] = l[2] /\ l[1] \notin tracked' /\ HeadTree[l[1]] = None
<1> DEFINE e    == [from |-> HeadTree, paths |-> Changed, to |-> wt]
           tree == [p \in Paths |-> IF p \in tracked THEN HeadTree[p] ELSE wt[p]]
<1>1. /\ stash' = Append(stash, e) /\ wt' = tree /\ tracked' = Files(HeadTree)
      /\ UNCHANGED <<tip, exists, head, loose>>
    BY DEF StashPush
<1>2. e \in Entry
    BY HeadTyping DEF Entry, GitType
<1>3. EntryOwn(e, edits)
    BY OwnTrees DEF EntryOwn, RepoInv, TreesInv, WorkTreeInv, Changed
<1>4. e.paths = Changed /\ e.to = wt
    OBVIOUS
<1>5. \A p \in Paths : tree[p] = IF p \in tracked THEN HeadTree[p] ELSE wt[p]
    OBVIOUS
<1> HIDE DEF e, tree
<1>6. stash \in Seq(Entry)
    BY DEF GitType
<1>7. /\ Len(stash') = Len(stash) + 1 /\ Len(stash) \in Nat
      /\ stash'[Len(stash) + 1] = e
      /\ \A i \in 1..Len(stash) : stash'[i] = stash[i] /\ i \in 1..Len(stash')
    BY <1>1, <1>2, <1>6, StashPushed, LenProperties
<1>8. \A i \in 1..Len(stash') : EntryOwn(stash'[i], edits)
    BY <1>3, <1>7 DEF RepoInv, TreesInv
<1>9. HeadTree' = HeadTree
    BY <1>1 DEF HeadTree
<1>10. Own(tree, edits) /\ Keeps(HeadTree, tree)
    <2>1. Own(HeadTree, edits) /\ Keeps(HeadTree, HeadTree)
        BY OwnTrees, KeepsSame DEF RepoInv
    <2>. QED BY <1>5, <2>1 DEF RepoInv, TreesInv, WorkTreeInv, Own, Keeps
<1>11. ASSUME NEW l \in live
       PROVE  \/ Stashed(l, stash')
              \/ tree[l[1]] = l[2] /\ l[1] \notin tracked /\ HeadTree[l[1]] = None
    <2>1. l[1] \in Paths /\ l[2] # None /\ Kept(l, stash, wt, HeadTree)
        BY DEF RepoInv, LiveInv
    <2>2. CASE Stashed(l, stash)
        BY <1>7, <2>2 DEF Stashed
    <2>3. CASE wt[l[1]] = l[2] /\ HeadTree[l[1]] # l[2] /\ l[1] \in tracked
        <3>1. l[1] \in e.paths /\ e.to[l[1]] = l[2]
            BY <1>4, <2>3 DEF Changed
        <3>2. Len(stash) + 1 \in 1..Len(stash')
            BY <1>7
        <3>. QED BY <1>7, <3>1, <3>2 DEF Stashed
    <2>4. CASE wt[l[1]] = l[2] /\ HeadTree[l[1]] # l[2] /\ l[1] \notin tracked
        <3>1. HeadTree[l[1]] = None
            BY <2>1, <2>4 DEF RepoInv, WorkTreeInv, Files
        <3>. QED BY <1>5, <2>1, <2>4, <3>1
    <2>. QED BY <2>1, <2>2, <2>3, <2>4 DEF Kept
<1>12. ASSUME NEW l \in live PROVE l[1] \in Paths /\ l[2] # None /\ Kept(l, stash', tree, HeadTree)
    BY <1>11 DEF RepoInv, LiveInv, Kept
<1>13. Files(HeadTree) \subseteq tracked
    BY DEF RepoInv, WorkTreeInv
<1>14. RepoInv'
    BY <1>1, <1>8, <1>9, <1>10, <1>12 DEF RepoInv, TreesInv, WorkTreeInv, LiveInv
<1>15. \A l \in live : l[1] \notin tracked => l[1] \notin Files(HeadTree)
    BY <1>13
<1>. QED BY <1>1, <1>9, <1>11, <1>14, <1>15

LEMMA PopRepo ==
    ASSUME OwnPaths, GitType, RepoInv, edits \in 0..MaxEdits, UNCHANGED <<live, edits>>, StashPop
    PROVE  RepoInv' /\ HeadTree' = HeadTree
<1> DEFINE last == Last(stash)
           tree == [p \in Paths |-> IF p \in last.paths THEN last.to[p] ELSE wt[p]]
<1>1. /\ stash # <<>> /\ wt' = tree /\ tracked' = tracked \cup last.paths
      /\ stash' = Front(stash) /\ UNCHANGED <<tip, exists, head, loose>>
      /\ \A p \in last.paths : wt[p] = HeadTree[p] /\ HeadTree[p] = last.from[p]
    BY DEF StashPop
<1>2. \A p \in Paths : tree[p] = IF p \in last.paths THEN last.to[p] ELSE wt[p]
    OBVIOUS
<1> HIDE DEF tree
<1>3. /\ Len(stash) \in 1..Len(stash) /\ last = stash[Len(stash)] /\ last \in Entry
      /\ \A i \in 1..Len(stash') : stash'[i] = stash[i] /\ i \in 1..Len(stash)
      /\ \A i \in 1..Len(stash) : i = Len(stash) \/ i \in 1..Len(stash')
    BY <1>1, StashPopped DEF GitType
<1>4. /\ Own(last.to, edits) /\ Keeps(last.from, last.to)
      /\ \A p \in last.paths : p \in Paths /\ last.to[p] # last.from[p]
    BY <1>3 DEF RepoInv, TreesInv, EntryOwn, Entry
<1> HIDE DEF last
<1>5. HeadTree' = HeadTree
    BY <1>1 DEF HeadTree
<1>6. \A i \in 1..Len(stash') : EntryOwn(stash'[i], edits)
    BY <1>3 DEF RepoInv, TreesInv
<1>7. Own(tree, edits) /\ Keeps(HeadTree, tree)
    BY <1>1, <1>2, <1>4 DEF RepoInv, TreesInv, WorkTreeInv, Own, Keeps
<1>8. ASSUME NEW l \in live PROVE Kept(l, stash', tree, HeadTree)
    <2>1. l[1] \in Paths /\ l[2] # None /\ Kept(l, stash, wt, HeadTree)
        BY DEF RepoInv, LiveInv
    <2>2. CASE Stashed(l, stash)
        <3>1. PICK i \in 1..Len(stash) : l[1] \in stash[i].paths /\ stash[i].to[l[1]] = l[2]
            BY <2>2 DEF Stashed
        <3>2. CASE i = Len(stash)
            BY <1>1, <1>2, <1>3, <1>4, <2>1, <3>1, <3>2 DEF Kept
        <3>3. CASE i \in 1..Len(stash')
            BY <1>3, <3>1, <3>3 DEF Kept, Stashed
        <3>. QED BY <1>3, <3>2, <3>3
    <2>3. CASE wt[l[1]] = l[2] /\ HeadTree[l[1]] # l[2]
        BY <1>1, <1>2, <2>1, <2>3 DEF Kept
    <2>. QED BY <2>1, <2>2, <2>3 DEF Kept
<1>. QED BY <1>1, <1>5, <1>6, <1>7, <1>8 DEF RepoInv, TreesInv, WorkTreeInv, LiveInv

\* What is written to a path of the work tree, by the user or by a command.
LEMMA WriteRepo ==
    ASSUME OwnPaths, GitType, RepoInv, edits \in 0..MaxEdits, edits' \in 0..MaxEdits, edits <= edits',
           UNCHANGED <<tip, exists, head, loose, tracked, stash>>,
           NEW p \in Paths, NEW c, c # None, OwnAt(p, c, edits'), HeadTree[p] # c,
           KeepsAt(p, HeadTree[p], c),
           wt' = [wt EXCEPT ![p] = c], Writes(p, c)
    PROVE  RepoInv' /\ HeadTree' = HeadTree
<1>1. HeadTree' = HeadTree
    BY DEF HeadTree
<1>2. /\ \A b \in Branches : Own(tip[b], edits')
      /\ Own(wt, edits') /\ Own(loose, edits')
    BY OwnLater DEF RepoInv, TreesInv, GitType
<1>3. ASSUME NEW i \in 1..Len(stash) PROVE EntryOwn(stash[i], edits')
    <2>1. stash[i] \in Entry /\ EntryOwn(stash[i], edits)
        BY ElementOfSeq DEF RepoInv, TreesInv, GitType
    <2>. QED BY <2>1, OwnLater DEF EntryOwn, Entry
<1>4. wt' \in [Paths -> Feature \cup Note \cup {None, c}]
      /\ \A q \in Paths : wt'[q] = IF q = p THEN c ELSE wt[q]
    BY TreeDef DEF GitType
<1>5. Own(wt', edits') /\ Keeps(HeadTree, wt')
    BY <1>2, <1>4 DEF RepoInv, WorkTreeInv, Own, Keeps
<1>6. ASSUME NEW l \in live'
      PROVE  l[1] \in Paths /\ l[2] # None /\ Kept(l, stash, wt', HeadTree)
    <2>1. CASE l = <<p, c>>
        BY <1>4, <2>1 DEF Kept
    <2>2. CASE l \in live /\ (l[1] # p \/ wt[p] # l[2])
        <3>1. l[1] \in Paths /\ l[2] # None /\ Kept(l, stash, wt, HeadTree)
            BY <2>2 DEF RepoInv, LiveInv
        <3>. QED BY <1>4, <2>2, <3>1 DEF Kept
    <2>. QED BY <2>1, <2>2 DEF Writes
<1>. QED BY <1>1, <1>2, <1>3, <1>5, <1>6 DEF RepoInv, TreesInv, WorkTreeInv, LiveInv

\* The commit of one file, which nothing live is in.
FileCommitted(p, c) ==
    /\ wt' = [wt EXCEPT ![p] = c] /\ UNCHANGED stash /\ tracked' = tracked \cup {p}
    /\ \A b \in Branches, q \in Paths :
          tip'[b][q] = IF b = head /\ q = p THEN c ELSE tip[b][q]

LEMMA CommitFileRepo ==
    ASSUME OwnPaths, GitType, RepoInv, UNCHANGED <<live, edits>>,
           NEW p \in Paths, NEW c, c # None, OwnAt(p, c, edits),
           \A l \in live : Stashed(l, stash) \/ l[1] # p,
           CommitPaths({p}, [wt EXCEPT ![p] = c])
    PROVE  RepoInv' /\ FileCommitted(p, c)
<1> DEFINE new    == [wt EXCEPT ![p] = c]
           commit == [q \in Paths |-> IF q \in {p} THEN new[q] ELSE HeadTree[q]]
<1>1. /\ UNCHANGED <<exists, head, stash>> /\ wt' = new /\ tracked' = tracked \cup ({p} \cap Files(new))
      /\ IF head \in Branches THEN tip' = [tip EXCEPT ![head] = commit] /\ UNCHANGED loose
         ELSE loose' = commit /\ UNCHANGED tip
    BY DEF CommitPaths
<1>2. \A q \in Paths : new[q] = IF q = p THEN c ELSE wt[q]
    BY TreeDef DEF GitType
<1>3. \A q \in Paths : commit[q] = IF q = p THEN c ELSE HeadTree[q]
    BY <1>2
<1>4. tracked' = tracked \cup {p}
    BY <1>1, <1>2 DEF Files
<1> HIDE DEF new, commit
<1>5. HeadTree' = commit
    BY <1>1 DEF HeadTree, GitType
<1>6. Own(HeadTree, edits)
    BY DEF RepoInv, TreesInv, HeadTree
<1>7. Own(commit, edits) /\ Own(new, edits)
    BY <1>2, <1>3, <1>6 DEF RepoInv, TreesInv, Own
<1>8. (\A b \in Branches : tip'[b] \in {tip[b], commit}) /\ loose' \in {loose, commit}
    BY <1>1 DEF GitType
<1>9. Keeps(commit, new)
    BY <1>2, <1>3, KeepsSame DEF RepoInv, WorkTreeInv, Keeps
<1>10. Files(commit) \subseteq tracked'
    BY <1>3, <1>4 DEF RepoInv, WorkTreeInv, Files
<1>11. ASSUME NEW l \in live PROVE Kept(l, stash, new, commit)
    BY <1>2, <1>3 DEF RepoInv, LiveInv, Kept
<1>12. RepoInv'
    BY <1>1, <1>5, <1>7, <1>8, <1>9, <1>10, <1>11 DEF RepoInv, TreesInv, WorkTreeInv, LiveInv
<1>13. ASSUME NEW b \in Branches, NEW q \in Paths
       PROVE  tip'[b][q] = IF b = head /\ q = p THEN c ELSE tip[b][q]
    <2>1. CASE head \in Branches
        BY <1>1, <1>3, <2>1 DEF GitType, HeadTree
    <2>2. CASE head \notin Branches
        BY <1>1, <2>2
    <2>. QED BY <2>1, <2>2
<1>. QED BY <1>1, <1>4, <1>12, <1>13 DEF new, FileCommitted

\* The file is written and staged.
LEMMA StageRepo ==
    ASSUME OwnPaths, GitType, RepoInv, UNCHANGED <<tip, exists, head, loose, stash, live, edits>>,
           NEW p \in Paths, NEW c, c # None, OwnAt(p, c, edits), KeepsAt(p, HeadTree[p], c),
           \A l \in live : Stashed(l, stash) \/ l[1] # p,
           wt' = [wt EXCEPT ![p] = c], tracked' = tracked \cup {p}
    PROVE  RepoInv'
<1>1. \A q \in Paths : wt'[q] = IF q = p THEN c ELSE wt[q]
    BY TreeDef DEF GitType
<1>2. HeadTree' = HeadTree
    BY DEF HeadTree
<1>3. Own(wt', edits) /\ Keeps(HeadTree, wt')
    BY <1>1 DEF RepoInv, TreesInv, WorkTreeInv, Own, Keeps
<1>4. ASSUME NEW l \in live PROVE Kept(l, stash, wt', HeadTree)
    BY <1>1 DEF RepoInv, LiveInv, Kept
<1>. QED BY <1>2, <1>3, <1>4 DEF RepoInv, TreesInv, WorkTreeInv, LiveInv

LEMMA CreateFeatureRepo ==
    ASSUME OwnPaths, GitType, RepoInv, edits \in 0..MaxEdits,
           NEW f \in Features, NEW flag, CreateFeature(f, flag)
    PROVE  /\ RepoInv'
           /\ \A b \in exists : tip'[b] = tip[b]
<1> DEFINE start  == IF ViaBase(flag) THEN tip[Base] ELSE HeadTree
           moved  == [p \in Paths |-> IF wt[p] = HeadTree[p] THEN start[p] ELSE wt[p]]
           new    == [id |-> f, ties |-> {}]
           path   == FileOf[f]
           placed == [moved EXCEPT ![path] = new]
<1>1. /\ moved[path] = None /\ Writes(path, new) /\ UNCHANGED edits
      /\ IF Stays(flag) THEN wt' = placed /\ UNCHANGED <<tip, exists, head, loose, tracked, stash>>
         ELSE (ViaBase(flag) => CanCheckout(Base)) /\ StartsAt(start, BranchOf[f], placed)
    BY DEF CreateFeature, NewFeature
<1>2. /\ start \in Tree /\ Own(start, edits) /\ path \in Paths /\ new # None /\ path # Notes
      /\ OwnAt(path, new, edits) /\ BranchOf[f] \in Branches
    <2>1. Base \in Branches /\ path \in Paths \ {Notes} /\ BranchOf[f] \in Branches
          /\ new \in Feature
        BY CrossBranchAssumption DEF Feature
    <2>. QED BY <2>1, OwnTrees, HeadTyping, CrossBranchAssumption DEF GitType, RepoInv, TreesInv, OwnAt
<1>3. ~Stays(flag) \/ start = HeadTree
    BY DEF Stays, ViaBase
<1>4. \A p \in Paths : wt[p] = HeadTree[p] \/ HeadTree[p] = start[p]
    <2>1. CASE ViaBase(flag)
        <3>1. CanCheckout(Base) /\ TreeOf(Base) = start
            BY <1>1, <2>1, CrossBranchAssumption DEF Stays, ViaBase, TreeOf
        <3>. QED BY <3>1 DEF CanCheckout
    <2>2. CASE ~ViaBase(flag)
        BY <2>2
    <2>. QED BY <2>1, <2>2
<1>5. \A p \in Paths : moved[p] = IF wt[p] = HeadTree[p] THEN start[p] ELSE wt[p]
    OBVIOUS
<1>6. \A p \in Paths : placed[p] = IF p = path THEN new ELSE moved[p]
    BY <1>2
<1> HIDE DEF start, moved, placed, path, new
<1>7. /\ Own(moved, edits) /\ Keeps(start, moved)
      /\ \A l \in live : Kept(l, stash, moved, start)
    BY <1>2, <1>4, <1>5, Carried
<1>8. start[path] = None
    BY <1>1, <1>2, <1>7 DEF Keeps, KeepsAt
<1>9. Own(placed, edits)
    BY <1>2, <1>6, <1>7 DEF Own
<1>10. ASSUME NEW p \in Paths PROVE KeepsAt(p, start[p], placed[p])
    <2>1. CASE p = path
        BY <1>8, <2>1 DEF KeepsAt
    <2>2. CASE p # path
        BY <1>6, <1>7, <2>2 DEF Keeps
    <2>. QED BY <2>1, <2>2
<1>11. ASSUME NEW l \in live'
       PROVE  l[1] \in Paths /\ l[2] # None /\ Kept(l, stash, placed, start)
    <2>1. CASE l = <<path, new>>
        BY <1>2, <1>6, <1>8, <2>1 DEF Kept
    <2>2. CASE l \in live
        <3>1. l[1] \in Paths /\ l[2] # None /\ Kept(l, stash, moved, start)
            BY <1>7, <2>2 DEF RepoInv, LiveInv
        <3>. QED BY <1>1, <1>6, <3>1 DEF Kept
    <2>. QED BY <1>1, <2>1, <2>2 DEF Writes
<1>12. CASE Stays(flag)
    <2>1. wt' = placed /\ UNCHANGED <<tip, exists, head, loose, tracked, stash>>
        BY <1>1, <1>12
    <2>2. HeadTree' = start
        BY <1>3, <1>12, <2>1 DEF HeadTree
    <2>. QED BY <1>1, <1>3, <1>9, <1>10, <1>11, <1>12, <2>1, <2>2
         DEF RepoInv, TreesInv, WorkTreeInv, LiveInv, Keeps
<1>13. CASE ~Stays(flag)
    <2>1. StartsAt(start, BranchOf[f], placed)
        BY <1>1, <1>13
    <2>2. /\ BranchOf[f] \notin exists /\ tip' = [tip EXCEPT ![BranchOf[f]] = start] /\ head' = BranchOf[f]
          /\ loose' = Empty /\ wt' = placed /\ UNCHANGED stash
          /\ tracked' = (tracked \ Files(HeadTree)) \cup Files(start)
        BY <2>1 DEF StartsAt
    <2>3. HeadTree' = start
        BY <1>2, <2>2 DEF HeadTree, GitType
    <2>4. (\A b \in Branches : tip'[b] \in {tip[b], start}) /\ Own(loose', edits)
        BY <2>2, OwnTrees DEF GitType, RepoInv
    <2>5. \A b \in exists : tip'[b] = tip[b]
        BY <2>2 DEF GitType
    <2>. QED BY <1>1, <1>2, <1>9, <1>10, <1>11, <2>2, <2>3, <2>4, <2>5
         DEF RepoInv, TreesInv, WorkTreeInv, LiveInv, Keeps
<1>. QED BY <1>12, <1>13
-----------------------------------------------------------------------------
(* A link under way *)

InLink    == call.step \in LinkSteps
AwaySteps == {"checkout", "commit", "return", "pop"}

\* Where link is; what is not committed is stashed or untracked, and in
\* nobody's way.
AwayInv ==
    /\ call.step \notin {"commit", "return"} => head = call.start
    /\ call.step \in CheckoutSteps => call.start \in exists
    /\ call.step \notin {"return", "pop"} => call.ok
    /\ call.step \in {"checkout", "commit", "return"} =>
          \A l \in live : \/ Stashed(l, stash)
                          \/ wt[l[1]] = l[2] /\ l[1] \notin tracked /\ tip[call.start][l[1]] = None
    /\ call.step \in {"checkout", "commit", "pop"} => \A p \in tracked : wt[p] = HeadTree[p]
    /\ call.step \in AwaySteps /\ call.stashed => stash # <<>>
    /\ call.step = "commit" => head = Save.on /\ HeadTree = TreeOf(head)

\* What the work tree has, or will have again when link is back.
AtHome(p) ==
    IF call.step \notin AwaySteps THEN wt[p]
    ELSE IF call.stashed /\ p \in Last(stash).paths THEN Last(stash).to[p]
    ELSE IF tip[call.start][p] # None THEN tip[call.start][p]
    ELSE IF p \notin tracked THEN wt[p]
    ELSE None

HomeHead == IF call.step \in {"commit", "return"} THEN tip[call.start] ELSE HeadTree

\* The saves whose file is still to be written.
Elems(saves) == {saves[i] : i \in 1..Len(saves)}
ToDo == Elems(IF call.step \in {"return", "pop"} THEN Tail(call.saves) ELSE call.saves)

\* The saves are of the two ends, where they were found, and add the tie.
SavesFit(saves, tie, on) ==
    /\ \A i, j \in 1..Len(saves) : saves[i].id = saves[j].id => i = j
    /\ \A s \in Elems(saves) :
          /\ s.id \in {tie[1], tie[2]} /\ s.on = on[s.id]
          /\ s.content.id = s.id /\ tie \in s.content.ties

Older(c, s, tie) == c.ties \subseteq s.content.ties \ {tie}

\* A save still to be made is no older than what it will replace.
Fresh(s) ==
    LET p == FileOf[s.id]
    IN  /\ HomeHead[p] # None => Older(HomeHead[p], s, call.tie)
        /\ AtHome(p) # None \/ (TreeOf(s.on)[p] # None /\ Older(TreeOf(s.on)[p], s, call.tie))

SavesInv == SavesFit(call.saves, call.tie, call.on) /\ \A s \in ToDo : Fresh(s)

NotHere ==
    call.step \in CheckoutSteps => \A f \in Features : f = Save.id => AtHome(FileOf[f]) = None

\* A half that is not to be written, or is, is where it was found.
HalfThere(f) ==
    LET p == FileOf[f]
    IN  \/ call.on[f] \in Remotes
        \/ AtHome(p) # None /\ call.tie \in AtHome(p).ties
        \/ tip[call.on[f]][p] # None /\ call.tie \in tip[call.on[f]][p].ties

Counts    == call.step # "done" /\ ~call.warned /\ call.ok
HalvesInv == Counts => \A f \in {call.tie[1], call.tie[2]} : HalfThere(f) \/ \E s \in ToDo : s.id = f

LinkInv  == AwayInv /\ SavesInv /\ NotHere /\ HalvesInv
CrossInv == TypeInv /\ RepoInv /\ (InLink => LinkInv)

LEMMA SavesRest ==
    ASSUME NEW s \in Saves, s # <<>>, NEW tie, NEW on, SavesFit(s, tie, on)
    PROVE  /\ SavesFit(Tail(s), tie, on) /\ SavesFit(<<>>, tie, on) /\ Elems(<<>>) = {}
           /\ Elems(s) = {Head(s)} \cup Elems(Tail(s)) /\ Elems(s) \subseteq SaveOf
           /\ \A e \in Elems(Tail(s)) : e.id # Head(s).id
<1>1. Elems(<<>>) = {} /\ SavesFit(<<>>, tie, on)
    BY DEF Elems, SavesFit
<1>2. CASE \E a \in SaveOf : s = <<a>>
    <2>1. PICK a \in SaveOf : s = <<a>>
        BY <1>2
    <2>2. Tail(s) = <<>> /\ Head(s) = a /\ Elems(s) = {a}
        BY <2>1 DEF Elems
    <2>. QED BY <1>1, <2>2
<1>3. CASE \E a, b \in SaveOf : s = <<a, b>>
    <2>1. PICK a \in SaveOf, b \in SaveOf : s = <<a, b>>
        BY <1>3
    <2>2. Tail(s) = <<b>> /\ Head(s) = a /\ Len(s) = 2 /\ s[1] = a /\ s[2] = b
        BY <2>1
    <2>3. Elems(s) = {a, b}
        BY <2>1 DEF Elems
    <2>4. Elems(Tail(s)) = {b}
        BY <2>2 DEF Elems
    <2>5. a.id # b.id
        BY <2>2 DEF SavesFit
    <2>6. SavesFit(Tail(s), tie, on)
        <3>1. Len(Tail(s)) = 1 /\ b \in Elems(s)
            BY <2>2, <2>3
        <3>. QED BY <2>4, <3>1 DEF SavesFit
    <2>. QED BY <1>1, <2>2, <2>3, <2>4, <2>5, <2>6
<1>. QED BY <1>2, <1>3 DEF Saves

LEMMA SavesLeft ==
    ASSUME LinkType, SavesInv, call.saves # <<>>
    PROVE  /\ SavesFit(Tail(call.saves), call.tie, call.on) /\ SavesFit(<<>>, call.tie, call.on)
           /\ Elems(Tail(call.saves)) \subseteq ToDo /\ Elems(<<>>) = {} /\ ToDo \subseteq SaveOf
           /\ call.step \notin {"return", "pop"} => ToDo = {Save} \cup Elems(Tail(call.saves))
           /\ \A s \in Elems(Tail(call.saves)) : s.id # Save.id
<1> DEFINE saves == call.saves
           tie   == call.tie
           on    == call.on
<1>1. saves \in Saves /\ saves # <<>> /\ SavesFit(saves, tie, on)
    BY DEF LinkType, Links, SavesInv
<1>2. ToDo = Elems(saves) \/ ToDo = Elems(Tail(saves))
    BY DEF ToDo
<1>3. call.step \notin {"return", "pop"} => ToDo = Elems(saves)
    BY DEF ToDo
<1> HIDE DEF saves, tie, on
<1>4. /\ SavesFit(Tail(saves), tie, on) /\ SavesFit(<<>>, tie, on) /\ Elems(<<>>) = {}
      /\ Elems(saves) = {Head(saves)} \cup Elems(Tail(saves)) /\ Elems(saves) \subseteq SaveOf
      /\ \A e \in Elems(Tail(saves)) : e.id # Head(saves).id
    BY <1>1, SavesRest
<1>. QED BY <1>2, <1>3, <1>4 DEF saves, tie, on, Save

\* The save under way: its path, and that it fits.
LEMMA SaveFits ==
    ASSUME OwnPaths, LinkType, call.saves # <<>>, SavesFit(call.saves, call.tie, call.on)
    PROVE  /\ Save.id \in Features /\ Save.id \in {call.tie[1], call.tie[2]}
           /\ Save.content \in Feature /\ Save.content # None /\ Save.content.id = Save.id
           /\ Save.on = call.on[Save.id] /\ Save.on \in Branches \cup Remotes
           /\ call.tie \in Save.content.ties
           /\ SaveName[Save.id] = FileOf[Save.id]
           /\ FileOf[Save.id] \in Paths /\ FileOf[Save.id] # Notes
           /\ \A n : OwnAt(FileOf[Save.id], Save.content, n)
<1>1. Save \in Elems(call.saves)
    BY SavesRest DEF LinkType, Links, Save
<1>. QED BY <1>1, SaveTyping, CrossBranchAssumption DEF SavesFit, OwnPaths, OwnAt

(* What a step that writes no file leaves: the saves are as fresh, and the *)
(* halves there.                                                           *)
LEMMA Steady ==
    ASSUME LinkType, SavesInv, HalvesInv, UNCHANGED tip,
           call'.tie = call.tie, call'.on = call.on,
           SavesFit(call'.saves, call.tie, call.on),
           \A p \in Paths : AtHome(p)' = AtHome(p) /\ HomeHead'[p] = HomeHead[p],
           ToDo' \subseteq ToDo, ToDo \subseteq SaveOf,
           Counts' => Counts /\ ToDo' = ToDo
    PROVE  SavesInv' /\ HalvesInv'
<1>1. ASSUME NEW s \in ToDo' PROVE Fresh(s)'
    <2>1. s \in ToDo /\ FileOf[s.id] \in Paths
        BY CrossBranchAssumption DEF SaveOf
    <2>2. Fresh(s) /\ AtHome(FileOf[s.id])' = AtHome(FileOf[s.id])
          /\ HomeHead'[FileOf[s.id]] = HomeHead[FileOf[s.id]]
        BY <2>1 DEF SavesInv
    <2>3. TreeOf(s.on)' = TreeOf(s.on)
        BY DEF TreeOf
    <2>. QED BY <2>2, <2>3 DEF Fresh
<1>2. ASSUME Counts', NEW f \in {call.tie[1], call.tie[2]}
      PROVE  HalfThere(f)' \/ \E s \in ToDo' : s.id = f
    <2>1. FileOf[f] \in Paths
        BY CrossBranchAssumption DEF LinkType, Links, Ties
    <2>2. HalfThere(f) \/ \E s \in ToDo : s.id = f
        BY <1>2 DEF HalvesInv
    <2>3. HalfThere(f) => HalfThere(f)'
        BY <2>1 DEF HalfThere
    <2>. QED BY <1>2, <2>2, <2>3
<1>. QED BY <1>1, <1>2 DEF SavesInv, HalvesInv

\* What a step does when no save is over.
LEMMA SteadySave ==
    ASSUME LinkType, SavesInv, HalvesInv, NotHere, UNCHANGED tip, call.saves # <<>>,
           call.step \in CheckoutSteps, call'.step \in CheckoutSteps,
           call.step \in {"return", "pop"} => call'.step \in {"return", "pop"},
           call'.tie = call.tie, call'.on = call.on, call'.saves = call.saves,
           call'.warned = call.warned, call'.ok => call.ok,
           \A p \in Paths : AtHome(p)' = AtHome(p) /\ HomeHead'[p] = HomeHead[p],
           call'.step \in {"return", "pop"} /\ call'.ok => call.step \in {"return", "pop"}
    PROVE  SavesInv' /\ HalvesInv' /\ NotHere'
<1>1. ToDo' \subseteq ToDo /\ ToDo \subseteq SaveOf
    BY SavesLeft DEF ToDo
<1>2. Counts' => Counts /\ ToDo' = ToDo
    BY DEF Counts, ToDo, CheckoutSteps
<1>3. SavesFit(call'.saves, call.tie, call.on)
    BY DEF SavesInv
<1>4. SavesInv' /\ HalvesInv'
    BY <1>1, <1>2, <1>3, Steady
<1>5. \A f \in Features : FileOf[f] \in Paths
    BY CrossBranchAssumption
<1>6. NotHere'
    BY <1>5 DEF NotHere, Save
<1>. QED BY <1>4, <1>6

\* What it does when one is, without a file written by this step.
LEMMA SteadySaved ==
    ASSUME LinkType, SavesInv, HalvesInv, UNCHANGED <<tip, exists>>, call.saves # <<>>,
           NEW ok \in BOOLEAN, Saved(ok), ok => call.ok /\ call.step = "pop",
           \A p \in Paths : AtHome(p)' = AtHome(p) /\ HomeHead'[p] = HomeHead[p]
    PROVE  SavesInv' /\ HalvesInv' /\ NotHere'
<1>1. /\ call'.step \in {"save", "done"} /\ (ok => call'.step = "save")
      /\ call'.saves \in {Tail(call.saves), <<>>} /\ (ok => call'.saves = Tail(call.saves))
      /\ call'.tie = call.tie /\ call'.on = call.on
      /\ call'.warned = (call.warned \/ ~ok)
    BY SavedTyping
<1>2. /\ SavesFit(call'.saves, call.tie, call.on) /\ ToDo' = Elems(call'.saves)
      /\ ToDo' \subseteq ToDo /\ ToDo \subseteq SaveOf
    <2>1. ToDo' = Elems(call'.saves)
        BY <1>1 DEF ToDo
    <2>. QED BY <1>1, <2>1, SavesLeft
<1>3. Counts' => Counts /\ ToDo' = ToDo
    BY <1>1, <1>2 DEF Counts, ToDo
<1>4. SavesInv' /\ HalvesInv'
    BY <1>1, <1>2, <1>3, Steady
<1>5. NotHere'
    BY <1>1 DEF NotHere, CheckoutSteps
<1>. QED BY <1>4, <1>5
-----------------------------------------------------------------------------
(* The steps of a link *)

LEMMA Fields ==
    ASSUME LinkType, NEW step, NEW stashed, NEW ok,
           call' = [call EXCEPT !.step = step, !.stashed = stashed, !.ok = ok]
    PROVE  /\ call'.step = step /\ call'.stashed = stashed /\ call'.ok = ok
           /\ call'.tie = call.tie /\ call'.on = call.on /\ call'.start = call.start
           /\ call'.saves = call.saves /\ call'.warned = call.warned
BY DEF LinkType, Links

LEMMA GoesFields ==
    ASSUME LinkType, NEW step, Goes(step)
    PROVE  /\ call'.step = step /\ call'.stashed = call.stashed /\ call'.ok = call.ok
           /\ call'.tie = call.tie /\ call'.on = call.on /\ call'.start = call.start
           /\ call'.saves = call.saves /\ call'.warned = call.warned
BY DEF LinkType, Links, Goes

LEMMA AtHomeTree ==
    ASSUME GitType, head = call.start, call.start \in exists
    PROVE  HeadTree = tip[call.start] /\ call.start \in Branches
BY DEF GitType, HeadTree

\* What SaveThere finds not to be in the work tree.
LEMMA SaveThereStep ==
    ASSUME OwnPaths, TypeInv, RepoInv, LinkType, LinkInv, SaveThere
    PROVE  RepoInv' /\ LinkInv'
<1>1. /\ call.step = "save" /\ call.saves # <<>> /\ Save.id \notin In(wt)
      /\ UNCHANGED <<git, live, edits>>
      /\ IF head \in Branches THEN Goes("stash") ELSE Saved(FALSE)
    BY DEF SaveThere, At
<1>2. RepoInv' /\ HeadTree' = HeadTree /\ UNCHANGED <<tip, exists, head, wt, tracked, stash>>
    BY <1>1 DEF git, RepoInv, TreesInv, WorkTreeInv, LiveInv, HeadTree
<1>3. /\ head = call.start /\ SavesInv /\ HalvesInv /\ call.ok
    BY <1>1 DEF LinkInv, AwayInv
<1>4. CASE head \in Branches
    <2>1. /\ call'.step = "stash" /\ call'.ok = call.ok /\ call'.tie = call.tie /\ call'.on = call.on
          /\ call'.start = call.start /\ call'.saves = call.saves /\ call'.warned = call.warned
        BY <1>1, <1>4, GoesFields
    <2>2. \A p \in Paths : AtHome(p)' = AtHome(p) /\ HomeHead'[p] = HomeHead[p]
        BY <1>1, <1>2, <2>1 DEF AtHome, HomeHead, AwaySteps
    <2>3. ToDo' = ToDo /\ (Counts' => Counts)
        BY <1>1, <2>1 DEF ToDo, Counts
    <2>4. SavesInv' /\ HalvesInv'
        BY <1>1, <1>2, <1>3, <2>1, <2>2, <2>3, Steady, SavesLeft DEF SavesInv
    <2>5. call.start \in exists
        BY <1>3, <1>4, CrossBranchAssumption DEF TypeInv, GitType
    <2>6. AwayInv'
        BY <1>1, <1>2, <1>3, <2>1, <2>5 DEF AwayInv, AwaySteps, CheckoutSteps
    <2>7. wt[FileOf[Save.id]] = None /\ FileOf[Save.id] \in Paths
        BY <1>1, SaveTyping, OwnFile DEF TypeInv, GitType, RepoInv, TreesInv
    <2>8. NotHere'
        BY <1>1, <1>2, <2>1, <2>7 DEF NotHere, Save, AtHome, AwaySteps
    <2>. QED BY <1>2, <2>4, <2>6, <2>8 DEF LinkInv
<1>5. CASE head \notin Branches
    <2>1. Saved(FALSE)
        BY <1>1, <1>5
    <2>2. /\ call'.step \in {"save", "done"} /\ call'.start = call.start /\ call'.ok
        BY <1>1, <1>2, <2>1, SavedTyping
    <2>3. \A p \in Paths : AtHome(p)' = AtHome(p) /\ HomeHead'[p] = HomeHead[p]
        BY <1>1, <1>2, <2>2 DEF AtHome, HomeHead, AwaySteps
    <2>4. SavesInv' /\ HalvesInv' /\ NotHere'
        BY <1>1, <1>2, <1>3, <2>1, <2>3, SteadySaved
    <2>5. AwayInv'
        BY <1>2, <1>3, <2>2 DEF AwayInv, AwaySteps, CheckoutSteps
    <2>. QED BY <1>2, <2>4, <2>5 DEF LinkInv
<1>. QED BY <1>4, <1>5

\* What link puts away, and the work tree as it will be again.
LEMMA PutAway ==
    ASSUME OwnPaths, GitType, RepoInv, edits \in 0..MaxEdits, UNCHANGED <<live, edits>>,
           IF Changed # {} THEN StashPush ELSE UNCHANGED git
    PROVE  /\ RepoInv' /\ HeadTree' = HeadTree /\ UNCHANGED <<tip, exists, head>>
           /\ \A l \in live : \/ Stashed(l, stash')
                              \/ wt'[l[1]] = l[2] /\ l[1] \notin tracked' /\ HeadTree[l[1]] = None
           /\ \A p \in tracked' : wt'[p] = HeadTree[p]
           /\ Changed # {} => stash' # <<>>
           /\ \A p \in Paths :
                 wt[p] = IF Changed # {} /\ p \in Last(stash').paths THEN Last(stash').to[p]
                         ELSE IF HeadTree[p] # None THEN HeadTree[p]
                         ELSE IF p \notin tracked' THEN wt'[p]
                         ELSE None
<1>0. Files(HeadTree) \subseteq tracked /\ tracked \subseteq Paths /\ Files(HeadTree) \subseteq Paths
    BY HeadTyping DEF RepoInv, WorkTreeInv, GitType
<1>1. CASE Changed # {}
    <2> DEFINE e    == [from |-> HeadTree, paths |-> Changed, to |-> wt]
               tree == [p \in Paths |-> IF p \in tracked THEN HeadTree[p] ELSE wt[p]]
    <2>1. /\ StashPush
          /\ stash' = Append(stash, e) /\ wt' = tree /\ tracked' = Files(HeadTree)
          /\ UNCHANGED <<tip, exists, head, loose>>
        BY <1>1 DEF StashPush
    <2>2. e \in Entry /\ e.paths = Changed /\ e.to = wt
        BY HeadTyping DEF Entry, GitType
    <2>3. \A p \in Paths : tree[p] = IF p \in tracked THEN HeadTree[p] ELSE wt[p]
        OBVIOUS
    <2> HIDE DEF e, tree
    <2>4. stash' # <<>> /\ Last(stash') = e
        BY <2>1, <2>2, StashPushed DEF GitType
    <2>5. \A p \in tracked' : wt'[p] = HeadTree[p]
        BY <1>0, <2>1, <2>3
    <2>6. ASSUME NEW p \in Paths
          PROVE  wt[p] = IF p \in Changed THEN wt[p]
                         ELSE IF HeadTree[p] # None THEN HeadTree[p]
                         ELSE IF p \notin tracked' THEN wt'[p] ELSE None
        BY <1>0, <2>1, <2>3 DEF Changed, Files
    <2>7. \A p \in Paths :
                 wt[p] = IF Changed # {} /\ p \in Last(stash').paths THEN Last(stash').to[p]
                         ELSE IF HeadTree[p] # None THEN HeadTree[p]
                         ELSE IF p \notin tracked' THEN wt'[p]
                         ELSE None
        BY <1>1, <2>2, <2>4, <2>6
    <2>. QED BY <2>1, <2>4, <2>5, <2>7, PushRepo
<1>2. CASE Changed = {}
    <2>1. UNCHANGED <<tip, exists, head, loose, wt, tracked, stash>>
        BY <1>2 DEF git
    <2>2. \A p \in tracked : wt[p] = HeadTree[p]
        BY <1>2 DEF Changed
    <2>3. HeadTree' = HeadTree /\ RepoInv'
        BY <2>1 DEF HeadTree, RepoInv, TreesInv, WorkTreeInv, LiveInv
    <2>4. ASSUME NEW l \in live
          PROVE  Stashed(l, stash) \/ (wt[l[1]] = l[2] /\ l[1] \notin tracked /\ HeadTree[l[1]] = None)
        <3>1. l[1] \in Paths /\ Kept(l, stash, wt, HeadTree)
            BY DEF RepoInv, LiveInv
        <3>. QED BY <1>0, <2>2, <3>1 DEF Kept, Files
    <2>5. ASSUME NEW p \in Paths
          PROVE  wt[p] = IF HeadTree[p] # None THEN HeadTree[p]
                         ELSE IF p \notin tracked THEN wt[p] ELSE None
        BY <1>0, <2>2 DEF Files
    <2>. QED BY <1>2, <2>1, <2>2, <2>3, <2>4, <2>5
<1>. QED BY <1>1, <1>2

LEMMA StashChangesStep ==
    ASSUME OwnPaths, TypeInv, RepoInv, LinkType, LinkInv, StashChanges
    PROVE  RepoInv' /\ LinkInv'
<1> DEFINE stashed == Changed # {}
<1>1. /\ call.step = "stash" /\ call.saves # <<>>
      /\ IF Changed # {} THEN StashPush ELSE UNCHANGED git
      /\ UNCHANGED <<live, edits>>
      /\ call' = [call EXCEPT !.step = "checkout", !.stashed = stashed, !.ok = call.ok]
    BY DEF StashChanges, At, LinkType, Links, CheckoutSteps
<1>2. /\ call'.step = "checkout" /\ call'.stashed = stashed /\ call'.ok = call.ok
      /\ call'.tie = call.tie /\ call'.on = call.on /\ call'.start = call.start
      /\ call'.saves = call.saves /\ call'.warned = call.warned
    <2>1. call' = [call EXCEPT !.step = "checkout", !.stashed = stashed, !.ok = call.ok]
        BY <1>1
    <2> HIDE DEF stashed
    <2>. QED BY <2>1, Fields
<1>3. /\ head = call.start /\ call.start \in exists /\ call.ok
      /\ SavesInv /\ HalvesInv /\ NotHere
    BY <1>1 DEF LinkInv, AwayInv, CheckoutSteps
<1>4. GitType /\ edits \in 0..MaxEdits
    BY DEF TypeInv
<1>5. HeadTree = tip[call.start]
    BY <1>3, <1>4, AtHomeTree
<1>6. /\ RepoInv' /\ HeadTree' = HeadTree /\ UNCHANGED <<tip, exists, head>>
      /\ \A l \in live : \/ Stashed(l, stash')
                         \/ wt'[l[1]] = l[2] /\ l[1] \notin tracked' /\ HeadTree[l[1]] = None
      /\ \A p \in tracked' : wt'[p] = HeadTree[p]
      /\ stashed => stash' # <<>>
      /\ \A p \in Paths :
            wt[p] = IF stashed /\ p \in Last(stash').paths THEN Last(stash').to[p]
                    ELSE IF HeadTree[p] # None THEN HeadTree[p]
                    ELSE IF p \notin tracked' THEN wt'[p]
                    ELSE None
    BY <1>1, <1>4, PutAway
<1> HIDE DEF stashed
<1>7. \A p \in Paths : AtHome(p)' = AtHome(p) /\ HomeHead'[p] = HomeHead[p]
    BY <1>1, <1>2, <1>5, <1>6 DEF AtHome, HomeHead, AwaySteps
<1>8. SavesInv' /\ HalvesInv' /\ NotHere'
    BY <1>1, <1>2, <1>3, <1>6, <1>7, SteadySave DEF CheckoutSteps
<1>9. AwayInv'
    BY <1>1, <1>2, <1>3, <1>5, <1>6 DEF AwayInv, AwaySteps, CheckoutSteps
<1>. QED BY <1>6, <1>8, <1>9 DEF LinkInv

LEMMA CheckoutTargetStep ==
    ASSUME OwnPaths, TypeInv, RepoInv, LinkType, LinkInv, CheckoutTarget
    PROVE  RepoInv' /\ LinkInv'
<1> DEFINE b == Save.on
<1>1. /\ call.step = "checkout" /\ call.saves # <<>> /\ Checkout(b) /\ Goes("commit")
      /\ UNCHANGED <<live, edits>>
    BY DEF CheckoutTarget, At, LinkType, CheckoutSteps
<1>2. /\ call'.step = "commit" /\ call'.stashed = call.stashed /\ call'.ok = call.ok
      /\ call'.tie = call.tie /\ call'.on = call.on /\ call'.start = call.start
      /\ call'.saves = call.saves /\ call'.warned = call.warned
    BY <1>1, GoesFields
<1>3. /\ head = call.start /\ call.start \in exists /\ call.ok
      /\ SavesInv /\ HalvesInv /\ NotHere
      /\ \A l \in live : \/ Stashed(l, stash)
                         \/ wt[l[1]] = l[2] /\ l[1] \notin tracked /\ tip[call.start][l[1]] = None
      /\ \A p \in tracked : wt[p] = HeadTree[p]
      /\ call.stashed => stash # <<>>
    BY <1>1 DEF LinkInv, AwayInv, CheckoutSteps, AwaySteps
<1>4. GitType /\ edits \in 0..MaxEdits
    BY DEF TypeInv
<1>5. HeadTree = tip[call.start]
    BY <1>3, <1>4, AtHomeTree
<1> DEFINE new == TreeOf(b)
<1>6. /\ b \in exists \cup Remotes /\ head' = b
      /\ \A p \in Paths : wt[p] = HeadTree[p] \/ HeadTree[p] = new[p]
      /\ wt' = [p \in Paths |-> IF wt[p] = HeadTree[p] THEN new[p] ELSE wt[p]]
      /\ tracked' = (tracked \ Files(HeadTree)) \cup Files(new)
      /\ UNCHANGED <<tip, exists, stash>>
    BY <1>1 DEF Checkout, CanCheckout, Known, MovesTo
<1>7. RepoInv' /\ HeadTree' = new
    BY <1>1, <1>4, <1>6, CheckoutRepo
<1>8. Files(HeadTree) \subseteq tracked /\ tracked \subseteq Paths /\ new \in Tree
      /\ Files(new) \subseteq Paths
    BY <1>4, <1>6, HeadTyping DEF RepoInv, WorkTreeInv, GitType
<1> HIDE DEF new, b
<1>9. \A p \in Paths : wt'[p] = IF wt[p] = HeadTree[p] THEN new[p] ELSE wt[p]
    BY <1>6
<1>10. ASSUME NEW p \in Paths PROVE AtHome(p)' = AtHome(p) /\ HomeHead'[p] = HomeHead[p]
    <2>1. HomeHead'[p] = HomeHead[p]
        BY <1>1, <1>2, <1>5, <1>6 DEF HomeHead
    <2>2. HeadTree[p] = None => (IF p \notin tracked' THEN wt'[p] ELSE None)
                                = IF p \notin tracked THEN wt[p] ELSE None
        BY <1>3, <1>6, <1>9 DEF Files
    <2>3. AtHome(p)' = AtHome(p)
        BY <1>1, <1>2, <1>5, <1>6, <2>2 DEF AtHome, AwaySteps
    <2>. QED BY <2>1, <2>3
<1>11. SavesInv' /\ HalvesInv' /\ NotHere'
    BY <1>1, <1>2, <1>3, <1>6, <1>10, SteadySave DEF CheckoutSteps
<1>12. ASSUME NEW l \in live, ~Stashed(l, stash)
       PROVE  wt'[l[1]] = l[2] /\ l[1] \notin tracked' /\ HeadTree[l[1]] = None
    <2>1. l[1] \in Paths /\ l[2] # None
        BY DEF RepoInv, LiveInv
    <2>2. wt[l[1]] = l[2] /\ l[1] \notin tracked /\ HeadTree[l[1]] = None
        BY <1>3, <1>5, <1>12
    <2>. QED BY <1>6, <1>9, <2>1, <2>2 DEF Files
<1>13. ASSUME NEW p \in tracked' PROVE wt'[p] = new[p]
    BY <1>3, <1>6, <1>8, <1>9, <1>13 DEF Files
<1>14. HeadTree' = TreeOf(head)'
    BY <1>6, <1>7 DEF TreeOf, new
<1>15. AwayInv'
    BY <1>1, <1>2, <1>3, <1>5, <1>6, <1>7, <1>12, <1>13, <1>14 DEF AwayInv, AwaySteps, CheckoutSteps, Save, b
<1>. QED BY <1>7, <1>11, <1>15 DEF LinkInv

\* Back on the branch link began on, and the stash popped.
LEMMA BackHome ==
    ASSUME OwnPaths, GitType, RepoInv, edits \in 0..MaxEdits, UNCHANGED <<live, edits>>,
           call.step \in {"checkout", "pop"}, call'.step \in {"save", "done"},
           head = call.start, call.start \in exists, \A p \in tracked : wt[p] = HeadTree[p],
           IF call.stashed THEN StashPop ELSE UNCHANGED git
    PROVE  /\ RepoInv' /\ UNCHANGED <<tip, exists, head>>
           /\ \A p \in Paths : AtHome(p)' = AtHome(p) /\ HomeHead'[p] = HomeHead[p]
<1>1. HeadTree = tip[call.start]
    BY AtHomeTree
<1>2. /\ RepoInv' /\ UNCHANGED <<tip, exists, head>> /\ HeadTree' = HeadTree
      /\ \A p \in Paths : wt'[p] = IF call.stashed /\ p \in Last(stash).paths THEN Last(stash).to[p] ELSE wt[p]
    <2>1. CASE call.stashed
        BY <2>1, PopRepo DEF StashPop
    <2>2. CASE ~call.stashed
        <3>1. UNCHANGED <<tip, exists, head, loose, wt, tracked, stash>>
            BY <2>2 DEF git
        <3>. QED BY <2>2, <3>1 DEF HeadTree, RepoInv, TreesInv, WorkTreeInv, LiveInv
    <2>. QED BY <2>1, <2>2
<1>3. \A p \in Paths : IF p \in tracked THEN wt[p] = HeadTree[p] ELSE HeadTree[p] = None
    BY DEF RepoInv, WorkTreeInv, Files
<1>4. ASSUME NEW p \in Paths PROVE AtHome(p)' = AtHome(p) /\ HomeHead'[p] = HomeHead[p]
    BY <1>1, <1>2, <1>3 DEF AtHome, HomeHead, AwaySteps
<1>. QED BY <1>2, <1>4

LEMMA BackHomeStep ==
    ASSUME OwnPaths, TypeInv, RepoInv, LinkType, LinkInv, CheckoutRefused \/ Pop
    PROVE  RepoInv' /\ LinkInv'
<1>1. PICK ok \in BOOLEAN :
          /\ call.step \in {"checkout", "pop"} /\ call.saves # <<>>
          /\ IF call.stashed THEN StashPop ELSE UNCHANGED git
          /\ Saved(ok) /\ UNCHANGED <<live, edits>>
          /\ ok => call.ok /\ call.step = "pop"
    BY DEF CheckoutRefused, Pop, At, LinkType, Links, CheckoutSteps
<1>2. /\ head = call.start /\ call.start \in exists /\ SavesInv /\ HalvesInv
      /\ \A p \in tracked : wt[p] = HeadTree[p]
    BY <1>1 DEF LinkInv, AwayInv, CheckoutSteps
<1>3. GitType /\ edits \in 0..MaxEdits
    BY DEF TypeInv
<1>4. UNCHANGED <<tip, exists, head>>
    BY <1>1 DEF StashPop, git
<1>5. call'.step \in {"save", "done"} /\ call'.start = call.start /\ call'.ok
    BY <1>1, <1>4, SavedTyping
<1>6. RepoInv' /\ \A p \in Paths : AtHome(p)' = AtHome(p) /\ HomeHead'[p] = HomeHead[p]
    BY <1>1, <1>2, <1>3, <1>5, BackHome
<1>7. SavesInv' /\ HalvesInv' /\ NotHere'
    BY <1>1, <1>2, <1>4, <1>6, SteadySaved
<1>8. AwayInv'
    BY <1>2, <1>4, <1>5 DEF AwayInv, AwaySteps, CheckoutSteps
<1>. QED BY <1>6, <1>7, <1>8 DEF LinkInv

LEMMA ReturnStep ==
    ASSUME OwnPaths, TypeInv, RepoInv, LinkType, LinkInv, Return
    PROVE  RepoInv' /\ LinkInv'
<1> DEFINE b         == call.start
           startTree == tip[b]
<1>1. /\ call.step = "return" /\ call.saves # <<>> /\ CheckoutForce(b) /\ Goes("pop")
      /\ UNCHANGED <<live, edits>>
    BY DEF Return, At, LinkType, CheckoutSteps
<1>2. /\ call'.step = "pop" /\ call'.stashed = call.stashed /\ call'.ok = call.ok
      /\ call'.tie = call.tie /\ call'.on = call.on /\ call'.start = call.start
      /\ call'.saves = call.saves /\ call'.warned = call.warned
    BY <1>1, GoesFields
<1>3. /\ b \in exists /\ SavesInv /\ HalvesInv /\ NotHere
      /\ \A l \in live : \/ Stashed(l, stash)
                         \/ wt[l[1]] = l[2] /\ l[1] \notin tracked /\ startTree[l[1]] = None
      /\ call.stashed => stash # <<>>
    BY <1>1 DEF LinkInv, AwayInv, CheckoutSteps, AwaySteps
<1>4. GitType /\ edits \in 0..MaxEdits /\ b \in Branches /\ b \in exists \cup Remotes
    BY <1>3 DEF TypeInv, GitType
<1>5. TreeOf(b) = startTree
    BY <1>4 DEF TreeOf
<1>6. /\ head' = b
      /\ wt' = [p \in Paths |-> IF p \in Untracked /\ TreeOf(b)[p] = None THEN wt[p] ELSE TreeOf(b)[p]]
      /\ tracked' = Files(TreeOf(b))
      /\ UNCHANGED <<tip, exists, stash>>
    BY <1>1 DEF CheckoutForce, MovesTo
<1>7. RepoInv' /\ HeadTree' = startTree
    BY <1>1, <1>3, <1>4, <1>5, ForceRepo
<1>8. \A p \in Paths : wt'[p] = IF p \in Untracked /\ startTree[p] = None THEN wt[p] ELSE startTree[p]
    BY <1>5, <1>6
<1>9. Files(startTree) \subseteq Paths
    BY DEF Files
<1> HIDE DEF startTree
<1>10. ASSUME NEW p \in Paths PROVE AtHome(p)' = AtHome(p) /\ HomeHead'[p] = HomeHead[p]
    <2>1. HomeHead'[p] = HomeHead[p]
        BY <1>1, <1>2, <1>7 DEF HomeHead, startTree
    <2>2. startTree[p] = None => (IF p \notin tracked' THEN wt'[p] ELSE None)
                             = IF p \notin tracked THEN wt[p] ELSE None
        BY <1>5, <1>6, <1>8 DEF Files, Untracked
    <2>3. AtHome(p)' = AtHome(p)
        BY <1>1, <1>2, <1>6, <2>2 DEF AtHome, AwaySteps, startTree
    <2>. QED BY <2>1, <2>3
<1>11. SavesInv' /\ HalvesInv' /\ NotHere'
    BY <1>1, <1>2, <1>3, <1>6, <1>10, SteadySave DEF CheckoutSteps
<1>12. \A p \in tracked' : wt'[p] = HeadTree'[p]
    BY <1>5, <1>6, <1>7, <1>8, <1>9 DEF Files
<1>13. AwayInv'
    BY <1>1, <1>2, <1>3, <1>6, <1>12 DEF AwayInv, AwaySteps, CheckoutSteps
<1>. QED BY <1>7, <1>11, <1>13 DEF LinkInv

\* The file to be committed: it is tracked, in the commit that is checked out
\* and in nothing link has put away.
LEMMA AtCommit ==
    ASSUME OwnPaths, TypeInv, RepoInv, LinkType, LinkInv, call.step = "commit", NEW p, p = FileOf[Save.id]
    PROVE  /\ p \in tracked /\ p \in Paths /\ HeadTree[p] # None
           /\ KeepsAt(p, HeadTree[p], Save.content)
           /\ \A l \in live : Stashed(l, stash) \/ l[1] # p
           /\ head # call.start /\ tip[call.start][p] = None
           /\ ~(call.stashed /\ p \in Last(stash).paths)
<1>1. /\ call.saves # <<>> /\ call.start \in exists /\ head = Save.on /\ HeadTree = TreeOf(head)
      /\ call.stashed => stash # <<>>
      /\ \A l \in live : \/ Stashed(l, stash)
                         \/ wt[l[1]] = l[2] /\ l[1] \notin tracked /\ tip[call.start][l[1]] = None
      /\ SavesInv
    BY DEF LinkInv, AwayInv, LinkType, CheckoutSteps, AwaySteps
<1>2. Save.id \in Features /\ p \in Paths /\ p # Notes
    BY <1>1, SaveFits DEF SavesInv
<1>3. AtHome(p) = None
    BY <1>2 DEF LinkInv, NotHere, CheckoutSteps
<1>4. Fresh(Save)
    BY <1>1, SavesLeft DEF SavesInv
<1>5. HeadTree[p] # None /\ HeadTree[p].ties \subseteq Save.content.ties
    BY <1>1, <1>3, <1>4 DEF Fresh, Older
<1>6. p \in tracked
    BY <1>2, <1>5 DEF RepoInv, WorkTreeInv, Files
<1>7. KeepsAt(p, HeadTree[p], Save.content)
    BY <1>1, <1>5, SaveFits DEF KeepsAt, SavesInv
<1>8. ASSUME call.stashed, p \in Last(stash).paths PROVE FALSE
    <2>1. Last(stash).to[p] = None
        BY <1>3, <1>8 DEF AtHome, AwaySteps
    <2>2. EntryOwn(Last(stash), edits)
        BY <1>1, <1>8, StashPopped DEF RepoInv, TreesInv, TypeInv, GitType
    <2>. QED BY <1>2, <1>8, <2>1, <2>2 DEF EntryOwn, Keeps, KeepsAt
<1>9. tip[call.start][p] = None
    BY <1>3, <1>8 DEF AtHome, AwaySteps
<1>10. head # call.start
    BY <1>1, <1>5, <1>9 DEF TreeOf, TypeInv, GitType
<1>. QED BY <1>1, <1>2, <1>5, <1>6, <1>7, <1>8, <1>9, <1>10

LEMMA CommitFailsStep ==
    ASSUME OwnPaths, TypeInv, RepoInv, LinkType, LinkInv, CommitFails
    PROVE  RepoInv' /\ LinkInv'
<1> DEFINE p == FileOf[Save.id]
           c == Save.content
<1>1. /\ call.step = "commit" /\ call.saves # <<>>
      /\ call' = [call EXCEPT !.step = "return", !.stashed = call.stashed, !.ok = FALSE]
      /\ UNCHANGED <<tip, exists, head, loose, stash, live, edits>>
    BY DEF CommitFails, At, LinkType, Links, CheckoutSteps
<1>2. /\ call'.step = "return" /\ call'.stashed = call.stashed /\ call'.ok = FALSE
      /\ call'.tie = call.tie /\ call'.on = call.on /\ call'.start = call.start
      /\ call'.saves = call.saves /\ call'.warned = call.warned
    BY <1>1, Fields
<1>3. /\ call.start \in exists /\ SavesInv /\ HalvesInv /\ NotHere
      /\ \A l \in live : \/ Stashed(l, stash)
                         \/ wt[l[1]] = l[2] /\ l[1] \notin tracked /\ tip[call.start][l[1]] = None
      /\ call.stashed => stash # <<>>
    BY <1>1 DEF LinkInv, AwayInv, CheckoutSteps, AwaySteps
<1>4. /\ SaveName[Save.id] = p /\ c # None /\ OwnAt(p, c, edits)
    BY <1>1, <1>3, SaveFits DEF SavesInv
<1>5. /\ p \in tracked /\ p \in Paths /\ KeepsAt(p, HeadTree[p], c)
      /\ \A l \in live : Stashed(l, stash) \/ l[1] # p
      /\ tip[call.start][p] = None /\ ~(call.stashed /\ p \in Last(stash).paths)
    BY <1>1, AtCommit
<1>6. wt' = [wt EXCEPT ![p] = c] /\ tracked' = tracked \cup {p}
    BY <1>4 DEF CommitFails, Written
<1> HIDE DEF p, c
<1>7. GitType
    BY DEF TypeInv
<1>8. RepoInv'
    BY <1>1, <1>4, <1>5, <1>6, <1>7, StageRepo
<1>9. \A q \in Paths : wt'[q] = IF q = p THEN c ELSE wt[q]
    BY <1>6, <1>7, TreeDef DEF GitType
<1>10. \A q \in Paths : AtHome(q)' = AtHome(q) /\ HomeHead'[q] = HomeHead[q]
    BY <1>1, <1>2, <1>5, <1>6, <1>9 DEF AtHome, HomeHead, AwaySteps
<1>11. SavesInv' /\ HalvesInv' /\ NotHere'
    BY <1>1, <1>2, <1>3, <1>10, SteadySave DEF CheckoutSteps
<1>12. ASSUME NEW l \in live
       PROVE  \/ Stashed(l, stash)
              \/ wt'[l[1]] = l[2] /\ l[1] \notin tracked' /\ tip[call.start][l[1]] = None
    BY <1>3, <1>5, <1>6, <1>9 DEF RepoInv, LiveInv
<1>13. AwayInv'
    BY <1>1, <1>2, <1>3, <1>12 DEF AwayInv, AwaySteps, CheckoutSteps
<1>. QED BY <1>8, <1>11, <1>13 DEF LinkInv

\* What the commit of a save does to the branches.
LEMMA CommitFileEffect ==
    ASSUME OwnPaths, TypeInv, RepoInv, LinkType, LinkInv, CommitFile,
           NEW p, p = FileOf[Save.id], NEW c, c = Save.content
    PROVE  /\ RepoInv' /\ UNCHANGED <<exists, stash, live, edits>>
           /\ wt' = [wt EXCEPT ![p] = c] /\ tracked' = tracked
           /\ \A b \in Branches, q \in Paths :
                 tip'[b][q] = IF b = Save.on /\ q = p THEN c ELSE tip[b][q]
           /\ Save.on \in Branches => tip[Save.on][p] # None /\ KeepsAt(p, tip[Save.on][p], c)
<1>1. call.step = "commit" /\ call.saves # <<>> /\ UNCHANGED <<live, edits, exists>>
    BY DEF CommitFile, CommitPaths, At, LinkType, CheckoutSteps
<1>2. SavesInv /\ head = Save.on /\ HeadTree = TreeOf(head)
    BY <1>1 DEF LinkInv, AwayInv
<1>3. /\ SaveName[Save.id] = p /\ c # None /\ OwnAt(p, c, edits)
    BY <1>1, <1>2, SaveFits DEF SavesInv
<1>4. /\ p \in tracked /\ p \in Paths /\ KeepsAt(p, HeadTree[p], c) /\ HeadTree[p] # None
      /\ \A l \in live : Stashed(l, stash) \/ l[1] # p
    BY <1>1, AtCommit
<1>5. CommitPaths({p}, [wt EXCEPT ![p] = c])
    BY <1>3 DEF CommitFile, Written
<1>6. GitType
    BY DEF TypeInv
<1>7. /\ RepoInv'
      /\ wt' = [wt EXCEPT ![p] = c] /\ UNCHANGED stash /\ tracked' = tracked \cup {p}
      /\ \A b \in Branches, q \in Paths :
            tip'[b][q] = IF b = head /\ q = p THEN c ELSE tip[b][q]
    <2>1. \A l \in live : Stashed(l, stash) \/ l[1] # p
        BY <1>4
    <2>2. RepoInv' /\ FileCommitted(p, c)
        BY <1>1, <1>3, <1>4, <1>5, <1>6, <2>1, CommitFileRepo
    <2>. QED BY <2>2 DEF FileCommitted
<1>. QED BY <1>1, <1>2, <1>4, <1>7 DEF TreeOf

LEMMA CommitFileStep ==
    ASSUME OwnPaths, TypeInv, RepoInv, LinkType, LinkInv, CommitFile
    PROVE  RepoInv' /\ LinkInv'
<1> DEFINE p == FileOf[Save.id]
           c == Save.content
<1>1. call.step = "commit" /\ call.saves # <<>> /\ Goes("return")
    BY DEF CommitFile, At, LinkType, CheckoutSteps
<1>2. /\ call'.step = "return" /\ call'.stashed = call.stashed /\ call'.ok = call.ok
      /\ call'.tie = call.tie /\ call'.on = call.on /\ call'.start = call.start
      /\ call'.saves = call.saves /\ call'.warned = call.warned
    BY <1>1, GoesFields
<1>3. /\ call.start \in exists /\ call.start \in Branches /\ SavesInv /\ HalvesInv /\ NotHere
      /\ \A l \in live : \/ Stashed(l, stash)
                         \/ wt[l[1]] = l[2] /\ l[1] \notin tracked /\ tip[call.start][l[1]] = None
      /\ call.stashed => stash # <<>>
      /\ head = Save.on
    BY <1>1 DEF LinkInv, AwayInv, CheckoutSteps, AwaySteps, TypeInv, GitType
<1>4. /\ Save.id \in Features /\ Save.on = call.on[Save.id] /\ Save.on \in Branches \cup Remotes
      /\ call.tie \in c.ties /\ c # None
    BY <1>1, <1>3, SaveFits DEF SavesInv
<1>5. /\ p \in tracked /\ p \in Paths
      /\ \A l \in live : Stashed(l, stash) \/ l[1] # p
      /\ head # call.start
      /\ tip[call.start][p] = None /\ ~(call.stashed /\ p \in Last(stash).paths)
    BY <1>1, AtCommit
<1>6. /\ RepoInv' /\ UNCHANGED <<exists, stash, live, edits>>
      /\ wt' = [wt EXCEPT ![p] = c] /\ tracked' = tracked
      /\ \A b \in Branches, q \in Paths :
            tip'[b][q] = IF b = Save.on /\ q = p THEN c ELSE tip[b][q]
    BY CommitFileEffect
<1>7. \A q \in Paths : wt'[q] = IF q = p THEN c ELSE wt[q]
    BY <1>6, TreeDef DEF TypeInv, GitType
<1>8. \A q \in Paths : tip'[call.start][q] = tip[call.start][q]
    BY <1>3, <1>5, <1>6
<1>9. ASSUME NEW q \in Paths PROVE AtHome(q)' = AtHome(q) /\ HomeHead'[q] = HomeHead[q]
    BY <1>1, <1>2, <1>5, <1>6, <1>7, <1>8 DEF AtHome, HomeHead, AwaySteps
<1>10. /\ ToDo' = Elems(Tail(call.saves)) /\ ToDo = {Save} \cup ToDo' /\ ToDo \subseteq SaveOf
       /\ \A s \in ToDo' : s.id # Save.id
    <2>1. ToDo' = Elems(Tail(call.saves))
        BY <1>2 DEF ToDo
    <2>. QED BY <1>1, <1>3, <2>1, SavesLeft
<1>11. ASSUME NEW s \in ToDo' PROVE Fresh(s)'
    <2>1. Fresh(s) /\ s.id \in Features /\ s.on \in Branches \cup Remotes
        BY <1>3, <1>10 DEF SavesInv, SaveOf
    <2>2. FileOf[s.id] \in Paths /\ FileOf[s.id] # p
        BY <1>4, <1>10, <2>1, CrossBranchAssumption DEF OwnPaths
    <2>3. TreeOf(s.on)'[FileOf[s.id]] = TreeOf(s.on)[FileOf[s.id]]
        BY <1>6, <2>1, <2>2 DEF TreeOf
    <2>. QED BY <1>2, <1>9, <2>1, <2>2, <2>3 DEF Fresh
<1>12. ASSUME Counts', NEW f \in {call.tie[1], call.tie[2]}
       PROVE  HalfThere(f)' \/ \E s \in ToDo' : s.id = f
    <2>1. /\ f \in Features /\ FileOf[f] \in Paths
          /\ call.on[f] \in Branches \cup Remotes
        BY CrossBranchAssumption DEF LinkType, Links, Ties
    <2>2. HalfThere(f) \/ \E s \in ToDo : s.id = f
        BY <1>2, <1>3, <1>12, <1>1 DEF HalvesInv, Counts
    <2>3. ASSUME call.on[f] \in Branches,
                 tip[call.on[f]][FileOf[f]] # None /\ call.tie \in tip[call.on[f]][FileOf[f]].ties
          PROVE  tip'[call.on[f]][FileOf[f]] # None /\ call.tie \in tip'[call.on[f]][FileOf[f]].ties
        BY <1>4, <1>6, <2>1, <2>3
    <2>4. HalfThere(f) => HalfThere(f)'
        BY <1>2, <1>9, <2>1, <2>3 DEF HalfThere
    <2>5. ASSUME f = Save.id PROVE HalfThere(f)'
        BY <1>2, <1>4, <1>5, <1>6, <2>1, <2>5 DEF HalfThere
    <2>. QED BY <1>10, <2>2, <2>4, <2>5
<1>13. SavesInv' /\ HalvesInv'
    BY <1>2, <1>3, <1>11, <1>12 DEF SavesInv, HalvesInv
<1>14. NotHere'
    <2>1. \A f \in Features : FileOf[f] \in Paths
        BY CrossBranchAssumption
    <2>. QED BY <1>1, <1>2, <1>3, <1>9, <2>1 DEF NotHere, Save, CheckoutSteps
<1>15. ASSUME NEW l \in live
       PROVE  \/ Stashed(l, stash)
              \/ wt'[l[1]] = l[2] /\ l[1] \notin tracked' /\ tip'[call.start][l[1]] = None
    BY <1>3, <1>5, <1>6, <1>7, <1>8 DEF RepoInv, LiveInv
<1>16. AwayInv'
    BY <1>1, <1>2, <1>3, <1>6, <1>15 DEF AwayInv, AwaySteps, CheckoutSteps
<1>. QED BY <1>6, <1>13, <1>14, <1>16 DEF LinkInv

LEMMA SaveHereStep ==
    ASSUME OwnPaths, TypeInv, RepoInv, LinkType, LinkInv, SaveHere
    PROVE  RepoInv' /\ LinkInv'
<1> DEFINE p == FileOf[Save.id]
           c == Save.content
<1>1. /\ call.step = "save" /\ call.saves # <<>> /\ Save.id \in In(wt) /\ Saved(TRUE)
      /\ wt' = [wt EXCEPT ![FileIn(wt, Save.id)] = c] /\ Writes(FileIn(wt, Save.id), c)
      /\ UNCHANGED <<tip, exists, head, loose, tracked, stash, edits>>
    BY DEF SaveHere, At
<1>2. /\ head = call.start /\ SavesInv /\ HalvesInv
    BY <1>1 DEF LinkInv, AwayInv
<1>3. /\ Save.id \in Features /\ c # None /\ OwnAt(p, c, edits) /\ p \in Paths /\ call.tie \in c.ties
      /\ p # Notes /\ Save.id \in {call.tie[1], call.tie[2]}
    BY <1>1, <1>2, SaveFits DEF SavesInv
<1>4. FileIn(wt, Save.id) = p
    BY <1>1, <1>3, OwnFile DEF TypeInv, GitType, RepoInv, TreesInv
<1>5. /\ call'.step = "save" /\ call'.saves = Tail(call.saves) /\ call'.tie = call.tie
      /\ call'.on = call.on /\ call'.start = call.start /\ call'.ok /\ call'.warned = call.warned
    BY <1>1, SavedTyping DEF LinkType, Links
<1>6. /\ ToDo = {Save} \cup ToDo' /\ ToDo \subseteq SaveOf /\ SavesFit(call'.saves, call.tie, call.on)
      /\ \A s \in ToDo' : s.id # Save.id
    <2>1. ToDo' = Elems(Tail(call.saves))
        BY <1>5 DEF ToDo
    <2>. QED BY <1>1, <1>2, <1>5, <2>1, SavesLeft
<1>7. HeadTree[p] # None => HeadTree[p].ties \subseteq c.ties \ {call.tie}
    <2>1. Fresh(Save)
        BY <1>2, <1>6 DEF SavesInv
    <2>. QED BY <1>1, <2>1 DEF Fresh, Older, HomeHead
<1>8. HeadTree[p] # c /\ KeepsAt(p, HeadTree[p], c)
    BY <1>3, <1>7 DEF KeepsAt
<1>9. GitType /\ edits \in 0..MaxEdits /\ edits' \in 0..MaxEdits /\ edits <= edits'
    BY <1>1, CrossBranchAssumption DEF TypeInv
<1>10. wt' = [wt EXCEPT ![p] = c] /\ Writes(p, c) /\ OwnAt(p, c, edits')
    BY <1>1, <1>3, <1>4
<1> HIDE DEF p, c
<1>11. RepoInv' /\ HeadTree' = HeadTree
    BY <1>1, <1>3, <1>8, <1>9, <1>10, WriteRepo
<1>12. \A q \in Paths : wt'[q] = IF q = p THEN c ELSE wt[q]
    BY <1>9, <1>10, TreeDef DEF GitType
<1>13. \A q \in Paths : AtHome(q)' = (IF q = p THEN c ELSE AtHome(q)) /\ HomeHead'[q] = HomeHead[q]
    BY <1>1, <1>5, <1>11, <1>12 DEF AtHome, HomeHead, AwaySteps
<1>14. ASSUME NEW s \in ToDo' PROVE Fresh(s)'
    <2>1. Fresh(s) /\ s.id \in Features
        BY <1>2, <1>6 DEF SavesInv, SaveOf
    <2>2. FileOf[s.id] \in Paths /\ FileOf[s.id] # p
        BY <1>3, <1>6, <2>1, CrossBranchAssumption DEF OwnPaths, p
    <2>3. TreeOf(s.on)' = TreeOf(s.on)
        BY <1>1 DEF TreeOf
    <2>. QED BY <1>5, <1>13, <2>1, <2>2, <2>3 DEF Fresh
<1>15. ASSUME Counts', NEW f \in {call.tie[1], call.tie[2]}
       PROVE  HalfThere(f)' \/ \E s \in ToDo' : s.id = f
    <2>1. FileOf[f] \in Paths
        BY CrossBranchAssumption DEF LinkType, Links, Ties
    <2>2. HalfThere(f) \/ \E s \in ToDo : s.id = f
        BY <1>1, <1>2, <1>5, <1>15 DEF HalvesInv, Counts, LinkInv, AwayInv
    <2>3. HalfThere(f) => HalfThere(f)'
        BY <1>1, <1>3, <1>5, <1>13, <2>1 DEF HalfThere
    <2>4. f = Save.id => HalfThere(f)'
        BY <1>3, <1>5, <1>13, <2>1 DEF HalfThere, p
    <2>. QED BY <1>6, <2>2, <2>3, <2>4
<1>16. SavesInv' /\ HalvesInv'
    BY <1>5, <1>6, <1>14, <1>15 DEF SavesInv, HalvesInv
<1>17. NotHere' /\ AwayInv'
    BY <1>1, <1>2, <1>5 DEF NotHere, AwayInv, AwaySteps, CheckoutSteps
<1>. QED BY <1>11, <1>16, <1>17 DEF LinkInv

\* Where a feature is found: in the work tree, or, when it is not there, in
\* the branch's tree.
LEMMA FoundWhere ==
    ASSUME OwnPaths, GitType, TreesInv, edits \in 0..MaxEdits,
           NEW f \in Features, NEW r \in Found(f), NEW p, p = FileOf[f]
    PROVE  /\ p \in Paths /\ p # Notes /\ r.content \in Feature /\ r.content.id = f
           /\ r.branch \in Branches \cup Remotes
           /\ \/ wt[p] # None /\ r.content = wt[p]
              \/ wt[p] = None /\ TreeOf(r.branch)[p] # None /\ r.content = TreeOf(r.branch)[p]
<1> DEFINE On(bs) == {[content |-> TreeOf(b)[FileIn(TreeOf(b), f)], branch |-> b] :
                          b \in {c \in bs : f \in In(TreeOf(c))}}
<1>1. r.content \in Feature /\ r.content.id = f /\ r.branch \in Branches \cup Remotes
    BY FoundTyping
<1>2. wt \in Tree /\ Own(wt, edits)
    BY DEF GitType, TreesInv
<1>3. CASE f \in In(wt)
    <2>1. r = [content |-> wt[FileIn(wt, f)], branch |-> head]
        BY <1>3 DEF Found
    <2>. QED BY <1>1, <1>2, <1>3, <2>1, OwnFile
<1>4. CASE f \notin In(wt)
    <2>1. r \in On({Base}) \cup On(exists) \cup On(Remotes)
        BY <1>4 DEF Found
    <2>2. PICK b \in Branches \cup Remotes :
              f \in In(TreeOf(b)) /\ r = [content |-> TreeOf(b)[FileIn(TreeOf(b), f)], branch |-> b]
        BY <2>1, CrossBranchAssumption DEF GitType
    <2>3. TreeOf(b) \in Tree /\ Own(TreeOf(b), edits)
        BY HeadTyping, OwnTrees
    <2>4. TreeOf(b)[p] # None /\ r.content = TreeOf(b)[p] /\ r.branch = b
        BY <2>2, <2>3, OwnFile
    <2>5. wt[p] = None /\ p \in Paths /\ p # Notes
        BY <1>2, <1>4, OwnFile
    <2>. QED BY <1>1, <2>4, <2>5
<1>. QED BY <1>3, <1>4

\* A half of a link that begins is no older than what it will replace.
LEMMA HalfFresh ==
    ASSUME OwnPaths, GitType, RepoInv, edits \in 0..MaxEdits, UNCHANGED git,
           NEW f \in Features, NEW r \in Found(f), NEW tie, call'.step = "save", call'.tie = tie,
           tie \notin r.content.ties, NEW h, h = HalfOf(f, r, tie)
    PROVE  /\ Fresh(h)'
           /\ h.id = f /\ h.on = r.branch /\ h.content.id = f /\ tie \in h.content.ties
<1> DEFINE p == FileOf[f]
<1>1. /\ p \in Paths /\ p # Notes /\ r.content \in Feature /\ r.content.id = f
      /\ r.branch \in Branches \cup Remotes
      /\ \/ wt[p] # None /\ r.content = wt[p]
         \/ wt[p] = None /\ TreeOf(r.branch)[p] # None /\ r.content = TreeOf(r.branch)[p]
    BY FoundWhere DEF RepoInv
<1>2. /\ h.id = f /\ h.on = r.branch /\ h.content.id = f
      /\ h.content.ties = r.content.ties \cup {tie}
    BY <1>1 DEF HalfOf, With, Feature
<1>3. UNCHANGED <<tip, exists, head, loose, wt, tracked, stash>>
    BY DEF git
<1>4. HeadTree' = HeadTree /\ \A b : TreeOf(b)' = TreeOf(b)
    BY <1>3 DEF HeadTree, TreeOf
<1>5. HomeHead' = HeadTree /\ AtHome(p)' = wt[p]
    BY <1>3, <1>4 DEF HomeHead, AtHome, AwaySteps
<1>6. HeadTree[p] # None => wt[p] # None /\ HeadTree[p].ties \subseteq wt[p].ties
    BY <1>1 DEF RepoInv, WorkTreeInv, Keeps, KeepsAt
<1>7. HeadTree[p] # None => HeadTree[p].ties \subseteq h.content.ties \ {tie}
    BY <1>1, <1>2, <1>6
<1>8. wt[p] # None \/ (TreeOf(h.on)[p] # None /\ TreeOf(h.on)[p].ties \subseteq h.content.ties \ {tie})
    BY <1>1, <1>2
<1>9. Fresh(h)'
    BY <1>2, <1>4, <1>5, <1>7, <1>8 DEF Fresh, Older
<1>. QED BY <1>2, <1>9

LEMMA LinkBeginStep ==
    ASSUME OwnPaths, TypeInv, RepoInv, NEW s \in Features, NEW t \in Features, LinkBegin(s, t)
    PROVE  RepoInv' /\ LinkInv'
<1>0. GitType /\ edits \in 0..MaxEdits /\ edits' = edits /\ live' = live /\ UNCHANGED git /\ s # t
    BY DEF LinkBegin, TypeInv
<1>1. PICK r \in Found(s), q \in Found(t) : <<s, t>> \notin r.content.ties /\ call' = LinkOf(s, t, r, q)
    BY DEF LinkBegin
<1> DEFINE tie  == <<s, t>>
           here == HalfOf(s, r, tie)
           back == HalfOf(t, q, tie)
<1>2. Begun(call', s, t, r, q)
    BY <1>0, <1>1, LinkBegun
<1>3. /\ call'.step = "save" /\ call'.tie = tie /\ call'.start = head
      /\ call'.on[s] = r.branch /\ call'.on[t] = q.branch
      /\ call'.saves = IF tie \in q.content.ties THEN <<here>> ELSE <<here, back>>
      /\ ~call'.stashed /\ call'.ok /\ ~call'.warned
    BY <1>2 DEF Begun
<1>4. UNCHANGED <<tip, exists, head, loose, wt, tracked, stash>>
    BY <1>0 DEF git
<1>5. RepoInv'
    BY <1>0, <1>4 DEF RepoInv, TreesInv, WorkTreeInv, LiveInv, HeadTree
<1>6. /\ Fresh(here)'
      /\ here.id = s /\ here.on = r.branch /\ here.content.id = s /\ tie \in here.content.ties
    BY <1>0, <1>1, <1>3, HalfFresh
<1>7. tie \notin q.content.ties =>
          /\ Fresh(back)'
          /\ back.id = t /\ back.on = q.branch /\ back.content.id = t /\ tie \in back.content.ties
    BY <1>0, <1>3, HalfFresh
<1>8. /\ FileOf[t] \in Paths
      /\ \/ wt[FileOf[t]] # None /\ q.content = wt[FileOf[t]]
         \/ TreeOf(q.branch)[FileOf[t]] # None /\ q.content = TreeOf(q.branch)[FileOf[t]]
      /\ q.branch \in Branches \cup Remotes
    BY <1>0, FoundWhere DEF RepoInv
<1>9. tie[1] = s /\ tie[2] = t
    OBVIOUS
<1> HIDE DEF here, back, tie
<1>10. SavesFit(call'.saves, tie, call'.on)
       /\ ToDo' = IF tie \in q.content.ties THEN {here} ELSE {here, back}
    <2>1. ToDo' = Elems(call'.saves)
        BY <1>3 DEF ToDo
    <2>2. CASE tie \in q.content.ties
        <3>1. call'.saves = <<here>> /\ Elems(<<here>>) = {here} /\ Len(<<here>>) = 1
            BY <1>3, <2>2 DEF Elems
        <3>. QED BY <1>3, <1>6, <1>9, <2>1, <2>2, <3>1 DEF SavesFit
    <2>3. CASE tie \notin q.content.ties
        <3>1. /\ call'.saves = <<here, back>> /\ Elems(<<here, back>>) = {here, back}
              /\ Len(<<here, back>>) = 2 /\ <<here, back>>[1] = here /\ <<here, back>>[2] = back
            BY <1>3, <2>3 DEF Elems
        <3>. QED BY <1>0, <1>3, <1>6, <1>7, <1>9, <2>1, <2>3, <3>1 DEF SavesFit
    <2>. QED BY <2>2, <2>3
<1>11. SavesInv'
    BY <1>3, <1>6, <1>7, <1>10 DEF SavesInv
<1>12. HalvesInv'
    <2>1. \E h \in ToDo' : h.id = s
        BY <1>6, <1>10
    <2>2. CASE tie \notin q.content.ties
        BY <1>3, <1>7, <1>9, <1>10, <2>1, <2>2 DEF HalvesInv
    <2>3. CASE tie \in q.content.ties
        <3>1. AtHome(FileOf[t])' = wt[FileOf[t]]
            BY <1>3, <1>4 DEF AtHome, AwaySteps
        <3>2. HalfThere(t)'
            BY <1>3, <1>4, <1>8, <2>3, <3>1 DEF HalfThere, TreeOf
        <3>. QED BY <1>3, <1>9, <2>1, <3>2 DEF HalvesInv
    <2>. QED BY <2>2, <2>3
<1>13. NotHere' /\ AwayInv'
    BY <1>3, <1>4 DEF NotHere, AwayInv, AwaySteps, CheckoutSteps
<1>. QED BY <1>5, <1>11, <1>12, <1>13 DEF LinkInv
-----------------------------------------------------------------------------
(* The invariant *)

LEMMA CrossInit == OwnPaths /\ Init => CrossInv
<1> SUFFICES ASSUME OwnPaths, Init PROVE CrossInv
    OBVIOUS
<1>1. TypeInv
    BY TypeInit
<1>2. ~InLink
    BY DEF Init, InLink, Idle, LinkSteps, CheckoutSteps
<1>3. /\ wt = Empty /\ loose = Empty /\ stash = <<>> /\ live = {} /\ tracked = {} /\ edits = 0
      /\ tip = [b \in Branches |-> FirstTip(b)] /\ head = Base /\ Base \in Branches
    BY CrossBranchAssumption DEF Init
<1>4. Own(Empty, 0)
    BY DEF Own, Empty
<1>5. ASSUME NEW b \in Branches PROVE Own(FirstTip(b), 0)
    <2> DEFINE on(p) == {f \in Given : BranchOf[f] = b /\ FileOf[f] = p}
    <2>1. ASSUME NEW p \in Paths, FirstTip(b)[p] # None PROVE OwnAt(p, FirstTip(b)[p], 0)
        <3>1. CASE on(p) # {}
            <4>1. (CHOOSE f \in on(p) : TRUE) \in on(p)
                BY <3>1
            <4>2. FileOf[CHOOSE f \in on(p) : TRUE] = p /\ p # Notes
                BY <4>1, CrossBranchAssumption
            <4>3. FirstTip(b)[p] = [id |-> CHOOSE f \in on(p) : TRUE, ties |-> {}]
                BY <3>1 DEF FirstTip
            <4> HIDE DEF on
            <4>4. FirstTip(b)[p].id = CHOOSE f \in on(p) : TRUE
                BY <4>3
            <4>. QED BY <4>2, <4>4 DEF OwnAt
        <3>2. CASE on(p) = {}
            <4>1. FirstTip(b)[p] = IF p = Notes /\ \E f \in Given : BranchOf[f] = b THEN [edit |-> 0] ELSE None
                BY <3>2 DEF FirstTip
            <4>2. p = Notes /\ FirstTip(b)[p] = [edit |-> 0]
                BY <2>1, <4>1
            <4>3. FirstTip(b)[p].edit <= 0
                BY <4>2
            <4>. QED BY <4>2, <4>3 DEF OwnAt
        <3>. QED BY <3>1, <3>2
    <2>. QED BY <2>1 DEF Own
<1>6. TreesInv
    BY <1>3, <1>4, <1>5 DEF TreesInv
<1>7. \A p \in Paths : HeadTree[p] = None
    BY <1>3, CrossBranchAssumption DEF HeadTree, FirstTip
<1>8. WorkTreeInv /\ LiveInv
    BY <1>3, <1>7 DEF WorkTreeInv, LiveInv, Files, Keeps, KeepsAt
<1>. QED BY <1>1, <1>2, <1>6, <1>8 DEF CrossInv, RepoInv

LEMMA CrossStep == OwnPaths /\ CrossInv /\ [Next]_vars => CrossInv'
<1> SUFFICES ASSUME OwnPaths, CrossInv, [Next]_vars PROVE RepoInv' /\ (InLink' => LinkInv')
    BY TypeStep DEF CrossInv
<1>0. /\ TypeInv /\ RepoInv /\ (InLink => LinkInv) /\ GitType /\ CallType
      /\ edits \in 0..MaxEdits /\ MaxEdits \in Nat /\ Notes \in Paths /\ Base \in Branches
      /\ BranchOf \in [Features -> Branches] /\ TypeInv'
    BY TypeStep, CrossBranchAssumption DEF CrossInv, TypeInv
<1>i. ASSUME call' = Idle \/ call' = [step |-> "created"] \/ (Begins /\ UNCHANGED call) PROVE ~InLink'
    BY <1>i DEF InLink, Begins, Idle, LinkSteps, CheckoutSteps
<1>g. ASSUME UNCHANGED <<git, live, edits>> PROVE RepoInv'
    BY <1>0, <1>g DEF git, RepoInv, TreesInv, WorkTreeInv, LiveInv, HeadTree
<1>1. ASSUME Edit PROVE RepoInv' /\ ~InLink'
    <2>1. /\ Begins /\ edits < MaxEdits /\ edits' = edits + 1
          /\ wt' = [wt EXCEPT ![Notes] = [edit |-> edits']] /\ Writes(Notes, wt'[Notes])
          /\ UNCHANGED <<tip, exists, head, loose, tracked, stash, call>>
        BY <1>1 DEF Edit
    <2> DEFINE c == [edit |-> edits']
    <2>2. edits' \in 0..MaxEdits /\ edits <= edits' /\ ~(edits' <= edits)
        BY <1>0, <2>1
    <2>3. c \in Note /\ c.edit = edits'
        BY <2>2 DEF Note
    <2>4. c # None /\ OwnAt(Notes, c, edits')
        BY <2>2, <2>3, CrossBranchAssumption DEF OwnAt
    <2>5. wt'[Notes] = c
        BY <1>0, <2>1, TreeDef DEF GitType
    <2> HIDE DEF c
    <2>6. HeadTree[Notes] # c /\ KeepsAt(Notes, HeadTree[Notes], c)
        <3>1. Own(HeadTree, edits)
            BY <1>0, OwnTrees DEF RepoInv
        <3>. QED BY <1>0, <2>2, <2>3, <2>4, <3>1 DEF Own, OwnAt, KeepsAt
    <2>7. wt' = [wt EXCEPT ![Notes] = c] /\ Writes(Notes, c)
        BY <2>1, <2>5 DEF c
    <2>. QED BY <1>0, <1>i, <2>1, <2>2, <2>4, <2>6, <2>7, WriteRepo
<1>2. ASSUME CommitAll PROVE RepoInv' /\ ~InLink'
    <2>1. Begins /\ CommitPaths(Paths, wt) /\ live' = {l \in live : wt[l[1]] # l[2]}
          /\ UNCHANGED <<call, edits>>
        BY <1>2 DEF CommitAll
    <2>. QED BY <1>0, <1>i, <2>1, CommitAllRepo
<1>3. ASSUME NEW b \in Branches, UserCheckout(b) PROVE RepoInv' /\ ~InLink'
    <2>1. Begins /\ b \in exists \cup Remotes /\ Checkout(b) /\ UNCHANGED <<live, edits>> /\ UNCHANGED call
        BY <1>3 DEF UserCheckout
    <2>. QED BY <1>0, <1>i, <2>1, CheckoutRepo
<1>4. ASSUME NEW b \in Branches, UserBranch(b) PROVE RepoInv' /\ ~InLink'
    <2>1. Begins /\ CreateBranch(b) /\ UNCHANGED <<live, edits>> /\ UNCHANGED call
        BY <1>4 DEF UserBranch
    <2>. QED BY <1>0, <1>i, <2>1, CreateBranchRepo
<1>5. ASSUME UserPop PROVE RepoInv' /\ ~InLink'
    <2>1. Begins /\ StashPop /\ UNCHANGED <<live, edits>> /\ UNCHANGED call
        BY <1>5 DEF UserPop
    <2>. QED BY <1>0, <1>i, <2>1, PopRepo
<1>6. ASSUME NEW f \in Features, NEW flag, CreateFeature(f, flag) PROVE RepoInv' /\ ~InLink'
    <2>1. call' = [step |-> "created"]
        BY <1>6 DEF CreateFeature, NewFeature
    <2>. QED BY <1>0, <1>6, <1>i, <2>1, CreateFeatureRepo
<1>7. ASSUME NEW f \in Features, NEW flag, CreateRefused(f, flag) PROVE RepoInv' /\ ~InLink'
    <2>1. Begins /\ Checkout(Base) /\ UNCHANGED <<live, edits>> /\ UNCHANGED call
        BY <1>7 DEF CreateRefused
    <2>2. Base \in exists \cup Remotes
        BY <2>1 DEF Checkout, CanCheckout, Known
    <2>. QED BY <1>0, <1>i, <2>1, <2>2, CheckoutRepo
<1>8. ASSUME NEW f \in Features, Switch(f) PROVE RepoInv' /\ ~InLink'
    <2>1. PICK b \in Branches :
              /\ Begins /\ UNCHANGED <<live, edits>> /\ UNCHANGED call
              /\ IF b \in exists THEN Checkout(b) ELSE CreateBranch(b)
        BY <1>8 DEF Switch, SwitchTo
    <2>. QED BY <1>0, <1>i, <2>1, CheckoutRepo, CreateBranchRepo
<1>9. ASSUME NEW s \in Features, NEW t \in Features, LinkBegin(s, t) PROVE RepoInv' /\ LinkInv'
    BY <1>0, <1>9, LinkBeginStep
<1>10. ASSUME CreateStep PROVE RepoInv' /\ ~InLink'
    <2>1. call' = Idle /\ UNCHANGED edits
        BY <1>10 DEF CreateStep, AutoCommitFeature, AutoCommitFails
    <2>2. ASSUME AutoCommitFeature, Clean PROVE RepoInv'
        <3>1. UNCHANGED git /\ live' = {l \in live : wt[l[1]] # l[2]}
            BY <2>2 DEF AutoCommitFeature
        <3>. QED BY <1>0, <2>1, <3>1 DEF git, RepoInv, TreesInv, WorkTreeInv, LiveInv, HeadTree
    <2>3. ASSUME AutoCommitFeature, ~Clean PROVE RepoInv'
        <3>1. CommitPaths(Paths, wt) /\ live' = {l \in live : wt[l[1]] # l[2]}
            BY <2>3 DEF AutoCommitFeature
        <3>. QED BY <1>0, <2>1, <3>1, CommitAllRepo
    <2>4. ASSUME AutoCommitFails PROVE RepoInv'
        BY <1>g, <2>4 DEF AutoCommitFails
    <2>. QED BY <1>10, <1>i, <2>1, <2>2, <2>3, <2>4 DEF CreateStep
<1>11. ASSUME LinkStep PROVE RepoInv' /\ (InLink' => LinkInv')
    <2>1. ASSUME LinkEnd PROVE RepoInv' /\ ~InLink'
        BY <1>g, <1>i, <2>1 DEF LinkEnd
    <2>2. ASSUME ~LinkEnd PROVE LinkType /\ LinkInv
        <3>1. call.step \in LinkSteps
            BY <1>11, <2>2
            DEF LinkStep, SaveHere, SaveThere, StashChanges, CheckoutTarget, CheckoutRefused, CommitFile,
                CommitFails, Return, Pop, At, LinkSteps, CheckoutSteps
        <3>. QED BY <1>0, <3>1, LinkUnderWay DEF InLink
    <2>. QED BY <1>0, <1>11, <2>1, <2>2, SaveHereStep, SaveThereStep, StashChangesStep, CheckoutTargetStep,
                BackHomeStep, CommitFileStep, CommitFailsStep, ReturnStep DEF LinkStep
<1>12. ASSUME Kill PROVE RepoInv' /\ ~InLink'
    BY <1>12, <1>g, <1>i DEF Kill
<1>13. CASE UNCHANGED vars
    <2>1. UNCHANGED <<tip, exists, head, loose, wt, tracked, stash, call, live, edits>>
        BY <1>13 DEF vars, git
    <2>2. RepoInv'
        BY <1>g, <2>1 DEF git
    <2>3. InLink' = InLink /\ LinkInv' = LinkInv
        BY <2>1 DEF InLink, LinkInv, AwayInv, SavesInv, NotHere, HalvesInv, Fresh, HalfThere, Counts,
                    ToDo, AtHome, HomeHead, HeadTree, TreeOf, Save
    <2>. QED BY <1>0, <2>2, <2>3
<1>. QED BY <1>1, <1>2, <1>3, <1>4, <1>5, <1>6, <1>7, <1>8, <1>9, <1>10, <1>11, <1>12, <1>13 DEF Next

LEMMA CrossInvAlways ==
    ASSUME OwnPaths
    PROVE  Spec => []CrossInv
<1>1. Init => CrossInv
    BY CrossInit
<1>2. CrossInv /\ [Next]_vars => CrossInv'
    BY CrossStep
<1>. QED BY <1>1, <1>2, PTL DEF Spec
-----------------------------------------------------------------------------
(***************************************************************************)
(* With every feature in a path of its own: nothing that was written into  *)
(* the work tree and not committed is lost, wherever link stashes, checks  *)
(* out by force, fails, pops or is killed.                                 *)
(***************************************************************************)
THEOREM WorkSafeAlways ==
    ASSUME OwnPaths
    PROVE  Spec => []WorkSafe
<1>1. CrossInv => WorkSafe
    BY DEF CrossInv, RepoInv, LiveInv, Kept, Stashed, WorkSafe
<1>. QED BY <1>1, CrossInvAlways, PTL

(***************************************************************************)
(* With every feature in a path of its own: a link that ends without a     *)
(* warning has both halves where it found the features, a remote branch    *)
(* excepted.                                                               *)
(***************************************************************************)
THEOREM HalvesSavedAlways ==
    ASSUME OwnPaths
    PROVE  Spec => []HalvesSaved
<1>1. CrossInv => HalvesSaved
    <2> SUFFICES ASSUME CrossInv, At("save"), call.saves = <<>>, ~call.warned,
                        NEW f \in {call.tie[1], call.tie[2]}
                 PROVE  \/ call.on[f] \in Remotes
                        \/ \E tree \in {wt, tip[call.on[f]]} :
                              f \in In(tree) /\ call.tie \in tree[FileIn(tree, f)].ties
        BY DEF HalvesSaved
    <2>1. /\ LinkType /\ LinkInv /\ GitType /\ TreesInv /\ call.step = "save"
        BY LinkUnderWay DEF CrossInv, TypeInv, At, InLink, LinkSteps, RepoInv
    <2>2. f \in Features /\ call.on[f] \in Branches \cup Remotes
        BY <2>1 DEF LinkType, Links, Ties
    <2>3. ToDo = {}
        BY <2>1 DEF ToDo, Elems
    <2>4. HalfThere(f)
        BY <2>1, <2>3 DEF LinkInv, AwayInv, HalvesInv, Counts
    <2>5. AtHome(FileOf[f]) = wt[FileOf[f]]
        BY <2>1 DEF AtHome, AwaySteps
    <2>6. ASSUME NEW tree \in Tree, Own(tree, edits), tree[FileOf[f]] # None, call.tie \in tree[FileOf[f]].ties
          PROVE  f \in In(tree) /\ call.tie \in tree[FileIn(tree, f)].ties
        BY <2>2, <2>6, OwnFile
    <2>7. wt \in Tree /\ Own(wt, edits)
        BY <2>1 DEF GitType, TreesInv
    <2>8. CASE call.on[f] \in Branches
        <3>1. tip[call.on[f]] \in Tree /\ Own(tip[call.on[f]], edits)
            BY <2>1, <2>8 DEF GitType, TreesInv
        <3>. QED BY <2>4, <2>5, <2>6, <2>7, <3>1 DEF HalfThere
    <2>. QED BY <2>2, <2>8
<1>. QED BY <1>1, CrossInvAlways, PTL

(***************************************************************************)
(* With every feature in a path of its own: a commit link makes changes    *)
(* one file of one branch, that of the feature it saves.                   *)
(***************************************************************************)
THEOREM OthersKeptAlways ==
    ASSUME OwnPaths
    PROVE  Spec => OthersKept
<1> DEFINE Change == ~At("idle") /\ ~At("created") =>
                        \A b \in Branches, p \in Paths :
                            tip'[b][p] # tip[b][p] => /\ b = Save.on
                                                     /\ tip[b][p] # None /\ tip[b][p].id = Save.id
                                                     /\ tip'[b][p].id = Save.id
<1>1. CrossInv /\ [Next]_vars => [Change]_vars
    <2> SUFFICES ASSUME CrossInv, Next, ~At("idle"), ~At("created"),
                        NEW b \in Branches, NEW p \in Paths, tip'[b][p] # tip[b][p]
                 PROVE  b = Save.on /\ tip[b][p] # None /\ tip[b][p].id = Save.id /\ tip'[b][p].id = Save.id
        OBVIOUS
    <2>1. LinkType /\ LinkInv /\ TypeInv /\ RepoInv
        BY LinkUnderWay DEF CrossInv, TypeInv, InLink
    <2>2. CommitFile
        <3>1. ~Begins /\ ~CreateStep
            BY DEF Begins, Idle, At, CreateStep, AutoCommitFeature, AutoCommitFails
        <3>2. LinkStep \/ Kill
            BY <3>1 DEF Next, Edit, CommitAll, UserPop, UserCheckout, UserBranch, CreateFeature, CreateRefused,
                        Switch, LinkBegin
        <3>3. tip' # tip
            OBVIOUS
        <3>. QED BY <3>2, <3>3
             DEF LinkStep, SaveHere, SaveThere, StashChanges, CheckoutTarget, CheckoutRefused, CommitFails,
                 Return, Pop, LinkEnd, Kill, Checkout, CheckoutForce, MovesTo, StashPush, StashPop, git
    <2>3. call.saves # <<>> /\ SavesInv
        BY <2>1, <2>2 DEF CommitFile, At, LinkType, CheckoutSteps, LinkInv
    <2> DEFINE q == FileOf[Save.id]
               c == Save.content
    <2>4. /\ tip'[b][p] = IF b = Save.on /\ p = q THEN c ELSE tip[b][p]
          /\ Save.on \in Branches => tip[Save.on][q] # None
        BY <2>1, <2>2, CommitFileEffect
    <2>5. Save.id \in Features /\ c.id = Save.id
        BY <2>1, <2>3, SaveFits DEF SavesInv
    <2>6. tip[b] \in Tree /\ Own(tip[b], edits)
        BY <2>1 DEF TypeInv, GitType, RepoInv, TreesInv
    <2>. QED BY <2>4, <2>5, <2>6, OwnFile
<1>. QED BY <1>1, CrossInvAlways, PTL DEF OthersKept, Spec

(***************************************************************************)
(* With every feature in a path of its own: no command takes a             *)
(* relationship from a feature a branch has.  Which copy of a feature link *)
(* found does not matter: what it saves is no older than what it replaces. *)
(***************************************************************************)
THEOREM TiesKeptAlways ==
    ASSUME OwnPaths
    PROVE  Spec => TiesKept
<1> DEFINE Change == \A b \in exists : \A f \in In(tip[b]) :
                        /\ f \in In(tip'[b])
                        /\ tip[b][FileIn(tip[b], f)].ties \subseteq tip'[b][FileIn(tip'[b], f)].ties
<1>1. CrossInv /\ CrossInv' /\ [Next]_vars => [Change]_vars
    <2> SUFFICES ASSUME CrossInv, CrossInv', Next, NEW b \in exists, NEW f \in In(tip[b])
                 PROVE  /\ f \in In(tip'[b])
                        /\ tip[b][FileIn(tip[b], f)].ties \subseteq tip'[b][FileIn(tip'[b], f)].ties
        OBVIOUS
    <2>0. /\ TypeInv /\ RepoInv /\ (InLink => LinkInv) /\ GitType /\ GitType' /\ TreesInv'
          /\ b \in Branches /\ f \in Features
        BY DEF CrossInv, TypeInv, GitType, RepoInv, In
    <2>1. /\ tip[b] \in Tree /\ Own(tip[b], edits) /\ tip'[b] \in Tree /\ Own(tip'[b], edits')
        BY <2>0 DEF GitType, RepoInv, TreesInv
    <2>2. SUFFICES Keeps(tip[b], tip'[b])
        <3>1. FileOf[f] \in Paths /\ FileOf[f] # Notes /\ FileIn(tip[b], f) = FileOf[f]
              /\ tip[b][FileOf[f]] # None
            BY <2>0, <2>1, OwnFile
        <3>2. tip'[b][FileOf[f]] # None /\ tip[b][FileOf[f]].ties \subseteq tip'[b][FileOf[f]].ties
            BY <2>2, <3>1 DEF Keeps, KeepsAt
        <3>3. f \in In(tip'[b]) /\ FileIn(tip'[b], f) = FileOf[f]
            BY <2>0, <2>1, <3>2, OwnFile
        <3>. QED BY <3>1, <3>2, <3>3
    <2>3. ASSUME tip'[b] = tip[b] PROVE Keeps(tip[b], tip'[b])
        BY <2>3, KeepsSame
    <2>4. ASSUME CommitPaths(Paths, wt) PROVE Keeps(tip[b], tip'[b])
        <3>1. CASE b = head
            <4>1. HeadTree = tip[b] /\ tip'[b] = [p \in Paths |-> IF p \in Paths THEN wt[p] ELSE HeadTree[p]]
                BY <2>0, <2>4, <3>1 DEF CommitPaths, HeadTree, GitType
            <4>. QED BY <2>0, <4>1 DEF RepoInv, WorkTreeInv, Keeps
        <3>2. CASE b # head
            BY <2>0, <2>3, <2>4, <3>2 DEF CommitPaths, GitType
        <3>. QED BY <3>1, <3>2
    <2>5. ASSUME NEW c \in Branches, CreateBranch(c) PROVE Keeps(tip[b], tip'[b])
        BY <2>0, <2>3, <2>5 DEF CreateBranch, GitType
    <2>6. ASSUME NEW g \in Features, NEW flag, CreateFeature(g, flag) PROVE Keeps(tip[b], tip'[b])
        BY <2>0, <2>3, <2>6, CreateFeatureRepo DEF TypeInv
    <2>7. ASSUME CommitFile PROVE Keeps(tip[b], tip'[b])
        <3>1. LinkType /\ LinkInv
            BY <2>0, <2>7, LinkUnderWay DEF TypeInv, CommitFile, At, InLink, LinkSteps, CheckoutSteps
        <3> DEFINE p == FileOf[Save.id]
                   c == Save.content
        <3>2. /\ \A q \in Paths : tip'[b][q] = IF b = Save.on /\ q = p THEN c ELSE tip[b][q]
              /\ Save.on \in Branches => KeepsAt(p, tip[Save.on][p], c)
            BY <2>0, <2>7, <3>1, CommitFileEffect
        <3> HIDE DEF p, c
        <3>3. ASSUME NEW q \in Paths PROVE KeepsAt(q, tip[b][q], tip'[b][q])
            BY <2>0, <3>2 DEF KeepsAt
        <3>. QED BY <3>3 DEF Keeps
    <2>8. ASSUME NEW g \in Features, Switch(g) PROVE Keeps(tip[b], tip'[b])
        <3>1. PICK c \in Branches : SwitchTo(c)
            BY <2>8 DEF Switch
        <3>. QED BY <2>3, <2>5, <2>8, <3>1 DEF SwitchTo, Checkout, MovesTo
    <2>9. ASSUME NEW c \in Branches, UserBranch(c) PROVE Keeps(tip[b], tip'[b])
        BY <2>5, <2>9 DEF UserBranch
    <2>10. ASSUME CommitAll \/ AutoCommitFeature PROVE Keeps(tip[b], tip'[b])
        BY <2>3, <2>4, <2>10 DEF CommitAll, AutoCommitFeature, git
    <2>. QED BY <2>3, <2>6, <2>7, <2>8, <2>9, <2>10
         DEF Next, Edit, UserPop, UserCheckout, CreateRefused,
             LinkBegin, CreateStep, AutoCommitFails, LinkStep, SaveHere, SaveThere,
             StashChanges, CheckoutTarget, CheckoutRefused, CommitFails, Return, Pop, LinkEnd, Kill,
             Checkout, CheckoutForce, MovesTo, StashPush, StashPop, git
<1>. QED BY <1>1, CrossInvAlways, PTL DEF TiesKept, Spec
=============================================================================
