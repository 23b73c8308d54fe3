-------------------------- MODULE Lifecycle_proofs --------------------------
(***************************************************************************)
(* Proofs about Lifecycle for every set of features and every setting of   *)
(* the version format, as long as no part of a key reaches Weight: its     *)
(* types, whatever keys are passed; and, for the keys a careful user may   *)
(* pass, that the version found by its key is the newest, that older ones  *)
(* stay as they are, that lower bounds are kept, and that states go        *)
(* through the rounds of FeatureRounds.                                    *)
(***************************************************************************)
EXTENDS Lifecycle, FiniteSetTheorems, TLAPS

-----------------------------------------------------------------------------
(***************************************************************************)
(* Keys.                                                                   *)
(***************************************************************************)

\* Whichever format is set, the next key is above the current one, both by the
\* parts and by the weights.
LEMMA IncrementGoesUp ==
    ASSUME NEW k \in Key, NEW format \in {"simple", "semantic"}, NEW inc \in Increments,
           CanIncrement(k, format), Small(k), <<format, inc>> # <<"simple", "patch">>
    PROVE  LET n == IncrementVersion(k, format, inc)
           IN  /\ n \in Key /\ Parsed(n)
               /\ Precedes(k, n)
               /\ k.form = "semantic" => n.form = "semantic"
<1> USE DEF CanIncrement
<1>1. CASE format = "semantic"
  BY <1>1 DEF IncrementVersion, NextSemantic, Increments, Semantic, Key, Parsed, Precedes
<1>2. CASE format = "simple"
  BY <1>2 DEF IncrementVersion, Increments, Simple, Key, Parsed, Precedes
<1> QED BY <1>1, <1>2

\* Within a thousand the weights rank keys as their parts do, unless a semantic
\* key is followed by a simple one.
LEMMA RankFollowsParts ==
    ASSUME NEW j \in Key, NEW k \in Key, Parsed(j), Parsed(k), Small(j), Small(k),
           j.form = "semantic" => k.form = "semantic",
           Precedes(j, k)
    PROVE  Rank(j) < Rank(k)
<1> USE DEF Key, Parsed, Small, Weight, Precedes, Rank
<1>1. CASE j.form = "simple" /\ k.form = "simple"
  BY <1>1
<1>2. CASE j.form = "simple" /\ k.form = "semantic"
  BY <1>2
<1>3. CASE j.form = "semantic" /\ k.form = "semantic"
  BY <1>3
<1> QED BY <1>1, <1>2, <1>3

LEMMA NewKeysGoUp ==
    ASSUME LifecycleAssumption, Careful, NEW k \in Key, Parsed(k), Small(k),
           NEW n \in NewKeys(k)
    PROVE  /\ n \in Key /\ Parsed(n)
           /\ Precedes(k, n)
           /\ k.form = "semantic" => n.form = "semantic"
<1>1. CASE n \notin NextKeys(k)
  BY <1>1 DEF NewKeys, LifecycleAssumption
<1>2. CASE n \in NextKeys(k)
  <2>1. PICK format \in Formats, inc \in Increments :
            /\ CanIncrement(k, format)
            /\ <<format, inc>> # <<"simple", "patch">>
            /\ n = IncrementVersion(k, format, inc)
    BY <1>2 DEF NextKeys
  <2>2. format \in {"simple", "semantic"}
    BY DEF LifecycleAssumption
  <2> QED BY <2>1, <2>2, IncrementGoesUp
<1> QED BY <1>1, <1>2

LEMMA KeyParts ==
    ASSUME NEW k \in Key
    PROVE  /\ k.major \in Nat /\ k.minor \in Nat /\ k.patch \in Nat
           /\ k.form = "simple" => k.minor = 0 /\ k.patch = 0
BY DEF Key

\* What lies above a lower bound, so does all that follows it.
LEMMA DemandsMonotone ==
    ASSUME NEW c \in Constraint, c.operator \in {">", ">="},
           NEW j \in Key, NEW k \in Key, Precedes(j, k), IsSatisfiedBy(c, j)
    PROVE  IsSatisfiedBy(c, k)
<1> DEFINE v == c.version
<1>1. v \in Key
  BY DEF Constraint
<1>2. /\ j.major \in Nat /\ j.minor \in Nat /\ j.patch \in Nat
      /\ k.major \in Nat /\ k.minor \in Nat /\ k.patch \in Nat
      /\ v.major \in Nat /\ v.minor \in Nat /\ v.patch \in Nat
  BY <1>1, KeyParts
<1>3. Precedes(v, j) => Precedes(v, k)
  BY <1>2 DEF Precedes
<1>4. ~Precedes(j, v) => ~Precedes(k, v)
  BY <1>2 DEF Precedes
<1>5. j.major <= k.major
  BY <1>2 DEF Precedes
<1>6. /\ Above(j, c) => Above(k, c)
      /\ ~Below(j, c) => ~Below(k, c)
  BY <1>2, <1>3, <1>4, <1>5 DEF Above, Below
<1>7. CASE c.operator = ">"
  BY <1>6, <1>7 DEF IsSatisfiedBy
<1>8. CASE c.operator = ">="
  BY <1>6, <1>8 DEF IsSatisfiedBy
<1> QED BY <1>7, <1>8
-----------------------------------------------------------------------------
(***************************************************************************)
(* The invariant: every feature has a version that leads the others, by    *)
(* rank and by age, and only the leader may be unfinished.                 *)
(***************************************************************************)
Leads(h, v) ==
    /\ v \in h
    /\ \A w \in h : Parsed(w.key) /\ Small(w.key)
    /\ \A w \in h \ {v} :
          Rank(w.key) < Rank(v.key) /\ w.closed /\ w.created < v.created

LifeInv ==
    /\ TypeOK
    /\ \A f \in Features :
          /\ IsFiniteSet(history[f])
          /\ history[f] # {} => \E v \in history[f] : Leads(history[f], v)

\* Three things may happen to a feature.
Begun(f) ==
    /\ history[f] = {}
    /\ \E w \in Version :
          /\ w.key = Simple(1) /\ ~w.closed
          /\ w.created <= w.modified /\ w.modified <= clock'
          /\ history'[f] = {w}

Reopened(f) ==
    \E u \in history[f], w \in Version :
        /\ Leads(history[f], u) /\ u.closed
        /\ Parsed(w.key) /\ Small(w.key)
        /\ Precedes(u.key, w.key) /\ Rank(u.key) < Rank(w.key)
        /\ w.created = clock' /\ w.modified = clock' /\ ~w.closed
        /\ clock < clock'
        /\ history'[f] = history[f] \cup {w}

Legal(u, w) ==
    \/ DeriveState(u) = DeriveState(w)
    \/ <<DeriveState(u), DeriveState(w)>> \in Rounds!Moves

Restamped(f) ==
    \E u \in history[f], w \in Version :
        /\ Leads(history[f], u)
        /\ w.key = u.key /\ w.created = u.created
        /\ w.created <= w.modified /\ w.modified <= clock'
        /\ w.closed => w.created < w.modified
        /\ Legal(u, w)
        /\ history'[f] = (history[f] \ {u}) \cup {w}

FeatureStep(f) ==
    history'[f] = history[f] \/ Begun(f) \/ Reopened(f) \/ Restamped(f)

LEMMA RankType ==
    ASSUME NEW k \in Key
    PROVE  Rank(k) \in Nat
BY KeyParts DEF Rank

\* The leader is the version every command finds.
LEMMA LeaderIsCurrent ==
    ASSUME LifeInv, NEW f \in Features, NEW v, Leads(history[f], v)
    PROVE  \A u : Current(f, u) <=> u = v
<1>1. \A w \in history[f] : w.key \in Key /\ Rank(w.key) \in Nat
  <2>1. history[f] \subseteq Version
    BY DEF LifeInv, TypeOK
  <2>2. \A w \in Version : w.key \in Key
    BY DEF Version
  <2> QED BY <2>1, <2>2, RankType
<1>2. Current(f, v)
  BY <1>1 DEF Leads, Current
<1>3. ASSUME NEW u, Current(f, u), u # v
      PROVE  FALSE
  BY <1>1, <1>3 DEF Leads, Current
<1> QED BY <1>2, <1>3

LEMMA ViewsLead ==
    ASSUME LifeInv, NEW p \in Views, NEW f \in Existing
    PROVE  f \in Features /\ p[f] \in history[f] /\ Leads(history[f], p[f])
<1>1. f \in Features /\ Current(f, p[f])
  BY DEF Views, Existing
<1>2. PICK v \in history[f] : Leads(history[f], v)
  BY DEF LifeInv, Existing
<1> QED BY <1>1, <1>2, LeaderIsCurrent

LEMMA Restamping ==
    ASSUME LifeInv, NEW p \in Views, NEW f \in Existing, NEW w \in Version,
           w.key = p[f].key, w.created = p[f].created,
           w.created <= w.modified, w.modified <= clock',
           w.closed => w.created < w.modified,
           Legal(p[f], w),
           history'[f] = (history[f] \ {p[f]}) \cup {w}
    PROVE  FeatureStep(f)
BY ViewsLead DEF FeatureStep, Restamped

-----------------------------------------------------------------------------
(***************************************************************************)
(* The steps.                                                              *)
(***************************************************************************)
Stamped(v, time) ==
    /\ v.created <= v.modified /\ v.modified <= time
    /\ v.closed => v.created < v.modified

LEMMA ViewsStamped ==
    ASSUME LifeInv, NEW p \in Views, NEW f \in Existing
    PROVE  /\ p[f] \in Version /\ Stamped(p[f], clock)
           /\ p[f].key \in Key
           /\ p[f].created \in Nat /\ p[f].modified \in Nat /\ p[f].closed \in BOOLEAN
<1>1. f \in Features /\ p[f] \in history[f]
  BY ViewsLead
<1>2. p[f] \in Version /\ Stamped(p[f], clock)
  BY <1>1 DEF LifeInv, TypeOK, Stamped
<1> QED BY <1>2 DEF Version

LEMMA StampOK ==
    ASSUME NEW v \in Version, clock \in Nat, Stamped(v, clock), NEW closed \in BOOLEAN
    PROVE  LET w == Stamp(v, closed)
           IN  /\ w \in Version /\ w.key = v.key /\ w.created = v.created
               /\ Stamped(w, Now) /\ w.modified = Now
               /\ Legal(v, w)
<1> DEFINE w == Stamp(v, closed)
<1>1. /\ w \in Version /\ w.key = v.key /\ w.created = v.created
      /\ w.modified = Now /\ w.closed = closed
  <2>1. Now \in Nat
    BY DEF Now
  <2>2. w \in Version
    BY <2>1 DEF Stamp, Version
  <2>3. w.key = v.key /\ w.created = v.created /\ w.modified = Now
    BY <2>1 DEF Stamp, Version
  <2>4. w.closed = closed
    BY DEF Stamp, Version
  <2> QED BY <2>2, <2>3, <2>4
<1>2. v.created \in Nat /\ v.modified \in Nat /\ v.closed \in BOOLEAN
  BY DEF Version
<1>3. v.created < Now
  BY <1>2 DEF Stamped, Now
<1>4. Stamped(w, Now)
  BY <1>1, <1>2, <1>3 DEF Stamped, Now
<1>5. DeriveState(w) = IF closed THEN "closed" ELSE "in-progress"
  <2>1. w.created # w.modified
    BY <1>1, <1>2, <1>3 DEF Now
  <2>2. w.closed <=> closed
    BY <1>1, Zenon
  <2> HIDE DEF w
  <2> QED BY <2>1, <2>2 DEF DeriveState
<1>6. DeriveState(v) \in {"open", "in-progress", "closed"}
  BY DEF DeriveState
<1>7. Legal(v, w)
  BY <1>5, <1>6 DEF Legal, Rounds!Moves
<1> QED BY <1>1, <1>4, <1>7

LEMMA UncloseOK ==
    ASSUME NEW v \in Version, Stamped(v, clock)
    PROVE  LET w == Unclose(v)
           IN  /\ w \in Version /\ w.key = v.key /\ w.created = v.created
               /\ Stamped(w, clock)
               /\ Legal(v, w)
<1> DEFINE w == Unclose(v)
<1>1. /\ w \in Version /\ w.key = v.key /\ w.created = v.created
      /\ w.modified = v.modified /\ ~w.closed
  BY DEF Unclose, Version
<1>2. Stamped(w, clock)
  BY <1>1 DEF Stamped
<1>3. CASE v.closed
  <2>1. DeriveState(v) = "closed"
    BY <1>3 DEF DeriveState
  <2>2. v.created # v.modified
    BY <1>3 DEF Stamped, Version
  <2>3. DeriveState(w) = "in-progress"
    BY <1>1, <2>2 DEF DeriveState
  <2> QED BY <1>1, <1>2, <2>1, <2>3 DEF Legal, Rounds!Moves
<1>4. CASE ~v.closed
  BY <1>1, <1>2, <1>4 DEF Legal, DeriveState
<1> QED BY <1>3, <1>4

-----------------------------------------------------------------------------
(***************************************************************************)
(* What each command does to each feature.                                 *)
(***************************************************************************)
LEMMA StampingSteps ==
    ASSUME LifeInv, clock' = Now, NEW p \in Views, NEW S \in SUBSET Existing,
           NEW closed \in [S -> BOOLEAN],
           \A f \in Features :
              history'[f] = IF f \in S
                            THEN (history[f] \ {p[f]}) \cup {Stamp(p[f], closed[f])}
                            ELSE history[f]
    PROVE  \A f \in Features : FeatureStep(f)
<1> SUFFICES ASSUME NEW f \in Features
             PROVE  FeatureStep(f)
  OBVIOUS
<1>1. CASE f \notin S
  BY <1>1 DEF FeatureStep
<1>2. CASE f \in S
  <2> DEFINE w == Stamp(p[f], closed[f])
  <2>1. f \in Existing /\ history'[f] = (history[f] \ {p[f]}) \cup {w}
    BY <1>2
  <2>2. /\ p[f] \in Version /\ Stamped(p[f], clock)
        /\ closed[f] \in BOOLEAN /\ clock \in Nat
    BY <1>2, <2>1, ViewsStamped DEF LifeInv, TypeOK
  <2>3. /\ w \in Version /\ w.key = p[f].key /\ w.created = p[f].created
        /\ Stamped(w, clock')
        /\ Legal(p[f], w)
    BY <2>2, StampOK
  <2> HIDE DEF w
  <2> QED BY <2>1, <2>3, Restamping DEF Stamped
<1> QED BY <1>1, <1>2

LEMMA UpdateFieldsSteps ==
    ASSUME LifeInv, NEW g \in Features, NEW b, UpdateFields(g, b)
    PROVE  \A f \in Features : FeatureStep(f)
<1>1. PICK p \in Views : g \in Existing /\ Replace({g}, p, Touch)
  BY DEF UpdateFields
<1>2. \A f \in Existing : p[f].closed \in BOOLEAN
  BY ViewsStamped
<1> DEFINE closed == [f \in {g} |-> p[f].closed]
<1>3. closed \in [{g} -> BOOLEAN]
  BY <1>1, <1>2
<1>4. \A f \in Features :
         history'[f] = IF f \in {g}
                       THEN (history[f] \ {p[f]}) \cup {Stamp(p[f], closed[f])}
                       ELSE history[f]
  BY <1>1 DEF Replace, Touch
<1>5. clock' = Now
  BY DEF UpdateFields, Tick
<1>6. {g} \in SUBSET Existing
  BY <1>1
<1> HIDE DEF closed
<1> QED BY <1>3, <1>4, <1>5, <1>6, StampingSteps

LEMMA UpdateStateSteps ==
    ASSUME LifeInv, NEW g \in Features, NEW t, UpdateState(g, t)
    PROVE  \A f \in Features : FeatureStep(f)
<1>1. PICK p \in Views :
         g \in Existing /\ Replace({g}, p, LAMBDA v : Stamp(v, t = "closed"))
  BY DEF UpdateState
<1> DEFINE closed == [f \in {g} |-> t = "closed"]
<1>2. closed \in [{g} -> BOOLEAN]
  OBVIOUS
<1>3. \A f \in Features :
         history'[f] = IF f \in {g}
                       THEN (history[f] \ {p[f]}) \cup {Stamp(p[f], closed[f])}
                       ELSE history[f]
  BY <1>1 DEF Replace
<1>4. clock' = Now
  BY DEF UpdateState, Tick
<1>5. {g} \in SUBSET Existing
  BY <1>1
<1> HIDE DEF closed
<1> QED BY <1>2, <1>3, <1>4, <1>5, StampingSteps

LEMMA CommitSteps ==
    ASSUME LifeInv, NEW b, Commit(b)
    PROVE  \A f \in Features : FeatureStep(f)
<1>1. PICK p \in Views :
         \E S \in OnBranch(b, {f \in Existing : DeriveState(p[f]) = "open"}, p) :
            Replace(S, p, Touch)
  BY DEF Commit
<1>2. PICK S \in SUBSET Existing : Replace(S, p, Touch)
  BY <1>1 DEF OnBranch
<1>3. \A f \in Existing : p[f].closed \in BOOLEAN
  BY ViewsStamped
<1> DEFINE closed == [f \in S |-> p[f].closed]
<1>4. closed \in [S -> BOOLEAN]
  BY <1>3
<1>5. \A f \in Features :
         history'[f] = IF f \in S
                       THEN (history[f] \ {p[f]}) \cup {Stamp(p[f], closed[f])}
                       ELSE history[f]
  BY <1>2 DEF Replace, Touch
<1>6. clock' = Now
  BY DEF Commit, Tick
<1> HIDE DEF closed
<1> QED BY <1>4, <1>5, <1>6, StampingSteps

LEMMA MergeSteps ==
    ASSUME LifeInv, NEW b, NEW conflict, Merge(b, conflict)
    PROVE  /\ \A f \in Features : FeatureStep(f)
           /\ pending' \in SUBSET Existing
<1>1. PICK p \in Views :
         \E S \in OnBranch(b, {f \in Existing : DeriveState(p[f]) # "closed"}, p)
                  \cup {{f} : f \in Existing} :
            /\ Replace(S, p, Close)
            /\ pending' = IF conflict THEN S ELSE {}
  BY DEF Merge
<1>2. PICK S \in SUBSET Existing :
         /\ Replace(S, p, Close)
         /\ pending' = IF conflict THEN S ELSE {}
  BY <1>1 DEF OnBranch
<1> DEFINE closed == [f \in S |-> TRUE]
<1>3. closed \in [S -> BOOLEAN]
  OBVIOUS
<1>4. \A f \in Features :
         history'[f] = IF f \in S
                       THEN (history[f] \ {p[f]}) \cup {Stamp(p[f], closed[f])}
                       ELSE history[f]
  BY <1>2 DEF Replace, Close
<1>5. clock' = Now
  BY DEF Merge, Tick
<1> HIDE DEF closed
<1>6. \A f \in Features : FeatureStep(f)
  BY <1>3, <1>4, <1>5, StampingSteps
<1> QED BY <1>2, <1>6

LEMMA MergeAbortSteps ==
    ASSUME LifeInv, MergeAbort
    PROVE  \A f \in Features : FeatureStep(f)
<1>1. PICK p \in Views : Replace(pending, p, Unclose)
  BY DEF MergeAbort
<1> SUFFICES ASSUME NEW f \in Features
             PROVE  FeatureStep(f)
  OBVIOUS
<1>2. CASE f \notin pending
  BY <1>1, <1>2 DEF Replace, FeatureStep
<1>3. CASE f \in pending
  <2> DEFINE w == Unclose(p[f])
  <2>1. f \in Existing /\ history'[f] = (history[f] \ {p[f]}) \cup {w}
    BY <1>1, <1>3 DEF Replace, LifeInv, TypeOK, Existing
  <2>2. p[f] \in Version /\ Stamped(p[f], clock) /\ clock' = clock
    BY <2>1, ViewsStamped DEF MergeAbort
  <2>3. /\ w \in Version /\ w.key = p[f].key /\ w.created = p[f].created
        /\ Stamped(w, clock')
        /\ Legal(p[f], w)
    BY <2>2, UncloseOK
  <2> HIDE DEF w
  <2> QED BY <2>1, <2>3, Restamping DEF Stamped
<1> QED BY <1>2, <1>3

LEMMA CreateSteps ==
    ASSUME LifeInv, NEW g \in Features, NEW b, NEW parent \in BOOLEAN,
           Create(g, b, parent)
    PROVE  /\ \A f \in Features : FeatureStep(f)
           /\ clock' \in Nat /\ clock < clock'
<1>1. clock \in Nat /\ history \in [Features -> SUBSET Version]
  BY DEF LifeInv, TypeOK
<1> DEFINE w == [NewVersion(Simple(1)) EXCEPT !.modified = clock']
<1>2. clock' \in Nat /\ Now \in Nat /\ clock < clock' /\ Now <= clock'
  BY <1>1 DEF Create, Now
<1>3. Simple(1) \in Key
  BY DEF Simple, Key
<1>4. /\ w \in Version /\ w.key = Simple(1) /\ ~w.closed
      /\ w.created = Now /\ w.modified = clock'
  <2> DEFINE n == NewVersion(Simple(1))
  <2>1. /\ n \in Version /\ n.key = Simple(1) /\ ~n.closed
        /\ n.created = Now
    BY <1>2, <1>3 DEF NewVersion, Version
  <2> HIDE DEF n
  <2>2. w = [n EXCEPT !.modified = clock']
    BY DEF n
  <2> QED BY <1>2, <2>1, <2>2 DEF Version
<1>5. history' = [history EXCEPT ![g] = {w}] /\ history[g] = {}
  BY DEF Create
<1> HIDE DEF w
<1>6. /\ w \in Version /\ w.key = Simple(1) /\ ~w.closed
      /\ w.created <= w.modified /\ w.modified <= clock'
  BY <1>2, <1>4
<1>7. Begun(g)
  BY <1>1, <1>5, <1>6 DEF Begun
<1>8. \A f \in Features \ {g} : history'[f] = history[f]
  BY <1>1, <1>5
<1> QED BY <1>2, <1>7, <1>8 DEF FeatureStep

LEMMA ReopenSteps ==
    ASSUME LifeInv, LifecycleAssumption, Careful, NEW g \in Features, NEW k,
           Reopen(g, k)
    PROVE  \A f \in Features : FeatureStep(f)
<1>1. /\ history \in [Features -> SUBSET Version]
      /\ clock \in Nat /\ clock' = Now /\ clock < clock'
  BY DEF LifeInv, TypeOK, Reopen, Tick, Now
<1>2. PICK p \in Views :
         /\ g \in Existing
         /\ DeriveState(p[g]) = "closed"
         /\ k \in NewKeys(p[g].key)
         /\ history' = [history EXCEPT ![g] = {v \in @ : v.key # k} \cup {NewVersion(k)}]
  BY DEF Reopen
<1>3. Leads(history[g], p[g]) /\ p[g] \in history[g] /\ p[g].key \in Key /\ p[g].closed
  BY <1>2, ViewsLead, ViewsStamped DEF DeriveState
<1>4. Parsed(p[g].key) /\ Small(p[g].key)
  BY <1>3 DEF Leads
<1>5. /\ k \in Key /\ Parsed(k) /\ Small(k)
      /\ Precedes(p[g].key, k) /\ Rank(p[g].key) < Rank(k)
  <2>1. k \in Key /\ Parsed(k) /\ Precedes(p[g].key, k)
        /\ (p[g].key.form = "semantic" => k.form = "semantic")
    BY <1>2, <1>3, <1>4, NewKeysGoUp
  <2>2. Small(k)
    BY DEF Reopen
  <2> QED BY <1>3, <1>4, <2>1, <2>2, RankFollowsParts
<1>6. \A v \in history[g] : v.key # k
  <2>1. ASSUME NEW v \in history[g], v.key = k
        PROVE  FALSE
    <3>1. v = p[g] \/ Rank(v.key) < Rank(p[g].key)
      BY <1>3 DEF Leads
    <3>2. Rank(p[g].key) \in Nat /\ Rank(k) \in Nat
      BY <1>3, <1>5, RankType
    <3> QED BY <1>5, <2>1, <3>1, <3>2
  <2> QED BY <2>1
<1> DEFINE w == NewVersion(k)
<1>7. /\ w \in Version /\ w.key = k /\ ~w.closed
      /\ w.created = clock' /\ w.modified = clock'
  BY <1>1, <1>5 DEF NewVersion, Version, Now
<1>8. history' = [history EXCEPT ![g] = @ \cup {w}]
  BY <1>2, <1>6
<1> HIDE DEF w
<1>9. Reopened(g)
  BY <1>1, <1>3, <1>5, <1>7, <1>8 DEF Reopened
<1>10. \A f \in Features \ {g} : history'[f] = history[f]
  BY <1>1, <1>8
<1> QED BY <1>9, <1>10 DEF FeatureStep

AllSteps ==
    /\ \A f \in Features : FeatureStep(f)
    /\ history' = [f \in Features |-> history'[f]]
    /\ home' \in [Features -> Branches \cup {NoBranch}]
    /\ pending' \in SUBSET Existing
    /\ clock' \in Nat /\ clock <= clock'

LEMMA NextSteps ==
    ASSUME LifeInv, LifecycleAssumption, Careful, [Next]_vars
    PROVE  AllSteps
<1> USE DEF AllSteps
<1>1. /\ history \in [Features -> SUBSET Version]
      /\ home \in [Features -> Branches \cup {NoBranch}]
      /\ pending \in SUBSET Existing
      /\ clock \in Nat /\ Now \in Nat /\ clock <= Now
  BY DEF LifeInv, TypeOK, Existing, Now
<1>2. ASSUME NEW g \in Features, NEW b \in Branches \cup {NoBranch},
             NEW parent \in BOOLEAN, Create(g, b, parent)
      PROVE  AllSteps
  <2>1. /\ history' = [f \in Features |-> history'[f]]
        /\ home' \in [Features -> Branches \cup {NoBranch}]
        /\ pending' \in SUBSET Existing
    BY <1>1, <1>2 DEF Create
  <2> QED BY <1>1, <1>2, <2>1, CreateSteps
<1>3. ASSUME NEW g \in Features, NEW b \in Branches \cup {NoBranch}, UpdateFields(g, b)
      PROVE  AllSteps
  <2>1. /\ history' = [f \in Features |-> history'[f]]
        /\ home' \in [Features -> Branches \cup {NoBranch}]
        /\ pending' = pending /\ clock' = Now
    BY <1>1, <1>3 DEF UpdateFields, Replace, Tick
  <2> QED BY <1>1, <1>3, <2>1, UpdateFieldsSteps
<1>4. ASSUME NEW g \in Features, NEW t, UpdateState(g, t)
      PROVE  AllSteps
  <2>1. /\ history' = [f \in Features |-> history'[f]]
        /\ home' = home /\ pending' = pending /\ clock' = Now
    BY <1>1, <1>4 DEF UpdateState, Replace, Tick
  <2> QED BY <1>1, <1>4, <2>1, UpdateStateSteps
<1>5. ASSUME NEW g \in Features, NEW k, Reopen(g, k)
      PROVE  AllSteps
  <2>1. /\ history' = [f \in Features |-> history'[f]]
        /\ home' = home /\ pending' = pending /\ clock' = Now
    BY <1>1, <1>5 DEF Reopen, Tick
  <2> QED BY <1>1, <1>5, <2>1, ReopenSteps
<1>6. ASSUME NEW b \in Branches, Commit(b)
      PROVE  AllSteps
  <2>1. /\ history' = [f \in Features |-> history'[f]]
        /\ home' = home /\ pending' = pending /\ clock' = Now
    BY <1>1, <1>6 DEF Commit, Replace, Tick
  <2> QED BY <1>1, <1>6, <2>1, CommitSteps
<1>7. ASSUME NEW b \in Branches, NEW conflict \in BOOLEAN, Merge(b, conflict)
      PROVE  AllSteps
  <2>1. /\ history' = [f \in Features |-> history'[f]]
        /\ home' = home /\ clock' = Now
    BY <1>1, <1>7 DEF Merge, Replace, Tick
  <2> QED BY <1>1, <1>7, <2>1, MergeSteps
<1>8. ASSUME MergeContinue
      PROVE  AllSteps
  BY <1>1, <1>8 DEF MergeContinue, FeatureStep
<1>9. ASSUME MergeAbort
      PROVE  AllSteps
  <2>1. /\ history' = [f \in Features |-> history'[f]]
        /\ home' = home /\ pending' = {} /\ clock' = clock
    BY <1>1, <1>9 DEF MergeAbort, Replace
  <2> QED BY <1>1, <1>9, <2>1, MergeAbortSteps
<1>10. ASSUME UNCHANGED vars
       PROVE  AllSteps
  BY <1>1, <1>10 DEF vars, FeatureStep
<1> QED BY <1>2, <1>3, <1>4, <1>5, <1>6, <1>7, <1>8, <1>9, <1>10 DEF Next

LEMMA StepKeeps ==
    ASSUME LifeInv, NEW f \in Features, FeatureStep(f), clock' \in Nat, clock <= clock'
    PROVE  /\ history'[f] \in SUBSET Version
           /\ \A v \in history'[f] : Stamped(v, clock')
           /\ IsFiniteSet(history'[f])
           /\ history'[f] # {} => \E v \in history'[f] : Leads(history'[f], v)
           /\ history[f] # {} => history'[f] # {}
<1>1. /\ history[f] \in SUBSET Version
      /\ clock \in Nat
      /\ IsFiniteSet(history[f])
      /\ history[f] # {} => \E v \in history[f] : Leads(history[f], v)
  BY DEF LifeInv, TypeOK
<1>2. \A v \in history[f] : Stamped(v, clock')
  <2>1. \A v \in history[f] : Stamped(v, clock) /\ v.modified \in Nat
    BY DEF LifeInv, TypeOK, Stamped, Version
  <2> QED BY <1>1, <2>1 DEF Stamped
<1>3. CASE history'[f] = history[f]
  BY <1>1, <1>2, <1>3
<1>4. CASE Begun(f)
  <2>1. PICK w \in Version :
           /\ w.key = Simple(1) /\ ~w.closed
           /\ w.created <= w.modified /\ w.modified <= clock'
           /\ history'[f] = {w}
    BY <1>4 DEF Begun
  <2>2. Leads({w}, w)
    BY <2>1 DEF Leads, Simple, Parsed, Small, Weight
  <2>3. IsFiniteSet({w})
    BY FS_Singleton
  <2> QED BY <1>4, <2>1, <2>2, <2>3 DEF Begun, Stamped
<1>5. CASE Reopened(f)
  <2>1. PICK u \in history[f], w \in Version :
           /\ Leads(history[f], u) /\ u.closed
           /\ Parsed(w.key) /\ Small(w.key)
           /\ Precedes(u.key, w.key) /\ Rank(u.key) < Rank(w.key)
           /\ w.created = clock' /\ w.modified = clock' /\ ~w.closed
           /\ clock < clock'
           /\ history'[f] = history[f] \cup {w}
    BY <1>5 DEF Reopened
  <2>2. \A v \in history[f] : Rank(v.key) \in Nat /\ v.created \in Nat /\ v.created <= clock
    <3>1. \A v \in history[f] : v \in Version /\ Stamped(v, clock)
      BY DEF LifeInv, TypeOK, Stamped
    <3> QED BY <1>1, <3>1, RankType DEF Version, Stamped
  <2>3. Rank(w.key) \in Nat
    BY RankType DEF Version
  <2>4. \A v \in history[f] : v.closed /\ Rank(v.key) < Rank(w.key) /\ v.created < w.created
    BY <1>1, <2>1, <2>2, <2>3 DEF Leads
  <2>5. Leads(history'[f], w)
    BY <2>1, <2>4 DEF Leads
  <2>6. IsFiniteSet(history'[f])
    BY <1>1, <2>1, FS_AddElement
  <2>7. Stamped(w, clock')
    BY <2>1 DEF Stamped
  <2> QED BY <1>1, <1>2, <2>1, <2>5, <2>6, <2>7
<1>6. CASE Restamped(f)
  <2>1. PICK u \in history[f], w \in Version :
           /\ Leads(history[f], u)
           /\ w.key = u.key /\ w.created = u.created
           /\ w.created <= w.modified /\ w.modified <= clock'
           /\ w.closed => w.created < w.modified
           /\ history'[f] = (history[f] \ {u}) \cup {w}
    BY <1>6 DEF Restamped
  <2>2. Leads(history'[f], w)
    BY <2>1 DEF Leads
  <2>3. IsFiniteSet(history'[f])
    <3>1. IsFiniteSet(history[f] \ {u})
      BY <1>1, FS_RemoveElement
    <3> QED BY <2>1, <3>1, FS_AddElement
  <2>4. Stamped(w, clock')
    BY <2>1 DEF Stamped
  <2> QED BY <1>1, <1>2, <2>1, <2>2, <2>3, <2>4
<1> QED BY <1>3, <1>4, <1>5, <1>6 DEF FeatureStep

-----------------------------------------------------------------------------
(***************************************************************************)
(* The theorems.                                                           *)
(***************************************************************************)
LEMMA LifeInvInductive ==
    ASSUME LifecycleAssumption, Careful
    PROVE  /\ Init => LifeInv
           /\ LifeInv /\ [Next]_vars => LifeInv'
<1>1. ASSUME Init
      PROVE  LifeInv
  BY <1>1, FS_EmptySet DEF Init, LifeInv, TypeOK
<1>2. ASSUME LifeInv, [Next]_vars
      PROVE  LifeInv'
  <2>1. AllSteps
    BY <1>2, NextSteps
  <2>2. \A f \in Features :
           /\ history'[f] \in SUBSET Version
           /\ \A v \in history'[f] : Stamped(v, clock')
           /\ IsFiniteSet(history'[f])
           /\ history'[f] # {} => \E v \in history'[f] : Leads(history'[f], v)
           /\ history[f] # {} => history'[f] # {}
    BY <1>2, <2>1, StepKeeps DEF AllSteps
  <2>3. history' \in [Features -> SUBSET Version]
    BY <2>1, <2>2 DEF AllSteps
  <2>4. pending' \in SUBSET Features /\ \A f \in pending' : history'[f] # {}
    BY <2>1, <2>2 DEF AllSteps, Existing
  <2>5. TypeOK'
    BY <2>1, <2>2, <2>3, <2>4 DEF AllSteps, TypeOK, Stamped
  <2> QED BY <2>2, <2>5 DEF LifeInv
<1> QED BY <1>1, <1>2

LEMMA LeaderIsNewest ==
    ASSUME LifeInv
    PROVE  CurrentIsNewest
<1> SUFFICES ASSUME NEW f \in Features, history[f] # {}
             PROVE  \E v \in history[f] :
                       /\ \A w \in history[f] : Current(f, w) => w = v
                       /\ \A w \in history[f] \ {v} : w.closed /\ w.created < v.created
  BY DEF CurrentIsNewest
<1>1. PICK v \in history[f] : Leads(history[f], v)
  BY DEF LifeInv
<1> QED BY <1>1, LeaderIsCurrent DEF Leads

\* Whatever commands are given, in whichever formats: timestamps stay in order,
\* and the version every command finds by its key is the one begun last, and the
\* only one that may be unfinished.
THEOREM NewestAlways ==
    ASSUME Careful
    PROVE  Spec => [](TypeOK /\ CurrentIsNewest)
<1>1. Init => LifeInv
  BY LifecycleAssumption, LifeInvInductive
<1>2. LifeInv /\ [Next]_vars => LifeInv'
  BY LifecycleAssumption, LifeInvInductive
<1>3. LifeInv => TypeOK /\ CurrentIsNewest
  BY LeaderIsNewest DEF LifeInv
<1> QED BY <1>1, <1>2, <1>3, PTL DEF Spec

\* No command changes what is on record of a version that has been superseded.
THEOREM SupersededFrozenAlways ==
    ASSUME Careful
    PROVE  Spec => SupersededFrozen
<1>1. ASSUME LifeInv, [Next]_vars, NEW f \in Features, NEW v \in history[f],
             NEW w \in history[f], v.created < w.created
      PROVE  v \in history'[f]
  <2>1. FeatureStep(f)
    BY <1>1, LifecycleAssumption, NextSteps DEF AllSteps
  <2>2. ~Leads(history[f], v)
    <3>1. v.created \in Nat /\ w.created \in Nat
      BY <1>1 DEF LifeInv, TypeOK, Version
    <3> QED BY <1>1, <3>1 DEF Leads
  <2> QED BY <2>1, <2>2 DEF FeatureStep, Begun, Reopened, Restamped
<1>2. LifeInv /\ [Next]_vars =>
         [\A f \in Features : \A v \in history[f] :
             (\E w \in history[f] : v.created < w.created) => v \in history'[f]]_vars
  BY <1>1
<1>3. Init => LifeInv
  BY LifecycleAssumption, LifeInvInductive
<1>4. LifeInv /\ [Next]_vars => LifeInv'
  BY LifecycleAssumption, LifeInvInductive
<1> QED BY <1>2, <1>3, <1>4, PTL DEF Spec, SupersededFrozen

\* The same of the feature's versions after a step.
LEMMA LeaderIsCurrentNext ==
    ASSUME LifeInv, NEW f \in Features, FeatureStep(f), clock' \in Nat, clock <= clock',
           NEW v, Leads(history'[f], v)
    PROVE  \A u : Current(f, u)' <=> u = v
<1>1. \A w \in history'[f] : w.key \in Key /\ Rank(w.key) \in Nat
  <2>1. history'[f] \subseteq Version
    BY StepKeeps
  <2>2. \A w \in Version : w.key \in Key
    BY DEF Version
  <2> QED BY <2>1, <2>2, RankType
<1>2. Current(f, v)'
  BY <1>1 DEF Leads, Current
<1>3. ASSUME NEW u, Current(f, u)', u # v
      PROVE  FALSE
  BY <1>1, <1>3 DEF Leads, Current
<1> QED BY <1>2, <1>3

\* Which version leads before and after a step that reopens or restamps.
LEMMA LeaderAfter ==
    ASSUME LifeInv, NEW f \in Features, FeatureStep(f), clock' \in Nat, clock <= clock',
           NEW u \in history[f], Leads(history[f], u)
    PROVE  \E w \in history'[f] :
              /\ Leads(history'[f], w)
              /\ w.key = u.key \/ Precedes(u.key, w.key)
<1>1. PICK w \in history'[f] : Leads(history'[f], w)
  BY StepKeeps
<1>2. \A x : Leads(history[f], x) => x = u
  BY LeaderIsCurrent
<1>3. \A x : Leads(history'[f], x) => x = w
  BY <1>1, LeaderIsCurrentNext
<1>4. CASE history'[f] = history[f]
  BY <1>1, <1>2, <1>4
<1>5. CASE Begun(f)
  BY <1>5 DEF Begun
<1>6. CASE Reopened(f)
  <2>1. PICK x \in Version :
           /\ Precedes(u.key, x.key) /\ Rank(u.key) < Rank(x.key)
           /\ history'[f] = history[f] \cup {x}
    BY <1>2, <1>6 DEF Reopened
  <2>2. x = w
    <3>1. Rank(u.key) \in Nat /\ Rank(x.key) \in Nat /\ Rank(w.key) \in Nat
      <4>1. u \in Version /\ w \in Version
        BY <1>1, StepKeeps DEF LifeInv, TypeOK
      <4> QED BY <4>1, RankType DEF Version
    <3>2. CASE w \in history[f] /\ w # x
      <4>1. Rank(w.key) <= Rank(u.key)
        BY <3>1, <3>2 DEF Leads
      <4>2. Rank(x.key) < Rank(w.key)
        BY <1>1, <2>1, <3>2 DEF Leads
      <4> QED BY <2>1, <3>1, <4>1, <4>2
    <3> QED BY <1>1, <2>1, <3>2
  <2> QED BY <1>1, <2>1, <2>2
<1>7. CASE Restamped(f)
  <2>1. PICK x \in Version :
           /\ x.key = u.key /\ x.created = u.created
           /\ history'[f] = (history[f] \ {u}) \cup {x}
    BY <1>2, <1>7 DEF Restamped
  <2>2. Leads(history'[f], x)
    BY <2>1 DEF Leads
  <2> QED BY <1>1, <1>3, <2>1, <2>2
<1> QED BY <1>4, <1>5, <1>6, <1>7 DEF FeatureStep

\* A feature that meets a lower bound on its version never falls below it again.
THEOREM DemandsKeptAlways ==
    ASSUME Careful
    PROVE  Spec => DemandsKept
<1>1. ASSUME LifeInv, [Next]_vars, NEW f \in Features, NEW c \in Demands,
             NEW u \in history[f], Current(f, u), IsSatisfiedBy(c, u.key),
             NEW x \in history'[f], Current(f, x)'
      PROVE  IsSatisfiedBy(c, x.key)
  <2>1. FeatureStep(f) /\ clock' \in Nat /\ clock <= clock'
    BY <1>1, LifecycleAssumption, NextSteps DEF AllSteps
  <2>2. Leads(history[f], u)
    BY <1>1, LeaderIsCurrent DEF LifeInv
  <2>3. PICK w \in history'[f] :
           /\ Leads(history'[f], w)
           /\ w.key = u.key \/ Precedes(u.key, w.key)
    BY <1>1, <2>1, <2>2, LeaderAfter
  <2>4. x = w
    BY <1>1, <2>1, <2>3, LeaderIsCurrentNext
  <2>5. u.key \in Key /\ w.key \in Key
    BY <1>1, <2>1, StepKeeps DEF LifeInv, TypeOK, Version
  <2>6. c \in Constraint /\ c.operator \in {">", ">="}
    BY <1>1, LifecycleAssumption DEF LifecycleAssumption
  <2> QED BY <1>1, <2>3, <2>4, <2>5, <2>6, DemandsMonotone
<1>2. LifeInv /\ [Next]_vars =>
         [\A f \in Features, c \in Demands :
             (\E v \in history[f] : Current(f, v) /\ IsSatisfiedBy(c, v.key)) =>
                 \A v \in history'[f] : Current(f, v)' => IsSatisfiedBy(c, v.key)]_vars
  BY <1>1
<1>3. Init => LifeInv
  BY LifecycleAssumption, LifeInvInductive
<1>4. LifeInv /\ [Next]_vars => LifeInv'
  BY LifecycleAssumption, LifeInvInductive
<1> QED BY <1>2, <1>3, <1>4, PTL DEF Spec, DemandsKept
-----------------------------------------------------------------------------
(***************************************************************************)
(* The refinement.  A round is a version; the state is the leader's.       *)
(***************************************************************************)
LEMMA LeaderState ==
    ASSUME LifeInv, NEW f \in Features, NEW v, Leads(history[f], v)
    PROVE  CurrentState(f) = DeriveState(v)
<1>1. v \in history[f] /\ \A u : Current(f, u) <=> u = v
  BY LeaderIsCurrent DEF Leads
<1>2. (CHOOSE u \in history[f] : Current(f, u)) = v
  BY <1>1
<1> QED BY <1>1, <1>2 DEF CurrentState

LEMMA LeaderStateNext ==
    ASSUME LifeInv, NEW f \in Features, FeatureStep(f), clock' \in Nat, clock <= clock',
           NEW v, Leads(history'[f], v)
    PROVE  CurrentState(f)' = DeriveState(v)
<1>1. v \in history'[f] /\ \A u : Current(f, u)' <=> u = v
  BY LeaderIsCurrentNext DEF Leads
<1>2. (CHOOSE u \in history'[f] : Current(f, u)') = v
  BY <1>1
<1> QED BY <1>1, <1>2 DEF CurrentState

LEMMA RoundStep ==
    ASSUME LifeInv, NEW f \in Features, FeatureStep(f), clock' \in Nat, clock <= clock'
    PROVE  \/ /\ Cardinality(history[f]) = 0
              /\ Cardinality(history'[f]) = 1
              /\ CurrentState(f)' \in {"open", "in-progress"}
           \/ /\ CurrentState(f) = "closed"
              /\ Cardinality(history'[f]) = Cardinality(history[f]) + 1
              /\ CurrentState(f)' = "open"
           \/ /\ Cardinality(history'[f]) = Cardinality(history[f])
              /\ <<CurrentState(f), CurrentState(f)'>> \in Rounds!Moves
           \/ /\ Cardinality(history'[f]) = Cardinality(history[f])
              /\ CurrentState(f)' = CurrentState(f)
<1>1. IsFiniteSet(history[f]) /\ Cardinality(history[f]) \in Nat
  BY FS_CardinalityType DEF LifeInv
<1>2. CASE history'[f] = history[f]
  <2>1. CASE history[f] = {}
    BY <1>2, <2>1 DEF CurrentState
  <2>2. CASE history[f] # {}
    <3>1. PICK v \in history[f] : Leads(history[f], v)
      BY <2>2 DEF LifeInv
    <3>2. CurrentState(f) = DeriveState(v)
      BY <3>1, LeaderState
    <3>3. CurrentState(f)' = DeriveState(v)
      BY <1>2, <3>1, LeaderStateNext
    <3> QED BY <1>2, <3>2, <3>3
  <2> QED BY <2>1, <2>2
<1>3. CASE Begun(f)
  <2>1. PICK w \in Version :
           w.key = Simple(1) /\ ~w.closed /\ history'[f] = {w}
    BY <1>3 DEF Begun
  <2>2. Cardinality(history[f]) = 0 /\ Cardinality(history'[f]) = 1
    BY <1>3, <2>1, FS_EmptySet, FS_Singleton DEF Begun
  <2>3. Leads(history'[f], w)
    BY <2>1 DEF Leads, Simple, Parsed, Small, Weight
  <2>4. CurrentState(f)' = DeriveState(w)
    BY <2>3, LeaderStateNext
  <2> QED BY <2>1, <2>2, <2>4 DEF DeriveState
<1>4. CASE Reopened(f)
  <2>1. PICK u \in history[f], w \in Version :
           /\ Leads(history[f], u) /\ u.closed
           /\ Rank(u.key) < Rank(w.key)
           /\ w.created = clock' /\ w.modified = clock' /\ ~w.closed
           /\ clock < clock'
           /\ history'[f] = history[f] \cup {w}
    BY <1>4 DEF Reopened
  <2>2. \A v \in history[f] : v.created \in Nat /\ v.created <= clock
    <3>1. \A v \in history[f] : v \in Version /\ Stamped(v, clock)
      BY DEF LifeInv, TypeOK, Stamped
    <3> QED BY <3>1 DEF Version, Stamped, LifeInv, TypeOK
  <2>3. clock \in Nat /\ w \notin history[f]
    BY <2>1, <2>2 DEF LifeInv, TypeOK
  <2>4. Cardinality(history'[f]) = Cardinality(history[f]) + 1
    BY <1>1, <2>1, <2>3, FS_AddElement
  <2>5. CurrentState(f) = "closed"
    BY <2>1, LeaderState DEF DeriveState
  <2>6. PICK x \in history'[f] : Leads(history'[f], x)
    BY <2>1, StepKeeps
  <2>7. x = w
    <3>1. \A v \in history'[f] : v \in Version /\ Rank(v.key) \in Nat
      <4>1. history'[f] \subseteq Version
        BY StepKeeps
      <4> QED BY <4>1, RankType DEF Version
    <3>2. x # w => Rank(w.key) < Rank(x.key)
      BY <2>1, <2>6 DEF Leads
    <3>3. x # w => Rank(x.key) <= Rank(u.key)
      BY <2>1, <2>6, <3>1 DEF Leads
    <3> QED BY <2>1, <2>6, <3>1, <3>2, <3>3
  <2>8. CurrentState(f)' = "open"
    BY <2>1, <2>6, <2>7, LeaderStateNext DEF DeriveState
  <2> QED BY <2>4, <2>5, <2>8
<1>5. CASE Restamped(f)
  <2>1. PICK u \in history[f], w \in Version :
           /\ Leads(history[f], u)
           /\ w.key = u.key /\ w.created = u.created
           /\ Legal(u, w)
           /\ history'[f] = (history[f] \ {u}) \cup {w}
    BY <1>5 DEF Restamped
  <2>2. w \notin history[f] \ {u}
    <3>1. Rank(u.key) \in Nat
      BY <2>1, RankType DEF LifeInv, TypeOK, Version
    <3> QED BY <2>1, <3>1 DEF Leads
  <2>3. Cardinality(history'[f]) = Cardinality(history[f])
    <3>1. IsFiniteSet(history[f] \ {u})
          /\ Cardinality(history[f] \ {u}) = Cardinality(history[f]) - 1
      BY <1>1, FS_RemoveElement
    <3>2. Cardinality(history'[f]) = Cardinality(history[f] \ {u}) + 1
      BY <2>1, <2>2, <3>1, FS_AddElement
    <3> QED BY <1>1, <3>1, <3>2
  <2>4. Leads(history'[f], w)
    BY <2>1 DEF Leads
  <2>5. CurrentState(f) = DeriveState(u) /\ CurrentState(f)' = DeriveState(w)
    BY <2>1, <2>4, LeaderState, LeaderStateNext
  <2> QED BY <2>1, <2>3, <2>5 DEF Legal
<1> QED BY <1>2, <1>3, <1>4, <1>5 DEF FeatureStep

\* States derived from the timestamps of versions found by their keys go through
\* the rounds that FeatureRounds promises.
THEOREM RoundsAlways ==
    ASSUME Careful
    PROVE  Spec => ImplementsRounds
<1>1. Init => LifeInv
  BY LifecycleAssumption, LifeInvInductive
<1>2. LifeInv /\ [Next]_vars => LifeInv'
  BY LifecycleAssumption, LifeInvInductive
<1>3. Init => Rounds!Init
  BY FS_EmptySet DEF Init, Rounds!Init, CurrentState
<1>4. LifeInv /\ [Next]_vars => Rounds!Next
  <2> SUFFICES ASSUME LifeInv, [Next]_vars, NEW f \in Features
               PROVE  Rounds!Begin(f) \/ Rounds!Reopen(f) \/ Rounds!Move(f) \/ Rounds!Rest(f)
    BY DEF Rounds!Next
  <2>1. FeatureStep(f) /\ clock' \in Nat /\ clock <= clock'
    BY LifecycleAssumption, NextSteps DEF AllSteps
  <2> DEFINE r  == Cardinality(history[f])
             r1 == Cardinality(history'[f])
             s  == CurrentState(f)
             s1 == CurrentState(f)'
  <2>2. CASE r = 0 /\ r1 = 1 /\ s1 \in {"open", "in-progress"}
    BY <2>2 DEF Rounds!Begin
  <2>3. CASE s = "closed" /\ r1 = r + 1 /\ s1 = "open"
    BY <2>3 DEF Rounds!Reopen
  <2>4. CASE r1 = r /\ <<s, s1>> \in Rounds!Moves
    BY <2>4 DEF Rounds!Move
  <2>5. CASE r1 = r /\ s1 = s
    BY <2>5 DEF Rounds!Rest
  <2> QED BY <2>1, <2>2, <2>3, <2>4, <2>5, RoundStep
<1>5. LifeInv /\ [Next]_vars =>
         [Rounds!Next]_<<[f \in Features |-> Cardinality(history[f])],
                         [f \in Features |-> CurrentState(f)]>>
  BY <1>4
<1> QED BY <1>1, <1>2, <1>3, <1>5, PTL DEF Spec, ImplementsRounds, Rounds!Spec

-----------------------------------------------------------------------------
(***************************************************************************)
(* Types, which need no careful user.                                      *)
(***************************************************************************)
\* Every feature has versions stamped by time t, and those that had some have
\* some still.
Kept(h, t) ==
    /\ h \in [Features -> SUBSET Version]
    /\ \A f \in Features : \A v \in h[f] : Stamped(v, t)
    /\ \A f \in Existing : h[f] # {}

LEMMA TypeOKFromKept ==
    ASSUME Kept(history', clock'), home' \in [Features -> Branches \cup {NoBranch}],
           clock' \in Nat, pending' \in SUBSET Existing
    PROVE  TypeOK'
BY DEF Kept, TypeOK, Stamped, Existing

LEMMA KeptLonger ==
    ASSUME TypeOK, NEW t \in Nat, clock <= t
    PROVE  Kept(history, t)
<1>1. \A f \in Features : \A v \in history[f] : v.modified \in Nat /\ clock \in Nat
  BY DEF TypeOK, Version
<1> QED BY <1>1 DEF TypeOK, Kept, Stamped, Existing

\* The version a command finds is one that is on record.
LEMMA FoundTyped ==
    ASSUME TypeOK, NEW p \in Views, NEW f \in Existing
    PROVE  /\ f \in Features /\ p[f] \in history[f] /\ Current(f, p[f])
           /\ p[f] \in Version /\ Stamped(p[f], clock)
           /\ p[f].key \in Key /\ p[f].closed \in BOOLEAN
<1>1. f \in Features /\ Current(f, p[f])
  BY DEF Views, Existing
<1>2. p[f] \in history[f]
  BY <1>1 DEF Current
<1>3. p[f] \in Version /\ Stamped(p[f], clock)
  BY <1>1, <1>2 DEF TypeOK, Stamped
<1> QED BY <1>1, <1>2, <1>3 DEF Version

LEMMA ReplacedKept ==
    ASSUME TypeOK, NEW t \in Nat, clock <= t, NEW p \in Views, NEW S \in SUBSET Existing,
           NEW w \in [S -> Version], \A f \in S : Stamped(w[f], t),
           NEW h, h = [f \in Features |-> IF f \in S THEN (history[f] \ {p[f]}) \cup {w[f]}
                                                     ELSE history[f]]
    PROVE  Kept(h, t)
<1>1. Kept(history, t)
  BY KeptLonger
<1>2. \A f \in Features : history[f] \in SUBSET Version
  BY DEF TypeOK
<1>3. h \in [Features -> SUBSET Version]
  BY <1>2
<1> QED BY <1>1, <1>3 DEF Kept, Existing

\* The features of S are stamped and closed, or not, as a command says.
LEMMA StampingKept ==
    ASSUME TypeOK, clock' = Now, NEW p \in Views, NEW S \in SUBSET Existing,
           NEW closed \in [S -> BOOLEAN],
           history' = [f \in Features |->
                         IF f \in S THEN (history[f] \ {p[f]}) \cup {Stamp(p[f], closed[f])}
                                    ELSE history[f]]
    PROVE  Kept(history', clock')
<1> DEFINE w == [f \in S |-> Stamp(p[f], closed[f])]
<1>1. Now \in Nat /\ clock \in Nat /\ clock <= Now
  BY DEF TypeOK, Now
<1>2. \A f \in S : w[f] \in Version /\ Stamped(w[f], Now)
  BY <1>1, FoundTyped, StampOK
<1>3. w \in [S -> Version]
  BY <1>2
<1>4. history' = [f \in Features |-> IF f \in S THEN (history[f] \ {p[f]}) \cup {w[f]}
                                                ELSE history[f]]
  OBVIOUS
<1> HIDE DEF w
<1> QED BY <1>1, <1>2, <1>3, <1>4, ReplacedKept

LEMMA StepTypes ==
    ASSUME LifecycleAssumption, TypeOK, [Next]_vars
    PROVE  TypeOK'
<1>1. /\ history \in [Features -> SUBSET Version]
      /\ home \in [Features -> Branches \cup {NoBranch}]
      /\ clock \in Nat /\ Now \in Nat /\ pending \in SUBSET Existing
  BY DEF TypeOK, Now, Existing
<1>2. CASE UNCHANGED vars
  BY <1>2 DEF vars, TypeOK
<1>3. ASSUME NEW g \in Features, NEW b \in Branches \cup {NoBranch}, NEW parent \in BOOLEAN,
             Create(g, b, parent)
      PROVE  TypeOK'
  <2> DEFINE w == [NewVersion(Simple(1)) EXCEPT !.modified = clock']
  <2>1. clock' \in {clock + 1, clock + 2} /\ history' = [history EXCEPT ![g] = {w}]
    BY <1>3 DEF Create
  <2>2. clock' \in Nat /\ clock <= clock' /\ Now <= clock'
    BY <1>1, <2>1 DEF Now
  <2>3. w \in Version /\ Stamped(w, clock')
    <3> DEFINE n == NewVersion(Simple(1))
    <3>1. Simple(1) \in Key
      BY DEF Simple, Key
    <3>2. n \in Version /\ n.created = Now /\ ~n.closed
      BY <1>1, <3>1 DEF NewVersion, Version
    <3> HIDE DEF n
    <3>3. w = [n EXCEPT !.modified = clock']
      BY DEF n
    <3>4. w \in Version /\ w.created = Now /\ w.modified = clock' /\ ~w.closed
      BY <2>2, <3>2, <3>3 DEF Version
    <3> QED BY <1>1, <2>2, <3>4 DEF Stamped
  <2> HIDE DEF w
  <2>4. Kept(history', clock')
    BY <1>1, <2>1, <2>2, <2>3, KeptLonger DEF Kept
  <2>5. home' \in [Features -> Branches \cup {NoBranch}] /\ pending' \in SUBSET Existing
    BY <1>1, <1>3 DEF Create
  <2> QED BY <2>2, <2>4, <2>5, TypeOKFromKept
<1>4. ASSUME NEW g \in Features, NEW b \in Branches \cup {NoBranch}, UpdateFields(g, b)
      PROVE  TypeOK'
  <2>1. PICK p \in Views : g \in Existing /\ Replace({g}, p, Touch)
    BY <1>4 DEF UpdateFields
  <2> DEFINE closed == [f \in {g} |-> p[f].closed]
  <2>2. closed \in [{g} -> BOOLEAN]
    BY <2>1, FoundTyped
  <2>3. history' = [f \in Features |->
                      IF f \in {g} THEN (history[f] \ {p[f]}) \cup {Stamp(p[f], closed[f])}
                                   ELSE history[f]]
    BY <2>1 DEF Replace, Touch
  <2>4. clock' = Now /\ home' \in [Features -> Branches \cup {NoBranch}] /\ pending' = pending
    BY <1>1, <1>4 DEF UpdateFields, Tick
  <2> HIDE DEF closed
  <2>5. Kept(history', clock')
    BY <2>1, <2>2, <2>3, <2>4, StampingKept
  <2> QED BY <1>1, <2>4, <2>5, TypeOKFromKept
<1>5. ASSUME NEW g \in Features, NEW t, UpdateState(g, t)
      PROVE  TypeOK'
  <2>1. PICK p \in Views :
           g \in Existing /\ Replace({g}, p, LAMBDA v : Stamp(v, t = "closed"))
    BY <1>5 DEF UpdateState
  <2> DEFINE closed == [f \in {g} |-> t = "closed"]
  <2>2. closed \in [{g} -> BOOLEAN]
    OBVIOUS
  <2>3. history' = [f \in Features |->
                      IF f \in {g} THEN (history[f] \ {p[f]}) \cup {Stamp(p[f], closed[f])}
                                   ELSE history[f]]
    BY <2>1 DEF Replace
  <2>4. clock' = Now /\ home' = home /\ pending' = pending
    BY <1>5 DEF UpdateState, Tick
  <2> HIDE DEF closed
  <2>5. Kept(history', clock')
    BY <2>1, <2>2, <2>3, <2>4, StampingKept
  <2> QED BY <1>1, <2>4, <2>5, TypeOKFromKept
<1>6. ASSUME NEW g \in Features, NEW v \in history[g], NEW k \in NewKeys(v.key), Reopen(g, k)
      PROVE  TypeOK'
  <2>1. clock' = Now /\ home' = home /\ pending' = pending
    BY <1>6 DEF Reopen, Tick
  <2>2. history' = [history EXCEPT ![g] = {x \in @ : x.key # k} \cup {NewVersion(k)}]
    BY <1>6 DEF Reopen
  <2>3. k \in Key
    <3>1. v.key \in Key
      BY <1>1, <1>6 DEF Version
    <3>2. CASE k \in NextKeys(v.key)
      <4>1. PICK format \in Formats, inc \in Increments :
                CanIncrement(v.key, format) /\ k = IncrementVersion(v.key, format, inc)
        BY <3>2 DEF NextKeys
      <4>2. Parsed(v.key)
        BY <4>1 DEF CanIncrement
      <4> QED BY <3>1, <4>1, <4>2
              DEF IncrementVersion, NextSemantic, Increments, Semantic, Simple, Key, Parsed
    <3>3. CASE k \in Explicit
      BY <3>3 DEF LifecycleAssumption
    <3> QED BY <1>6, <3>2, <3>3 DEF NewKeys
  <2>4. NewVersion(k) \in Version /\ Stamped(NewVersion(k), Now)
    BY <1>1, <2>3 DEF NewVersion, Version, Stamped
  <2>5. Kept(history, Now)
    BY <1>1, KeptLonger DEF Now
  <2>6. Kept(history', clock')
    <3>1. \A f \in Features \ {g} : history'[f] = history[f]
      BY <1>1, <2>2
    <3>2. history'[g] = {x \in history[g] : x.key # k} \cup {NewVersion(k)}
      BY <1>1, <2>2
    <3>3. {x \in history[g] : x.key # k} \cup {NewVersion(k)} \in SUBSET Version
      BY <1>1, <2>4
    <3>4. history' \in [Features -> SUBSET Version]
      BY <1>1, <2>2, <3>3
    <3>5. ASSUME NEW f \in Features
          PROVE  (\A x \in history'[f] : Stamped(x, Now)) /\ (f \in Existing => history'[f] # {})
      <4>1. CASE f = g
        BY <2>4, <2>5, <3>2, <4>1 DEF Kept
      <4>2. CASE f # g
        BY <2>5, <3>1, <4>2 DEF Kept
      <4> QED BY <4>1, <4>2
    <3>6. Existing \subseteq Features
      BY DEF Existing
    <3> QED BY <2>1, <3>4, <3>5, <3>6 DEF Kept
  <2> QED BY <1>1, <2>1, <2>6, TypeOKFromKept
<1>7. ASSUME NEW b, Commit(b)
      PROVE  TypeOK'
  <2>1. PICK p \in Views :
           \E S \in OnBranch(b, {f \in Existing : DeriveState(p[f]) = "open"}, p) :
              Replace(S, p, Touch)
    BY <1>7 DEF Commit
  <2>2. PICK S \in OnBranch(b, {f \in Existing : DeriveState(p[f]) = "open"}, p) :
           Replace(S, p, Touch)
    BY <2>1
  <2>3. S \in SUBSET Existing
    BY <2>2 DEF OnBranch
  <2> DEFINE closed == [f \in S |-> p[f].closed]
  <2>4. closed \in [S -> BOOLEAN]
    BY <2>3, FoundTyped
  <2>5. history' = [f \in Features |->
                      IF f \in S THEN (history[f] \ {p[f]}) \cup {Stamp(p[f], closed[f])}
                                 ELSE history[f]]
    BY <2>2 DEF Replace, Touch
  <2>6. clock' = Now /\ home' = home /\ pending' = pending
    BY <1>7 DEF Commit, Tick
  <2> HIDE DEF closed
  <2>7. Kept(history', clock')
    BY <2>3, <2>4, <2>5, <2>6, StampingKept
  <2> QED BY <1>1, <2>6, <2>7, TypeOKFromKept
<1>8. ASSUME NEW b, NEW conflict, Merge(b, conflict)
      PROVE  TypeOK'
  <2>1. PICK p \in Views :
           \E S \in OnBranch(b, {f \in Existing : DeriveState(p[f]) # "closed"}, p)
                    \cup {{f} : f \in Existing} :
              Replace(S, p, Close) /\ pending' = IF conflict THEN S ELSE {}
    BY <1>8 DEF Merge
  <2>2. PICK S \in OnBranch(b, {f \in Existing : DeriveState(p[f]) # "closed"}, p)
                   \cup {{f} : f \in Existing} :
           Replace(S, p, Close) /\ pending' = IF conflict THEN S ELSE {}
    BY <2>1
  <2>3. S \in SUBSET Existing
    BY <2>2 DEF OnBranch
  <2> DEFINE closed == [f \in S |-> TRUE]
  <2>4. closed \in [S -> BOOLEAN]
    OBVIOUS
  <2>5. history' = [f \in Features |->
                      IF f \in S THEN (history[f] \ {p[f]}) \cup {Stamp(p[f], closed[f])}
                                 ELSE history[f]]
    BY <2>2 DEF Replace, Close
  <2>6. clock' = Now /\ home' = home /\ pending' \in SUBSET Existing
    BY <1>8, <2>2, <2>3 DEF Merge, Tick
  <2> HIDE DEF closed
  <2>7. Kept(history', clock')
    BY <2>3, <2>4, <2>5, <2>6, StampingKept
  <2> QED BY <1>1, <2>6, <2>7, TypeOKFromKept
<1>9. CASE MergeContinue
  <2>1. Kept(history', clock') /\ home' = home /\ clock' = clock /\ pending' = {}
    BY <1>1, <1>9, KeptLonger DEF MergeContinue
  <2> QED BY <1>1, <2>1, TypeOKFromKept
<1>10. CASE MergeAbort
  <2>1. PICK p \in Views : Replace(pending, p, Unclose)
    BY <1>10 DEF MergeAbort
  <2> DEFINE w == [f \in pending |-> Unclose(p[f])]
  <2>2. \A f \in pending : w[f] \in Version /\ Stamped(w[f], clock)
    BY <1>1, FoundTyped, UncloseOK
  <2>3. w \in [pending -> Version]
    BY <2>2
  <2>4. history' = [f \in Features |-> IF f \in pending THEN (history[f] \ {p[f]}) \cup {w[f]}
                                                        ELSE history[f]]
    BY <2>1 DEF Replace
  <2> HIDE DEF w
  <2>5. Kept(history', clock)
    BY <1>1, <2>2, <2>3, <2>4, ReplacedKept
  <2>6. home' = home /\ clock' = clock /\ pending' = {}
    BY <1>10 DEF MergeAbort
  <2> QED BY <1>1, <2>5, <2>6, TypeOKFromKept
<1> QED BY <1>2, <1>3, <1>4, <1>5, <1>6, <1>7, <1>8, <1>9, <1>10 DEF Next

\* Whatever commands are given, also with keys that no careful user would pass:
\* what is on record of a feature stays a set of versions stamped in order and
\* not in the future, a feature that was begun never comes to have none, and a
\* merge that waits has closed features that are there.
THEOREM TypeCorrect == Spec => []TypeOK
<1>1. Init => TypeOK
  BY DEF Init, TypeOK
<1>2. TypeOK /\ [Next]_vars => TypeOK'
  BY LifecycleAssumption, StepTypes
<1> QED BY <1>1, <1>2, PTL DEF Spec
=============================================================================
