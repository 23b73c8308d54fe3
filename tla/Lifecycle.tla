----------------------------- MODULE Lifecycle -----------------------------
(***************************************************************************)
(* The versions of features and the states derived from their timestamps   *)
(* (pkg/fogit/feature.go), under the commands that change them: feature    *)
(* (create and reopen), update, commit, and what merge, --continue and     *)
(* --abort do to feature files.                                            *)
(*                                                                         *)
(* A feature's state is stored nowhere.  It follows from the timestamps of *)
(* the version whose key ranks highest, so every command that stamps a     *)
(* version or adds one may change it.  The feature files are those of one  *)
(* work tree; a command's saves are together (their interruption is        *)
(* MergeFlow's subject), and a merge that waits is settled first.          *)
(***************************************************************************)
EXTENDS Versions, FiniteSets

CONSTANTS Features,  \* feature IDs
          Branches,  \* branch names
          NoBranch,  \* no branch in a feature's metadata
          Formats,   \* values the user gives to workflow.version_format
          Explicit,  \* the keys the user passes with --version
          Careful,   \* whether a reopened feature gets a key above the one it had
          Demands,   \* the lower bounds other features put on a feature's version
          MaxTime    \* bound: the number of timestamps taken

ASSUME LifecycleAssumption ==
    /\ NoBranch \notin Branches
    /\ Formats \subseteq {"simple", "semantic"}
    /\ Explicit \subseteq Key
    /\ Careful \in BOOLEAN
    /\ Demands \subseteq {c \in Constraint : c.operator \in {">", ">="}}
    /\ MaxTime \in Nat

VARIABLES history, \* history[f]: the versions of feature f, {} if there is none
          home,    \* home[f]: the branch in its metadata
          pending, \* the features closed by the merge that waits, {} if none
          clock    \* the time of the last command

vars == <<history, home, pending, clock>>

Now == clock + 1
Tick == clock < MaxTime /\ clock' = Now

Version == [key : Key, created : Nat, modified : Nat, closed : BOOLEAN]

\* A version as NewFeature and ReopenFeature make it.
NewVersion(k) == [key |-> k, created |-> Now, modified |-> Now, closed |-> FALSE]

\* GetCurrentVersion.  Go ranges over a map in any order, so a tie may go either way.
Current(f, v) ==
    /\ v \in history[f]
    /\ Parsed(v.key)
    /\ \A w \in history[f] : Parsed(w.key) => Rank(w.key) <= Rank(v.key)

DeriveState(v) ==
    IF v.closed THEN "closed"
    ELSE IF v.created = v.modified THEN "open" ELSE "in-progress"

Existing == {f \in Features : history[f] # {}}

\* What a command finds to be the current version of every feature.
Views == {p \in [Existing -> UNION {history[f] : f \in Existing}] :
              \A f \in Existing : Current(f, p[f])}

\* The current versions of the features of S, as p sees them, are replaced.
Replace(S, p, New(_)) ==
    history' = [f \in Features |->
                  IF f \in S THEN (history[f] \ {p[f]}) \cup {New(p[f])} ELSE history[f]]

\* UpdateState leaves a version closed or not; features.Update then stamps it.
Stamp(v, closed) == [v EXCEPT !.modified = Now, !.closed = closed]
Touch(v)         == Stamp(v, v.closed)
Close(v)         == Stamp(v, TRUE)
Unclose(v)       == [v EXCEPT !.closed = FALSE]

\* Those of S in the metadata of which branch b stands, else the one modified
\* last (the search for them breaks ties by ID or by the order of the files).
OnBranch(b, S, p) ==
    LET tagged == {f \in S : home[f] = b}
    IN  IF tagged # {} THEN {tagged}
        ELSE {{f} : f \in {g \in S : \A h \in S : p[h].modified <= p[g].modified}}

Init ==
    /\ history = [f \in Features |-> {}]
    /\ home = [f \in Features |-> NoBranch]
    /\ pending = {}
    /\ clock = 0
-----------------------------------------------------------------------------
\* With --parent the new feature is stamped a second time.
Create(f, b, parent) ==
    /\ pending = {}
    /\ history[f] = {}
    /\ clock < MaxTime
    /\ clock' = IF parent THEN clock + 2 ELSE clock + 1
    /\ history' = [history EXCEPT ![f] = {[NewVersion(Simple(1)) EXCEPT !.modified = clock']}]
    /\ home' = [home EXCEPT ![f] = b]
    /\ UNCHANGED pending

\* Any other change of a feature: its fields, tags, files or relationships.
UpdateFields(f, b) ==
    /\ pending = {}
    /\ Tick
    /\ \E p \in Views : f \in Existing /\ Replace({f}, p, Touch)
    /\ home' = [home EXCEPT ![f] = b]
    /\ UNCHANGED pending

CanTransitionTo(s, t) ==
    <<s, t>> \in {<<"open", "in-progress">>, <<"open", "closed">>,
                  <<"in-progress", "closed">>, <<"closed", "open">>}

\* update --state; whatever the new state, the version is stamped, so that
\* closed goes to in-progress when open is asked for.
UpdateState(f, t) ==
    /\ pending = {}
    /\ Tick
    /\ \E p \in Views :
          /\ f \in Existing
          /\ CanTransitionTo(DeriveState(p[f]), t)
          /\ Replace({f}, p, LAMBDA v : Stamp(v, t = "closed"))
    /\ UNCHANGED <<home, pending>>

\* The keys a closed feature with current key k may be reopened with: --patch,
\* --minor, --major or --new-version (minor), and --version.
NextKeys(k) ==
    UNION {{IncrementVersion(k, format, inc) :
               inc \in {i \in Increments : Careful /\ format = "simple" => i # "patch"}} :
               format \in {g \in Formats : CanIncrement(k, g)}}

NewKeys(k) ==
    NextKeys(k) \cup
    {x \in Explicit : Careful => /\ Parsed(x)
                                 /\ Precedes(k, x)
                                 /\ k.form = "semantic" => x.form = "semantic"}

\* Variant: the state is not asked for.
Reopen_AnyState(f, k) ==
    /\ pending = {}
    /\ Tick
    /\ Small(k)
    /\ \E p \in Views :
          /\ f \in Existing
          /\ k \in NewKeys(p[f].key)
          /\ history' = [history EXCEPT ![f] = {v \in @ : v.key # k} \cup {NewVersion(k)}]
    /\ UNCHANGED <<home, pending>>

\* Variant: the new version has no modification time.
Reopen_Unstamped(f, k) ==
    /\ pending = {}
    /\ Tick
    /\ Small(k)
    /\ \E p \in Views :
          /\ f \in Existing
          /\ DeriveState(p[f]) = "closed"
          /\ k \in NewKeys(p[f].key)
          /\ history' = [history EXCEPT ![f] = {v \in @ : v.key # k}
                                         \cup {[NewVersion(k) EXCEPT !.modified = 0]}]
    /\ UNCHANGED <<home, pending>>

\* feature <name> of a closed feature, the key incremented or explicit.  A
\* version that has the key already is overwritten.
Reopen(f, k) ==
    /\ pending = {}
    /\ Tick
    /\ Small(k)
    /\ \E p \in Views :
          /\ f \in Existing
          /\ DeriveState(p[f]) = "closed"
          /\ k \in NewKeys(p[f].key)
          /\ history' = [history EXCEPT ![f] = {v \in @ : v.key # k} \cup {NewVersion(k)}]
    /\ UNCHANGED <<home, pending>>

\* commit on branch b: of the open features only, not of those in progress.
Commit(b) ==
    /\ pending = {}
    /\ Tick
    /\ \E p \in Views :
          \E S \in OnBranch(b, {f \in Existing : DeriveState(p[f]) = "open"}, p) :
              Replace(S, p, Touch)
    /\ UNCHANGED <<home, pending>>

\* merge on branch b: of the features not closed, or of the one named, which may
\* be closed already.  In conflict MERGE_STATE remembers them.
Merge(b, conflict) ==
    /\ pending = {}
    /\ Tick
    /\ \E p \in Views :
          \E S \in OnBranch(b, {f \in Existing : DeriveState(p[f]) # "closed"}, p)
                   \cup {{f} : f \in Existing} :
              /\ Replace(S, p, Close)
              /\ pending' = IF conflict THEN S ELSE {}
    /\ UNCHANGED home

MergeContinue ==
    /\ pending # {}
    /\ pending' = {}
    /\ UNCHANGED <<history, home, clock>>

MergeAbort ==
    /\ pending # {}
    /\ \E p \in Views : Replace(pending, p, Unclose)
    /\ pending' = {}
    /\ UNCHANGED <<home, clock>>

Next ==
    \/ \E f \in Features, b \in Branches \cup {NoBranch} :
          \/ \E parent \in BOOLEAN : Create(f, b, parent)
          \/ UpdateFields(f, b)
    \/ \E f \in Features, t \in {"open", "in-progress", "closed"} : UpdateState(f, t)
    \/ \E f \in Features : \E k \in UNION {NewKeys(v.key) : v \in history[f]} : Reopen(f, k)
    \/ \E b \in Branches : Commit(b)
    \/ \E b \in Branches, conflict \in BOOLEAN : Merge(b, conflict)
    \/ MergeContinue
    \/ MergeAbort

Spec == Init /\ [][Next]_vars
-----------------------------------------------------------------------------
(* Properties *)

\* Versions are stamped in order, none in the future, those closed when they were
\* closed; and a merge that waits has closed features that are there.
TypeOK ==
    /\ history \in [Features -> SUBSET Version]
    /\ home \in [Features -> Branches \cup {NoBranch}]
    /\ pending \in SUBSET Features
    /\ clock \in Nat
    /\ \A f \in Features : \A v \in history[f] :
          /\ v.created <= v.modified /\ v.modified <= clock
          /\ v.closed => v.created < v.modified
    /\ \A f \in pending : history[f] # {}

\* GetCurrentVersionKey, which looks at keys only, finds the version that was
\* begun last, whichever formats the keys are of, and all others are closed: no
\* work goes on in a version that no command looks at.
CurrentIsNewest ==
    \A f \in Features : history[f] # {} =>
        \E v \in history[f] :
            /\ \A w \in history[f] : Current(f, w) => w = v
            /\ \A w \in history[f] \ {v} : w.closed /\ w.created < v.created

\* What is on record of a version does not change any more once a later one has
\* been begun: not by update, commit, merge or --abort, which find the version
\* to stamp by its key, nor by ReopenFeature, which may assign to a key in use.
SupersededFrozen ==
    [][\A f \in Features : \A v \in history[f] :
          (\E w \in history[f] : v.created < w.created) => v \in history'[f]]_vars

\* A constraint ">" or ">=" (E006) that a feature meets, it goes on meeting when
\* it is reopened: IsSatisfiedBy compares keys part by part, while the key it is
\* given was chosen by GetCurrentVersionKey's weights.
DemandsKept ==
    [][\A f \in Features, c \in Demands :
          (\E v \in history[f] : Current(f, v) /\ IsSatisfiedBy(c, v.key)) =>
              \A v \in history'[f] : Current(f, v)' => IsSatisfiedBy(c, v.key)]_vars

CurrentState(f) ==
    IF history[f] = {} THEN "none"
    ELSE DeriveState(CHOOSE v \in history[f] : Current(f, v))

Rounds == INSTANCE FeatureRounds WITH
              round <- [f \in Features |-> Cardinality(history[f])],
              state <- [f \in Features |-> CurrentState(f)]

\* States derived from timestamps, of versions found by their keys, follow the
\* life cycle documented: FeatureRounds.
ImplementsRounds == Rounds!Spec
=============================================================================
