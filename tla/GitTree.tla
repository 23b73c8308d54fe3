------------------------------ MODULE GitTree ------------------------------
(***************************************************************************)
(* The git repository as internal/git/repository.go drives it: branches,   *)
(* the checked out one, the work tree, and a merge that stopped half way.  *)
(*                                                                         *)
(* A tree (a commit's or the work tree) is what has been done to it:       *)
(*   feat[f]   how often feature f's file was written to another state:    *)
(*             0 not there, odd open, even closed (1 created, 2 closed,    *)
(*             3 reopened, ...)                                            *)
(*   work      the branches whose piece of user work it holds              *)
(*   saved     the contents of .fogit/MERGE_STATE, or NoState: the file is *)
(*             not git-ignored, so git carries it about like any other     *)
(* What is done is only ever added to, so two trees merge to their union;  *)
(* resolving a conflict keeps both sides.                                  *)
(***************************************************************************)
EXTENDS Naturals

CONSTANTS Branches,  \* branch names
          Features,  \* feature IDs
          NoState    \* no MERGE_STATE file

VARIABLES tip,         \* tip[b]: the tree of branch b's last commit
          exists,      \* the branches there are
          head,        \* the branch checked out
          wt,          \* the work tree, untracked files included
          merging,     \* whether .git/MERGE_HEAD is there
          conflicted   \* whether the work tree has unresolved conflicts

git == <<tip, exists, head, wt, merging, conflicted>>

EmptyTree == [feat |-> [f \in Features |-> 0], work |-> {}, saved |-> NoState]

Open(tree, f)   == tree.feat[f] % 2 = 1
Closed(tree, f) == tree.feat[f] > 0 /\ tree.feat[f] % 2 = 0
Present(tree)   == {f \in Features : tree.feat[f] > 0}

\* Everything done in s has been done in t.
Within(s, t) ==
    /\ \A f \in Features : s.feat[f] <= t.feat[f]
    /\ s.work \subseteq t.work

\* The trees git may merge s and t to: of MERGE_STATE it keeps the side that
\* changed it, which is either.
Merged(s, t) ==
    [feat  : {[f \in Features |-> IF s.feat[f] <= t.feat[f] THEN t.feat[f] ELSE s.feat[f]]},
     work  : {s.work \cup t.work},
     saved : {s.saved, t.saved}]

\* GetChangedFiles: git status lists modified and untracked files.
Dirty == wt # tip[head] \/ conflicted

\* git carries a change that is not committed over to another branch when both
\* branches have the same file or the change makes it the other branch's, and
\* refuses to check out otherwise.
Carries(x, h, t) == x = h \/ h = t \/ x = t
Carry(x, h, t)   == IF x = h THEN t ELSE x

CanCarry(h, t) ==
    /\ \A f \in Features : Carries(wt.feat[f], h.feat[f], t.feat[f])
    /\ \A w \in Branches : Carries(w \in wt.work, w \in h.work, w \in t.work)
    /\ Carries(wt.saved, h.saved, t.saved)

CarriedTo(h, t) ==
    [feat  |-> [f \in Features |-> Carry(wt.feat[f], h.feat[f], t.feat[f])],
     work  |-> {w \in Branches : Carry(w \in wt.work, w \in h.work, w \in t.work)},
     saved |-> Carry(wt.saved, h.saved, t.saved)]

CanCheckout(b) == b \in exists /\ ~conflicted /\ CanCarry(tip[head], tip[b])

CheckoutBranch(b) ==
    /\ CanCheckout(b)
    /\ head' = b
    /\ wt' = CarriedTo(tip[head], tip[b])
    /\ merging' = FALSE
    /\ UNCHANGED <<tip, exists, conflicted>>

CreateBranch(b) ==
    /\ b \notin exists
    /\ exists' = exists \cup {b}
    /\ tip' = [tip EXCEPT ![b] = tip[head]]
    /\ head' = b
    /\ merging' = FALSE
    /\ UNCHANGED <<wt, conflicted>>

\* Commit stages everything there is.  The library it commits with does not
\* promise to remove MERGE_HEAD.
Commit ==
    /\ tip' = [tip EXCEPT ![head] = wt]
    /\ merging' \in {merging, FALSE}
    /\ UNCHANGED <<exists, head, wt, conflicted>>

Diverged(s, t) == ~Within(s, t) /\ ~Within(t, s)

\* MergeBranch and MergeBranchSquash into the branch checked out.
MergeClean(b, squash) ==
    /\ ~merging
    /\ \E t \in Merged(tip[head], tip[b]) :
        /\ wt' = t
        /\ tip' = IF squash THEN tip ELSE [tip EXCEPT ![head] = t]
    /\ UNCHANGED <<exists, head, merging, conflicted>>

\* A squashing merge leaves no MERGE_HEAD.
MergeConflict(b, squash) ==
    /\ ~merging
    /\ Diverged(tip[head], tip[b])
    /\ wt' \in Merged(tip[head], tip[b])
    /\ conflicted' = TRUE
    /\ merging' = ~squash
    /\ UNCHANGED <<tip, exists, head>>

\* git merge --abort; an untracked MERGE_STATE stays, a staged one goes.
AbortMerge ==
    /\ merging
    /\ \E s \in {wt.saved, tip[head].saved} : wt' = [tip[head] EXCEPT !.saved = s]
    /\ merging' = FALSE
    /\ conflicted' = FALSE
    /\ UNCHANGED <<tip, exists, head>>

\* DeleteBranch removes the reference: no check that the branch was merged, or
\* that it is not the one checked out.
DeleteBranch(b) ==
    /\ exists' = exists \ {b}
    /\ tip' = [tip EXCEPT ![b] = EmptyTree]
    /\ UNCHANGED <<head, wt, merging, conflicted>>
=============================================================================
