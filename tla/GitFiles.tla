------------------------------ MODULE GitFiles ------------------------------
(***************************************************************************)
(* The git repository, file by file, as CheckoutBranch, CreateBranch,      *)
(* UpdateFileOnBranch and the user drive it: branches, the work tree, what *)
(* git tracks of it, and the stash.                                        *)
(*                                                                         *)
(* A tree gives every path its content, or None.  What the user stages is  *)
(* not told from what they only change.                                    *)
(***************************************************************************)
EXTENDS Naturals, Sequences, SequencesExt

CONSTANTS Branches,  \* local branches
          Remotes,   \* remote-tracking branches
          Fetched,   \* Fetched[r]: the tree of remote-tracking branch r
          Paths,     \* the files
          None       \* no file

VARIABLES tip,      \* tip[b]: the tree of branch b's last commit
          exists,   \* the local branches there are
          head,     \* what is checked out: a branch, or a remote one (detached)
          loose,    \* the tree of a detached HEAD
          wt,       \* the work tree
          tracked,  \* the paths git tracks
          stash     \* the stash, latest last: the trees before and after

git == <<tip, exists, head, loose, wt, tracked, stash>>

Files(tree) == {p \in Paths : tree[p] # None}
Empty       == [p \in Paths |-> None]

HeadTree  == IF head \in Branches THEN tip[head] ELSE loose
TreeOf(b) == IF b \in Branches THEN tip[b] ELSE Fetched[b]
Known(b)  == b \in exists \cup Remotes

\* Tracked files that are changed; untracked files.
Changed   == {p \in tracked : wt[p] # HeadTree[p]}
Untracked == Files(wt) \ tracked
Clean     == Changed = {} /\ Untracked = {}

\* git carries a change over to another commit when both have the same file
\* there, and refuses to check out otherwise.
CanCheckout(b) ==
    /\ Known(b)
    /\ \A p \in Paths : wt[p] = HeadTree[p] \/ HeadTree[p] = TreeOf(b)[p]

MovesTo(b, tree, index) ==
    /\ head' = b
    /\ loose' = IF b \in Remotes THEN Fetched[b] ELSE Empty
    /\ wt' = tree
    /\ tracked' = index
    /\ UNCHANGED <<tip, exists, stash>>

Checkout(b) ==
    /\ CanCheckout(b)
    /\ MovesTo(b, [p \in Paths |-> IF wt[p] = HeadTree[p] THEN TreeOf(b)[p] ELSE wt[p]],
                  (tracked \ Files(HeadTree)) \cup Files(TreeOf(b)))

\* git checkout --force: untracked files stay where nothing is in their way.
CheckoutForce(b) ==
    /\ Known(b)
    /\ MovesTo(b, [p \in Paths |-> IF p \in Untracked /\ TreeOf(b)[p] = None
                                   THEN wt[p] ELSE TreeOf(b)[p]],
                  Files(TreeOf(b)))

\* Create a branch at HEAD and check it out.
CreateBranch(b) ==
    /\ b \notin exists
    /\ exists' = exists \cup {b}
    /\ tip' = [tip EXCEPT ![b] = HeadTree]
    /\ head' = b
    /\ loose' = Empty
    /\ UNCHANGED <<wt, tracked, stash>>

\* git add and git commit of the paths S, whose contents are those of tree.
CommitPaths(S, tree) ==
    LET commit == [p \in Paths |-> IF p \in S THEN tree[p] ELSE HeadTree[p]]
    IN  /\ wt' = tree
        /\ tracked' = tracked \cup (S \cap Files(tree))
        /\ IF head \in Branches
           THEN tip' = [tip EXCEPT ![head] = commit] /\ UNCHANGED loose
           ELSE loose' = commit /\ UNCHANGED tip
        /\ UNCHANGED <<exists, head, stash>>

\* git stash push, without untracked files.
StashPush ==
    /\ stash' = Append(stash, [from |-> HeadTree, paths |-> Changed, to |-> wt])
    /\ wt' = [p \in Paths |-> IF p \in tracked THEN HeadTree[p] ELSE wt[p]]
    /\ tracked' = Files(HeadTree)
    /\ UNCHANGED <<tip, exists, head, loose>>

\* git stash pop, where it applies without a conflict: git refuses it over a
\* file with changes of its own.
StashPop ==
    /\ stash # <<>>
    /\ LET last == Last(stash)
       IN  /\ \A p \in last.paths : wt[p] = HeadTree[p] /\ HeadTree[p] = last.from[p]
           /\ wt' = [p \in Paths |-> IF p \in last.paths THEN last.to[p] ELSE wt[p]]
           /\ tracked' = tracked \cup last.paths
    /\ stash' = Front(stash)
    /\ UNCHANGED <<tip, exists, head, loose>>
=============================================================================
