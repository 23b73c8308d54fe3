----------------------------- MODULE CrossBranch -----------------------------
(***************************************************************************)
(* Features on several branches: the branch a new feature gets             *)
(* (internal/features/branch.go, workflow.go) and its automatic commit     *)
(* (git.go), switch (switch.go), finding a feature across branches         *)
(* (finder.go), and link between features of different branches, which     *)
(* saves a feature on a branch that is not checked out: UpdateFileOnBranch *)
(* (internal/git/repository.go) stashes, checks out, commits, returns and  *)
(* pops, each a step of its own.                                           *)
(*                                                                         *)
(* The user edits, commits, checks out and pops the stash between          *)
(* commands, not during one.  A command may be killed at any of its steps, *)
(* and the steps of Faults may fail.                                       *)
(*                                                                         *)
(* Of a feature's file only its ID and its relationships are kept.  A      *)
(* relationship is a pair of source and target; its half in the target's   *)
(* file is the inverse.  Which are allowed is a matter of Relationships.   *)
(***************************************************************************)
EXTENDS GitFiles

CONSTANTS Features,    \* feature IDs
          FileOf,      \* FileOf[f]: the path the store gave feature f
          SaveName,    \* SaveName[f]: the path sanitizeFileName makes of its name
          Notes,       \* a file of the user's
          Base,        \* workflow.base_branch, also the trunk
          BranchOf,    \* BranchOf[f]: feature/<slug>, from its name
          Given,       \* the features there are at first, committed on their branches with Notes
          From,        \* workflow.create_branch_from
          Shared,      \* workflow.allow_shared_branches
          Faults,      \* what may happen to a link: "kill", "commit" (the commit fails)
          MaxCommands, \* bound: commands and user's steps
          MaxEdits     \* bound: edits of Notes

Ties    == {k \in Features \X Features : k[1] # k[2]}
Feature == [id : Features, ties : SUBSET Ties]
Note    == [edit : 0..MaxEdits]

\* Notes are the user's, the other files hold features.
Tree == {tree \in [Paths -> Feature \cup Note \cup {None}] :
            \A p \in Files(tree) : tree[p] \in IF p = Notes THEN Note ELSE Feature}

ASSUME CrossBranchAssumption ==
    /\ Base \in Branches
    /\ \A f \in Given : BranchOf[f] # Base
    /\ Remotes \cap Branches = {}
    /\ Fetched \in [Remotes -> Tree]
    /\ None \notin Feature \cup Note
    /\ Notes \in Paths /\ MaxEdits \in Nat
    /\ FileOf \in [Features -> Paths \ {Notes}] /\ SaveName \in [Features -> Paths \ {Notes}]
    /\ BranchOf \in [Features -> Branches]
    /\ Given \subseteq Features
    /\ From \in {"trunk", "warn", "current"} /\ Shared \in BOOLEAN
    /\ Faults \subseteq {"kill", "commit"}

VARIABLES call,     \* the link under way, or the creation
          live,     \* history: what was written into the work tree and not committed
          made,     \* history: the features created
          home,     \* history: HEAD and the stash's length at the start of the link, or <<>>
          edits,    \* the edits of Notes so far
          commands  \* the commands and user's steps so far

vars == <<git, call, live, made, home, edits, commands>>

Idle == [step |-> "idle"]
At(step) == call.step = step

\* The features of a tree, and the file a feature has in it.
In(tree)       == {f \in Features : \E p \in Files(tree) \ {Notes} : tree[p].id = f}
FileIn(tree, f) == CHOOSE p \in Files(tree) \ {Notes} : tree[p].id = f

FirstTip(b) ==
    LET on(p) == {f \in Given : BranchOf[f] = b /\ FileOf[f] = p}
    IN  [p \in Paths |-> IF on(p) # {} THEN [id |-> CHOOSE f \in on(p) : TRUE, ties |-> {}]
                         ELSE IF p = Notes /\ \E f \in Given : BranchOf[f] = b THEN [edit |-> 0]
                         ELSE None]

Init ==
    /\ tip = [b \in Branches |-> FirstTip(b)]
    /\ exists = {Base} \cup {BranchOf[f] : f \in Given}
    /\ head = Base
    /\ loose = Empty
    /\ wt = Empty
    /\ tracked = {}
    /\ stash = <<>>
    /\ call = Idle
    /\ live = {}
    /\ made = Given \cup UNION {In(Fetched[r]) : r \in Remotes}
    /\ home = <<>>
    /\ edits = 0
    /\ commands = 0

Begins ==
    /\ call = Idle
    /\ commands < MaxCommands
    /\ commands' = commands + 1

\* Content c is written to path p of the work tree.
Writes(p, c) == live' = {l \in live : l[1] # p \/ wt[p] # l[2]} \cup {<<p, c>>}
-----------------------------------------------------------------------------
(* The user's git *)

Edit ==
    /\ Begins
    /\ edits < MaxEdits
    /\ edits' = edits + 1
    /\ wt' = [wt EXCEPT ![Notes] = [edit |-> edits']]
    /\ Writes(Notes, wt'[Notes])
    /\ UNCHANGED <<tip, exists, head, loose, tracked, stash, call, made, home>>

CommitAll ==
    /\ Begins
    /\ head \in Branches
    /\ ~Clean
    /\ CommitPaths(Paths, wt)
    /\ live' = {l \in live : wt[l[1]] # l[2]}
    /\ UNCHANGED <<call, made, home, edits>>

UserCheckout(b) ==
    /\ Begins
    /\ b # head
    /\ b \in exists
    /\ Checkout(b)
    /\ UNCHANGED <<call, live, made, home, edits>>

UserBranch(b) ==
    /\ Begins
    /\ CreateBranch(b)
    /\ UNCHANGED <<call, live, made, home, edits>>

UserPop ==
    /\ Begins
    /\ StashPop
    /\ UNCHANGED <<call, live, made, home, edits>>
-----------------------------------------------------------------------------
(* feature: the branch of a new feature, in branch-per-feature mode *)

\* HandleBranchCreation stays with --same, if shared branches are allowed.
Stays(flag)  == flag = "same"
Allowed(flag) == flag = "same" => Shared

\* With the trunk strategy it first checks out the base branch, unless
\* --from-current is given.
ViaBase(flag) == From = "trunk" /\ flag = "" /\ head # Base

NewFeature(f) ==
    /\ made' = made \cup {f}
    /\ Writes(FileOf[f], [id |-> f, ties |-> {}])
    /\ call' = [step |-> "created"]
    /\ home' = <<>>

\* The new branch starts at a commit whose tree is start; wt' is tree.
\* Variant: the reference is not stored.
StartsAt_Unstored(start, name, tree) ==
    /\ name \notin exists
    /\ tip' = [tip EXCEPT ![name] = start]
    /\ head' = name
    /\ loose' = Empty
    /\ wt' = tree
    /\ tracked' = (tracked \ Files(HeadTree)) \cup Files(start)
    /\ UNCHANGED <<exists, stash>>

StartsAt(start, name, tree) ==
    /\ name \notin exists
    /\ exists' = exists \cup {name}
    /\ tip' = [tip EXCEPT ![name] = start]
    /\ head' = name
    /\ loose' = Empty
    /\ wt' = tree
    /\ tracked' = (tracked \ Files(HeadTree)) \cup Files(start)
    /\ UNCHANGED stash

CreateFeature(f, flag) ==
    LET start  == IF ViaBase(flag) THEN tip[Base] ELSE HeadTree
        moved  == [p \in Paths |-> IF wt[p] = HeadTree[p] THEN start[p] ELSE wt[p]]
        placed == [moved EXCEPT ![FileOf[f]] = [id |-> f, ties |-> {}]]
    IN  /\ Begins
        /\ f \notin made
        /\ head \in Branches \/ flag = "from-current" \/ (flag = "" /\ From = "current")
        /\ Allowed(flag)
        /\ moved[FileOf[f]] = None
        /\ IF Stays(flag) THEN wt' = placed /\ UNCHANGED <<tip, exists, head, loose, tracked, stash>>
           ELSE /\ ViaBase(flag) => CanCheckout(Base)
                /\ StartsAt(start, BranchOf[f], placed)
        /\ NewFeature(f)
        /\ UNCHANGED edits

\* The branch is there already: the command fails, on the base branch.
CreateRefused(f, flag) ==
    /\ Begins
    /\ f \notin made
    /\ head \in Branches
    /\ ViaBase(flag)
    /\ BranchOf[f] \in exists
    /\ Checkout(Base)
    /\ UNCHANGED <<call, live, made, home, edits>>
\* auto_commit: all there is in the work tree is committed with the feature.
AutoCommitFeature ==
    /\ At("created")
    /\ IF Clean THEN UNCHANGED git ELSE CommitPaths(Paths, wt)
    /\ live' = {l \in live : wt[l[1]] # l[2]}
    /\ call' = Idle
    /\ UNCHANGED <<made, home, edits, commands>>

\* It is off, or the commit fails, which the command only warns about.
AutoCommitFails ==
    /\ At("created")
    /\ call' = Idle
    /\ UNCHANGED <<git, live, made, home, edits, commands>>

CreateStep == AutoCommitFeature \/ AutoCommitFails
-----------------------------------------------------------------------------
(* Finding a feature, and switch *)

\* FindAcrossBranches: the work tree, then the trunk, then the other local
\* branches in some order, then the remote ones.
Found(f) ==
    LET On(bs) == {[content |-> TreeOf(b)[FileIn(TreeOf(b), f)], branch |-> b] :
                       b \in {c \in bs : f \in In(TreeOf(c))}}
    IN  IF f \in In(wt) THEN {[content |-> wt[FileIn(wt, f)], branch |-> head]}
        ELSE IF f \in In(tip[Base]) THEN On({Base})
        ELSE IF \E b \in exists : f \in In(tip[b]) THEN On(exists)
        ELSE On(Remotes)

\* switchToBranch goes to the branch the feature's metadata records (set by hand
\* or by an import), else to that of its current version (the one a reopen was
\* on), else to the branch of its name: of the file's content these are not
\* kept, so it is any.  When it cannot check the branch out it creates it.
SwitchTo(b) ==
    /\ head # b
    /\ Clean
    /\ IF b \in exists THEN Checkout(b) ELSE CreateBranch(b)

Switch(f) ==
    /\ Begins
    /\ head \in Branches
    /\ Found(f) # {}
    /\ \A r \in Found(f) : r.branch \notin Remotes
    /\ \E b \in Branches : SwitchTo(b)
    /\ UNCHANGED <<call, live, made, home, edits>>
-----------------------------------------------------------------------------
(* link, and the save of a feature on another branch *)

With(c, k) == [c EXCEPT !.ties = @ \cup {k}]

LinkOf(s, t, r, q) ==
    LET tie  == <<s, t>>
        here == [id |-> s, content |-> With(r.content, tie), on |-> r.branch]
        back == [id |-> t, content |-> With(q.content, tie), on |-> q.branch]
    IN  [step |-> "save", tie |-> tie, start |-> head,
         on |-> [f \in {s, t} |-> IF f = s THEN r.branch ELSE q.branch],
         saves |-> IF tie \in q.content.ties THEN <<here>> ELSE <<here, back>>,
         stashed |-> FALSE, ok |-> TRUE, warned |-> FALSE]

\* Variant: saved on the branches the features were created for.
LinkBegin_OwnBranch(s, t) ==
    /\ Begins
    /\ s # t
    /\ \E r \in Found(s), q \in Found(t) :
          /\ <<s, t>> \notin r.content.ties
          /\ call' = LinkOf(s, t, [r EXCEPT !.branch = BranchOf[s]], [q EXCEPT !.branch = BranchOf[t]])
    /\ home' = <<head, Len(stash)>>
    /\ UNCHANGED <<git, live, made, edits>>

LinkBegin(s, t) ==
    /\ Begins
    /\ s # t
    /\ \E r \in Found(s), q \in Found(t) :
          /\ <<s, t>> \notin r.content.ties
          /\ call' = LinkOf(s, t, r, q)
    /\ home' = <<head, Len(stash)>>
    /\ UNCHANGED <<git, live, made, edits>>

Save == Head(call.saves)
Goes(step) == call' = [call EXCEPT !.step = step]

\* A save is over: on to the inverse's.  If the first failed, so does link.
Saved(ok) ==
    call' = [call EXCEPT !.step = IF ok \/ Save.id = call.tie[2] THEN "save" ELSE "done",
                         !.saves = IF ok \/ Save.id = call.tie[2] THEN Tail(@) ELSE <<>>,
                         !.warned = @ \/ ~ok, !.ok = TRUE, !.stashed = FALSE]

\* repo.Update finds the feature in the work tree.
SaveHere ==
    /\ At("save") /\ call.saves # <<>>
    /\ Save.id \in In(wt)
    /\ wt' = [wt EXCEPT ![FileIn(wt, Save.id)] = Save.content]
    /\ Writes(FileIn(wt, Save.id), Save.content)
    /\ Saved(TRUE)
    /\ UNCHANGED <<tip, exists, head, loose, tracked, stash, made, home, edits, commands>>

\* It does not: the feature is saved where it was found, on a branch that is
\* not checked out; HEAD must be on a branch to return to.
SaveThere ==
    /\ At("save") /\ call.saves # <<>>
    /\ Save.id \notin In(wt)
    /\ IF head \in Branches THEN Goes("stash") ELSE Saved(FALSE)
    /\ UNCHANGED <<git, live, made, home, edits, commands>>

\* Variant: nothing is stashed.
StashChanges_Skipped ==
    /\ At("stash")
    /\ Goes("checkout")
    /\ UNCHANGED <<git, live, made, home, edits, commands>>

StashChanges ==
    /\ At("stash")
    /\ IF Changed # {} THEN StashPush ELSE UNCHANGED git
    /\ call' = [call EXCEPT !.step = "checkout", !.stashed = Changed # {}]
    /\ UNCHANGED <<live, made, home, edits, commands>>

CheckoutTarget ==
    /\ At("checkout")
    /\ Checkout(Save.on)
    /\ Goes("commit")
    /\ UNCHANGED <<live, made, home, edits, commands>>

\* Variant: nothing says so.
CheckoutRefused_Silent ==
    /\ At("checkout")
    /\ ~CanCheckout(Save.on)
    /\ IF call.stashed THEN StashPop ELSE UNCHANGED git
    /\ Saved(TRUE)
    /\ UNCHANGED <<live, made, home, edits, commands>>

CheckoutRefused ==
    /\ At("checkout")
    /\ ~CanCheckout(Save.on)
    /\ IF call.stashed THEN StashPop ELSE UNCHANGED git
    /\ Saved(FALSE)
    /\ UNCHANGED <<live, made, home, edits, commands>>

Written == [wt EXCEPT ![SaveName[Save.id]] = Save.content]

\* Variant: the commit takes all there is in the work tree.
CommitFile_All ==
    /\ At("commit")
    /\ CommitPaths(Paths, Written)
    /\ Goes("return")
    /\ UNCHANGED <<live, made, home, edits, commands>>

CommitFile ==
    /\ At("commit")
    /\ CommitPaths({SaveName[Save.id]}, Written)
    /\ Goes("return")
    /\ UNCHANGED <<live, made, home, edits, commands>>

\* Variant: the error is returned at once.
CommitFails_Returns ==
    /\ At("commit") /\ "commit" \in Faults
    /\ wt' = Written
    /\ tracked' = tracked \cup {SaveName[Save.id]}
    /\ Saved(FALSE)
    /\ UNCHANGED <<tip, exists, head, loose, stash, live, made, home, edits, commands>>

\* The file is written and staged, but not committed.
CommitFails ==
    /\ At("commit") /\ "commit" \in Faults
    /\ wt' = Written
    /\ tracked' = tracked \cup {SaveName[Save.id]}
    /\ call' = [call EXCEPT !.step = "return", !.ok = FALSE]
    /\ UNCHANGED <<tip, exists, head, loose, stash, live, made, home, edits, commands>>

Return ==
    /\ At("return")
    /\ CheckoutForce(call.start)
    /\ Goes("pop")
    /\ UNCHANGED <<live, made, home, edits, commands>>

Pop ==
    /\ At("pop")
    /\ IF call.stashed THEN StashPop ELSE UNCHANGED git
    /\ Saved(call.ok)
    /\ UNCHANGED <<live, made, home, edits, commands>>

LinkEnd ==
    /\ At("done") \/ (At("save") /\ call.saves = <<>>)
    /\ call' = Idle
    /\ UNCHANGED <<git, live, made, home, edits, commands>>

Kill ==
    /\ "kill" \in Faults
    /\ call # Idle
    /\ call' = Idle
    /\ home' = <<>>
    /\ UNCHANGED <<git, live, made, edits, commands>>

\* The steps of a link; none waits for anybody.
LinkStep ==
    \/ SaveHere \/ SaveThere
    \/ StashChanges
    \/ CheckoutTarget \/ CheckoutRefused
    \/ CommitFile \/ CommitFails
    \/ Return
    \/ Pop \/ LinkEnd

Next ==
    \/ Edit \/ CommitAll \/ UserPop
    \/ \E b \in Branches : UserCheckout(b) \/ UserBranch(b)
    \/ \E f \in Features, flag \in {"", "same", "from-current"} :
          CreateFeature(f, flag) \/ CreateRefused(f, flag)
    \/ \E f \in Features : Switch(f)
    \/ \E s, t \in Features : LinkBegin(s, t)
    \/ CreateStep \/ LinkStep
    \/ Kill

\* A process that is not killed goes on to its end.
Spec == Init /\ [][Next]_vars /\ WF_vars(CreateStep \/ LinkStep)
-----------------------------------------------------------------------------
(* Properties *)

\* The files are as declared; HEAD is a branch there is or a remote one; a link
\* under way has its ends where they were found.
TypeOK ==
    /\ tip \in [Branches -> Tree] /\ wt \in Tree /\ loose \in Tree
    /\ exists \subseteq Branches /\ head \in exists \cup Remotes
    /\ tracked \subseteq Paths
    /\ \A i \in 1..Len(stash) : stash[i].to \in Tree /\ stash[i].paths \subseteq Paths
    /\ made \subseteq Features
    /\ ~At("idle") /\ ~At("created") => call.start \in exists \cup Remotes

\* Nothing that was written into the work tree and not committed is lost: it is
\* in the work tree or in a stash, whatever link stashes, checks out by force
\* and pops, and wherever it is killed.
WorkSafe ==
    \A l \in live :
        \/ wt[l[1]] = l[2]
        \/ \E i \in 1..Len(stash) : l[1] \in stash[i].paths /\ stash[i].to[l[1]] = l[2]

\* A commit link makes is of one file, of the feature it saves: no other file of
\* that branch changes, and no other branch.
OthersKept ==
    [][ ~At("idle") /\ ~At("created") =>
          \A b \in Branches, p \in Paths :
              tip'[b][p] # tip[b][p] => /\ b = Save.on
                                       /\ tip[b][p] # None /\ tip[b][p].id = Save.id
                                       /\ tip'[b][p].id = Save.id ]_vars

\* No command takes a relationship from a feature a branch has: whichever copy
\* of the feature was found, what is saved is no older than what it replaces.
TiesKept ==
    [][ \A b \in exists : \A f \in In(tip[b]) :
            /\ f \in In(tip'[b])
            /\ tip[b][FileIn(tip[b], f)].ties \subseteq tip'[b][FileIn(tip'[b], f)].ties ]_vars

\* A link that ends without a warning has both its halves where it found the
\* features: in the work tree or in a commit of the branch.  A feature found on
\* a remote branch is the exception: its commit is on no branch.
HalvesSaved ==
    /\ At("save") /\ call.saves = <<>> /\ ~call.warned
    => \A f \in {call.tie[1], call.tie[2]} :
          \/ call.on[f] \in Remotes
          \/ \E tree \in {wt, tip[call.on[f]]} :
                f \in In(tree) /\ call.tie \in tree[FileIn(tree, f)].ties

\* A link that is not killed ends, with the user back on the branch they were
\* on, and no more in the stash than there was.
ComesBack ==
    (call # Idle) ~> (call = Idle /\ home \in {<<>>, <<head, Len(stash)>>})
=============================================================================
