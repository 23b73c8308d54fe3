----------------------------- MODULE MergeFlow -----------------------------
(***************************************************************************)
(* fogit merge, merge --continue and merge --abort                         *)
(* (internal/features/merge.go, merge_state.go): closing the features of a *)
(* branch, merging it into the base branch and deleting it.                *)
(*                                                                         *)
(* The operation goes through one persistent effect after another (feature *)
(* files, commit, checkout, merge, MERGE_STATE, branch reference); those of*)
(* Faults may be cut short between any two, by a crash or because the next *)
(* effect failed.  Between commands the user works with git of their own.  *)
(* A Disciplined one does not leave a merge that is waiting to be finished *)
(* for anything but resolving it, commit MERGE_STATE of it by hand, or     *)
(* --continue what was aborted.                                            *)
(***************************************************************************)
EXTENDS GitTree

CONSTANTS Base,         \* the setting workflow.base_branch
          Trunks,       \* the branches IsTrunkBranch knows by name
          Tag,          \* Tag[f]: the branch in feature f's metadata, or NoBranch
          NoBranch,     \* no such metadata
          Faults,       \* the operations that may be cut short
          Disciplined,  \* whether the user finishes one merge before anything else
          MaxChanges    \* bound: how often a feature changes its state

MergeState == [branch : Branches, ids : SUBSET Features, noDelete : BOOLEAN, squash : BOOLEAN]

ASSUME MergeAssumption ==
    /\ Base \in Branches
    /\ NoBranch \notin Branches
    /\ NoState \notin MergeState
    /\ Tag \in [Features -> Branches \cup {NoBranch}]
    /\ Faults \subseteq {"merge", "continue", "abort"}
    /\ Disciplined \in BOOLEAN
    /\ MaxChanges \in Nat \ {0}

VARIABLES op,      \* the operation under way, its options and its next step
          fate,    \* history: what became of the merge MERGE_STATE was last saved for
          used,    \* history: the branch names the user has created
          made     \* history: the work the user has done

hist == <<fate, used, made>>
vars == <<git, op, hist>>

Idle == [pc |-> "idle"]

\* Variant: no branch counts as trunk.
IsMainBranch_ByNone(b) == FALSE

IsMainBranch(b) == b \in Trunks

Step(pc) == op' = [op EXCEPT !.pc = pc]

Init ==
    /\ tip = [b \in Branches |-> EmptyTree]
    /\ exists = {Base}
    /\ head = Base
    /\ wt = EmptyTree
    /\ merging = FALSE
    /\ conflicted = FALSE
    /\ op = Idle
    /\ fate = "finished"
    /\ used = {}
    /\ made = {}
-----------------------------------------------------------------------------
(* fogit merge *)

\* findFeaturesToClose: the one named (be it closed already), else those not
\* closed that are tagged with the branch, else the one modified last.
FeaturesToClose ==
    LET notClosed == {f \in Features : Open(wt, f)}
        tagged    == {f \in notClosed : Tag[f] = head}
    IN  {{f} : f \in Present(wt)}
        \cup (IF tagged # {} THEN {tagged} ELSE {{f} : f \in notClosed})

MergeBegin(ids, noDelete, squash) ==
    /\ op = Idle
    /\ wt.saved = NoState
    /\ head \in exists
    /\ IsMainBranch(head) \/ Base \in exists
    /\ ids \in FeaturesToClose
    /\ ~Dirty
    /\ op' = [kind |-> "merge", pc |-> "close", branch |-> head, ids |-> ids,
              todo |-> ids, noDelete |-> noDelete, squash |-> squash]
    /\ UNCHANGED <<git, hist>>

CloseFeature(f) ==
    /\ op.pc = "close"
    /\ f \in op.todo
    /\ IF Open(wt, f) THEN wt.feat[f] < MaxChanges /\ wt' = [wt EXCEPT !.feat[f] = @ + 1]
                      ELSE UNCHANGED wt
    /\ op' = [op EXCEPT !.todo = @ \ {f}]
    /\ UNCHANGED <<tip, exists, head, merging, conflicted, hist>>

\* On a trunk closing is all; what it wrote is left for the user to commit.
ClosedOnTrunk ==
    /\ op.pc = "close" /\ op.todo = {}
    /\ IsMainBranch(op.branch)
    /\ op' = Idle
    /\ UNCHANGED <<git, hist>>

CommitClosure ==
    /\ op.pc = "close" /\ op.todo = {}
    /\ ~IsMainBranch(op.branch)
    /\ Commit
    /\ Step("checkout")
    /\ UNCHANGED hist

CheckoutBase ==
    /\ op.pc = "checkout"
    /\ CheckoutBranch(Base)
    /\ Step("merge")
    /\ UNCHANGED hist

MergeBranch ==
    /\ op.pc = "merge"
    /\ MergeClean(op.branch, op.squash)
    /\ Step("delete")
    /\ UNCHANGED hist

MergeStops ==
    /\ op.pc = "merge"
    /\ MergeConflict(op.branch, op.squash)
    /\ Step("save")
    /\ UNCHANGED hist

\* Variant: the failure is ignored.
MergeFails_Ignored ==
    /\ op.pc = "merge"
    /\ "merge" \in Faults \/ merging
    /\ UNCHANGED git
    /\ Step("delete")
    /\ UNCHANGED hist

\* Any other failure of git merge: nothing was merged; back to the branch, whose
\* features stay closed.
MergeFails ==
    /\ op.pc = "merge"
    /\ "merge" \in Faults \/ merging
    /\ CheckoutBranch(op.branch)
    /\ op' = Idle
    /\ UNCHANGED hist

SaveMergeState ==
    /\ op.pc = "save"
    /\ wt' = [wt EXCEPT !.saved = [branch |-> op.branch, ids |-> op.ids,
                                   noDelete |-> op.noDelete, squash |-> op.squash]]
    /\ op' = Idle
    /\ fate' = "waiting"
    /\ UNCHANGED <<tip, exists, head, merging, conflicted, used, made>>

\* Variant: a plain merge goes on as --continue does.
DeleteMerged_ClearsToo ==
    /\ op.pc = "delete"
    /\ IF op.noDelete THEN UNCHANGED git ELSE DeleteBranch(op.branch)
    /\ Step("clear")
    /\ UNCHANGED hist

DeleteMerged ==
    /\ op.pc = "delete"
    /\ IF op.noDelete THEN UNCHANGED git ELSE DeleteBranch(op.branch)
    /\ IF op.kind = "merge" THEN op' = Idle ELSE Step("clear")
    /\ UNCHANGED hist
-----------------------------------------------------------------------------
(* fogit merge --continue *)

Resume(kind, pc) ==
    op' = [kind |-> kind, pc |-> pc, branch |-> wt.saved.branch, ids |-> wt.saved.ids,
           todo |-> wt.saved.ids, noDelete |-> wt.saved.noDelete, squash |-> wt.saved.squash]

\* Variant: the merge is not committed.
ContinueBegin_NotCommitted ==
    /\ op = Idle
    /\ wt.saved # NoState
    /\ ~(merging /\ conflicted)
    /\ UNCHANGED git
    /\ Resume("continue", "delete")
    /\ UNCHANGED hist

\* With git no longer merging the user is taken to have committed the merge.
ContinueBegin ==
    /\ op = Idle
    /\ wt.saved # NoState
    /\ ~(merging /\ conflicted)
    /\ IF merging THEN Commit ELSE UNCHANGED git
    /\ Resume("continue", "delete")
    /\ UNCHANGED hist

ClearMergeState ==
    /\ op.pc = "clear"
    /\ wt' = [wt EXCEPT !.saved = NoState]
    /\ op' = Idle
    /\ fate' = "finished"
    /\ UNCHANGED <<tip, exists, head, merging, conflicted, used, made>>
-----------------------------------------------------------------------------
(* fogit merge --abort *)

AbortBegin ==
    /\ op = Idle
    /\ wt.saved # NoState
    /\ IF merging THEN AbortMerge ELSE UNCHANGED git
    /\ Resume("abort", "return")
    /\ fate' = "aborted"
    /\ UNCHANGED <<used, made>>

ReturnToBranch ==
    /\ op.pc = "return"
    /\ CheckoutBranch(op.branch)
    /\ Step("reopen")
    /\ UNCHANGED hist

\* The branch is gone or the work tree does not allow to leave: the command
\* fails, and MERGE_STATE stays.
CannotReturn ==
    /\ op.pc = "return"
    /\ ~CanCheckout(op.branch)
    /\ op' = Idle
    /\ UNCHANGED <<git, hist>>

\* Variant: the reopened feature is not saved.
ReopenFeature_NotSaved(f) ==
    /\ op.pc = "reopen"
    /\ f \in op.todo
    /\ UNCHANGED wt
    /\ op' = [op EXCEPT !.todo = @ \ {f}]
    /\ UNCHANGED <<tip, exists, head, merging, conflicted, hist>>

ReopenFeature(f) ==
    /\ op.pc = "reopen"
    /\ f \in op.todo
    /\ IF Closed(wt, f) THEN wt.feat[f] < MaxChanges /\ wt' = [wt EXCEPT !.feat[f] = @ + 1]
                        ELSE UNCHANGED wt
    /\ op' = [op EXCEPT !.todo = @ \ {f}]
    /\ UNCHANGED <<tip, exists, head, merging, conflicted, hist>>

Reopened ==
    /\ op.pc = "reopen" /\ op.todo = {}
    /\ Step("clear")
    /\ UNCHANGED <<git, hist>>
-----------------------------------------------------------------------------
(* A command is cut short: it crashes, or what it does next fails. *)

Stop ==
    /\ op # Idle
    /\ op.kind \in Faults
    /\ op' = Idle
    /\ UNCHANGED <<git, hist>>
-----------------------------------------------------------------------------
(* The user *)

\* A merge waits for --continue or --abort.
Waiting == wt.saved # NoState \/ merging \/ conflicted

Free == op = Idle /\ head \in exists /\ (Disciplined => ~Waiting)

\* A branch name is used once (features of one name share theirs).
NewBranch(b) ==
    /\ Free
    /\ b \notin used
    /\ CreateBranch(b)
    /\ used' = used \cup {b}
    /\ UNCHANGED <<op, fate, made>>

CreateFeature(f) ==
    /\ Free
    /\ wt.feat[f] = 0
    /\ wt' = [wt EXCEPT !.feat[f] = 1]
    /\ UNCHANGED <<tip, exists, head, merging, conflicted, op, hist>>

Edit ==
    /\ Free
    /\ head \notin made
    /\ made' = made \cup {head}
    /\ wt' = [wt EXCEPT !.work = @ \cup {head}]
    /\ UNCHANGED <<tip, exists, head, merging, conflicted, op, fate, used>>

UserCheckout(b) ==
    /\ Free
    /\ b # head
    /\ CheckoutBranch(b)
    /\ UNCHANGED <<op, hist>>

\* git commit concludes a merge.  It may take MERGE_STATE along; a disciplined
\* user leaves the file of an unfinished merge alone.
CommitWork ==
    /\ op = Idle /\ head \in exists
    /\ Dirty /\ ~conflicted
    /\ \E s \in {wt.saved, tip[head].saved} :
        /\ Disciplined /\ fate # "finished" => s = tip[head].saved
        /\ tip' = [tip EXCEPT ![head] = [wt EXCEPT !.saved = s]]
    /\ merging' = FALSE
    /\ UNCHANGED <<exists, head, wt, conflicted, op, hist>>

ResolveConflicts ==
    /\ op = Idle
    /\ conflicted
    /\ conflicted' = FALSE
    /\ UNCHANGED <<tip, exists, head, wt, merging, op, hist>>

\* git merge --abort, by hand.
UserAbort ==
    /\ op = Idle
    /\ AbortMerge
    /\ fate' = IF fate = "waiting" THEN "aborted" ELSE fate
    /\ UNCHANGED <<op, used, made>>
-----------------------------------------------------------------------------
Next ==
    \/ \E ids \in SUBSET Features, noDelete, squash \in BOOLEAN :
            MergeBegin(ids, noDelete, squash)
    \/ \E f \in Features : CloseFeature(f) \/ ReopenFeature(f) \/ CreateFeature(f)
    \/ ClosedOnTrunk \/ CommitClosure \/ CheckoutBase
    \/ MergeBranch \/ MergeStops \/ MergeFails \/ SaveMergeState
    \/ DeleteMerged
    \/ (Disciplined => fate # "aborted") /\ ContinueBegin
    \/ ClearMergeState
    \/ AbortBegin \/ ReturnToBranch \/ CannotReturn \/ Reopened
    \/ Stop
    \/ \E b \in Branches : NewBranch(b) \/ UserCheckout(b)
    \/ Edit \/ CommitWork \/ ResolveConflicts \/ UserAbort

Spec == Init /\ [][Next]_vars
-----------------------------------------------------------------------------
Steps == {<<"merge", pc>> : pc \in {"close", "checkout", "merge", "save", "delete"}}
         \cup {<<"continue", "delete">>, <<"continue", "clear">>}
         \cup {<<"abort", "return">>, <<"abort", "reopen">>, <<"abort", "clear">>}

Ops == [kind : {"merge", "continue", "abort"},
        pc : {"close", "checkout", "merge", "save", "delete", "clear", "return", "reopen"},
        branch : Branches, ids : SUBSET Features, todo : SUBSET Features,
        noDelete : BOOLEAN, squash : BOOLEAN]

Trees == [feat : [Features -> 0..MaxChanges], work : SUBSET Branches,
          saved : MergeState \cup {NoState}]

\* The types of the variables; every operation is at one of its own steps.
TypeOK ==
    /\ tip \in [Branches -> Trees]
    /\ exists \subseteq Branches
    /\ head \in Branches
    /\ wt \in Trees
    /\ merging \in BOOLEAN
    /\ conflicted \in BOOLEAN
    /\ op \in {Idle} \cup Ops
    /\ op # Idle => <<op.kind, op.pc>> \in Steps /\ op.todo \subseteq op.ids
    /\ fate \in {"waiting", "aborted", "finished"}
    /\ used \subseteq Branches
    /\ made \subseteq Branches

\* Deleting the merged branch (merge.go:190, 401) and returning from a conflict
\* never lose work: it is in the work tree or on a branch there is.
NoWorkLost ==
    \A w \in made : w \in wt.work \/ \E b \in exists : w \in tip[b].work

\* No merge deletes the branch it merges into (merge.go:127, 190, 401).
BaseSurvives == Base \in exists

\* When a merge, or the --continue of a merge not finished yet, deletes a branch,
\* all the branch held, its work and its features' closures, has been committed
\* to the base branch, or, of a squashing merge, is in its work tree
\* (merge.go:190, 401).
DeleteDelivers ==
    [][\A b \in exists \ exists' : op.kind = "merge" \/ fate = "waiting" =>
         /\ head = Base
         /\ Within(tip[b], IF op.squash THEN wt ELSE tip[Base])]_vars

\* An abort that gets through is back on the feature branch, git no longer
\* merging, with every feature the merge closed open again (merge.go:313-344).
AbortRestores ==
    op # Idle /\ op.kind = "abort" /\ op.pc = "clear" =>
        /\ head = op.branch
        /\ ~merging /\ ~conflicted
        /\ \A f \in op.ids : ~Closed(wt, f)
=============================================================================
