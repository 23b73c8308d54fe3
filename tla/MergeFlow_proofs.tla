-------------------------- MODULE MergeFlow_proofs --------------------------
(***************************************************************************)
(* Proofs about MergeFlow, for any branches, features and bound: its       *)
(* types; that an abort which gets through puts things back, whoever the   *)
(* user; that, when the base branch is one IsTrunkBranch knows, no merge,  *)
(* --continue or --abort, cut short or not, deletes it; and that then,     *)
(* with a disciplined user, a branch is deleted only when its work has     *)
(* been delivered, and no work is lost.                                    *)
(***************************************************************************)
EXTENDS MergeFlow, TLAPS

-----------------------------------------------------------------------------
(* Trees *)

\* A merge of two trees is a tree, with the MERGE_STATE of one of them.
LEMMA MergedTyping ==
    ASSUME NEW s \in Trees, NEW t \in Trees, NEW m \in Merged(s, t)
    PROVE  m \in Trees /\ m.saved \in {s.saved, t.saved}
<1>1. s.feat \in [Features -> 0..MaxChanges] /\ t.feat \in [Features -> 0..MaxChanges]
      /\ s.work \subseteq Branches /\ t.work \subseteq Branches
      /\ s.saved \in MergeState \cup {NoState} /\ t.saved \in MergeState \cup {NoState}
  BY DEF Trees
<1>2. [f \in Features |-> IF s.feat[f] <= t.feat[f] THEN t.feat[f] ELSE s.feat[f]]
          \in [Features -> 0..MaxChanges]
  BY <1>1
<1> QED
  BY <1>1, <1>2 DEF Merged, Trees

\* What a checkout leaves in the work tree is a tree, with the MERGE_STATE that
\* was there or that of the branch checked out.
LEMMA CarriedTyping ==
    ASSUME wt \in Trees, NEW h \in Trees, NEW t \in Trees
    PROVE  CarriedTo(h, t) \in Trees /\ CarriedTo(h, t).saved \in {wt.saved, t.saved}
<1>1. wt.feat \in [Features -> 0..MaxChanges] /\ t.feat \in [Features -> 0..MaxChanges]
      /\ wt.saved \in MergeState \cup {NoState} /\ t.saved \in MergeState \cup {NoState}
  BY DEF Trees
<1>2. [f \in Features |-> Carry(wt.feat[f], h.feat[f], t.feat[f])]
          \in [Features -> 0..MaxChanges]
  BY <1>1 DEF Carry
<1>3. Carry(wt.saved, h.saved, t.saved) \in {wt.saved, t.saved}
  BY DEF Carry
<1> QED
  BY <1>1, <1>2, <1>3 DEF CarriedTo, Trees

LEMMA SavedTyping ==
    ASSUME NEW t \in Trees, NEW s \in MergeState \cup {NoState}
    PROVE  [t EXCEPT !.saved = s] \in Trees /\ [t EXCEPT !.saved = s].saved = s
BY DEF Trees

LEMMA EmptyTreeTyping == EmptyTree \in Trees /\ EmptyTree.saved = NoState
BY MergeAssumption DEF EmptyTree, Trees

-----------------------------------------------------------------------------
(* Types *)

GitOK ==
    /\ tip \in [Branches -> Trees]
    /\ exists \subseteq Branches
    /\ head \in Branches
    /\ wt \in Trees
    /\ merging \in BOOLEAN
    /\ conflicted \in BOOLEAN

\* Each of the git operations keeps the types of the repository.
LEMMA GitTyping ==
    ASSUME GitOK, NEW b \in Branches, NEW squash \in BOOLEAN,
           \/ CheckoutBranch(b) \/ CreateBranch(b) \/ Commit
           \/ MergeClean(b, squash) \/ MergeConflict(b, squash)
           \/ AbortMerge \/ DeleteBranch(b) \/ UNCHANGED git
    PROVE  GitOK'
<1>1. CASE CheckoutBranch(b)
  <2>1. CarriedTo(tip[head], tip[b]) \in Trees
    BY CarriedTyping DEF GitOK
  <2> QED
    BY <1>1, <2>1 DEF CheckoutBranch, GitOK
<1>2. CASE CreateBranch(b)
  BY <1>2 DEF CreateBranch, GitOK
<1>3. CASE Commit
  BY <1>3 DEF Commit, GitOK
<1>4. CASE MergeClean(b, squash)
  <2>1. \A t \in Merged(tip[head], tip[b]) : t \in Trees
    BY MergedTyping DEF GitOK
  <2> QED
    BY <1>4, <2>1 DEF MergeClean, GitOK
<1>5. CASE MergeConflict(b, squash)
  <2>1. \A t \in Merged(tip[head], tip[b]) : t \in Trees
    BY MergedTyping DEF GitOK
  <2> QED
    BY <1>5, <2>1 DEF MergeConflict, GitOK
<1>6. CASE AbortMerge
  <2>1. wt.saved \in MergeState \cup {NoState} /\ tip[head].saved \in MergeState \cup {NoState}
    BY DEF GitOK, Trees
  <2>2. \A s \in {wt.saved, tip[head].saved} : [tip[head] EXCEPT !.saved = s] \in Trees
    BY <2>1, SavedTyping DEF GitOK
  <2> QED
    BY <1>6, <2>2 DEF AbortMerge, GitOK
<1>7. CASE DeleteBranch(b)
  BY <1>7, EmptyTreeTyping DEF DeleteBranch, GitOK
<1>8. CASE UNCHANGED git
  BY <1>8 DEF git, GitOK
<1> QED
  BY <1>1, <1>2, <1>3, <1>4, <1>5, <1>6, <1>7, <1>8

OpOK ==
    /\ op \in {Idle} \cup Ops
    /\ op # Idle => <<op.kind, op.pc>> \in Steps /\ op.todo \subseteq op.ids

HistOK ==
    /\ fate \in {"waiting", "aborted", "finished"}
    /\ used \subseteq Branches
    /\ made \subseteq Branches

LEMMA TypeOKParts == TypeOK <=> GitOK /\ OpOK /\ HistOK
BY DEF TypeOK, GitOK, OpOK, HistOK

\* The state a feature's next change writes is within the bound.
LEMMA ChangeTyping ==
    ASSUME NEW t \in Trees, NEW f \in Features, t.feat[f] < MaxChanges
    PROVE  /\ [t EXCEPT !.feat[f] = @ + 1] \in Trees
           /\ [t EXCEPT !.feat[f] = @ + 1].saved = t.saved
BY MergeAssumption DEF Trees

\* An operation in progress that goes on with another of its steps.
LEMMA StepTyping ==
    ASSUME OpOK, op # Idle, NEW pc, Step(pc), <<op.kind, pc>> \in Steps
    PROVE  OpOK' /\ op' # Idle /\ op'.branch = op.branch /\ op'.pc = pc
<1>1. op \in Ops
  BY DEF OpOK
<1>2. pc \in {"close", "checkout", "merge", "save", "delete", "clear", "return", "reopen"}
  BY <1>1 DEF Steps, Ops
<1>3. op' \in Ops /\ op'.pc = pc /\ op'.kind = op.kind /\ op'.branch = op.branch
      /\ op'.todo = op.todo /\ op'.ids = op.ids
  BY <1>1, <1>2 DEF Step, Ops
<1>4. op' # Idle
  BY <1>2, <1>3 DEF Idle
<1> QED
  BY <1>3, <1>4 DEF OpOK

\* Where an operation is tells which operation it may be.
LEMMA AtStep ==
    ASSUME OpOK, op.pc # "idle"
    PROVE  /\ op \in Ops /\ op # Idle
           /\ op.pc \in {"close", "checkout", "merge", "save"} => op.kind = "merge"
           /\ op.pc \in {"return", "reopen"} => op.kind = "abort"
           /\ op.pc = "delete" => op.kind \in {"merge", "continue"}
           /\ op.pc = "clear" => op.kind \in {"continue", "abort"}
<1>1. op # Idle
  BY DEF Idle
<1>2. op \in Ops /\ <<op.kind, op.pc>> \in Steps
  BY <1>1 DEF OpOK
<1> QED
  BY <1>1, <1>2 DEF Steps, Ops

\* An operation resumed from MERGE_STATE.
LEMMA ResumeTyping ==
    ASSUME wt \in Trees, wt.saved # NoState,
           NEW kind \in {"continue", "abort"},
           NEW pc, pc = IF kind = "continue" THEN "delete" ELSE "return",
           Resume(kind, pc)
    PROVE  OpOK' /\ op'.branch = wt.saved.branch /\ op'.pc = pc
<1>1. wt.saved \in MergeState
  BY DEF Trees
<1>2. op' \in Ops /\ op'.branch = wt.saved.branch /\ op'.pc = pc
      /\ op'.kind = kind /\ op'.todo = op'.ids
  BY <1>1 DEF Resume, Ops, MergeState
<1>3. <<kind, pc>> \in Steps
  BY DEF Steps
<1> QED
  BY <1>2, <1>3 DEF OpOK

LEMMA TypeInit == Init => TypeOK
<1> SUFFICES ASSUME Init PROVE TypeOK
  OBVIOUS
<1>1. GitOK
  BY EmptyTreeTyping, MergeAssumption DEF Init, GitOK
<1>2. OpOK
  BY DEF Init, OpOK
<1>3. HistOK
  BY DEF Init, HistOK
<1> QED
  BY <1>1, <1>2, <1>3, TypeOKParts

\* Steps of an operation that go on, or end it, after one git operation.
LEMMA TypeFlow ==
    ASSUME TypeOK,
           \/ ClosedOnTrunk \/ CommitClosure \/ CheckoutBase \/ MergeBranch
           \/ MergeStops \/ MergeFails \/ DeleteMerged \/ ReturnToBranch
           \/ CannotReturn \/ Reopened \/ Stop
    PROVE  TypeOK'
<1>1. GitOK /\ OpOK /\ HistOK
  BY TypeOKParts
<1>2. HistOK'
  BY <1>1 DEF HistOK, hist, ClosedOnTrunk, CommitClosure, CheckoutBase, MergeBranch,
         MergeStops, MergeFails, DeleteMerged, ReturnToBranch, CannotReturn, Reopened, Stop
<1>3. ASSUME op' = Idle PROVE OpOK'
  BY <1>3 DEF OpOK
<1>4. CASE ClosedOnTrunk \/ CannotReturn \/ Stop
  <2>1. GitOK'
    BY <1>1, <1>4, MergeAssumption, GitTyping DEF ClosedOnTrunk, CannotReturn, Stop
  <2> QED
    BY <1>2, <1>3, <1>4, <2>1, TypeOKParts DEF ClosedOnTrunk, CannotReturn, Stop, TypeOK,
       GitOK, OpOK, HistOK
<1>5. CASE CommitClosure
  <2>1. GitOK'
    BY <1>1, <1>5, MergeAssumption, GitTyping DEF CommitClosure
  <2>2. op \in Ops /\ op # Idle /\ op.kind = "merge"
    BY <1>1, <1>5, AtStep DEF CommitClosure
  <2>3. <<op.kind, "checkout">> \in Steps
    BY <2>2 DEF Steps
  <2>4. OpOK'
    BY <1>1, <1>5, <2>2, <2>3, StepTyping DEF CommitClosure
  <2> QED
    BY <1>2, <2>1, <2>4 DEF TypeOK, GitOK, OpOK, HistOK
<1>6. CASE CheckoutBase
  <2>1. GitOK'
    BY <1>1, <1>6, MergeAssumption, GitTyping DEF CheckoutBase
  <2>2. op \in Ops /\ op # Idle /\ op.kind = "merge"
    BY <1>1, <1>6, AtStep DEF CheckoutBase
  <2>3. <<op.kind, "merge">> \in Steps
    BY <2>2 DEF Steps
  <2>4. OpOK'
    BY <1>1, <1>6, <2>2, <2>3, StepTyping DEF CheckoutBase
  <2> QED
    BY <1>2, <2>1, <2>4 DEF TypeOK, GitOK, OpOK, HistOK
<1>7. CASE MergeBranch
  <2>1. op \in Ops /\ op # Idle /\ op.kind = "merge"
    BY <1>1, <1>7, AtStep DEF MergeBranch
  <2>2. op.branch \in Branches /\ op.squash \in BOOLEAN /\ <<op.kind, "delete">> \in Steps
    BY <2>1 DEF Ops, Steps
  <2>3. GitOK'
    BY <1>1, <1>7, <2>2, GitTyping DEF MergeBranch
  <2>4. OpOK'
    BY <1>1, <1>7, <2>1, <2>2, StepTyping DEF MergeBranch
  <2> QED
    BY <1>2, <2>3, <2>4 DEF TypeOK, GitOK, OpOK, HistOK
<1>8. CASE MergeStops
  <2>1. op \in Ops /\ op # Idle /\ op.kind = "merge"
    BY <1>1, <1>8, AtStep DEF MergeStops
  <2>2. op.branch \in Branches /\ op.squash \in BOOLEAN /\ <<op.kind, "save">> \in Steps
    BY <2>1 DEF Ops, Steps
  <2>3. GitOK'
    BY <1>1, <1>8, <2>2, GitTyping DEF MergeStops
  <2>4. OpOK'
    BY <1>1, <1>8, <2>1, <2>2, StepTyping DEF MergeStops
  <2> QED
    BY <1>2, <2>3, <2>4 DEF TypeOK, GitOK, OpOK, HistOK
<1>9. CASE MergeFails
  <2>1. op.branch \in Branches
    BY <1>1, <1>9, AtStep DEF MergeFails, Ops
  <2>2. GitOK'
    BY <1>1, <1>9, <2>1, GitTyping DEF MergeFails
  <2> QED
    BY <1>2, <1>3, <1>9, <2>2 DEF MergeFails, TypeOK, GitOK, OpOK, HistOK
<1>10. CASE DeleteMerged
  <2>1. op \in Ops /\ op # Idle /\ op.kind \in {"merge", "continue"}
    BY <1>1, <1>10, AtStep DEF DeleteMerged
  <2>2. op.branch \in Branches
    BY <2>1 DEF Ops
  <2>3. GitOK'
    BY <1>1, <1>10, <2>2, GitTyping DEF DeleteMerged
  <2>4. op.kind # "merge" => <<op.kind, "clear">> \in Steps
    BY <2>1 DEF Steps
  <2>5. OpOK'
    BY <1>1, <1>3, <1>10, <2>1, <2>4, StepTyping DEF DeleteMerged
  <2> QED
    BY <1>2, <2>3, <2>5 DEF TypeOK, GitOK, OpOK, HistOK
<1>11. CASE ReturnToBranch
  <2>1. op \in Ops /\ op # Idle /\ op.kind = "abort"
    BY <1>1, <1>11, AtStep DEF ReturnToBranch
  <2>2. op.branch \in Branches /\ <<op.kind, "reopen">> \in Steps
    BY <2>1 DEF Ops, Steps
  <2>3. GitOK'
    BY <1>1, <1>11, <2>2, GitTyping DEF ReturnToBranch
  <2>4. OpOK'
    BY <1>1, <1>11, <2>1, <2>2, StepTyping DEF ReturnToBranch
  <2> QED
    BY <1>2, <2>3, <2>4 DEF TypeOK, GitOK, OpOK, HistOK
<1>12. CASE Reopened
  <2>1. op \in Ops /\ op # Idle /\ op.kind = "abort"
    BY <1>1, <1>12, AtStep DEF Reopened
  <2>2. <<op.kind, "clear">> \in Steps
    BY <2>1 DEF Steps
  <2>3. GitOK'
    BY <1>1, <1>12, MergeAssumption, GitTyping DEF Reopened
  <2>4. OpOK'
    BY <1>1, <1>12, <2>1, <2>2, StepTyping DEF Reopened
  <2> QED
    BY <1>2, <2>3, <2>4 DEF TypeOK, GitOK, OpOK, HistOK
<1> QED
  BY <1>4, <1>5, <1>6, <1>7, <1>8, <1>9, <1>10, <1>11, <1>12

\* Steps that write a feature's file.
LEMMA TypeFeature ==
    ASSUME TypeOK, NEW f \in Features,
           CloseFeature(f) \/ ReopenFeature(f) \/ CreateFeature(f)
    PROVE  TypeOK'
<1>1. GitOK /\ OpOK /\ HistOK
  BY TypeOKParts
<1>2. wt \in Trees
  BY <1>1 DEF GitOK
\* A feature of the operation is done with.
<1>4. ASSUME op \in Ops, op # Idle, op' = [op EXCEPT !.todo = @ \ {f}] PROVE OpOK'
  <2>1. op' \in Ops /\ op'.kind = op.kind /\ op'.pc = op.pc /\ op'.ids = op.ids
        /\ op'.todo = op.todo \ {f}
    BY <1>4 DEF Ops
  <2> QED
    BY <1>1, <1>4, <2>1 DEF OpOK
<1>5. CASE CloseFeature(f)
  <2>1. wt' \in Trees
    BY <1>2, <1>5, ChangeTyping DEF CloseFeature
  <2>2. GitOK'
    BY <1>1, <1>5, <2>1 DEF CloseFeature, GitOK
  <2>3. op \in Ops /\ op # Idle
    BY <1>1, <1>5, AtStep DEF CloseFeature
  <2>4. OpOK'
    BY <1>4, <1>5, <2>3 DEF CloseFeature
  <2> QED
    BY <1>1, <1>5, <2>2, <2>4 DEF CloseFeature, hist, TypeOK, GitOK, OpOK, HistOK
<1>6. CASE ReopenFeature(f)
  <2>1. wt' \in Trees
    BY <1>2, <1>6, ChangeTyping DEF ReopenFeature
  <2>2. GitOK'
    BY <1>1, <1>6, <2>1 DEF ReopenFeature, GitOK
  <2>3. op \in Ops /\ op # Idle
    BY <1>1, <1>6, AtStep DEF ReopenFeature
  <2>4. OpOK'
    BY <1>4, <1>6, <2>3 DEF ReopenFeature
  <2> QED
    BY <1>1, <1>6, <2>2, <2>4 DEF ReopenFeature, hist, TypeOK, GitOK, OpOK, HistOK
<1>7. CASE CreateFeature(f)
  <2>1. wt' \in Trees
    BY <1>2, <1>7, MergeAssumption DEF CreateFeature, Trees
  <2>2. GitOK'
    BY <1>1, <1>7, <2>1 DEF CreateFeature, GitOK
  <2> QED
    BY <1>1, <1>7, <2>2 DEF CreateFeature, hist, TypeOK, GitOK, OpOK, HistOK
<1> QED
  BY <1>5, <1>6, <1>7

\* Steps that write MERGE_STATE or read it, or begin an operation.
LEMMA TypeWrite ==
    ASSUME TypeOK,
           \/ SaveMergeState \/ ClearMergeState \/ ContinueBegin \/ AbortBegin
           \/ \E ids \in SUBSET Features, noDelete, squash \in BOOLEAN :
                  MergeBegin(ids, noDelete, squash)
    PROVE  TypeOK'
<1>1. GitOK /\ OpOK /\ HistOK
  BY TypeOKParts
<1>2. wt \in Trees /\ wt.saved \in MergeState \cup {NoState}
  BY <1>1 DEF GitOK, Trees
<1>3. ASSUME op' = Idle PROVE OpOK'
  BY <1>3 DEF OpOK
<1>8. CASE SaveMergeState
  <2>1. op \in Ops
    BY <1>1, <1>8, AtStep DEF SaveMergeState
  <2>2. [branch |-> op.branch, ids |-> op.ids, noDelete |-> op.noDelete,
         squash |-> op.squash] \in MergeState
    BY <2>1 DEF Ops, MergeState
  <2>3. wt' \in Trees
    BY <1>2, <1>8, <2>2, SavedTyping DEF SaveMergeState
  <2>4. GitOK'
    BY <1>1, <1>8, <2>3 DEF SaveMergeState, GitOK
  <2> QED
    BY <1>1, <1>3, <1>8, <2>4 DEF SaveMergeState, TypeOK, GitOK, OpOK, HistOK
<1>9. CASE ClearMergeState
  <2>1. wt' \in Trees
    BY <1>2, <1>9, SavedTyping DEF ClearMergeState
  <2>2. GitOK'
    BY <1>1, <1>9, <2>1 DEF ClearMergeState, GitOK
  <2> QED
    BY <1>1, <1>3, <1>9, <2>2 DEF ClearMergeState, TypeOK, GitOK, OpOK, HistOK
<1>10. CASE ContinueBegin
  <2>1. GitOK'
    BY <1>1, <1>10, MergeAssumption, GitTyping DEF ContinueBegin
  <2>2. OpOK'
    BY <1>2, <1>10, ResumeTyping DEF ContinueBegin
  <2> QED
    BY <1>1, <1>10, <2>1, <2>2 DEF ContinueBegin, hist, TypeOK, GitOK, OpOK, HistOK
<1>11. CASE AbortBegin
  <2>1. GitOK'
    BY <1>1, <1>11, MergeAssumption, GitTyping DEF AbortBegin
  <2>2. OpOK'
    BY <1>2, <1>11, ResumeTyping DEF AbortBegin
  <2> QED
    BY <1>1, <1>11, <2>1, <2>2 DEF AbortBegin, hist, TypeOK, GitOK, OpOK, HistOK
<1>12. CASE \E ids \in SUBSET Features, noDelete, squash \in BOOLEAN :
                 MergeBegin(ids, noDelete, squash)
  <2>1. PICK ids \in SUBSET Features, noDelete \in BOOLEAN, squash \in BOOLEAN :
                 MergeBegin(ids, noDelete, squash)
    BY <1>12
  <2>2. op' \in Ops /\ op'.kind = "merge" /\ op'.pc = "close" /\ op'.todo = op'.ids
    BY <1>1, <2>1 DEF MergeBegin, Ops, GitOK
  <2>3. OpOK'
    BY <2>2 DEF OpOK, Steps
  <2>4. GitOK'
    BY <1>1, <2>1, MergeAssumption, GitTyping DEF MergeBegin
  <2> QED
    BY <1>1, <2>1, <2>3, <2>4 DEF MergeBegin, hist, TypeOK, GitOK, OpOK, HistOK
<1> QED
  BY <1>8, <1>9, <1>10, <1>11, <1>12

\* The user's own steps.
LEMMA TypeUser ==
    ASSUME TypeOK, NEW b \in Branches,
           NewBranch(b) \/ UserCheckout(b) \/ Edit \/ CommitWork \/ ResolveConflicts \/ UserAbort
    PROVE  TypeOK'
<1>1. GitOK /\ OpOK /\ HistOK
  BY TypeOKParts
<1>2. OpOK'
  BY <1>1 DEF OpOK, NewBranch, UserCheckout, Edit, CommitWork, ResolveConflicts, UserAbort
<1>3. HistOK'
  BY <1>1 DEF HistOK, GitOK, hist, NewBranch, UserCheckout, Edit, CommitWork,
     ResolveConflicts, UserAbort
<1>4. CASE NewBranch(b) \/ UserCheckout(b) \/ UserAbort
  <2>1. GitOK'
    BY <1>1, <1>4, GitTyping DEF NewBranch, UserCheckout, UserAbort
  <2> QED
    BY <1>2, <1>3, <2>1 DEF TypeOK, GitOK, OpOK, HistOK
<1>5. CASE Edit
  <2>1. wt' \in Trees
    BY <1>1, <1>5 DEF Edit, GitOK, Trees
  <2> QED
    BY <1>1, <1>2, <1>3, <1>5, <2>1 DEF Edit, TypeOK, GitOK, OpOK, HistOK
<1>6. CASE CommitWork
  <2>1. wt.saved \in MergeState \cup {NoState} /\ tip[head].saved \in MergeState \cup {NoState}
    BY <1>1 DEF GitOK, Trees
  <2>2. \A s \in {wt.saved, tip[head].saved} : [wt EXCEPT !.saved = s] \in Trees
    BY <1>1, <2>1, SavedTyping DEF GitOK
  <2>3. tip' \in [Branches -> Trees]
    BY <1>1, <1>6, <2>2 DEF CommitWork, GitOK
  <2> QED
    BY <1>1, <1>2, <1>3, <1>6, <2>3 DEF CommitWork, TypeOK, GitOK, OpOK, HistOK
<1>7. CASE ResolveConflicts
  BY <1>1, <1>2, <1>3, <1>7 DEF ResolveConflicts, TypeOK, GitOK, OpOK, HistOK
<1> QED
  BY <1>4, <1>5, <1>6, <1>7

LEMMA TypeStep == TypeOK /\ [Next]_vars => TypeOK'
<1> SUFFICES ASSUME TypeOK, [Next]_vars PROVE TypeOK'
  OBVIOUS
<1>1. CASE UNCHANGED vars
  BY <1>1 DEF vars, git, hist, TypeOK
<1>2. CASE \E f \in Features : CloseFeature(f) \/ ReopenFeature(f) \/ CreateFeature(f)
  BY <1>2, TypeFeature
<1>3. CASE \E b \in Branches : NewBranch(b) \/ UserCheckout(b)
  BY <1>3, TypeUser
<1>4. CASE Edit \/ CommitWork \/ ResolveConflicts \/ UserAbort
  BY <1>4, MergeAssumption, TypeUser
<1>5. CASE \/ ClosedOnTrunk \/ CommitClosure \/ CheckoutBase \/ MergeBranch
           \/ MergeStops \/ MergeFails \/ DeleteMerged \/ ReturnToBranch
           \/ CannotReturn \/ Reopened \/ Stop
  BY <1>5, TypeFlow
<1>6. CASE \/ SaveMergeState \/ ClearMergeState \/ ContinueBegin \/ AbortBegin
           \/ \E ids \in SUBSET Features, noDelete, squash \in BOOLEAN :
                  MergeBegin(ids, noDelete, squash)
  BY <1>6, TypeWrite
<1> QED
  BY <1>1, <1>2, <1>3, <1>4, <1>5, <1>6 DEF Next

\* The types of the variables, and every operation at one of its own steps.
THEOREM TypeCorrect == Spec => []TypeOK
BY TypeInit, TypeStep, PTL DEF Spec
-----------------------------------------------------------------------------
(* The base branch survives *)

NotTrunk(s) == s # NoState => s.branch \notin Trunks

\* No MERGE_STATE, in the work tree or committed, names a trunk.
SavedOK == NotTrunk(wt.saved) /\ \A b \in Branches : NotTrunk(tip[b].saved)

\* What a merge is past closing features of, or is resumed for, is no trunk.
PastClose == op # Idle /\ op.pc # "close" => op.branch \notin Trunks

SurvivalInv == TypeOK /\ Base \in exists /\ SavedOK /\ PastClose

\* git only moves MERGE_STATE about.
LEMMA SavedMoves ==
    ASSUME GitOK, SavedOK, NEW b \in Branches, NEW squash \in BOOLEAN,
           \/ CheckoutBranch(b) \/ CreateBranch(b) \/ Commit
           \/ MergeClean(b, squash) \/ MergeConflict(b, squash)
           \/ AbortMerge \/ DeleteBranch(b) \/ UNCHANGED git
    PROVE  SavedOK'
<1>1. /\ tip \in [Branches -> Trees] /\ head \in Branches /\ wt \in Trees
      /\ NotTrunk(wt.saved) /\ NotTrunk(tip[b].saved) /\ NotTrunk(tip[head].saved)
  BY DEF GitOK, SavedOK
<1>2. CASE CheckoutBranch(b)
  <2>1. CarriedTo(tip[head], tip[b]).saved \in {wt.saved, tip[b].saved}
    BY <1>1, CarriedTyping
  <2> QED
    BY <1>1, <1>2, <2>1 DEF CheckoutBranch, SavedOK
<1>3. CASE CreateBranch(b)
  BY <1>1, <1>3 DEF CreateBranch, SavedOK
<1>4. CASE Commit
  BY <1>1, <1>4 DEF Commit, SavedOK
<1>5. CASE MergeClean(b, squash)
  <2>1. PICK t \in Merged(tip[head], tip[b]) :
            wt' = t /\ tip' = IF squash THEN tip ELSE [tip EXCEPT ![head] = t]
    BY <1>5 DEF MergeClean
  <2>2. t.saved \in {tip[head].saved, tip[b].saved}
    BY <1>1, <2>1, MergedTyping
  <2> QED
    BY <1>1, <2>1, <2>2 DEF SavedOK
<1>6. CASE MergeConflict(b, squash)
  <2>1. wt'.saved \in {tip[head].saved, tip[b].saved}
    BY <1>1, <1>6, MergedTyping DEF MergeConflict
  <2> QED
    BY <1>1, <1>6, <2>1 DEF MergeConflict, SavedOK
<1>7. CASE AbortMerge
  <2>1. wt'.saved \in {wt.saved, tip[head].saved}
    BY <1>1, <1>7 DEF AbortMerge, Trees
  <2> QED
    BY <1>1, <1>7, <2>1 DEF AbortMerge, SavedOK
<1>8. CASE DeleteBranch(b)
  BY <1>1, <1>8, EmptyTreeTyping DEF DeleteBranch, SavedOK, NotTrunk
<1>9. CASE UNCHANGED git
  BY <1>9 DEF git, SavedOK
<1> QED
  BY <1>2, <1>3, <1>4, <1>5, <1>6, <1>7, <1>8, <1>9

\* Steps that leave MERGE_STATE alone in the work tree, and everywhere else.
LEMMA SavedStays ==
    ASSUME SavedOK, wt'.saved = wt.saved, UNCHANGED tip
    PROVE  SavedOK'
BY DEF SavedOK, NotTrunk

LEMMA SurvivalFlow ==
    ASSUME Base \in Trunks, SurvivalInv,
           \/ ClosedOnTrunk \/ CommitClosure \/ CheckoutBase \/ MergeBranch
           \/ MergeStops \/ MergeFails \/ DeleteMerged \/ ReturnToBranch
           \/ CannotReturn \/ Reopened \/ Stop
    PROVE  Base \in exists' /\ SavedOK' /\ PastClose'
<1>1. GitOK /\ OpOK /\ SavedOK /\ PastClose /\ Base \in exists /\ Base \in Branches
  BY TypeOKParts, MergeAssumption DEF SurvivalInv
<1>2. ASSUME op' = Idle PROVE PastClose'
  BY <1>2 DEF PastClose
<1>3. CASE ClosedOnTrunk \/ CannotReturn \/ Stop
  <2>1. UNCHANGED git /\ op' = Idle
    BY <1>3 DEF ClosedOnTrunk, CannotReturn, Stop
  <2> QED
    BY <1>1, <1>2, <2>1, SavedMoves DEF git
<1>4. ASSUME op \in Ops, op # Idle, op.branch \notin Trunks, NEW pc, Step(pc)
      PROVE  PastClose'
  BY <1>4 DEF Step, Ops, PastClose
<1>5. CASE CommitClosure
  <2>1. op \in Ops /\ op # Idle /\ op.branch \notin Trunks
    BY <1>1, <1>5, AtStep DEF CommitClosure, IsMainBranch
  <2> QED
    BY <1>1, <1>4, <1>5, <2>1, SavedMoves DEF CommitClosure, Commit
<1>6. ASSUME op.pc # "idle", op.pc # "close"
      PROVE  op \in Ops /\ op # Idle /\ op.branch \notin Trunks /\ op.branch \in Branches
             /\ op.squash \in BOOLEAN /\ op.branch # Base
  <2>1. op \in Ops /\ op # Idle
    BY <1>1, <1>6, AtStep
  <2> QED
    BY <1>1, <1>6, <2>1 DEF PastClose, Ops
<1>7. CASE CheckoutBase
  BY <1>1, <1>4, <1>6, <1>7, SavedMoves DEF CheckoutBase, CheckoutBranch
<1>8. CASE MergeBranch
  BY <1>1, <1>4, <1>6, <1>8, SavedMoves DEF MergeBranch, MergeClean
<1>9. CASE MergeStops
  BY <1>1, <1>4, <1>6, <1>9, SavedMoves DEF MergeStops, MergeConflict
<1>10. CASE MergeFails
  BY <1>1, <1>2, <1>6, <1>10, SavedMoves DEF MergeFails, CheckoutBranch
<1>11. CASE DeleteMerged
  <2>1. op \in Ops /\ op # Idle /\ op.branch \notin Trunks /\ op.branch \in Branches
        /\ op.branch # Base
    BY <1>6, <1>11 DEF DeleteMerged
  <2>2. SavedOK'
    BY <1>1, <1>11, <2>1, SavedMoves DEF DeleteMerged
  <2>3. Base \in exists'
    BY <1>1, <1>11, <2>1 DEF DeleteMerged, DeleteBranch, git
  <2>4. PastClose'
    BY <1>2, <1>4, <1>11, <2>1 DEF DeleteMerged
  <2> QED
    BY <2>2, <2>3, <2>4
<1>12. CASE ReturnToBranch
  BY <1>1, <1>4, <1>6, <1>12, SavedMoves DEF ReturnToBranch, CheckoutBranch
<1>13. CASE Reopened
  <2>1. UNCHANGED git /\ Step("clear") /\ op.pc = "reopen"
    BY <1>13 DEF Reopened
  <2> QED
    BY <1>1, <1>4, <1>6, <2>1, SavedMoves DEF git
<1> QED
  BY <1>3, <1>5, <1>7, <1>8, <1>9, <1>10, <1>11, <1>12, <1>13

LEMMA SurvivalFeature ==
    ASSUME SurvivalInv, NEW f \in Features,
           CloseFeature(f) \/ ReopenFeature(f) \/ CreateFeature(f)
    PROVE  Base \in exists' /\ SavedOK' /\ PastClose'
<1>1. GitOK /\ OpOK /\ SavedOK /\ PastClose /\ Base \in exists /\ wt \in Trees
  BY TypeOKParts DEF SurvivalInv, GitOK
<1>2. UNCHANGED <<tip, exists>>
  BY DEF CloseFeature, ReopenFeature, CreateFeature
<1>3. wt'.saved = wt.saved
  BY <1>1, ChangeTyping DEF CloseFeature, ReopenFeature, CreateFeature, Trees
<1>4. SavedOK'
  BY <1>1, <1>2, <1>3, SavedStays
<1>5. CASE CreateFeature(f)
  BY <1>1, <1>2, <1>4, <1>5 DEF CreateFeature, PastClose
<1>6. CASE CloseFeature(f) \/ ReopenFeature(f)
  <2>1. op \in Ops /\ op # Idle /\ op' = [op EXCEPT !.todo = @ \ {f}]
    BY <1>1, <1>6, AtStep DEF CloseFeature, ReopenFeature
  <2>2. op'.pc = op.pc /\ op'.branch = op.branch
    BY <2>1 DEF Ops
  <2>3. PastClose'
    BY <1>1, <2>1, <2>2 DEF PastClose
  <2> QED
    BY <1>1, <1>2, <1>4, <2>3
<1> QED
  BY <1>5, <1>6

LEMMA SurvivalWrite ==
    ASSUME SurvivalInv,
           \/ SaveMergeState \/ ClearMergeState \/ ContinueBegin \/ AbortBegin
           \/ \E ids \in SUBSET Features, noDelete, squash \in BOOLEAN :
                  MergeBegin(ids, noDelete, squash)
    PROVE  Base \in exists' /\ SavedOK' /\ PastClose'
<1>1. GitOK /\ OpOK /\ SavedOK /\ PastClose /\ Base \in exists /\ Base \in Branches
      /\ wt \in Trees /\ NotTrunk(wt.saved)
  BY TypeOKParts, MergeAssumption DEF SurvivalInv, GitOK, SavedOK
<1>2. CASE SaveMergeState
  <2>1. op \in Ops /\ op # Idle /\ op.branch \notin Trunks
    BY <1>1, <1>2, AtStep DEF SaveMergeState, PastClose
  <2>2. wt'.saved.branch = op.branch
    BY <1>1, <1>2 DEF SaveMergeState, Trees
  <2> QED
    BY <1>1, <1>2, <2>1, <2>2 DEF SaveMergeState, SavedOK, NotTrunk, PastClose
<1>3. CASE ClearMergeState
  <2>1. wt'.saved = NoState
    BY <1>1, <1>3 DEF ClearMergeState, Trees
  <2> QED
    BY <1>1, <1>3, <2>1 DEF ClearMergeState, SavedOK, NotTrunk, PastClose
<1>4. CASE ContinueBegin
  <2>1. Base \in exists' /\ SavedOK'
    BY <1>1, <1>4, SavedMoves DEF ContinueBegin, Commit, git
  <2>2. op'.branch = wt.saved.branch
    BY <1>1, <1>4, ResumeTyping DEF ContinueBegin
  <2> QED
    BY <1>1, <1>4, <2>1, <2>2 DEF ContinueBegin, NotTrunk, PastClose
<1>5. CASE AbortBegin
  <2>1. Base \in exists' /\ SavedOK'
    BY <1>1, <1>5, SavedMoves DEF AbortBegin, AbortMerge, git
  <2>2. op'.branch = wt.saved.branch
    BY <1>1, <1>5, ResumeTyping DEF AbortBegin
  <2> QED
    BY <1>1, <1>5, <2>1, <2>2 DEF AbortBegin, NotTrunk, PastClose
<1>6. CASE \E ids \in SUBSET Features, noDelete, squash \in BOOLEAN :
               MergeBegin(ids, noDelete, squash)
  <2>1. UNCHANGED git /\ op'.pc = "close"
    BY <1>6 DEF MergeBegin
  <2> QED
    BY <1>1, <2>1, SavedMoves DEF git, PastClose
<1> QED
  BY <1>2, <1>3, <1>4, <1>5, <1>6

LEMMA SurvivalUser ==
    ASSUME SurvivalInv, NEW b \in Branches,
           NewBranch(b) \/ UserCheckout(b) \/ Edit \/ CommitWork \/ ResolveConflicts \/ UserAbort
    PROVE  Base \in exists' /\ SavedOK' /\ PastClose'
<1>1. GitOK /\ SavedOK /\ PastClose /\ Base \in exists /\ wt \in Trees
  BY TypeOKParts DEF SurvivalInv, GitOK
<1>2. PastClose'
  BY <1>1 DEF PastClose, NewBranch, UserCheckout, Edit, CommitWork, ResolveConflicts, UserAbort
<1>3. Base \in exists'
  BY <1>1 DEF NewBranch, CreateBranch, UserCheckout, CheckoutBranch, Edit, CommitWork,
     ResolveConflicts, UserAbort, AbortMerge
<1>4. CASE NewBranch(b) \/ UserCheckout(b) \/ UserAbort
  BY <1>1, <1>2, <1>3, <1>4, SavedMoves DEF NewBranch, UserCheckout, UserAbort
<1>5. CASE Edit
  <2>1. wt'.saved = wt.saved
    BY <1>1, <1>5 DEF Edit, Trees
  <2> QED
    BY <1>1, <1>2, <1>3, <1>5, <2>1, SavedStays DEF Edit
<1>6. CASE CommitWork
  <2>1. PICK s \in {wt.saved, tip[head].saved} :
            tip' = [tip EXCEPT ![head] = [wt EXCEPT !.saved = s]]
    BY <1>6 DEF CommitWork
  <2>2. NotTrunk(s) /\ [wt EXCEPT !.saved = s].saved = s
    BY <1>1, <2>1 DEF SavedOK, GitOK, Trees
  <2>3. \A c \in Branches : NotTrunk(tip'[c].saved)
    BY <1>1, <2>1, <2>2 DEF SavedOK, GitOK
  <2> QED
    BY <1>1, <1>2, <1>3, <1>6, <2>3 DEF CommitWork, SavedOK
<1>7. CASE ResolveConflicts
  BY <1>1, <1>2, <1>3, <1>7, SavedStays DEF ResolveConflicts
<1> QED
  BY <1>4, <1>5, <1>6, <1>7

LEMMA SurvivalStep ==
    ASSUME Base \in Trunks, SurvivalInv, [Next]_vars
    PROVE  SurvivalInv'
<1>1. TypeOK'
  BY TypeStep DEF SurvivalInv
<1>2. CASE UNCHANGED vars
  BY <1>1, <1>2 DEF vars, git, SurvivalInv, SavedOK, PastClose
<1>3. CASE \E f \in Features : CloseFeature(f) \/ ReopenFeature(f) \/ CreateFeature(f)
  BY <1>1, <1>3, SurvivalFeature DEF SurvivalInv
<1>4. CASE \E b \in Branches : NewBranch(b) \/ UserCheckout(b)
  BY <1>1, <1>4, SurvivalUser DEF SurvivalInv
<1>5. CASE Edit \/ CommitWork \/ ResolveConflicts \/ UserAbort
  BY <1>1, <1>5, MergeAssumption, SurvivalUser DEF SurvivalInv
<1>6. CASE \/ ClosedOnTrunk \/ CommitClosure \/ CheckoutBase \/ MergeBranch
           \/ MergeStops \/ MergeFails \/ DeleteMerged \/ ReturnToBranch
           \/ CannotReturn \/ Reopened \/ Stop
  BY <1>1, <1>6, SurvivalFlow DEF SurvivalInv
<1>7. CASE \/ SaveMergeState \/ ClearMergeState \/ ContinueBegin \/ AbortBegin
           \/ \E ids \in SUBSET Features, noDelete, squash \in BOOLEAN :
                  MergeBegin(ids, noDelete, squash)
  BY <1>1, <1>7, SurvivalWrite DEF SurvivalInv
<1> QED
  BY <1>2, <1>3, <1>4, <1>5, <1>6, <1>7 DEF Next

LEMMA SurvivalInit ==
    ASSUME Base \in Trunks, Init
    PROVE  SurvivalInv
<1>1. TypeOK
  BY TypeInit
<1> QED
  BY <1>1, EmptyTreeTyping DEF Init, SurvivalInv, SavedOK, NotTrunk, PastClose

\* When the base branch is one IsTrunkBranch knows, no run of fogit merge deletes
\* it: whatever is cut short, and however undisciplined the user.
THEOREM BaseSurvivesOnTrunk ==
    ASSUME Base \in Trunks
    PROVE  Spec => []BaseSurvives
<1>1. Init => SurvivalInv
  BY SurvivalInit
<1>2. SurvivalInv /\ [Next]_vars => SurvivalInv'
  BY SurvivalStep
<1>3. SurvivalInv => BaseSurvives
  BY DEF SurvivalInv, BaseSurvives
<1> QED
  BY <1>1, <1>2, <1>3, PTL DEF Spec
-----------------------------------------------------------------------------
(* Lemmas about trees and git *)

LEMMA WithinSelf ==
    ASSUME NEW t \in Trees
    PROVE  Within(t, t)
BY MergeAssumption DEF Within, Trees

LEMMA EmptyWithin ==
    ASSUME NEW t \in Trees
    PROVE  Within(EmptyTree, t)
BY DEF Within, Trees, EmptyTree

\* What a merge makes of two trees holds both, and no work but theirs.
LEMMA MergedWithin ==
    ASSUME NEW s \in Trees, NEW t \in Trees, NEW m \in Merged(s, t)
    PROVE  /\ Within(s, m) /\ Within(t, m)
           /\ m.work = s.work \cup t.work
<1>1. /\ m.feat = [f \in Features |-> IF s.feat[f] <= t.feat[f] THEN t.feat[f] ELSE s.feat[f]]
      /\ m.work = s.work \cup t.work
  BY DEF Merged
<1>2. \A f \in Features : s.feat[f] \in Nat /\ t.feat[f] \in Nat
  BY MergeAssumption DEF Trees
<1> QED
  BY <1>1, <1>2 DEF Within

\* With nothing to carry over, a checkout leaves the branch's own tree.
LEMMA CleanCheckout ==
    ASSUME wt \in Trees, NEW t \in Trees
    PROVE  CarriedTo(wt, t) = t
<1>1. /\ t.feat \in [Features -> 0..MaxChanges]
      /\ t.work \subseteq Branches
      /\ t = [feat |-> t.feat, work |-> t.work, saved |-> t.saved]
  BY DEF Trees
<1>2. [f \in Features |-> Carry(wt.feat[f], wt.feat[f], t.feat[f])] = t.feat
  BY <1>1 DEF Carry
<1>3. {w \in Branches : Carry(w \in wt.work, w \in wt.work, w \in t.work)} = t.work
  BY <1>1 DEF Carry
<1> QED
  BY <1>1, <1>2, <1>3 DEF CarriedTo, Carry

\* The fields of an operation that goes on.
LEMMA StepFields ==
    ASSUME OpOK, op # Idle, NEW pc, Step(pc), <<op.kind, pc>> \in Steps
    PROVE  /\ op' # Idle /\ op'.pc = pc
           /\ op'.kind = op.kind /\ op'.branch = op.branch /\ op'.squash = op.squash
           /\ op'.noDelete = op.noDelete /\ op'.ids = op.ids /\ op'.todo = op.todo
<1>1. op \in Ops
  BY DEF OpOK
<1> QED
  BY <1>1, StepTyping DEF Step, Ops

LEMMA TodoFields ==
    ASSUME op \in Ops, NEW f, op' = [op EXCEPT !.todo = @ \ {f}]
    PROVE  /\ op'.pc = op.pc /\ op'.kind = op.kind
           /\ op'.branch = op.branch /\ op'.squash = op.squash
           /\ op'.noDelete = op.noDelete /\ op'.ids = op.ids
           /\ op'.todo = op.todo \ {f}
BY DEF Ops

\* Changing a feature leaves the rest of the tree.
LEMMA ChangeFields ==
    ASSUME NEW t \in Trees, NEW f \in Features
    PROVE  /\ [t EXCEPT !.feat[f] = @ + 1].work = t.work
           /\ [t EXCEPT !.feat[f] = @ + 1].saved = t.saved
BY DEF Trees

-----------------------------------------------------------------------------
(***************************************************************************)
(* What a merge deletes has been delivered.  Between its steps a merge     *)
(* knows where it is and what the work tree holds; a merge that stopped on *)
(* conflicts, for as long as it waits, stays on the base branch with all   *)
(* of the merged branch in the work tree, and with all of it committed     *)
(* once git is no longer merging, unless it squashes.                      *)
(***************************************************************************)
MergeSteps ==
    op # Idle /\ op.kind = "merge" =>
        /\ fate # "waiting"
        /\ op.branch \in exists
        /\ op.pc = "close" => /\ wt.work = tip[head].work /\ wt.saved = NoState
                              /\ head = op.branch /\ ~conflicted
        /\ op.pc = "checkout" => wt = tip[head] /\ head = op.branch
        /\ op.pc \in {"merge", "save", "delete"} => head = Base
        /\ op.pc = "merge" => wt = tip[head] /\ ~merging
        /\ op.pc = "save" => /\ Within(tip[op.branch], wt)
                             /\ wt.work \subseteq tip[Base].work \cup tip[op.branch].work
                             /\ op.squash \/ merging
        /\ op.pc = "delete" => /\ Within(tip[op.branch], wt)
                               /\ op.squash \/ Within(tip[op.branch], tip[Base])
                               /\ ~merging

WaitInv ==
    fate = "waiting" =>
        /\ op = Idle \/ op.kind = "continue"
        /\ wt.saved # NoState
        /\ head = Base
        /\ Within(tip[wt.saved.branch], wt)
        /\ wt.saved.squash \/ merging \/ Within(tip[wt.saved.branch], tip[Base])
        /\ op # Idle => /\ op.branch = wt.saved.branch /\ op.squash = wt.saved.squash
                        /\ op.squash \/ Within(tip[op.branch], tip[Base])

LEMMA DeliverMerge ==
    ASSUME Base \in Trunks, SurvivalInv, MergeSteps, WaitInv,
           \/ \E f \in Features : CloseFeature(f)
           \/ ClosedOnTrunk \/ CommitClosure \/ CheckoutBase \/ MergeBranch
           \/ MergeStops \/ MergeFails \/ SaveMergeState
    PROVE  MergeSteps' /\ WaitInv'
<1>1. /\ GitOK /\ OpOK /\ Base \in Branches /\ head \in Branches /\ wt \in Trees
      /\ tip \in [Branches -> Trees]
  BY TypeOKParts, MergeAssumption DEF SurvivalInv, GitOK
<1>2. op.pc \in {"close", "checkout", "merge", "save"}
  BY DEF CloseFeature, ClosedOnTrunk, CommitClosure, CheckoutBase, MergeBranch,
         MergeStops, MergeFails, SaveMergeState
<1>3. op \in Ops /\ op # Idle /\ op.kind = "merge" /\ op.branch \in Branches
      /\ op.squash \in BOOLEAN
  BY <1>1, <1>2, AtStep DEF Ops
<1>4. fate # "waiting" /\ op.branch \in exists
  BY <1>3 DEF MergeSteps
<1>5. op.pc # "close" => op.branch # Base
  BY <1>3 DEF SurvivalInv, PastClose
<1>6. ASSUME op' = Idle, fate' = fate
      PROVE  MergeSteps' /\ WaitInv'
  BY <1>4, <1>6 DEF MergeSteps, WaitInv
<1>7. CASE \E f \in Features : CloseFeature(f)
  <2>1. PICK f \in Features : CloseFeature(f)
    BY <1>7
  <2>2. /\ op'.pc = "close" /\ op'.kind = "merge" /\ op'.branch = op.branch
    BY <1>3, <2>1, TodoFields DEF CloseFeature
  <2>3. wt'.work = wt.work /\ wt'.saved = wt.saved
    BY <1>1, <2>1, ChangeFields DEF CloseFeature
  <2>4. UNCHANGED <<tip, exists, head, merging, conflicted, fate>>
    BY <2>1 DEF CloseFeature, hist
  <2>5. /\ wt.work = tip[head].work /\ wt.saved = NoState
        /\ head = op.branch /\ ~conflicted
    BY <1>3, <2>1 DEF MergeSteps, CloseFeature
  <2> QED
    BY <1>4, <2>2, <2>3, <2>4, <2>5 DEF MergeSteps, WaitInv
<1>8. CASE ClosedOnTrunk \/ MergeFails
  BY <1>6, <1>8 DEF ClosedOnTrunk, MergeFails, hist
<1>9. CASE CommitClosure
  <2>1. <<op.kind, "checkout">> \in Steps
    BY <1>3 DEF Steps
  <2>2. op'.pc = "checkout" /\ op'.kind = "merge" /\ op'.branch = op.branch
    BY <1>1, <1>3, <1>9, <2>1, StepFields DEF CommitClosure
  <2>3. head = op.branch
    BY <1>3, <1>9 DEF MergeSteps, CommitClosure
  <2>4. /\ wt' = wt /\ head' = head /\ exists' = exists /\ fate' = fate
        /\ tip'[head] = wt
    BY <1>1, <1>9 DEF CommitClosure, Commit, hist
  <2> QED
    BY <1>4, <2>2, <2>3, <2>4 DEF MergeSteps, WaitInv
<1>10. CASE CheckoutBase
  <2>1. <<op.kind, "merge">> \in Steps
    BY <1>3 DEF Steps
  <2>2. op'.pc = "merge" /\ op'.kind = "merge" /\ op'.branch = op.branch
    BY <1>1, <1>3, <1>10, <2>1, StepFields DEF CheckoutBase
  <2>3. wt = tip[head]
    BY <1>3, <1>10 DEF MergeSteps, CheckoutBase
  <2>4. /\ head' = Base /\ merging' = FALSE /\ UNCHANGED <<tip, exists, fate>>
        /\ wt' = CarriedTo(tip[head], tip[Base])
    BY <1>10 DEF CheckoutBase, CheckoutBranch, hist
  <2>5. wt' = tip[Base]
    BY <1>1, <2>3, <2>4, CleanCheckout
  <2> QED
    BY <1>4, <2>2, <2>4, <2>5 DEF MergeSteps, WaitInv
<1>11. ASSUME op.pc = "merge"
       PROVE  head = Base /\ wt = tip[Base] /\ ~merging
  BY <1>3, <1>11 DEF MergeSteps
<1>12. CASE MergeBranch
  <2>1. <<op.kind, "delete">> \in Steps
    BY <1>3 DEF Steps
  <2>2. /\ op'.pc = "delete" /\ op'.kind = "merge" /\ op'.branch = op.branch
        /\ op'.squash = op.squash
    BY <1>1, <1>3, <1>12, <2>1, StepFields DEF MergeBranch
  <2>3. PICK t \in Merged(tip[Base], tip[op.branch]) :
            /\ wt' = t
            /\ tip' = IF op.squash THEN tip ELSE [tip EXCEPT ![Base] = t]
            /\ UNCHANGED <<exists, head, merging, fate>>
    BY <1>11, <1>12 DEF MergeBranch, MergeClean, hist
  <2>4. Within(tip[op.branch], t)
    BY <1>1, <1>3, <2>3, MergedWithin
  <2>5. tip'[op.branch] = tip[op.branch] /\ (op.squash \/ tip'[Base] = t)
    BY <1>1, <1>3, <1>5, <1>12, <2>3 DEF MergeBranch
  <2> QED
    BY <1>4, <1>11, <1>12, <2>2, <2>3, <2>4, <2>5 DEF MergeSteps, WaitInv, MergeBranch
<1>13. CASE MergeStops
  <2>1. <<op.kind, "save">> \in Steps
    BY <1>3 DEF Steps
  <2>2. /\ op'.pc = "save" /\ op'.kind = "merge" /\ op'.branch = op.branch
        /\ op'.squash = op.squash
    BY <1>1, <1>3, <1>13, <2>1, StepFields DEF MergeStops
  <2>3. /\ wt' \in Merged(tip[Base], tip[op.branch])
        /\ merging' = ~op.squash
        /\ UNCHANGED <<tip, exists, head, fate>>
    BY <1>11, <1>13 DEF MergeStops, MergeConflict, hist
  <2>4. /\ Within(tip[op.branch], wt')
        /\ wt'.work = tip[Base].work \cup tip[op.branch].work
    BY <1>1, <1>3, <2>3, MergedWithin
  <2> QED
    BY <1>3, <1>4, <1>11, <1>13, <2>2, <2>3, <2>4 DEF MergeSteps, WaitInv, MergeStops
<1>14. CASE SaveMergeState
  <2>1. /\ head = Base /\ Within(tip[op.branch], wt) /\ (op.squash \/ merging)
    BY <1>3, <1>14 DEF MergeSteps, SaveMergeState
  <2> DEFINE s == [branch |-> op.branch, ids |-> op.ids,
                   noDelete |-> op.noDelete, squash |-> op.squash]
  <2>2. s \in MergeState
    BY <1>3 DEF Ops, MergeState
  <2>3. s # NoState /\ s.branch = op.branch /\ s.squash = op.squash
    BY <2>2, MergeAssumption
  <2>4. /\ wt' = [wt EXCEPT !.saved = s] /\ op' = Idle
        /\ UNCHANGED <<tip, exists, head, merging>>
    BY <1>14 DEF SaveMergeState
  <2>5. wt'.saved = s /\ wt'.work = wt.work /\ wt'.feat = wt.feat
    BY <1>1, <2>4 DEF Trees
  <2>6. Within(tip[op.branch], wt')
    BY <2>1, <2>5 DEF Within
  <2>7. MergeSteps'
    BY <2>4 DEF MergeSteps
  <2>8. WaitInv'
    BY <2>1, <2>3, <2>4, <2>5, <2>6 DEF WaitInv
  <2> QED
    BY <2>7, <2>8
<1> QED
  BY <1>7, <1>8, <1>9, <1>10, <1>12, <1>13, <1>14

LEMMA DeliverContinue ==
    ASSUME Base \in Trunks, SurvivalInv, MergeSteps, WaitInv,
           DeleteMerged \/ ContinueBegin \/ ClearMergeState
    PROVE  MergeSteps' /\ WaitInv'
<1>1. /\ GitOK /\ OpOK /\ Base \in Branches /\ head \in Branches /\ wt \in Trees
      /\ tip \in [Branches -> Trees]
  BY TypeOKParts, MergeAssumption DEF SurvivalInv, GitOK
<1>2. ASSUME op' = Idle, fate' # "waiting"
      PROVE  MergeSteps' /\ WaitInv'
  BY <1>2 DEF MergeSteps, WaitInv
<1>3. CASE ClearMergeState
  BY <1>2, <1>3 DEF ClearMergeState
<1>4. CASE ContinueBegin
  <2>1. /\ op = Idle /\ wt.saved # NoState
        /\ IF merging THEN Commit ELSE UNCHANGED git
        /\ Resume("continue", "delete")
        /\ fate' = fate
    BY <1>4 DEF ContinueBegin, hist
  <2>2. /\ op'.kind = "continue" /\ op'.branch = wt.saved.branch
        /\ op'.squash = wt.saved.squash
    BY <2>1 DEF Resume
  <2>3. MergeSteps'
    BY <2>2 DEF MergeSteps
  <2>4. wt' = wt /\ head' = head
    BY <2>1 DEF Commit, git
  <2>5. SUFFICES ASSUME fate = "waiting" PROVE WaitInv'
    BY <2>1, <2>3 DEF WaitInv
  <2>6. /\ head = Base /\ Within(tip[wt.saved.branch], wt)
        /\ wt.saved.squash \/ merging \/ Within(tip[wt.saved.branch], tip[Base])
    BY <2>5 DEF WaitInv
  <2>7. wt.saved \in MergeState /\ wt.saved.branch \in Branches
        /\ wt.saved.branch # Base
    BY <1>1, <2>1 DEF Trees, MergeState, SurvivalInv, SavedOK, NotTrunk
  <2>8. CASE merging
    <3>1. tip' = [tip EXCEPT ![Base] = wt]
      BY <2>1, <2>6, <2>8 DEF Commit
    <3>2. tip'[wt.saved.branch] = tip[wt.saved.branch] /\ tip'[Base] = wt
      BY <1>1, <2>7, <3>1
    <3> QED
      BY <2>1, <2>2, <2>4, <2>6, <3>2 DEF WaitInv
  <2>9. CASE ~merging
    <3>1. UNCHANGED <<tip, merging>>
      BY <2>1, <2>9 DEF git
    <3> QED
      BY <2>1, <2>2, <2>4, <2>6, <2>9, <3>1 DEF WaitInv
  <2> QED
    BY <2>8, <2>9
<1>5. CASE DeleteMerged
  <2>1. op \in Ops /\ op # Idle /\ op.kind \in {"merge", "continue"} /\ op.branch \in Branches
    BY <1>1, <1>5, AtStep DEF DeleteMerged, Ops
  <2>2. op.branch # Base
    BY <1>5, <2>1 DEF DeleteMerged, SurvivalInv, PastClose
  <2>3. UNCHANGED <<head, wt, merging, fate>>
    BY <1>5 DEF DeleteMerged, DeleteBranch, git, hist
  <2>4. CASE op.kind = "merge"
    BY <1>2, <1>5, <2>1, <2>3, <2>4 DEF DeleteMerged, MergeSteps
  <2>5. CASE op.kind = "continue"
    <3>1. <<op.kind, "clear">> \in Steps
      BY <2>5 DEF Steps
    <3>2. /\ op' # Idle /\ op'.kind = "continue" /\ op'.branch = op.branch
          /\ op'.squash = op.squash
      BY <1>1, <1>5, <2>1, <2>5, <3>1, StepFields DEF DeleteMerged
    <3>3. MergeSteps'
      BY <3>2 DEF MergeSteps
    <3>4. SUFFICES ASSUME fate = "waiting" PROVE WaitInv'
      BY <2>3, <3>3 DEF WaitInv
    <3>5. /\ wt.saved # NoState /\ head = Base
          /\ op.branch = wt.saved.branch /\ op.squash = wt.saved.squash
          /\ Within(tip[op.branch], wt)
          /\ op.squash \/ merging \/ Within(tip[op.branch], tip[Base])
          /\ op.squash \/ Within(tip[op.branch], tip[Base])
      BY <2>1, <3>4 DEF WaitInv
    <3>6. tip'[Base] = tip[Base] /\ tip'[op.branch] \in {tip[op.branch], EmptyTree}
      BY <1>1, <1>5, <2>1, <2>2 DEF DeleteMerged, DeleteBranch, git
    <3>7. Within(EmptyTree, wt) /\ Within(EmptyTree, tip[Base])
      BY <1>1, EmptyWithin
    <3> QED
      BY <2>3, <3>2, <3>5, <3>6, <3>7 DEF WaitInv
  <2> QED
    BY <2>1, <2>4, <2>5
<1> QED
  BY <1>3, <1>4, <1>5

\* The beginning of a merge, the steps of an abort and a command cut short.
LEMMA DeliverOther ==
    ASSUME Base \in Trunks, SurvivalInv, MergeSteps, WaitInv,
           \/ \E ids \in SUBSET Features, noDelete, squash \in BOOLEAN :
                  MergeBegin(ids, noDelete, squash)
           \/ \E f \in Features : ReopenFeature(f)
           \/ AbortBegin \/ ReturnToBranch \/ CannotReturn \/ Reopened \/ Stop
    PROVE  MergeSteps' /\ WaitInv'
<1>1. GitOK /\ OpOK
  BY TypeOKParts DEF SurvivalInv
<1>2. CASE \E ids \in SUBSET Features, noDelete, squash \in BOOLEAN :
               MergeBegin(ids, noDelete, squash)
  <2>1. /\ op = Idle /\ wt.saved = NoState /\ head \in exists /\ ~Dirty
        /\ UNCHANGED <<tip, exists, head, wt, conflicted, fate>>
    BY <1>2 DEF MergeBegin, git, hist
  <2>2. op'.pc = "close" /\ op'.kind = "merge" /\ op'.branch = head
    BY <1>2 DEF MergeBegin
  <2>3. fate # "waiting"
    BY <2>1 DEF WaitInv
  <2> QED
    BY <2>1, <2>2, <2>3 DEF MergeSteps, WaitInv, Dirty
<1>3. CASE Stop
  <2>1. op # Idle /\ op' = Idle
        /\ UNCHANGED <<tip, exists, head, wt, merging, conflicted, fate>>
    BY <1>3 DEF Stop, git, hist
  <2> QED
    BY <2>1 DEF MergeSteps, WaitInv
<1>4. CASE AbortBegin
  <2>1. op'.kind = "abort" /\ fate' = "aborted"
    BY <1>4 DEF AbortBegin, Resume
  <2> QED
    BY <2>1 DEF MergeSteps, WaitInv
<1>5. ASSUME op \in Ops, op # Idle, op.kind = "abort", fate' = fate,
             op' = Idle \/ op'.kind = "abort"
      PROVE  MergeSteps' /\ WaitInv'
  BY <1>5 DEF MergeSteps, WaitInv
<1>6. CASE CannotReturn
  BY <1>1, <1>5, <1>6, AtStep DEF CannotReturn, hist
<1>7. CASE ReturnToBranch
  <2>1. op \in Ops /\ op # Idle /\ op.kind = "abort"
    BY <1>1, <1>7, AtStep DEF ReturnToBranch
  <2>2. <<op.kind, "reopen">> \in Steps
    BY <2>1 DEF Steps
  <2> QED
    BY <1>1, <1>5, <1>7, <2>1, <2>2, StepFields DEF ReturnToBranch, hist
<1>8. CASE Reopened
  <2>1. op \in Ops /\ op # Idle /\ op.kind = "abort"
    BY <1>1, <1>8, AtStep DEF Reopened
  <2>2. <<op.kind, "clear">> \in Steps
    BY <2>1 DEF Steps
  <2> QED
    BY <1>1, <1>5, <1>8, <2>1, <2>2, StepFields DEF Reopened, hist
<1>9. CASE \E f \in Features : ReopenFeature(f)
  <2>1. op \in Ops /\ op # Idle /\ op.kind = "abort"
    BY <1>1, <1>9, AtStep DEF ReopenFeature
  <2>2. op'.kind = "abort"
    BY <1>9, <2>1, TodoFields DEF ReopenFeature
  <2> QED
    BY <1>5, <1>9, <2>1, <2>2 DEF ReopenFeature, hist
<1> QED
  BY <1>2, <1>3, <1>4, <1>6, <1>7, <1>8, <1>9

\* A disciplined user leaves a waiting merge where it is but for resolving and
\* committing it.
LEMMA DeliverUser ==
    ASSUME Disciplined, Base \in Trunks, SurvivalInv, MergeSteps, WaitInv,
           \/ \E f \in Features : CreateFeature(f)
           \/ \E b \in Branches : NewBranch(b) \/ UserCheckout(b)
           \/ Edit \/ CommitWork \/ ResolveConflicts \/ UserAbort
    PROVE  MergeSteps' /\ WaitInv'
<1>1. /\ GitOK /\ Base \in Branches /\ head \in Branches /\ wt \in Trees
      /\ tip \in [Branches -> Trees]
  BY TypeOKParts, MergeAssumption DEF SurvivalInv, GitOK
<1>2. op = Idle /\ op' = Idle
  BY DEF CreateFeature, NewBranch, UserCheckout, Edit, CommitWork, ResolveConflicts,
         UserAbort, Free, hist
<1>3. MergeSteps'
  BY <1>2 DEF MergeSteps
<1>4. ASSUME Free, fate' = fate
      PROVE  WaitInv'
  BY <1>4 DEF Free, Waiting, WaitInv
<1>5. CASE \/ \E f \in Features : CreateFeature(f)
           \/ \E b \in Branches : NewBranch(b) \/ UserCheckout(b)
           \/ Edit
  BY <1>3, <1>4, <1>5 DEF CreateFeature, NewBranch, UserCheckout, Edit, hist
<1>6. CASE ResolveConflicts
  <2>1. UNCHANGED <<tip, head, wt, merging, fate>>
    BY <1>6 DEF ResolveConflicts, hist
  <2> QED
    BY <1>2, <1>3, <2>1 DEF WaitInv
<1>7. CASE UserAbort
  BY <1>3, <1>7 DEF UserAbort, WaitInv
<1>8. CASE CommitWork
  <2>1. PICK s \in {wt.saved, tip[head].saved} :
            tip' = [tip EXCEPT ![head] = [wt EXCEPT !.saved = s]]
    BY <1>8 DEF CommitWork
  <2>2. UNCHANGED <<head, wt, fate>>
    BY <1>8 DEF CommitWork, hist
  <2>3. SUFFICES ASSUME fate = "waiting" PROVE WaitInv'
    BY <1>3, <2>2 DEF WaitInv
  <2>4. /\ wt.saved # NoState /\ head = Base /\ Within(tip[wt.saved.branch], wt)
    BY <2>3 DEF WaitInv
  <2>5. wt.saved.branch \in Branches /\ wt.saved.branch # Base
    BY <1>1, <2>4 DEF Trees, MergeState, SurvivalInv, SavedOK, NotTrunk
  <2>6. /\ tip'[wt.saved.branch] = tip[wt.saved.branch]
        /\ tip'[Base] = [wt EXCEPT !.saved = s]
    BY <1>1, <2>1, <2>4, <2>5
  <2>7. [wt EXCEPT !.saved = s].feat = wt.feat /\ [wt EXCEPT !.saved = s].work = wt.work
    BY <1>1 DEF Trees
  <2>8. Within(tip'[wt.saved.branch], tip'[Base])
    BY <2>4, <2>6, <2>7 DEF Within
  <2> QED
    BY <1>2, <2>2, <2>4, <2>6, <2>8 DEF WaitInv
<1> QED
  BY <1>3, <1>5, <1>6, <1>7, <1>8

DeliverInv == SurvivalInv /\ MergeSteps /\ WaitInv

LEMMA DeliverStep ==
    ASSUME Disciplined, Base \in Trunks, DeliverInv, [Next]_vars
    PROVE  DeliverInv'
<1>1. SurvivalInv'
  BY SurvivalStep DEF DeliverInv
<1>2. SurvivalInv /\ MergeSteps /\ WaitInv
  BY DEF DeliverInv
<1>3. CASE UNCHANGED vars
  <2>1. MergeSteps' /\ WaitInv'
    BY <1>2, <1>3 DEF vars, git, hist, MergeSteps, WaitInv
  <2> QED
    BY <1>1, <2>1 DEF DeliverInv
<1>4. ASSUME Next
      PROVE  MergeSteps' /\ WaitInv'
  BY <1>2, <1>4, DeliverMerge, DeliverContinue, DeliverOther, DeliverUser DEF Next
<1> QED
  BY <1>1, <1>3, <1>4 DEF DeliverInv

\* Only DeleteMerged deletes a branch, when MergeSteps or WaitInv speaks of it.
LEMMA OnlyMergedDeleted ==
    ASSUME Disciplined, Base \in Trunks, DeliverInv, [Next]_vars,
           NEW b \in exists \ exists', op.kind = "merge" \/ fate = "waiting"
    PROVE  head = Base /\ Within(tip[b], IF op.squash THEN wt ELSE tip[Base])
<1>1. DeleteMerged
  BY DEF Next, MergeBegin, CloseFeature, ReopenFeature, CreateFeature, ClosedOnTrunk,
         CommitClosure, Commit, CheckoutBase, CheckoutBranch, MergeBranch, MergeClean,
         MergeStops, MergeConflict, MergeFails, SaveMergeState, ContinueBegin,
         ClearMergeState, AbortBegin, AbortMerge, ReturnToBranch, CannotReturn, Reopened,
         Stop, NewBranch, CreateBranch, UserCheckout, Edit, CommitWork, ResolveConflicts,
         UserAbort, git, vars
<1>2. b = op.branch /\ op.pc = "delete"
  BY <1>1 DEF DeleteMerged, DeleteBranch, git
<1>3. op \in Ops /\ op # Idle /\ op.squash \in BOOLEAN /\ op.kind \in {"merge", "continue"}
  BY <1>2, AtStep, TypeOKParts DEF DeliverInv, SurvivalInv, Ops
<1>4. CASE op.kind = "merge"
  BY <1>2, <1>3, <1>4 DEF DeliverInv, MergeSteps
<1>5. CASE op.kind # "merge"
  BY <1>2, <1>3, <1>5 DEF DeliverInv, WaitInv
<1> QED
  BY <1>4, <1>5

\* With a disciplined user a merge, or the --continue of one that waits, deletes
\* a branch only when all it holds has reached the base branch, or of a squashing
\* merge its work tree, whichever commands were cut short before.
THEOREM DeleteDeliversAlways ==
    ASSUME Disciplined, Base \in Trunks
    PROVE  Spec => DeleteDelivers
<1>1. Init => DeliverInv
  <2> SUFFICES ASSUME Init PROVE DeliverInv
    OBVIOUS
  <2>1. SurvivalInv
    BY SurvivalInit
  <2> QED
    BY <2>1 DEF Init, DeliverInv, MergeSteps, WaitInv
<1>2. DeliverInv /\ [Next]_vars => DeliverInv'
  BY DeliverStep
<1>3. DeliverInv /\ [Next]_vars =>
          [\A b \in exists \ exists' : op.kind = "merge" \/ fate = "waiting" =>
              /\ head = Base
              /\ Within(tip[b], IF op.squash THEN wt ELSE tip[Base])]_vars
  BY OnlyMergedDeleted
<1> QED
  BY <1>1, <1>2, <1>3, PTL DEF Spec, DeleteDelivers
-----------------------------------------------------------------------------
(***************************************************************************)
(* Aborting restores.  A feature taken off the list of those to reopen is  *)
(* open, or gone, in the work tree of the feature branch.                  *)
(***************************************************************************)
ReopenInv ==
    op # Idle /\ op.kind = "abort" =>
        /\ op.pc = "return" => op.todo = op.ids
        /\ op.pc \in {"reopen", "clear"} =>
              /\ head = op.branch
              /\ ~merging /\ ~conflicted
              /\ \A f \in op.ids \ op.todo : ~Closed(wt, f)
        /\ op.pc = "clear" => op.todo = {}

LEMMA ChangeReopens ==
    ASSUME NEW t \in Trees, NEW f \in Features, Closed(t, f)
    PROVE  LET u == [t EXCEPT !.feat[f] = @ + 1]
           IN  /\ ~Closed(u, f)
               /\ \A g \in Features \ {f} : Closed(u, g) <=> Closed(t, g)
<1> DEFINE u == [t EXCEPT !.feat[f] = @ + 1]
<1>1. /\ u.feat = [t.feat EXCEPT ![f] = @ + 1]
      /\ t.feat \in [Features -> 0..MaxChanges]
  BY DEF Trees
<1>2. t.feat[f] \in Nat /\ t.feat[f] % 2 = 0
  BY <1>1, MergeAssumption DEF Closed
<1>3. (t.feat[f] + 1) % 2 = 1
  BY <1>2
<1>4. u.feat[f] = t.feat[f] + 1
  BY <1>1
<1>5. ~Closed(u, f)
  BY <1>3, <1>4 DEF Closed
<1>6. \A g \in Features \ {f} : u.feat[g] = t.feat[g]
  BY <1>1
<1> QED
  BY <1>5, <1>6 DEF Closed

LEMMA ReopenStep ==
    ASSUME TypeOK, ReopenInv, [Next]_vars
    PROVE  ReopenInv'
<1>1. GitOK /\ OpOK /\ wt \in Trees
  BY TypeOKParts DEF GitOK
<1>2. ASSUME op' = Idle
      PROVE  ReopenInv'
  BY <1>2 DEF ReopenInv
<1>3. ASSUME op'.kind # "abort" \/ (op'.pc = "return" /\ op'.todo = op'.ids)
      PROVE  ReopenInv'
  BY <1>3 DEF ReopenInv
<1>4. ASSUME op \in Ops, op # Idle, op.kind # "abort", NEW pc, Step(pc), <<op.kind, pc>> \in Steps
      PROVE  ReopenInv'
  BY <1>1, <1>3, <1>4, StepFields
<1>5. CASE UNCHANGED vars
  BY <1>5 DEF vars, git, ReopenInv, Closed
<1>6. CASE \/ ClosedOnTrunk \/ MergeFails \/ SaveMergeState \/ ClearMergeState
           \/ CannotReturn \/ Stop
  BY <1>2, <1>6 DEF ClosedOnTrunk, MergeFails, SaveMergeState, ClearMergeState,
                    CannotReturn, Stop
<1>7. CASE \/ \E f \in Features : CreateFeature(f)
           \/ \E b \in Branches : NewBranch(b) \/ UserCheckout(b)
           \/ Edit \/ CommitWork \/ ResolveConflicts \/ UserAbort
  <2>1. op' = Idle
    BY <1>7 DEF CreateFeature, NewBranch, UserCheckout, Edit, CommitWork,
       ResolveConflicts, UserAbort, Free, hist
  <2> QED
    BY <1>2, <2>1
<1>8. CASE \/ \E ids \in SUBSET Features, noDelete, squash \in BOOLEAN :
                  MergeBegin(ids, noDelete, squash)
           \/ ContinueBegin \/ AbortBegin
  <2>1. op'.kind # "abort" \/ (op'.pc = "return" /\ op'.todo = op'.ids)
    BY <1>8 DEF MergeBegin, ContinueBegin, AbortBegin, Resume
  <2> QED
    BY <1>3, <2>1
<1>9. CASE CommitClosure \/ CheckoutBase \/ MergeBranch \/ MergeStops \/ DeleteMerged
  <2>1. /\ op \in Ops /\ op # Idle
        /\ op.pc = "delete" => op.kind \in {"merge", "continue"}
        /\ op.pc # "delete" => op.kind = "merge"
    BY <1>1, <1>9, AtStep DEF CommitClosure, CheckoutBase, MergeBranch, MergeStops,
       DeleteMerged
  <2>2. CASE CommitClosure
    BY <1>4, <2>1, <2>2 DEF CommitClosure, Steps
  <2>3. CASE CheckoutBase
    BY <1>4, <2>1, <2>3 DEF CheckoutBase, Steps
  <2>4. CASE MergeBranch
    BY <1>4, <2>1, <2>4 DEF MergeBranch, Steps
  <2>5. CASE MergeStops
    BY <1>4, <2>1, <2>5 DEF MergeStops, Steps
  <2>6. CASE DeleteMerged
    BY <1>2, <1>4, <2>1, <2>6 DEF DeleteMerged, Steps
  <2> QED
    BY <1>9, <2>2, <2>3, <2>4, <2>5, <2>6
<1>10. CASE \E f \in Features : CloseFeature(f)
  <2>1. op \in Ops /\ op.kind = "merge"
    BY <1>1, <1>10, AtStep DEF CloseFeature
  <2>2. op'.kind = "merge"
    BY <1>10, <2>1, TodoFields DEF CloseFeature
  <2> QED
    BY <1>3, <2>2
<1>11. CASE ReturnToBranch
  <2>1. op \in Ops /\ op # Idle /\ op.kind = "abort"
    BY <1>1, <1>11, AtStep DEF ReturnToBranch
  <2>2. <<op.kind, "reopen">> \in Steps
    BY <2>1 DEF Steps
  <2>3. /\ op'.pc = "reopen" /\ op'.branch = op.branch
        /\ op'.ids = op.ids /\ op'.todo = op.todo
    BY <1>1, <1>11, <2>1, <2>2, StepFields DEF ReturnToBranch
  <2>4. op.todo = op.ids
    BY <1>11, <2>1 DEF ReopenInv, ReturnToBranch
  <2>5. head' = op.branch /\ ~merging' /\ ~conflicted'
    BY <1>11 DEF ReturnToBranch, CheckoutBranch, CanCheckout
  <2> QED
    BY <2>3, <2>4, <2>5 DEF ReopenInv
<1>12. ASSUME NEW f \in Features, ReopenFeature(f)
       PROVE  ReopenInv'
  <2>1. op \in Ops /\ op # Idle /\ op.kind = "abort" /\ op.pc = "reopen" /\ f \in op.todo
    BY <1>1, <1>12, AtStep DEF ReopenFeature
  <2>2. /\ op'.pc = "reopen" /\ op'.kind = "abort" /\ op'.branch = op.branch
        /\ op'.ids = op.ids /\ op'.todo = op.todo \ {f}
    BY <1>12, <2>1, TodoFields DEF ReopenFeature
  <2>3. UNCHANGED <<head, merging, conflicted>>
    BY <1>12 DEF ReopenFeature
  <2>4. ~Closed(wt', f) /\ \A g \in Features \ {f} : Closed(wt', g) <=> Closed(wt, g)
    BY <1>1, <1>12, ChangeReopens DEF ReopenFeature
  <2>5. op.ids \subseteq Features
    BY <2>1 DEF Ops
  <2> QED
    BY <2>1, <2>2, <2>3, <2>4, <2>5 DEF ReopenInv
<1>13. CASE Reopened
  <2>1. op \in Ops /\ op # Idle /\ op.kind = "abort" /\ op.pc = "reopen" /\ op.todo = {}
    BY <1>1, <1>13, AtStep DEF Reopened
  <2>2. <<op.kind, "clear">> \in Steps
    BY <2>1 DEF Steps
  <2>3. /\ op'.pc = "clear" /\ op'.branch = op.branch
        /\ op'.ids = op.ids /\ op'.todo = op.todo
    BY <1>1, <1>13, <2>1, <2>2, StepFields DEF Reopened
  <2>4. UNCHANGED <<head, wt, merging, conflicted>>
    BY <1>13 DEF Reopened, git
  <2> QED
    BY <2>1, <2>3, <2>4 DEF ReopenInv, Closed
<1> QED
  BY <1>5, <1>6, <1>7, <1>8, <1>9, <1>10, <1>11, <1>12, <1>13 DEF Next

\* An abort that gets through, after whatever was cut short and whatever the user
\* did in between, is back on the feature branch with git no longer merging and
\* no feature of the merge left closed.
THEOREM AbortRestoresAlways == Spec => []AbortRestores
<1>1. Init => TypeOK /\ ReopenInv
  BY TypeInit DEF Init, ReopenInv
<1>2. TypeOK /\ ReopenInv /\ [Next]_vars => (TypeOK /\ ReopenInv)'
  BY TypeStep, ReopenStep
<1>3. TypeOK /\ ReopenInv => AbortRestores
  BY DEF ReopenInv, AbortRestores
<1> QED
  BY <1>1, <1>2, <1>3, PTL DEF Spec
-----------------------------------------------------------------------------
(***************************************************************************)
(* No work is lost.  Three facts about what git and the commands carry     *)
(* along make the invariant inductive.                                     *)
(*   UsedInv  whatever MERGE_STATE names is a branch the user has created, *)
(*            so a name that is gone stays gone.                           *)
(*   GoneInv  a MERGE_STATE that was committed, or that is back in the     *)
(*            work tree with no merge waiting, deletes nothing any more:   *)
(*            its branch is gone or is to be kept.                         *)
(*   HeldInv  the work tree holds the work of the branch checked out, and  *)
(*            while git is merging it holds nothing that is not committed. *)
(***************************************************************************)
Used(s) == s # NoState => s.branch \in used

UsedInv ==
    /\ exists \subseteq used \cup {Base}
    /\ \A b \in Branches : Used(tip[b].saved)
    /\ Used(wt.saved)
    /\ op # Idle /\ op.pc # "close" => op.branch \in used

Gone(s) == s = NoState \/ s.noDelete \/ s.branch \notin exists

\* What the continue under way has just committed and is about to delete.
Deleting(s) ==
    /\ op # Idle /\ op.kind = "continue" /\ op.pc = "delete"
    /\ s.branch = op.branch /\ ~op.noDelete

GoneInv ==
    /\ \A b \in Branches : Gone(tip[b].saved) \/ Deleting(tip[b].saved)
    /\ fate = "finished" => Gone(wt.saved)
    /\ op # Idle /\ op.kind = "continue" =>
          /\ fate \in {"waiting", "finished"}
          /\ fate = "finished" \/ op.pc = "clear" => op.noDelete \/ op.branch \notin exists
    /\ op # Idle /\ op.kind = "abort" => fate = "aborted"

Committed == {w \in Branches : \E b \in exists : w \in tip[b].work}

HeldInv ==
    /\ head \in exists
    /\ tip[head].work \subseteq wt.work
    /\ merging => wt.work \subseteq Committed

DeletingHeld ==
    merging /\ op # Idle /\ op.pc = "delete" => wt.work \subseteq tip[head].work

AllHeld == made \subseteq wt.work \cup Committed

LEMMA AllHeldIsNoWorkLost == made \subseteq Branches => (AllHeld <=> NoWorkLost)
BY DEF AllHeld, NoWorkLost, Committed

\* Where git takes the MERGE_STATE files from.
LEMMA SavedSources ==
    ASSUME GitOK, NEW b \in Branches, NEW squash \in BOOLEAN,
           \/ CheckoutBranch(b) \/ CreateBranch(b)
           \/ MergeClean(b, squash) \/ MergeConflict(b, squash)
           \/ AbortMerge \/ DeleteBranch(b) \/ UNCHANGED git
    PROVE  /\ \/ wt'.saved = wt.saved
              \/ \E c \in Branches : wt'.saved = tip[c].saved
           /\ \A d \in Branches : \/ tip'[d].saved = NoState
                                  \/ \E c \in Branches : tip'[d].saved = tip[c].saved
<1>1. /\ tip \in [Branches -> Trees] /\ head \in Branches /\ wt \in Trees
      /\ tip[head] \in Trees /\ tip[b] \in Trees
  BY DEF GitOK
<1>2. CASE CheckoutBranch(b)
  <2>1. CarriedTo(tip[head], tip[b]).saved \in {wt.saved, tip[b].saved}
    BY <1>1, CarriedTyping
  <2> QED
    BY <1>1, <1>2, <2>1 DEF CheckoutBranch
<1>3. CASE CreateBranch(b)
  <2>1. \A d \in Branches : tip'[d] = IF d = b THEN tip[head] ELSE tip[d]
    BY <1>1, <1>3 DEF CreateBranch
  <2> QED
    BY <1>1, <1>3, <2>1 DEF CreateBranch
<1>4. CASE MergeClean(b, squash)
  <2>1. PICK t \in Merged(tip[head], tip[b]) :
            wt' = t /\ tip' = IF squash THEN tip ELSE [tip EXCEPT ![head] = t]
    BY <1>4 DEF MergeClean
  <2>2. t.saved \in {tip[head].saved, tip[b].saved}
    BY <1>1, <2>1, MergedTyping
  <2>3. \A d \in Branches : tip'[d] \in {tip[d], t}
    BY <1>1, <2>1
  <2> QED
    BY <1>1, <2>1, <2>2, <2>3
<1>5. CASE MergeConflict(b, squash)
  <2>1. wt'.saved \in {tip[head].saved, tip[b].saved}
    BY <1>1, <1>5, MergedTyping DEF MergeConflict
  <2> QED
    BY <1>1, <1>5, <2>1 DEF MergeConflict
<1>6. CASE AbortMerge
  <2>1. wt'.saved \in {wt.saved, tip[head].saved}
    BY <1>1, <1>6 DEF AbortMerge, Trees
  <2> QED
    BY <1>1, <1>6, <2>1 DEF AbortMerge
<1>7. CASE DeleteBranch(b)
  <2>1. \A d \in Branches : tip'[d] \in {tip[d], EmptyTree}
    BY <1>1, <1>7 DEF DeleteBranch
  <2> QED
    BY <1>7, <2>1, EmptyTreeTyping DEF DeleteBranch
<1>8. CASE UNCHANGED git
  BY <1>8 DEF git
<1> QED
  BY <1>2, <1>3, <1>4, <1>5, <1>6, <1>7, <1>8

-----------------------------------------------------------------------------
(* What each git operation does to the work there is *)

Treasury == GitOK /\ HeldInv /\ AllHeld /\ made \subseteq Branches

LEMMA CheckoutKeeps ==
    ASSUME Treasury, NEW b \in Branches, CheckoutBranch(b), made' = made
    PROVE  HeldInv' /\ AllHeld' /\ merging' = FALSE
<1>1. /\ tip \in [Branches -> Trees] /\ head \in Branches /\ tip[b].work \subseteq Branches
      /\ b \in exists /\ head' = b /\ merging' = FALSE /\ UNCHANGED <<tip, exists>>
      /\ \A w \in Branches : Carries(w \in wt.work, w \in tip[head].work, w \in tip[b].work)
      /\ wt' = CarriedTo(tip[head], tip[b])
  BY DEF Treasury, GitOK, Trees, CheckoutBranch, CanCheckout, CanCarry
<1>2. wt'.work = {w \in Branches : Carry(w \in wt.work, w \in tip[head].work, w \in tip[b].work)}
  BY <1>1 DEF CarriedTo
<1>3. \A w \in Branches : w \in wt.work /\ w \notin wt'.work => w \in tip[head].work
  BY <1>2 DEF Carry
<1>4. \A w \in tip[b].work : w \in wt'.work
  BY <1>1, <1>2 DEF Carry, Carries, Treasury, HeldInv
<1>5. Committed' = Committed
  BY <1>1 DEF Committed
<1>6. AllHeld'
  BY <1>1, <1>3, <1>5 DEF Treasury, AllHeld, HeldInv, Committed
<1> QED
  BY <1>1, <1>4, <1>6 DEF HeldInv

\* A commit, by fogit or the user, of the work tree but perhaps MERGE_STATE.
LEMMA CommitKeeps ==
    ASSUME Treasury, NEW t \in Trees, t.work = wt.work, tip' = [tip EXCEPT ![head] = t],
           UNCHANGED <<exists, head, wt, made>>, merging' => merging
    PROVE  HeldInv' /\ AllHeld' /\ wt'.work = tip'[head].work
<1>1. /\ tip'[head] = t
      /\ \A b \in Branches \ {head} : tip'[b] = tip[b]
      /\ head \in exists /\ exists \subseteq Branches /\ tip[head].work \subseteq wt.work
  BY DEF Treasury, GitOK, HeldInv
<1>2. Committed \subseteq Committed'
  BY <1>1 DEF Committed
<1> QED
  BY <1>1, <1>2 DEF Treasury, HeldInv, AllHeld

LEMMA CommitAllKeeps ==
    ASSUME Treasury, Commit, made' = made
    PROVE  HeldInv' /\ AllHeld' /\ wt'.work = tip'[head].work /\ head' = head
<1>1. wt \in Trees /\ merging \in BOOLEAN
  BY DEF Treasury, GitOK
<1>2. merging' => merging
  BY <1>1 DEF Commit
<1>3. tip' = [tip EXCEPT ![head] = wt] /\ UNCHANGED <<exists, head, wt>>
  BY DEF Commit
<1> QED
  BY <1>1, <1>2, <1>3, CommitKeeps

LEMMA CreateKeeps ==
    ASSUME Treasury, NEW b \in Branches, CreateBranch(b), made' = made
    PROVE  HeldInv' /\ AllHeld'
<1>1. /\ b \notin exists /\ exists' = exists \cup {b} /\ head' = b
      /\ tip' = [tip EXCEPT ![b] = tip[head]] /\ merging' = FALSE /\ wt' = wt
      /\ tip \in [Branches -> Trees] /\ exists \subseteq Branches
  BY DEF CreateBranch, Treasury, GitOK
<1>2. tip'[b] = tip[head] /\ \A c \in exists : tip'[c] = tip[c]
  BY <1>1
<1>3. Committed \subseteq Committed'
  BY <1>1, <1>2 DEF Committed
<1> QED
  BY <1>1, <1>2, <1>3 DEF Treasury, HeldInv, AllHeld

\* A merge into a clean work tree.
LEMMA MergeKeeps ==
    ASSUME Treasury, wt.work = tip[head].work, NEW b \in exists, NEW squash \in BOOLEAN,
           MergeClean(b, squash) \/ MergeConflict(b, squash), made' = made
    PROVE  HeldInv' /\ AllHeld'
<1>1. /\ tip \in [Branches -> Trees] /\ head \in exists /\ exists \subseteq Branches
      /\ UNCHANGED <<exists, head>>
  BY DEF Treasury, GitOK, HeldInv, MergeClean, MergeConflict
<1>2. PICK t \in Merged(tip[head], tip[b]) :
          wt' = t /\ (tip' = tip \/ tip' = [tip EXCEPT ![head] = t])
  BY DEF MergeClean, MergeConflict
<1>3. t.work = tip[head].work \cup tip[b].work
  BY <1>1, <1>2, MergedWithin
<1>4. t.work \subseteq Committed
  BY <1>1, <1>3 DEF Committed, Trees
<1>5. tip'[head].work \subseteq t.work /\ \A c \in Branches : tip[c].work \subseteq tip'[c].work
  BY <1>1, <1>2, <1>3
<1>6. Committed \subseteq Committed'
  BY <1>1, <1>5 DEF Committed
<1> QED
  BY <1>1, <1>2, <1>3, <1>4, <1>5, <1>6 DEF Treasury, HeldInv, AllHeld

LEMMA AbortKeeps ==
    ASSUME Treasury, AbortMerge, made' = made
    PROVE  HeldInv' /\ AllHeld'
<1>1. /\ merging /\ UNCHANGED <<tip, exists, head>> /\ merging' = FALSE
      /\ tip[head] \in Trees
      /\ \E s \in {wt.saved, tip[head].saved} : wt' = [tip[head] EXCEPT !.saved = s]
  BY DEF AbortMerge, Treasury, GitOK
<1>2. wt'.work = tip[head].work
  BY <1>1 DEF Trees
<1>3. Committed' = Committed
  BY <1>1 DEF Committed
<1> QED
  BY <1>1, <1>2, <1>3 DEF Treasury, HeldInv, AllHeld

LEMMA DeleteKeeps ==
    ASSUME Treasury, NEW b \in Branches, DeleteBranch(b), made' = made, b # head,
           b \in exists => tip[b].work \subseteq wt.work,
           merging => wt.work \subseteq tip[head].work
    PROVE  HeldInv' /\ AllHeld'
<1>1. /\ exists' = exists \ {b} /\ UNCHANGED <<head, wt, merging>>
      /\ \A c \in Branches \ {b} : tip'[c] = tip[c]
      /\ head \in exists /\ exists \subseteq Branches /\ wt.work \subseteq Branches
  BY DEF DeleteBranch, Treasury, GitOK, HeldInv, Trees
<1>2. \A w \in Committed : w \in wt.work \/ w \in Committed'
  BY <1>1 DEF Committed
<1>3. merging => wt.work \subseteq Committed'
  BY <1>1 DEF Committed
<1> QED
  BY <1>1, <1>2, <1>3 DEF Treasury, HeldInv, AllHeld

\* Steps that leave branches alone and take no work from the work tree.
LEMMA WritingKeeps ==
    ASSUME Treasury, UNCHANGED <<tip, exists, head>>, wt.work \subseteq wt'.work,
           wt'.work = wt.work \/ ~merging, merging' => merging,
           made' \subseteq made \cup wt'.work
    PROVE  HeldInv' /\ AllHeld'
<1>1. Committed' = Committed
  BY DEF Committed
<1> QED
  BY <1>1 DEF Treasury, HeldInv, AllHeld

WorkInv == DeliverInv /\ UsedInv /\ GoneInv /\ HeldInv /\ DeletingHeld /\ AllHeld

LEMMA WorkTreasury ==
    ASSUME WorkInv
    PROVE  /\ Treasury /\ GitOK /\ OpOK /\ MergeSteps /\ WaitInv
           /\ Base \in Branches /\ head \in Branches /\ wt \in Trees
           /\ tip \in [Branches -> Trees]
BY TypeOKParts, MergeAssumption
   DEF WorkInv, DeliverInv, SurvivalInv, Treasury, HistOK, GitOK

\* No operation is about to delete.
LEMMA NotDeleting ==
    ASSUME op' = Idle \/ op'.pc # "delete"
    PROVE  DeletingHeld'
BY DEF DeletingHeld

\* The steps of a merge and of an abort.
LEMMA HeldFlow ==
    ASSUME Base \in Trunks, WorkInv,
           \/ ClosedOnTrunk \/ CommitClosure \/ CheckoutBase \/ MergeBranch
           \/ MergeStops \/ MergeFails \/ ReturnToBranch \/ CannotReturn
           \/ Reopened \/ Stop
    PROVE  HeldInv' /\ DeletingHeld' /\ AllHeld'
<1>1. /\ Treasury /\ GitOK /\ OpOK /\ MergeSteps /\ WaitInv
      /\ Base \in Branches /\ head \in Branches /\ wt \in Trees
      /\ tip \in [Branches -> Trees]
  BY WorkTreasury
<1>2. made' = made
  BY DEF ClosedOnTrunk, CommitClosure, CheckoutBase, MergeBranch, MergeStops, MergeFails,
         ReturnToBranch, CannotReturn, Reopened, Stop, hist
<1>3. op \in Ops /\ op # Idle /\ op.branch \in Branches /\ op.squash \in BOOLEAN
  <2>1. op # Idle
    BY DEF ClosedOnTrunk, CommitClosure, CheckoutBase, MergeBranch, MergeStops, MergeFails,
           ReturnToBranch, CannotReturn, Reopened, Stop, Idle
  <2> QED
    BY <1>1, <2>1 DEF OpOK, Ops
<1>4. ASSUME NEW pc, pc # "delete", Step(pc)
      PROVE  DeletingHeld'
  BY <1>3, <1>4, NotDeleting DEF Step, Ops
<1>5. CASE ClosedOnTrunk \/ CannotReturn \/ Stop
  <2>1. UNCHANGED git /\ op' = Idle
    BY <1>5 DEF ClosedOnTrunk, CannotReturn, Stop
  <2> QED
    BY <1>1, <1>2, <2>1, WritingKeeps, NotDeleting DEF git
<1>6. CASE CommitClosure
  <2>1. HeldInv' /\ AllHeld'
    BY <1>1, <1>2, <1>6, CommitAllKeeps DEF CommitClosure
  <2> QED
    BY <1>4, <1>6, <2>1 DEF CommitClosure
<1>7. CASE CheckoutBase
  <2>1. HeldInv' /\ AllHeld'
    BY <1>1, <1>2, <1>7, CheckoutKeeps DEF CheckoutBase
  <2> QED
    BY <1>4, <1>7, <2>1 DEF CheckoutBase
<1>8. CASE ReturnToBranch
  <2>1. HeldInv' /\ AllHeld'
    BY <1>1, <1>2, <1>3, <1>8, CheckoutKeeps DEF ReturnToBranch
  <2> QED
    BY <1>4, <1>8, <2>1 DEF ReturnToBranch
<1>9. CASE MergeFails
  <2>1. HeldInv' /\ AllHeld'
    BY <1>1, <1>2, <1>3, <1>9, CheckoutKeeps DEF MergeFails
  <2> QED
    BY <1>9, <2>1, NotDeleting DEF MergeFails
<1>10. ASSUME op.pc = "merge"
       PROVE  wt.work = tip[head].work /\ ~merging /\ op.branch \in exists
  <2>1. op.kind = "merge"
    BY <1>1, <1>10, AtStep
  <2> QED
    BY <1>1, <1>3, <1>10, <2>1 DEF MergeSteps
<1>11. CASE MergeBranch
  <2>1. HeldInv' /\ AllHeld'
    BY <1>1, <1>2, <1>3, <1>10, <1>11, MergeKeeps DEF MergeBranch
  <2>2. ~merging'
    BY <1>10, <1>11 DEF MergeBranch, MergeClean
  <2> QED
    BY <2>1, <2>2 DEF DeletingHeld
<1>12. CASE MergeStops
  <2>1. HeldInv' /\ AllHeld'
    BY <1>1, <1>2, <1>3, <1>10, <1>12, MergeKeeps DEF MergeStops
  <2> QED
    BY <1>4, <1>12, <2>1 DEF MergeStops
<1>13. CASE Reopened
  <2>1. HeldInv' /\ AllHeld'
    BY <1>1, <1>2, <1>13, WritingKeeps DEF Reopened, git
  <2> QED
    BY <1>4, <1>13, <2>1 DEF Reopened
<1> QED
  BY <1>5, <1>6, <1>7, <1>8, <1>9, <1>11, <1>12, <1>13

LEMMA HeldWrite ==
    ASSUME WorkInv,
           \/ \E f \in Features : CloseFeature(f) \/ ReopenFeature(f) \/ CreateFeature(f)
           \/ SaveMergeState \/ ClearMergeState
    PROVE  HeldInv' /\ DeletingHeld' /\ AllHeld'
<1>1. Treasury /\ OpOK /\ wt \in Trees
  BY WorkTreasury
<1>2. UNCHANGED <<tip, exists, head, merging, made>>
  BY DEF CloseFeature, ReopenFeature, CreateFeature, SaveMergeState, ClearMergeState, hist
<1>3. wt'.work = wt.work
  BY <1>1, ChangeFields DEF CloseFeature, ReopenFeature, CreateFeature, SaveMergeState,
     ClearMergeState, Trees
<1>4. op' = Idle \/ op'.pc # "delete"
  <2>1. CASE \E f \in Features : CloseFeature(f) \/ ReopenFeature(f)
    <3>1. PICK f \in Features : CloseFeature(f) \/ ReopenFeature(f)
      BY <2>1
    <3>2. op \in Ops
      BY <1>1, <3>1, AtStep DEF CloseFeature, ReopenFeature
    <3>3. op'.pc = op.pc /\ op.pc # "delete"
      BY <3>1, <3>2, TodoFields DEF CloseFeature, ReopenFeature
    <3> QED
      BY <3>3
  <2>2. CASE \/ \E f \in Features : CreateFeature(f)
             \/ SaveMergeState \/ ClearMergeState
    BY <2>2 DEF CreateFeature, Free, SaveMergeState, ClearMergeState
  <2> QED
    BY <2>1, <2>2
<1> QED
  BY <1>1, <1>2, <1>3, <1>4, WritingKeeps, NotDeleting

\* The beginning of a command, what --continue deletes and what the user does.
LEMMA HeldCommands ==
    ASSUME Disciplined, Base \in Trunks, WorkInv,
           \/ \E ids \in SUBSET Features, noDelete, squash \in BOOLEAN :
                  MergeBegin(ids, noDelete, squash)
           \/ ContinueBegin \/ AbortBegin \/ DeleteMerged
           \/ \E b \in Branches : NewBranch(b) \/ UserCheckout(b)
           \/ Edit \/ CommitWork \/ ResolveConflicts \/ UserAbort
    PROVE  HeldInv' /\ DeletingHeld' /\ AllHeld'
<1>1. /\ Treasury /\ GitOK /\ OpOK /\ MergeSteps /\ WaitInv
      /\ Base \in Branches /\ head \in Branches /\ wt \in Trees
      /\ tip \in [Branches -> Trees]
  BY WorkTreasury
<1>2. CASE \E ids \in SUBSET Features, noDelete, squash \in BOOLEAN :
               MergeBegin(ids, noDelete, squash)
  <2>1. UNCHANGED git /\ made' = made /\ op'.pc = "close"
    BY <1>2 DEF MergeBegin, hist
  <2> QED
    BY <1>1, <2>1, WritingKeeps, NotDeleting DEF git
<1>3. CASE ContinueBegin
  <2>1. made' = made
    BY <1>3 DEF ContinueBegin, hist
  <2>2. CASE merging
    <3>1. Commit
      BY <1>3, <2>2 DEF ContinueBegin
    <3>2. HeldInv' /\ AllHeld' /\ wt'.work = tip'[head].work /\ head' = head
      BY <1>1, <2>1, <3>1, CommitAllKeeps
    <3> QED
      BY <3>2 DEF DeletingHeld
  <2>3. CASE ~merging
    <3>1. UNCHANGED git
      BY <1>3, <2>3 DEF ContinueBegin
    <3>2. HeldInv' /\ AllHeld'
      BY <1>1, <2>1, <3>1, WritingKeeps DEF git
    <3> QED
      BY <2>3, <3>1, <3>2 DEF DeletingHeld, git
  <2> QED
    BY <2>2, <2>3
<1>4. CASE AbortBegin
  <2>1. made' = made /\ op'.pc = "return"
    BY <1>4 DEF AbortBegin, Resume
  <2>2. CASE merging
    BY <1>1, <1>4, <2>1, <2>2, AbortKeeps, NotDeleting DEF AbortBegin
  <2>3. CASE ~merging
    <3>1. UNCHANGED git
      BY <1>4, <2>3 DEF AbortBegin
    <3> QED
      BY <1>1, <2>1, <3>1, WritingKeeps, NotDeleting DEF git
  <2> QED
    BY <2>2, <2>3
<1>5. CASE DeleteMerged
  <2>1. op \in Ops /\ op # Idle /\ op.pc = "delete" /\ op.kind \in {"merge", "continue"}
        /\ op.branch \in Branches
    BY <1>1, <1>5, AtStep DEF DeleteMerged, Ops
  <2>2. made' = made /\ (op.noDelete => UNCHANGED git) /\ (~op.noDelete => DeleteBranch(op.branch))
    BY <1>5 DEF DeleteMerged, hist
  <2>3. DeletingHeld'
    <3>1. op' = Idle \/ op'.pc = "clear"
      BY <1>5, <2>1 DEF DeleteMerged, Step, Ops
    <3> QED
      BY <3>1, NotDeleting
  <2>4. CASE op.noDelete
    BY <1>1, <2>2, <2>3, <2>4, WritingKeeps DEF git
  <2>5. CASE ~op.noDelete
    <3>1. merging => wt.work \subseteq tip[head].work
      BY <2>1 DEF WorkInv, DeletingHeld
    <3>2. CASE op.kind = "merge"
      <4>1. head = Base /\ Within(tip[op.branch], wt)
        BY <1>1, <2>1, <3>2 DEF MergeSteps
      <4>2. op.branch # Base
        BY <2>1 DEF WorkInv, DeliverInv, SurvivalInv, PastClose
      <4> QED
        BY <1>1, <2>1, <2>2, <2>3, <2>5, <3>1, <4>1, <4>2, DeleteKeeps DEF Within
    <3>3. CASE op.kind = "continue" /\ fate = "waiting"
      <4>1. head = Base /\ Within(tip[op.branch], wt)
        BY <1>1, <2>1, <3>3 DEF WaitInv
      <4>2. op.branch # Base
        BY <2>1 DEF WorkInv, DeliverInv, SurvivalInv, PastClose
      <4> QED
        BY <1>1, <2>1, <2>2, <2>3, <2>5, <3>1, <4>1, <4>2, DeleteKeeps DEF Within
    <3>4. CASE op.kind = "continue" /\ fate # "waiting"
      <4>1. op.branch \notin exists
        BY <2>1, <2>5, <3>4 DEF WorkInv, GoneInv
      <4>2. head \in exists
        BY DEF WorkInv, HeldInv
      <4> QED
        BY <1>1, <2>1, <2>2, <2>3, <2>5, <3>1, <4>1, <4>2, DeleteKeeps
    <3> QED
      BY <2>1, <3>2, <3>3, <3>4
  <2> QED
    BY <2>4, <2>5
<1>6. ASSUME op' = Idle
      PROVE  DeletingHeld'
  BY <1>6, NotDeleting
<1>7. CASE \E b \in Branches : NewBranch(b)
  BY <1>1, <1>6, <1>7, CreateKeeps DEF NewBranch, Free
<1>8. CASE \E b \in Branches : UserCheckout(b)
  BY <1>1, <1>6, <1>8, CheckoutKeeps DEF UserCheckout, Free, hist
<1>9. CASE Edit
  <2>1. op' = Idle /\ ~merging /\ UNCHANGED <<tip, exists, head, merging>>
    BY <1>9 DEF Edit, Free, Waiting
  <2>2. wt' = [wt EXCEPT !.work = @ \cup {head}] /\ made' = made \cup {head}
    BY <1>9 DEF Edit
  <2>3. wt'.work = wt.work \cup {head}
    BY <1>1, <2>2 DEF Trees
  <2> QED
    BY <1>1, <1>6, <2>1, <2>2, <2>3, WritingKeeps
<1>10. CASE CommitWork
  <2>1. PICK s \in {wt.saved, tip[head].saved} :
            tip' = [tip EXCEPT ![head] = [wt EXCEPT !.saved = s]]
    BY <1>10 DEF CommitWork
  <2>2. s \in MergeState \cup {NoState}
    BY <1>1, <2>1 DEF Trees
  <2>3. [wt EXCEPT !.saved = s] \in Trees /\ [wt EXCEPT !.saved = s].work = wt.work
    BY <1>1, <2>2, SavedTyping DEF Trees
  <2>4. UNCHANGED <<exists, head, wt, made>> /\ merging' = FALSE /\ op' = Idle
    BY <1>10 DEF CommitWork, hist
  <2> QED
    BY <1>1, <1>6, <2>1, <2>3, <2>4, CommitKeeps
<1>11. CASE ResolveConflicts
  BY <1>1, <1>6, <1>11, WritingKeeps DEF ResolveConflicts, hist
<1>12. CASE UserAbort
  BY <1>1, <1>6, <1>12, AbortKeeps DEF UserAbort
<1> QED
  BY <1>2, <1>3, <1>4, <1>5, <1>7, <1>8, <1>9, <1>10, <1>11, <1>12

-----------------------------------------------------------------------------
(* Where MERGE_STATE gets to *)

\* A step with no operation that deletes, and of which the files are where git
\* took them from.
LEMMA SavedMoved ==
    ASSUME UsedInv, GoneInv, exists' = exists, used' = used, fate' = fate,
           ~(op # Idle /\ op.kind = "continue"),
           \/ op' = Idle
           \/ /\ op # Idle /\ op'.kind = op.kind /\ op'.branch = op.branch
              /\ op'.pc # "close" => op.branch \in used,
           \/ wt'.saved = wt.saved
           \/ \E c \in Branches : wt'.saved = tip[c].saved,
           \A d \in Branches : \/ tip'[d].saved = NoState
                               \/ \E c \in Branches : tip'[d].saved = tip[c].saved
    PROVE  UsedInv' /\ GoneInv'
<1>1. \A b \in Branches : Used(tip[b].saved) /\ Gone(tip[b].saved)
  BY DEF UsedInv, GoneInv, Deleting
<1>2. Used(wt.saved) /\ (fate = "finished" => Gone(wt.saved))
  BY DEF UsedInv, GoneInv
<1>3. (\A b \in Branches : Used(tip[b].saved) /\ Gone(tip[b].saved))'
  BY <1>1 DEF Used, Gone
<1>4. (Used(wt.saved) /\ (fate = "finished" => Gone(wt.saved)))'
  BY <1>1, <1>2 DEF Used, Gone
<1>5. UsedInv'
  BY <1>3, <1>4 DEF UsedInv, Used
<1>6. GoneInv'
  BY <1>3, <1>4 DEF GoneInv, Gone
<1> QED
  BY <1>5, <1>6

LEMMA SavedFlow ==
    ASSUME Base \in Trunks, "continue" \notin Faults, WorkInv,
           \/ ClosedOnTrunk \/ CheckoutBase \/ MergeBranch \/ MergeStops
           \/ MergeFails \/ ReturnToBranch \/ CannotReturn \/ Reopened \/ Stop
    PROVE  UsedInv' /\ GoneInv'
<1>1. GitOK /\ OpOK /\ UsedInv /\ GoneInv /\ Base \in Branches
  BY WorkTreasury DEF WorkInv
<1>2. op # Idle
  BY DEF ClosedOnTrunk, CheckoutBase, MergeBranch, MergeStops, MergeFails,
         ReturnToBranch, CannotReturn, Reopened, Stop, Idle
<1>3. op \in Ops /\ op.branch \in Branches /\ op.squash \in BOOLEAN
  BY <1>1, <1>2 DEF OpOK, Ops
<1>4. UNCHANGED <<exists, fate, used>>
  BY DEF ClosedOnTrunk, CheckoutBase, CheckoutBranch, MergeBranch, MergeClean, MergeStops,
         MergeConflict, MergeFails, ReturnToBranch, CannotReturn, Reopened, Stop, git, hist
<1>5. op.kind # "continue"
  BY <1>1, AtStep, MergeAssumption DEF ClosedOnTrunk, CheckoutBase, MergeBranch,
     MergeStops, MergeFails, ReturnToBranch, CannotReturn, Reopened, Stop
<1>6. op.pc # "close" => op.branch \in used
  BY <1>1, <1>2 DEF UsedInv
<1>7. \/ op' = Idle
      \/ /\ op'.kind = op.kind /\ op'.branch = op.branch
         /\ op'.pc # "close" => op.branch \in used
  <2>1. ASSUME op.pc # "close", NEW pc, Step(pc)
        PROVE  op'.kind = op.kind /\ op'.branch = op.branch /\ op.branch \in used
    BY <1>3, <1>6, <2>1 DEF Step, Ops
  <2> QED
    BY <2>1 DEF ClosedOnTrunk, CheckoutBase, MergeBranch, MergeStops, MergeFails,
           ReturnToBranch, CannotReturn, Reopened, Stop
<1>8. \E b \in Branches, squash \in BOOLEAN :
          \/ CheckoutBranch(b) \/ MergeClean(b, squash) \/ MergeConflict(b, squash)
          \/ UNCHANGED git
  BY <1>1, <1>3 DEF ClosedOnTrunk, CheckoutBase, MergeBranch, MergeStops, MergeFails,
     ReturnToBranch, CannotReturn, Reopened, Stop
<1>9. /\ \/ wt'.saved = wt.saved
         \/ \E c \in Branches : wt'.saved = tip[c].saved
      /\ \A d \in Branches : \/ tip'[d].saved = NoState
                             \/ \E c \in Branches : tip'[d].saved = tip[c].saved
  BY <1>1, <1>8, SavedSources
<1> QED
  BY <1>1, <1>2, <1>4, <1>5, <1>7, <1>9, SavedMoved

LEMMA SavedFeature ==
    ASSUME WorkInv, NEW f \in Features,
           CloseFeature(f) \/ ReopenFeature(f) \/ CreateFeature(f)
    PROVE  UsedInv' /\ GoneInv'
<1>1. OpOK /\ UsedInv /\ GoneInv /\ wt \in Trees
  BY WorkTreasury DEF WorkInv
<1>2. UNCHANGED <<tip, exists, fate, used>>
  BY DEF CloseFeature, ReopenFeature, CreateFeature, hist
<1>3. wt'.saved = wt.saved
  BY <1>1, ChangeFields DEF CloseFeature, ReopenFeature, CreateFeature, Trees
<1>4. CASE CreateFeature(f)
  BY <1>1, <1>2, <1>3, <1>4, SavedMoved DEF CreateFeature, Free
<1>5. CASE CloseFeature(f) \/ ReopenFeature(f)
  <2>1. op \in Ops /\ op # Idle /\ op.kind # "continue"
    BY <1>1, <1>5, AtStep DEF CloseFeature, ReopenFeature
  <2>2. op'.kind = op.kind /\ op'.branch = op.branch /\ op'.pc = op.pc
    BY <1>5, <2>1, TodoFields DEF CloseFeature, ReopenFeature
  <2>3. op.pc # "close" => op.branch \in used
    BY <1>1, <2>1 DEF UsedInv
  <2> QED
    BY <1>1, <1>2, <1>3, <2>1, <2>2, <2>3, SavedMoved
<1> QED
  BY <1>4, <1>5

\* Commits: of a merge's closures, with no MERGE_STATE about; and the user's, who
\* takes a MERGE_STATE along only once its merge is finished.
LEMMA SavedCommit ==
    ASSUME Disciplined, Base \in Trunks, WorkInv, CommitClosure \/ CommitWork
    PROVE  UsedInv' /\ GoneInv'
<1>1. GitOK /\ OpOK /\ UsedInv /\ GoneInv /\ MergeSteps /\ wt \in Trees
  BY WorkTreasury DEF WorkInv
<1>2. UNCHANGED <<exists, wt, fate, used>>
  BY DEF CommitClosure, Commit, CommitWork, hist
<1>3. CASE CommitClosure
  <2>1. op \in Ops /\ op # Idle /\ op.kind = "merge" /\ op.branch \notin Trunks
    BY <1>1, <1>3, AtStep DEF CommitClosure, IsMainBranch
  <2>2. wt.saved = NoState /\ op.branch \in exists
    BY <1>1, <1>3, <2>1 DEF MergeSteps, CommitClosure
  <2>3. op.branch \in used
    BY <1>1, <2>1, <2>2 DEF UsedInv
  <2>4. \A d \in Branches : tip'[d].saved = NoState \/ tip'[d].saved = tip[d].saved
    BY <1>1, <1>3, <2>2 DEF CommitClosure, Commit, GitOK
  <2>5. op'.kind = op.kind /\ op'.branch = op.branch
    BY <1>3, <2>1 DEF CommitClosure, Step, Ops
  <2> QED
    BY <1>1, <1>2, <2>1, <2>3, <2>4, <2>5, SavedMoved
<1>4. CASE CommitWork
  <2>1. PICK s \in {wt.saved, tip[head].saved} :
            /\ fate # "finished" => s = tip[head].saved
            /\ tip' = [tip EXCEPT ![head] = [wt EXCEPT !.saved = s]]
    BY <1>4 DEF CommitWork
  <2>2. op = Idle /\ op' = Idle
    BY <1>4 DEF CommitWork
  <2>3. [wt EXCEPT !.saved = s].saved = s
    BY <1>1 DEF Trees
  <2>4. \A d \in Branches : tip'[d].saved = IF d = head THEN s ELSE tip[d].saved
    BY <1>1, <2>1, <2>3 DEF GitOK
  <2>5. \A d \in Branches : Used(tip[d].saved) /\ Gone(tip[d].saved)
    BY <1>1, <2>2 DEF UsedInv, GoneInv, Deleting
  <2>6. Used(s) /\ Gone(s)
    <3>1. head \in Branches
      BY <1>1 DEF GitOK
    <3> QED
      BY <1>1, <2>1, <2>5, <3>1 DEF UsedInv, GoneInv
  <2>7. UsedInv'
    BY <1>1, <1>2, <2>2, <2>4, <2>5, <2>6 DEF UsedInv, Used
  <2>8. GoneInv'
    BY <1>1, <1>2, <2>2, <2>4, <2>5, <2>6 DEF GoneInv, Gone
  <2> QED
    BY <2>7, <2>8
<1> QED
  BY <1>3, <1>4

\* The user's other steps; a new branch has a name not used before.
LEMMA SavedUser ==
    ASSUME Disciplined, WorkInv,
           \/ \E b \in Branches : NewBranch(b) \/ UserCheckout(b)
           \/ Edit \/ ResolveConflicts \/ UserAbort
    PROVE  UsedInv' /\ GoneInv'
<1>1. GitOK /\ UsedInv /\ GoneInv /\ wt \in Trees
  BY WorkTreasury DEF WorkInv
<1>2. op = Idle /\ op' = Idle
  BY DEF NewBranch, UserCheckout, Edit, ResolveConflicts, UserAbort, Free, hist
<1>3. ASSUME NEW b \in Branches, NewBranch(b)
      PROVE  UsedInv' /\ GoneInv'
  <2>1. /\ b \notin used /\ exists' = exists \cup {b} /\ used' = used \cup {b}
        /\ wt' = wt /\ fate' = fate /\ tip' = [tip EXCEPT ![b] = tip[head]]
    BY <1>3 DEF NewBranch, CreateBranch
  <2>2. \A d \in Branches : \E c \in Branches : tip'[d].saved = tip[c].saved
    BY <1>1, <2>1 DEF GitOK
  <2>3. \A c \in Branches : Used(tip[c].saved) /\ Gone(tip[c].saved)
    BY <1>1, <1>2 DEF UsedInv, GoneInv, Deleting
  <2>4. (\A d \in Branches : Used(tip[d].saved) /\ Gone(tip[d].saved))'
    BY <2>1, <2>2, <2>3 DEF Used, Gone
  <2>5. (Used(wt.saved) /\ (fate = "finished" => Gone(wt.saved)))'
    BY <1>1, <2>1 DEF UsedInv, GoneInv, Used, Gone
  <2>6. UsedInv'
    BY <1>1, <1>2, <2>1, <2>4, <2>5 DEF UsedInv, Used
  <2>7. GoneInv'
    BY <1>2, <2>4, <2>5 DEF GoneInv, Gone
  <2> QED
    BY <2>6, <2>7
<1>4. CASE \E b \in Branches : UserCheckout(b)
  <2>1. UNCHANGED <<exists, fate, used>>
    BY <1>4 DEF UserCheckout, CheckoutBranch, hist
  <2> QED
    BY <1>1, <1>2, <1>4, <2>1, SavedSources, SavedMoved DEF UserCheckout
<1>5. CASE Edit \/ ResolveConflicts
  <2>1. UNCHANGED <<tip, exists, fate, used>> /\ wt'.saved = wt.saved
    BY <1>1, <1>5 DEF Edit, ResolveConflicts, hist, Trees
  <2> QED
    BY <1>1, <1>2, <2>1, SavedMoved
<1>6. CASE UserAbort
  <2>1. tip' = tip /\ exists' = exists /\ used' = used /\ (fate' = "finished" => fate = "finished")
    BY <1>6 DEF UserAbort, AbortMerge
  <2>2. wt'.saved = wt.saved \/ \E c \in Branches : wt'.saved = tip[c].saved
    BY <1>1, <1>6, SavedSources DEF UserAbort, GitOK
  <2>3. \A c \in Branches : Used(tip[c].saved) /\ Gone(tip[c].saved)
    BY <1>1, <1>2 DEF UsedInv, GoneInv, Deleting
  <2>4. UsedInv'
    BY <1>1, <1>2, <2>1, <2>2, <2>3 DEF UsedInv, Used
  <2>5. GoneInv'
    BY <1>1, <1>2, <2>1, <2>2, <2>3 DEF GoneInv, Gone
  <2> QED
    BY <2>4, <2>5
<1> QED
  BY <1>3, <1>4, <1>5, <1>6

\* What writes MERGE_STATE, removes it or reads it, and what deletes a branch.
LEMMA SavedWrite ==
    ASSUME Disciplined, WorkInv,
           \/ \E ids \in SUBSET Features, noDelete, squash \in BOOLEAN :
                  MergeBegin(ids, noDelete, squash)
           \/ SaveMergeState \/ ClearMergeState \/ AbortBegin
           \/ fate # "aborted" /\ ContinueBegin
    PROVE  UsedInv' /\ GoneInv'
<1>1. GitOK /\ OpOK /\ UsedInv /\ GoneInv /\ MergeSteps /\ WaitInv /\ wt \in Trees
      /\ wt.saved \in MergeState \cup {NoState}
  BY WorkTreasury DEF WorkInv, Trees
<1>2. fate \in {"waiting", "aborted", "finished"}
  BY TypeOKParts DEF WorkInv, DeliverInv, SurvivalInv, HistOK
<1>3. CASE \E ids \in SUBSET Features, noDelete, squash \in BOOLEAN :
               MergeBegin(ids, noDelete, squash)
  <2>1. /\ op = Idle /\ UNCHANGED <<tip, exists, wt, fate, used>>
        /\ op'.kind = "merge" /\ op'.pc = "close"
    BY <1>3 DEF MergeBegin, git, hist
  <2>2. UsedInv'
    BY <1>1, <2>1 DEF UsedInv, Used
  <2>3. GoneInv'
    BY <1>1, <2>1 DEF GoneInv, Gone, Deleting
  <2> QED
    BY <2>2, <2>3
<1>4. CASE SaveMergeState
  <2>1. op \in Ops /\ op # Idle /\ op.kind = "merge"
    BY <1>1, <1>4, AtStep DEF SaveMergeState
  <2>2. op.branch \in used
    BY <1>1, <1>4, <2>1 DEF UsedInv, SaveMergeState
  <2>3. /\ op' = Idle /\ fate' = "waiting" /\ UNCHANGED <<tip, exists, used>>
        /\ wt'.saved = [branch |-> op.branch, ids |-> op.ids,
                        noDelete |-> op.noDelete, squash |-> op.squash]
    BY <1>1, <1>4 DEF SaveMergeState, Trees
  <2>4. wt'.saved.branch = op.branch
    BY <2>3
  <2>5. UsedInv'
    BY <1>1, <2>2, <2>3, <2>4 DEF UsedInv, Used
  <2>6. GoneInv'
    BY <1>1, <2>1, <2>3 DEF GoneInv, Gone, Deleting
  <2> QED
    BY <2>5, <2>6
<1>5. CASE ClearMergeState
  <2>1. op \in Ops /\ op # Idle /\ op.pc = "clear"
    BY <1>1, <1>5, AtStep DEF ClearMergeState
  <2>2. /\ op' = Idle /\ UNCHANGED <<tip, exists, used>> /\ wt'.saved = NoState
    BY <1>1, <1>5 DEF ClearMergeState, Trees
  <2>3. UsedInv'
    BY <1>1, <2>2 DEF UsedInv, Used
  <2>4. GoneInv'
    BY <1>1, <2>1, <2>2 DEF GoneInv, Gone, Deleting
  <2> QED
    BY <2>3, <2>4
<1>6. CASE AbortBegin
  <2>1. /\ op = Idle /\ fate' = "aborted" /\ UNCHANGED <<tip, exists, used>>
        /\ op'.kind = "abort" /\ op'.branch = wt.saved.branch /\ wt.saved # NoState
    BY <1>6 DEF AbortBegin, AbortMerge, Resume, git
  <2>2. wt'.saved = wt.saved \/ \E c \in Branches : wt'.saved = tip[c].saved
    BY <1>1, <1>6, SavedSources DEF AbortBegin, GitOK
  <2>3. UsedInv'
    BY <1>1, <2>1, <2>2 DEF UsedInv, Used
  <2>4. GoneInv'
    BY <1>1, <2>1 DEF GoneInv, Gone, Deleting
  <2> QED
    BY <2>3, <2>4
<1>7. CASE fate # "aborted" /\ ContinueBegin
  <2>1. /\ op = Idle /\ wt.saved # NoState /\ UNCHANGED <<exists, wt, fate, used>>
        /\ op'.kind = "continue" /\ op'.pc = "delete"
        /\ op'.branch = wt.saved.branch /\ op'.noDelete = wt.saved.noDelete
        /\ tip' = tip \/ tip' = [tip EXCEPT ![head] = wt]
    BY <1>7 DEF ContinueBegin, Commit, Resume, git, hist
  <2>2. op' # Idle
    <3>1. op'.pc # Idle.pc
      BY <2>1 DEF Idle
    <3> QED
      BY <3>1
  <2>3. \A d \in Branches : tip'[d].saved \in {tip[d].saved, wt.saved}
    BY <1>1, <2>1 DEF GitOK
  <2>4. \A d \in Branches : Used(tip[d].saved) /\ Gone(tip[d].saved)
    BY <1>1, <2>1 DEF UsedInv, GoneInv, Deleting
  <2>5. UsedInv'
    BY <1>1, <2>1, <2>3, <2>4 DEF UsedInv, Used
  <2>6. fate = "finished" => wt.saved.noDelete \/ wt.saved.branch \notin exists
    BY <1>1, <2>1 DEF GoneInv, Gone
  <2>7. wt.saved.noDelete \in BOOLEAN
    BY <1>1, <2>1 DEF MergeState
  <2>8. (Gone(wt.saved) \/ Deleting(wt.saved))'
    BY <2>1, <2>2, <2>7 DEF Gone, Deleting
  <2>9. (\A b \in Branches : Gone(tip[b].saved) \/ Deleting(tip[b].saved))'
    BY <2>1, <2>3, <2>4, <2>8 DEF Gone, Deleting
  <2>10. GoneInv'
    BY <1>1, <1>2, <1>7, <2>1, <2>6, <2>9 DEF GoneInv, Gone
  <2> QED
    BY <2>5, <2>10
<1> QED
  BY <1>3, <1>4, <1>5, <1>6, <1>7

LEMMA SavedDelete ==
    ASSUME WorkInv, DeleteMerged
    PROVE  UsedInv' /\ GoneInv'
<1>1. GitOK /\ OpOK /\ UsedInv /\ GoneInv
  BY WorkTreasury DEF WorkInv
<1>2. op \in Ops /\ op # Idle /\ op.pc = "delete" /\ op.kind \in {"merge", "continue"}
      /\ op.branch \in Branches /\ op.branch \in used /\ op.noDelete \in BOOLEAN
  BY <1>1, AtStep DEF DeleteMerged, Ops, UsedInv
<1>3. /\ UNCHANGED <<wt, fate, used>>
      /\ exists' = IF op.noDelete THEN exists ELSE exists \ {op.branch}
  BY DEF DeleteMerged, DeleteBranch, git, hist
<1>4. \A d \in Branches : tip'[d].saved \in {tip[d].saved, NoState}
  BY <1>1, EmptyTreeTyping DEF DeleteMerged, DeleteBranch, git, GitOK
<1>5. \/ op' = Idle /\ op.kind = "merge"
      \/ /\ op.kind = "continue" /\ op' # Idle
         /\ op'.kind = "continue" /\ op'.pc = "clear" /\ op'.branch = op.branch
         /\ op'.noDelete = op.noDelete
  <2>1. CASE op.kind = "merge"
    BY <2>1 DEF DeleteMerged
  <2>2. CASE op.kind = "continue"
    <3>1. <<op.kind, "clear">> \in Steps /\ Step("clear")
      BY <2>2 DEF Steps, DeleteMerged
    <3> QED
      BY <1>1, <1>2, <2>2, <3>1, StepFields
  <2> QED
    BY <1>2, <2>1, <2>2
<1>6. UsedInv'
  BY <1>1, <1>2, <1>3, <1>4, <1>5 DEF UsedInv, Used
<1>7. \A d \in Branches : Gone(tip[d].saved) \/ (op.kind = "continue" /\ Deleting(tip[d].saved))
  BY <1>1 DEF GoneInv, Deleting
<1>8. (\A b \in Branches : Gone(tip[b].saved))'
  BY <1>3, <1>4, <1>7 DEF Gone, Deleting
<1>9. fate = "finished" => (Gone(wt.saved))'
  BY <1>1, <1>3 DEF GoneInv, Gone
<1>10. op.kind = "continue" => /\ fate \in {"waiting", "finished"}
                               /\ op.noDelete \/ op.branch \notin exists'
  BY <1>1, <1>2, <1>3 DEF GoneInv
<1>11. GoneInv'
  BY <1>3, <1>5, <1>8, <1>9, <1>10 DEF GoneInv
<1> QED
  BY <1>6, <1>11

LEMMA WorkStep ==
    ASSUME Disciplined, "continue" \notin Faults, Base \in Trunks, WorkInv, [Next]_vars
    PROVE  WorkInv'
<1>1. DeliverInv'
  BY DeliverStep DEF WorkInv
<1>2. CASE UNCHANGED vars
  <2>1. UNCHANGED <<tip, exists, head, wt, merging, op, fate, used, made>>
    BY <1>2 DEF vars, git, hist
  <2>2. UsedInv' /\ GoneInv'
    BY <2>1 DEF WorkInv, UsedInv, GoneInv, Used, Gone, Deleting
  <2>3. HeldInv' /\ DeletingHeld' /\ AllHeld'
    BY <2>1 DEF WorkInv, HeldInv, DeletingHeld, AllHeld, Committed
  <2> QED
    BY <1>1, <2>2, <2>3 DEF WorkInv
<1>3. ASSUME Next
      PROVE  HeldInv' /\ DeletingHeld' /\ AllHeld'
  BY <1>3, HeldFlow, HeldWrite, HeldCommands DEF Next
<1>4. ASSUME Next
      PROVE  UsedInv' /\ GoneInv'
  BY <1>4, SavedFlow, SavedFeature, SavedCommit, SavedUser, SavedWrite, SavedDelete DEF Next
<1> QED
  BY <1>1, <1>2, <1>3, <1>4 DEF WorkInv

\* With a disciplined user, on whom no --continue was cut short, no work is ever
\* lost: merges and aborts may be cut short anywhere.
THEOREM NoWorkLostAlways ==
    ASSUME Disciplined, "continue" \notin Faults, Base \in Trunks
    PROVE  Spec => []NoWorkLost
<1>1. Init => WorkInv
  <2> SUFFICES ASSUME Init PROVE WorkInv
    OBVIOUS
  <2>1. DeliverInv
    BY SurvivalInit DEF Init, DeliverInv, MergeSteps, WaitInv
  <2>2. \A b \in Branches : tip[b] = EmptyTree
    BY DEF Init
  <2>3. UsedInv /\ GoneInv
    BY <2>2, EmptyTreeTyping DEF Init, UsedInv, GoneInv, Used, Gone
  <2>4. HeldInv /\ DeletingHeld /\ AllHeld
    BY <2>2, MergeAssumption DEF Init, HeldInv, DeletingHeld, AllHeld
  <2> QED
    BY <2>1, <2>3, <2>4 DEF WorkInv
<1>2. WorkInv /\ [Next]_vars => WorkInv'
  BY WorkStep
<1>3. WorkInv => NoWorkLost
  BY AllHeldIsNoWorkLost, TypeOKParts DEF WorkInv, DeliverInv, SurvivalInv, HistOK
<1> QED
  BY <1>1, <1>2, <1>3, PTL DEF Spec
=============================================================================
