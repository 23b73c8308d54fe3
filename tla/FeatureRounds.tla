--------------------------- MODULE FeatureRounds ---------------------------
(***************************************************************************)
(* What the life cycle of features promises (pkg/fogit/feature.go, the     *)
(* comments on State and ReopenFeature), whatever versions are called: a   *)
(* feature is worked on in rounds, each from open over in-progress to      *)
(* closed.  A round begins when the last one is closed.  Closing can be    *)
(* taken back; the round is then in progress, never untouched again.       *)
(***************************************************************************)
EXTENDS Naturals

CONSTANT Features

VARIABLES round, \* how many rounds the feature has had
          state  \* the state of the last one

Init ==
    /\ round = [f \in Features |-> 0]
    /\ state = [f \in Features |-> "none"]

\* A feature created with relationships has been modified already.
Begin(f)    == /\ round[f] = 0
               /\ round'[f] = 1
               /\ state'[f] \in {"open", "in-progress"}

Reopen(f)   == /\ state[f] = "closed"
               /\ round'[f] = round[f] + 1
               /\ state'[f] = "open"

Moves == {<<"open", "in-progress">>, <<"open", "closed">>,
          <<"in-progress", "closed">>, <<"closed", "in-progress">>}

Move(f)     == /\ round'[f] = round[f]
               /\ <<state[f], state'[f]>> \in Moves

Rest(f)     == round'[f] = round[f] /\ state'[f] = state[f]

\* One command may move several features.
Next == \A f \in Features : Begin(f) \/ Reopen(f) \/ Move(f) \/ Rest(f)

Spec == Init /\ [][Next]_<<round, state>>
=============================================================================
