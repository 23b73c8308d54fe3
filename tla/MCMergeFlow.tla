---------------------------- MODULE MCMergeFlow ----------------------------
(***************************************************************************)
(* Instances of MergeFlow for TLC.                                         *)
(***************************************************************************)
EXTENDS MergeFlow

\* Features tagged with the first branch; only the user sets such a tag.
MCTag    == [f \in Features |-> IF "b1" \in Branches THEN "b1" ELSE NoBranch]
=============================================================================
