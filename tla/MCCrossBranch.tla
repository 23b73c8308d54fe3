---------------------------- MODULE MCCrossBranch ----------------------------
(***************************************************************************)
(* Two features made here and one on a remote branch, the trunk and a      *)
(* branch for each feature.                                                *)
(***************************************************************************)
EXTENDS CrossBranch, TLC

CONSTANTS f1, f2, f3, main, b1, b2, origin, p1, p2, p3, notes, none

MCFeatures == {f1, f2, f3}
MCBranches == {main, b1, b2}
MCPaths    == {p1, p2, p3, notes}
MCBranchOf == f1 :> b1 @@ f2 :> b2 @@ f3 :> b2
MCFileOf   == f1 :> p1 @@ f2 :> p2 @@ f3 :> p3
MCFetched  == origin :> [p \in MCPaths |-> IF p = p3 THEN [id |-> f3, ties |-> {}] ELSE none]

\* f2 has f1's name in other letters: its file got a suffix.
MCSaveName == f1 :> p1 @@ f2 :> p1 @@ f3 :> p3
=============================================================================
