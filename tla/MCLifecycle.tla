---------------------------- MODULE MCLifecycle ----------------------------
(***************************************************************************)
(* Instances of Lifecycle for TLC.                                         *)
(***************************************************************************)
EXTENDS Lifecycle

\* Simple and semantic keys, some above and some below those increments reach,
\* and keys whose digits and whose numbers are ordered differently.
MCExplicit == {Simple(10), Semantic(1, 9, 0), Semantic(1, 10, 0), Semantic(2, 0, 1), Other}

MCDemands ==
    [operator : {">", ">="},
     version  : {Simple(1), Simple(2), Semantic(1, 1, 0), Semantic(1, 10, 0), Semantic(2, 0, 0)}]
=============================================================================
