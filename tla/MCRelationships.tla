-------------------------- MODULE MCRelationships --------------------------
(***************************************************************************)
(* Instances of Relationships for TLC: three features and two pairs of the *)
(* default configuration's structural types, of which "needs" is an alias. *)
(***************************************************************************)
EXTENDS Traversal, TLC

MCInverse == [t \in Types |-> CASE t = "depends-on"   -> "required-by"
                                [] t = "required-by"  -> "depends-on"
                                [] t = "contains"     -> "contained-by"
                                [] t = "contained-by" -> "contains"
                                [] t = "related-to"   -> None]
MCCategory == [t \in Types |-> IF t = "related-to" THEN "informational" ELSE "structural"]
MCTypeOf   == [a \in Aliases |-> "depends-on"]

FeatureSymmetry == Permutations(Features)

\* Bounds: the number of relationships, and the smaller one once a save of
\* validate --fix has failed, those in memory included.
CONSTANTS MaxLinks, MaxUnsaved
FewLinks   == Cardinality(links) <= MaxLinks
FewUnsaved ==
    call.op = "fix" /\ call.memory # links =>
        Cardinality(links \cup call.memory) <= MaxUnsaved
=============================================================================
