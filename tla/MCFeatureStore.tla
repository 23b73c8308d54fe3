--------------------------- MODULE MCFeatureStore ---------------------------
(***************************************************************************)
(* Instances of FeatureStore for TLC: two or three features, two names and *)
(* the ways their slugs can meet.                                          *)
(***************************************************************************)
EXTENDS FeatureStore, TLC

\* Overlapping commands are interchangeable (no temporal property there).
ProcSymmetry == Permutations(Procs)

\* Bound: crashed renames may leave any number of copies of a feature behind.
CONSTANT MaxFiles
FewFiles ==
    Cardinality({bf \in Branches \X Filenames : trees[bf[1]][bf[2]] # None}) <= MaxFiles

\* Every feature may take every name.
SharedNames == [id \in Ids |-> Names]

\* Feature "a" is called n1 or n2, "b" is called n3, "c" n4.
OwnNames == [id \in Ids |-> CASE id = "a" -> {"n1", "n2"} [] id = "b" -> {"n3"} [] id = "c" -> {"n4"}]

\* Each name its own slug, or one slug for the names that differ in case.
OwnSlugs  == [n \in Names |-> CASE n = "n1" -> "s1" [] n = "n2" -> "s2"
                                [] n = "n3" -> "s3" [] n = "n4" -> "s4"]
CaseSlugs == [n \in Names |-> "s1"]

\* Distinct 8-character prefixes, or one shared by all IDs.
OwnPrefixes  == [id \in Ids |-> CASE id = "a" -> "pa" [] id = "b" -> "pb" [] id = "c" -> "pc"]
SamePrefixes == [id \in Ids |-> "pa"]
=============================================================================
