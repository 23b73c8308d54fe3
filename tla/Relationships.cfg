\* Every command, cut short anywhere, with and without automatic inverses.
SPECIFICATION Spec
CONSTANTS
    Features = {a, b, c}
    Strangers = {"elsewhere"}
    Elsewhere = {"elsewhere"}
    Types = {"depends-on", "required-by", "contains", "contained-by", "related-to"}
    Aliases = {"needs"}
    TypeOf <- MCTypeOf
    InverseOf <- MCInverse
    Forward = {"depends-on", "contained-by"}
    Category <- MCCategory
    Strict = {"structural"}
    ContainedBy = "contained-by"
    Faulty = TRUE
    None = None
    MaxLinks = 5
    MaxUnsaved = 4
SYMMETRY FeatureSymmetry
CONSTRAINTS FewLinks FewUnsaved
INVARIANTS
    TypeOK
    StrictAcyclic
    PairsComplete
    TidyAcyclic
    SearchFindsPaths
    CheckerFindsCycles
    ImpactsByDistance
    ListsWhatItReaches
    TreeShowsAll
PROPERTIES
    NoneOrphaned
    FixKeepsTies
\* Once every feature ID was used and deleted nothing is left to do.
CHECK_DEADLOCK FALSE
