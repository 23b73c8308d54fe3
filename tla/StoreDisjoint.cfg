\* Overlapping commands, crashes and two branches; no slug is shared by names
\* of different features.
SPECIFICATION Spec
CONSTANTS
    Ids = {"a", "b"}
    Names = {"n1", "n2", "n3"}
    NamesOf <- OwnNames
    Slugs = {"s1", "s2", "s3"}
    SlugOf <- OwnSlugs
    Prefixes = {"pa"}
    PrefixOf <- SamePrefixes
    Branches = {"main", "topic"}
    Trunk = "main"
    Procs = {p, q}
    CrashAllowed = TRUE
    NoSuffix = NoSuffix
    None = None
    MaxFiles = 2
SYMMETRY ProcSymmetry
CONSTRAINT FewFiles
INVARIANTS
    IndexSound
    GetReturnsAsked
    NoForeignWrite
