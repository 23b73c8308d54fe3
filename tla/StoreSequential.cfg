\* One command at a time on one branch; three features, two names that all
\* of them may take, ID prefixes that collide.
SPECIFICATION Spec
CONSTANTS
    Ids = {"a", "b", "c"}
    Names = {"n1", "n2"}
    NamesOf <- SharedNames
    Slugs = {"s1", "s2"}
    SlugOf <- OwnSlugs
    Prefixes = {"pa"}
    PrefixOf <- SamePrefixes
    Branches = {"main"}
    Trunk = "main"
    Procs = {"p"}
    CrashAllowed = FALSE
    NoSuffix = NoSuffix
    None = None
    MaxFiles = 3
INVARIANTS
    OneFilePerFeature
PROPERTIES
    NoLoss
    ImplementsMap
