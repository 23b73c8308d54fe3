\* Two features of one name on two branches: the index outlives the checkout.
SPECIFICATION Spec
CONSTANTS
    Ids = {"a", "b"}
    Names = {"n1"}
    NamesOf <- SharedNames
    Slugs = {"s1"}
    SlugOf <- OwnSlugs
    Prefixes = {"pa", "pb", "pc"}
    PrefixOf <- OwnPrefixes
    Branches = {"main", "topic"}
    Trunk = "main"
    Procs = {"p"}
    CrashAllowed = FALSE
    NoSuffix = NoSuffix
    None = None
    MaxFiles = 3
INVARIANT GetReturnsAsked
