\* link between features of different branches, killed anywhere or with a commit
\* that fails.
SPECIFICATION Spec
CONSTANTS
    f1 = f1  f2 = f2  f3 = f3
    main = main  b1 = b1  b2 = b2  origin = origin
    p1 = p1  p2 = p2  p3 = p3  notes = notes  none = none
    Features <- MCFeatures
    Branches <- MCBranches
    Remotes = {origin}
    Fetched <- MCFetched
    Paths <- MCPaths
    None = none
    FileOf <- MCFileOf
    SaveName <- MCFileOf
    Notes = notes
    Base = main
    BranchOf <- MCBranchOf
    Given = {f1}
    From = "trunk"
    Shared = TRUE
    Faults = {"kill", "commit"}
    MaxCommands = 5
    MaxEdits = 1
INVARIANTS
    TypeOK
    WorkSafe
    HalvesSaved
PROPERTIES
    OthersKept
    TiesKept
    ComesBack
\* the bound on commands is reached
CHECK_DEADLOCK FALSE
