\* Two features of one slug on different branches, linked.
SPECIFICATION Spec
CONSTANTS
    f1 = f1  f2 = f2  f3 = f3
    main = main  b1 = b1  b2 = b2  origin = origin
    p1 = p1  p2 = p2  p3 = p3  notes = notes  none = none
    Features <- MCFeatures
    Branches <- MCBranches
    Remotes = {origin}
    Fetched <- MCFetched
    Paths <- MCPaths
    None = none
    FileOf <- MCFileOf
    SaveName <- MCSaveName
    Notes = notes
    Base = main
    BranchOf <- MCBranchOf
    Given = {f1}
    From = "trunk"
    Shared = TRUE
    Faults = {"kill", "commit"}
    MaxCommands = 5
    MaxEdits = 1
PROPERTIES
    OthersKept
\* the bound on commands is reached
CHECK_DEADLOCK FALSE
