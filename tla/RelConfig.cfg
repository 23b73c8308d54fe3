\* Commands on types and categories by a careful user, cut short anywhere.
SPECIFICATION Spec
CONSTANTS
    Names = {"depends-on", "required-by", "tests", "tested-by", "related-to", "uses"}
    Categories = {"structural", "informational", "team"}
    None = None
    Features = {"login", "session"}
    Ties = {1, 2}
    Source <- MCSource
    Target <- MCTarget
    TreeType = "depends-on"
    DefaultCategory = "informational"
    Shipped <- MCShipped
    Policies <- MCPolicies
    TypeOptions <- MCTypeOptions
    ImportFiles <- MCImportFiles
    MaxCommands = 3
    Faulty = TRUE
    Careful = TRUE
INVARIANTS
    TypeOK
    ConfigLoads
    TypesConfigured
PROPERTIES
    PairsKept
\* The number of commands is bounded.
CHECK_DEADLOCK FALSE
