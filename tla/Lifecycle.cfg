\* Two features, one branch in their metadata, both version formats, keys that
\* only ever go up.
SPECIFICATION Spec
CONSTANTS
    Features = {f1, f2}
    Branches = {b1}
    NoBranch = NoBranch
    Formats = {"simple", "semantic"}
    Explicit <- MCExplicit
    Careful = TRUE
    Demands <- MCDemands
    MaxTime = 7
INVARIANTS
    TypeOK
    CurrentIsNewest
PROPERTIES
    SupersededFrozen
    DemandsKept
    ImplementsRounds
\* Once the time is up nothing is left to do.
CHECK_DEADLOCK FALSE
