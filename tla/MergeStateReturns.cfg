\* A --continue cut short, an --abort, and MERGE_STATE back with a checkout.
SPECIFICATION Spec
CONSTANTS
    Branches = {"main", "b1"}
    Features = {f1}
    NoState = NoState
    Base = "main"
    Trunks = {"main"}
    Tag <- MCTag
    NoBranch = NoBranch
    Faults = {"continue"}
    Disciplined = TRUE
    MaxChanges = 4
INVARIANTS
    NoWorkLost
CHECK_DEADLOCK FALSE
