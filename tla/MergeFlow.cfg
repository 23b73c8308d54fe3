\* A feature branch with two features merged into main: cut short, in conflict,
\* continued, aborted; with a user who finishes one merge before anything else.
SPECIFICATION Spec
CONSTANTS
    Branches = {"main", "b1"}
    Features = {f1, f2}
    NoState = NoState
    Base = "main"
    Trunks = {"main"}
    Tag <- MCTag
    NoBranch = NoBranch
    Faults = {"merge"}
    Disciplined = TRUE
    MaxChanges = 4
INVARIANTS
    NoWorkLost
    BaseSurvives
    AbortRestores
PROPERTIES
    DeleteDelivers
\* Once the bounds are reached nothing is left to do.
CHECK_DEADLOCK FALSE
