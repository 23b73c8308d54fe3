\* Export, import and other commands, with stops anywhere.
SPECIFICATION Spec
CONSTANTS
    Ids = {"f1", "f2", "f3"}
    Names = {"A", "B"}
    None = None
    Fine = 2
    MaxTime = 2
    MaxLinks = 1
    Drafts <- MCDrafts
    MaxChanges = 5
INVARIANTS
    ResumeSame
    NoNewOrphans
PROPERTIES
    ImportKeeps
    StatesArrive
\* The number of commands is bounded.
CHECK_DEADLOCK FALSE
