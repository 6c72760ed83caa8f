SPECIFICATION Spec
CONSTANTS
    Sections <- MCSections
    Titles <- MCTitles
    Block = 2
    Buffer = 4
    None = None
INVARIANTS
    ReadIsTheContent
    PatchedIsTold
