SPECIFICATION Spec
CONSTANTS
    Names <- MCNames
    Library <- MCLibrary
    Paths = {chosen, pasted}
    PastePath = pasted
    NoFile = NoFile
    LogCap = 2
    MaxLines = 4
INVARIANTS KeptUnlessRemoved NewestLinesShown NameHidden
CHECK_DEADLOCK FALSE
