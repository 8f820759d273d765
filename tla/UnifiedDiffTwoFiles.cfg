CONSTANTS
    Lines = {"a", "b"}
    Context = 1
    MaxScript = 3
    MaxOther = 2
SPECIFICATION DiffSpec
INVARIANT
    TwoFilesApply
CHECK_DEADLOCK FALSE
