SPECIFICATION ConfigSpec
CONSTANTS
    Option = {a, b}
    UserOption = {u}
    NullAllowed = {b}
    Min = 0
    Max = 2
    Default = 1
    IntMax = 3
    Number <- SmallNumbers
    Null = Null
    Absent = Absent
    Empty = Empty
    MaxChanges = 2
    MaxEdits = 1
    MaxSaves = 2
    MaxCrashes = 1
CHECK_DEADLOCK FALSE
INVARIANTS ValuesSound CrashSafe ReloadIsLikeRestart
