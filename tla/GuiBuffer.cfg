SPECIFICATION Spec
CONSTANTS
    Buffer = {1, 2, 3}
    Core = 1
    Layout <- SomeLayout
    Window = {1, 2}
    WindowLayouts <- SomeWindowLayouts
    FirstGap = FALSE
    RemoveMerged = TRUE
    MaxVisited = 2
    MaxNumber = 4
    MaxOps = 6
CHECK_DEADLOCK FALSE
INVARIANTS GroupsSound UnseenIsHot PointersSound
PROPERTIES WindowsKept
