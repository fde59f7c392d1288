SPECIFICATION Spec
CONSTANTS
    Bullets <- JustLists
    MaxTables = 2
    MaxTags = 0
    MaxHeld = 1
    Miscounts = TRUE
INVARIANT FramesStayPushed
CHECK_DEADLOCK FALSE
