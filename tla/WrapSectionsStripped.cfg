SPECIFICATION Spec
CONSTANTS
    Levels = {1, 2, 3}
    MaxNodes = 3
    MaxDepth = 1
    MaxTemplates = 1
INVARIANTS ValidWhenStripped
CHECK_DEADLOCK FALSE
