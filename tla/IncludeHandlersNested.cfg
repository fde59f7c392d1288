SPECIFICATION Spec
CONSTANTS
    IncludeTags <- JustNoInclude
    MaxTokens = 3
    MaxUnclosed = 2
INVARIANTS StripsNoInclude
CHECK_DEADLOCK FALSE
