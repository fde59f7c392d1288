SPECIFICATION Spec
CONSTANTS
    Bullets <- MCBullets
    Texts <- MCTexts
    MaxTables = 2
    MaxTags = 1
    MaxListHeld = 2
    MaxQuotes = 4
    MaxPreHeld = 6
    MaxLine = 3
    MaxLinesHeld = 5
    MaxNewlines = 5
    MaxBuffered = 3
    MaxNesting = 2
    IncludeTags <- MCTags
    MaxTokens = 5
    MaxUnclosed = 1
INVARIANTS TypeOK Nests EndLeavesNothing NoFailedAssertion Contribution
PROPERTIES KeepsOrder
CHECK_DEADLOCK FALSE
