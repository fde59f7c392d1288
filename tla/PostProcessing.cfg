SPECIFICATION PostProcessingSpec
CONSTANTS
    Levels = {1, 2, 3}
    MaxNodes = 5
    MaxDepth = 2
    MaxTemplates = 2
    Pages <- MCPages
INVARIANTS TypeOK SectionsAreOutline IdsAreForEditing TemplatesStayTogether EachCallWrappedOnce SourceClaimedOnce
CHECK_DEADLOCK FALSE
