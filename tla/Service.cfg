SPECIFICATION Spec
CONSTANTS
    Requests = {"r", "s"}
    Accepts <- MCAccepts
    Versions <- MCVersions
    Title = {"t", "u"}
    Caller = {"a", "b", "c", "d"}
    TitleOf <- MCTitleOf
    Retries = 1
    ThrowingCallers = {"b"}
    Message <- MCMessage
    Fatal <- MCFatal
    Nested <- MCNested
    Backend = {"b1", "b2"}
    ThrowingBackends <- MCThrows
INVARIANTS RightAnswer ExitsAfterLogging NobodyForgotten
PROPERTIES EverythingSettles
CHECK_DEADLOCK FALSE
