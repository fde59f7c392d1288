SPECIFICATION Spec
CONSTANTS
    Message <- MCMessage
    Fatal <- MCFatal
    Nested <- MCNested
    Backend = {"b1", "b2"}
    Throws = {}
INVARIANTS QueuedIsKept

CHECK_DEADLOCK FALSE
