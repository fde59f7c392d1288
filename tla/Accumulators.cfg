SPECIFICATION AccumulatorsSpec
CONSTANTS
    tk1 = tk1  tk2 = tk2
    Token = {tk1, tk2}
    Rank = {1, 2}
    phaseEndRank = 2
    NoRank = 0
    Call <- MCCall
    MaxStream = 3
    Kind <- MCKind
    EOFKind = "EOF"
    TextKind = {"t"}
    Transform <- MCTransform
    SyncResult <- MCSyncResult
    Script <- MCScript
    Streams <- MCStreams
    MaxChunk = 2
INVARIANTS TypeOK InOrder ClosedWhenDone EndsWhenDone
PROPERTIES NoCallAfterClose ManagerInOrder
CHECK_DEADLOCK FALSE
