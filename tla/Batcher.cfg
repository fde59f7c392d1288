SPECIFICATION FairSpec
CONSTANTS
    Req = {r1, h1, h2, h3, h4}
    Hash = {h1, h2, h3, h4}
    HashOf <- MCHashOf
    Result = {v1, v2}
    NotCached = NotCached
    MaxBatchSize = 2
    TargetConcurrency = 2
INVARIANTS TypeOK OneHome CallbacksAreWaiting NoRefetch ConcurrencyBound NoStall
PROPERTIES AnsweredOnce ImplementsService EveryRequestAnswered OneDispatchPerCall
CHECK_DEADLOCK FALSE
