CONSTANT MaxKeys = 4
CHECK_DEADLOCK FALSE
SPECIFICATION FairSpec
INVARIANTS HandlerFindsItsEvents NothingLeftBehind
PROPERTY EarlyKeyDelivered
