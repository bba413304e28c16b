SPECIFICATION FairSpec
CONSTANT MaxClients = 2
CHECK_DEADLOCK FALSE
INVARIANT TypeOK
INVARIANT SilentAfterFree
INVARIANT LossTold
PROPERTY KeepsStates
PROPERTY StopReturns
