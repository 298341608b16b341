SPECIFICATION FairSpec
CONSTANTS
  I32 <- MCI32
  Texts <- MCTexts
  Arguments <- MCArguments
  Values <- MCValues
  MaxCalls = 2
INVARIANT RpcTypeOK
PROPERTIES ImplementsRemoteCall EveryCallEnds
CHECK_DEADLOCK FALSE
