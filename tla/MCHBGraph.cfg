CONSTANTS
  Traces <- SyncTraces
  ChannelComm = TRUE
SPECIFICATION Spec
INVARIANTS
  TypeOK
  SoundOrder
  NoOrderLost
  OrderKept
