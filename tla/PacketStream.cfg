\* Lossy, duplicating network in order; the server's ids wrap, the client's do not.
SPECIFICATION FairSpec
CONSTANTS
    IdSpace = 5
    MaxSeq = 3
    MaxPush = 2
    MaxNet = 2
    Reorder = FALSE
INVARIANT TypeOK
INVARIANT StopAndWait
INVARIANT CommandsInOrder
PROPERTY RefinesChannel
PROPERTY EveryCommandHandled
PROPERTY EveryPacketDelivered
