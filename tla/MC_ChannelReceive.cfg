\* Reliable messages of one and two fragments, numbered 1020..1023 and then
\* wrapping to 0, under duplication and reordering: the channel state stays
\* within its 10-bit range, through the wrap and a reassembled bunch.
CONSTANTS
    ChSeqMod = 1024
    InitInReliable = 1019
    MessageSizes <- MC_Gate
    MaxDeliveries = 7
SPECIFICATION Spec
INVARIANTS TypeOK
\* The client has sent its whole stream and the deliveries are spent.
CHECK_DEADLOCK FALSE
