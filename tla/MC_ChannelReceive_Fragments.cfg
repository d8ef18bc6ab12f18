\* Expected violation: the final fragment is left out of the reassembled bunch.
CONSTANTS
    ChSeqMod = 1024
    InitInReliable = 5
    MessageSizes <- MC_Long
    MaxDeliveries = 7
SPECIFICATION Spec
INVARIANT ReassemblesWholeMessage
\* The client has sent its whole stream and the deliveries are spent.
CHECK_DEADLOCK FALSE
