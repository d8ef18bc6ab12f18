\* History bits the server reports are backed by received datagrams.
CONSTANTS
    SeqMod = 16384
    WordMod = 65536
    HistorySize = 256
    BitsPerWord = 32
    InitSeqs <- MC_InitSeqs
    MaxClientPackets = 3
    MaxServerPackets = 4
    MaxQueued = 2
SPECIFICATION Spec
INVARIANTS TypeOK HistoryOnlyAcksReceived
\* The server only answers datagrams: when the client stops sending, the
\* cluster thread blocks in rx.recv() and the connection stays idle.
CHECK_DEADLOCK FALSE
