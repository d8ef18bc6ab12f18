\* Login of one client: handshake retried after a loss, lost and duplicated
\* game datagrams, control sequences that wrap at 1024 with NMT_Join on 0.
CONSTANTS
    k1 = k1
    k2 = k2
    NoCookie = NoCookie
    Cookies <- MC_CookiesJoinAtZero
    CookieSeq <- MC_CookieSeq
    MaxPlayers = 1
    MaxSplitscreens = 1
    HasWeapon = TRUE
    ClientNetSpeed = 10000
    DupHandshake = FALSE
    MaxLoss = 2
    MaxDup = 2
SPECIFICATION FairSpec
INVARIANTS TypeOK AtMostMaxPlayers
PROPERTIES LoginRefinesProgress
\* Once the player has joined, nothing is left to send: the model stops.
CHECK_DEADLOCK FALSE
