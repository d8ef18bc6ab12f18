\* Expected violation: NMT_Login takes control sequence 0 and a delayed
\* duplicate of the Hello packet then passes the gate of
\* Channel::received_bunch (1022 > 0): in_reliable goes back to 1022, the
\* client's NMT_Join (sequence 1) is dropped though its packet is acked, and
\* the login never completes.
CONSTANTS
    k1 = k1
    k2 = k2
    NoCookie = NoCookie
    Cookies <- MC_CookiesLoginAtZero
    CookieSeq <- MC_CookieSeq
    MaxPlayers = 1
    MaxSplitscreens = 1
    HasWeapon = TRUE
    ClientNetSpeed = 10000
    DupHandshake = FALSE
    MaxLoss = 1
    MaxDup = 1
SPECIFICATION FairSpec
PROPERTIES LoginRefinesProgress
CHECK_DEADLOCK FALSE
