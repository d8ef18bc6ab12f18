\* Expected violation: a duplicated handshake Response that arrives after
\* game traffic makes the UDP task send a second NewConnection; the cluster
\* replaces the live scope (scope.rs create_scope) and its fresh control
\* channel numbers the next message with a sequence the client has seen.
CONSTANTS
    k1 = k1
    k2 = k2
    NoCookie = NoCookie
    Cookies <- MC_CookiesJoinAtZero
    CookieSeq <- MC_CookieSeq
    MaxPlayers = 1
    MaxSplitscreens = 1
    HasWeapon = TRUE
    ClientNetSpeed = 10000
    DupHandshake = TRUE
    MaxLoss = 0
    MaxDup = 1
SPECIFICATION Spec
INVARIANTS ControlSequenceAdvances
CHECK_DEADLOCK FALSE
