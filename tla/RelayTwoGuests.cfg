SPECIFICATION RelaySpec
CONSTANTS
    Conn = {c1}
    Notebook = {n1}
    Secret = {k1}
    SessionId = {s1}
    Guest = {g1, g2}
    MsgId = {m1}
    Perms <- OneOfTwo
    MaxHosts = 1
    MaxGuests = 2
    ChanCap = 1
    NoConn = NoConn
    NoSecret = NoSecret
    NoSession = NoSession
    NoGuest = NoGuest
    NoMsg = NoMsg
SYMMETRY RelaySymmetry
CONSTRAINTS EndsWithHostOnly GuestsInTime ReadersOnlyAsk
INVARIANTS
    RoutingSound
    BlindGuestsSeeOwnAcksOnly
CHECK_DEADLOCK FALSE
