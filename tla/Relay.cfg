SPECIFICATION MutationFairSpec
CONSTANTS
    Conn = {c1}
    Notebook = {n1}
    Secret = {k1}
    SessionId = {s1}
    Guest = {g1}
    MsgId = {m1}
    Perms <- ReadWrite
    MaxHosts = 1
    MaxGuests = 1
    ChanCap = 1
    NoConn = NoConn
    NoSecret = NoSecret
    NoSession = NoSession
    NoGuest = NoGuest
    NoMsg = NoMsg
PROPERTIES
    TimelyGuestsToldBeforeDropped
    BroadcastReachedOrigin
    EndedGuestsLeave
CHECK_DEADLOCK FALSE
