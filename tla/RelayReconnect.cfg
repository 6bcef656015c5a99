SPECIFICATION RelaySpec
CONSTANTS
    Conn = {c1, c2}
    Notebook = {n1}
    Secret = {k1}
    SessionId = {s1}
    Guest = {g1}
    MsgId = {}
    Perms <- OnlyWrite
    MaxHosts = 1
    MaxGuests = 1
    ChanCap = 1
    NoConn = NoConn
    NoSecret = NoSecret
    NoSession = NoSession
    NoGuest = NoGuest
    NoMsg = NoMsg
SYMMETRY RelaySymmetry
CONSTRAINT EndsWithHostOnly
PROPERTIES
    RegistryImplemented
CHECK_DEADLOCK FALSE
