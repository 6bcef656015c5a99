SPECIFICATION FairSpec
CONSTANTS
    Conn = {c1, c2}
    Notebook = {n1, n2}
    Secret = {k1, k2}
    SessionId = {s1}
    MaxHosts = 1
    NoConn = NoConn
    NoSecret = NoSecret
    NoSession = NoSession
INVARIANTS
    CurrentHostStays
    IdleForgottenUnlessLate
    TokenStaysWithSecret
PROPERTIES
    EvictionNeedsSecret
    ReplacedHostsSessionsEnd
CHECK_DEADLOCK FALSE
