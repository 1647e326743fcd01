SPECIFICATION OpenServerSpec
CONSTANTS
    p1 = p1
    p2 = p2
    g1 = g1
    g2 = g2
    g3 = g3
    NULL = NULL
    Peers <- MCPeers
    Guids <- MCGuids
    ClientPackets <- MCClientPackets
    StoredPw <- MCStoredPw
    SqlKeys = {"'"}
    MenuType = "MENU_MAIN"
    UniqueGuids = TRUE
    UninitPeer = {"ignored", "stale", "fault"}
    PacketTail = {"nul", "junk"}
    SqlResult = {"ok", "error", "fault"}
    MaxToServer = 1
    MaxToClient = 2
SYMMETRY MCSymmetry
\* The server process may exit or crash, and then nothing moves any more.
CHECK_DEADLOCK FALSE
PROPERTIES
    ConnectInformed
