SPECIFICATION SystemSpec
CONSTANTS
    p1 = p1
    p2 = p2
    g1 = g1
    g2 = g2
    NULL = NULL
    Peers <- OnePeer
    Guids <- MCGuids
    ClientPackets <- MCClientPackets
    FromServer <- ServerPackets
    StoredPw <- MCStoredPw
    SqlKeys = {"'"}
    default_context <- MCTable
    Shorthand <- MCShorthand
    MURK_VERB_SAY <- MCSay
    ToUpper <- MCToUpper
    Space = " "
    Keys = {"1", "2", "3", "quote", "'"}
    Quoting = {"quote"}
    ReadAs <- MCReadAs
    InputSize = 1
    FlagInit = {TRUE, FALSE}
    DigestRead = {"sha3"}
    PastTable = {"sorry", "fault"}
    MenuType = "MENU_MAIN"
    UniqueGuids = TRUE
    UninitPeer = {"ignored", "stale", "fault"}
    PacketTail = {"nul", "junk"}
    SqlResult = {"ok", "error", "fault"}
    MaxToServer = 2
    MaxToClient = 2
\* The server may crash and the clients after it, and then nothing moves any more.
CHECK_DEADLOCK FALSE
INVARIANTS
    LoginBeforePlay
    OneSelection
    Agreement
PROPERTIES
    
    PasswordStaysInLogin
