SPECIFICATION FairSystemSpec
CONSTANTS
    p1 = p1
    p2 = p2
    g1 = g1
    g2 = g2
    NULL = NULL
    Peers <- OnePeer
    Guids <- MCGuids
    ClientPackets <- MCClientPackets
    FromServer <- ServerPackets
    StoredPw <- MCStoredPw
    SqlKeys = {}
    default_context <- MCTable
    Shorthand <- MCShorthand
    MURK_VERB_SAY <- MCSay
    ToUpper <- MCToUpper
    Space = " "
    Keys = {"1", "2", "3"}
    Quoting = {}
    ReadAs <- MCReadAs
    InputSize = 1
    FlagInit = {FALSE}
    DigestRead = {"sha3"}
    PastTable = {"sorry"}
    MenuType = ""
    UniqueGuids = TRUE
    UninitPeer = {"ignored"}
    PacketTail = {"nul"}
    SqlResult = {"ok"}
    MaxToServer = 2
    MaxToClient = 2
\* The server may crash and the clients after it, and then nothing moves any more.
CHECK_DEADLOCK FALSE
PROPERTIES
    LoginAnswered
