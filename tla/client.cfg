SPECIFICATION OpenClientSpec
CONSTANTS
    p1 = p1
    NULL = NULL
    Peers <- MCPeers
    PacketTail = {"nul", "junk"}
    MaxToServer = 2
    MaxToClient = 1
    default_context <- MCTable
    Shorthand <- MCShorthand
    MURK_VERB_SAY <- MCSay
    ToUpper <- MCToUpper
    Space = " "
    Keys = {"S", "quote"}
    Quoting = {"quote"}
    ReadAs <- MCReadAs
    InputSize = 2
    FlagInit = {TRUE, FALSE}
    DigestRead = {"sha3", "overwritten"}
    PastTable = {"sorry", "fault"}
    FromServer <- MCFromServer
INVARIANTS
    ClientTypeOK
    PromptClean
PROPERTIES
    LoginOnce
    ContextEnds
