SPECIFICATION Spec
CONSTANTS
    default_context <- MCTable
    Shorthand <- MCShorthand
    MURK_VERB_SAY <- MCSay
    ToUpper <- MCToUpper
    Space = " "
    Letters = {"s", "a", "y", "U", "S", " "}
    MaxTyped = 4
CHECK_DEADLOCK FALSE
INVARIANTS
    FirstMatchWins
    ExpansionFound
    TabAgreesWithEnter
