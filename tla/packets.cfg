SPECIFICATION Spec

CONSTANTS
    MaxChunks = 6
    MaxInString = 3
    FieldChars <- MCFieldChars
    MaxField = 2

INVARIANTS
    AcceptsJson
    PassesAgree
    DataFits
    StringsDecoded
    FieldsArrive
    ExitsArrive

CHECK_DEADLOCK FALSE
