\* Words of two bytes, blocks of two words; the input bytes are 0 and 0x06,
\* two of the values that padding is made of.
SPECIFICATION Spec

CONSTANTS
    WordBytes = 2
    Rate = 2
    Bytes = {{}, {1, 2}}
    MaxLen = 8

INVARIANTS
    SpongeTypeOK
    HashesMessage
    NoCollision
