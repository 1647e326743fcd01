\* Values have 0 and 1 on both sides of every cut between two characters;
\* Characters are the two ends of basis_64, one between, and one outside it.
\* Strings of six bytes are two whole groups, texts of seven a group and more.
SPECIFICATION Spec

CONSTANTS
    Values = {0, 90, 165, 255}
    Characters = {0, 42, 63, 64}
    MaxBytes = 6
    MaxChars = 7

INVARIANTS
    RoundTrip
    EncodeFits
    DecodeFits

CHECK_DEADLOCK FALSE
