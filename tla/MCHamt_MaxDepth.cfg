\* violation run: GetFindsExactlyTheDirectory at fanout 16 (bit_width 4)
CONSTANTS
    Keys <- MCKeyPair
    HashFamily <- MCHashFamily
    Fanout = 16
SPECIFICATION Spec
INVARIANT GetFindsExactlyTheDirectory
CHECK_DEADLOCK FALSE
