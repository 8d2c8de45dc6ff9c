\* The default fanout 256: lookups and listings over every shard layout.
CONSTANTS
    Keys <- MCKeys
    HashFamily <- MCHashFamily
    Fanout = 256
SPECIFICATION Spec
INVARIANT TypeOK
INVARIANT GetFindsExactlyTheDirectory
INVARIANT ChildrenListsEachEntryOnce
CHECK_DEADLOCK FALSE
