\* Two transfers of one sender, both tickets accepted, channels with room
\* to spare: each receiver should get its own root.
CONSTANTS
    t1 = t1
    t2 = t2
    Transfers = {t1, t2}
    None = None
    Cap = 2
    MaxNoise = 0
    ForeignTopics = {}

SPECIFICATION FairSpec
PROPERTY TransferDeliversOwnRoot
CHECK_DEADLOCK FALSE
