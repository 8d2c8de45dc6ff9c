\* One transfer, channels large enough for the unrelated traffic: the
\* receiver eventually gets the root once it has subscribed.
CONSTANTS
    t1 = t1
    t2 = t2
    Transfers = {t1}
    None = None
    Cap = 3
    MaxNoise = 2
    ForeignTopics = {}

SPECIFICATION FairSpec
PROPERTY TransferCompletes
CHECK_DEADLOCK FALSE
