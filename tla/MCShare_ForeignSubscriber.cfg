\* violation run: one transfer, and another peer subscribes to its topic
\* name: the watcher releases the root before the ticket's receiver has
\* subscribed, gossipsub delivers it to nobody, and the receiver waits.
CONSTANTS
    t1 = t1
    t2 = t2
    Transfers = {t1}
    None = None
    Cap = 3
    MaxNoise = 1
    ForeignTopics = {t1}

SPECIFICATION FairSpec
PROPERTY TransferCompletes
CHECK_DEADLOCK FALSE
