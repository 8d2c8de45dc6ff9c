\* Two concurrent transfers of one sender: other peers may subscribe to the
\* transfers' topic names; the channels stay bounded and Share implements
\* ShareTransfer.
CONSTANTS
    t1 = t1
    t2 = t2
    Transfers = {t1, t2}
    None = None
    Cap = 2
    MaxNoise = 2
    ForeignTopics = {t1, t2}

SPECIFICATION Spec
SYMMETRY MCSymmetry
INVARIANT TypeOK
PROPERTY RefinesShareTransfer
CHECK_DEADLOCK FALSE
