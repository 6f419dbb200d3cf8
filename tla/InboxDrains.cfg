SPECIFICATION FairSpec
CONSTANTS
    ann = ann
    Ann = Ann
    bob = bob
    m1 = m1
    m2 = m2
    m3 = m3
    lower = lower
    upper = upper
    c1 = c1
    c2 = c2
    NoSender = NoSender
    Msg = {m1, m2}
    Sender = {ann}
    SenderOf <- MCOneSender
    Fold <- MCFold
    Box = {lower}
    Targets <- MCOneBox
    Conn = {c1, c2}
    Requests <- MCFullFetch
    MaxFaults = 0
INVARIANTS
    TypeOK
    DrainComplete
    DrainInOrder
 
CHECK_DEADLOCK FALSE
