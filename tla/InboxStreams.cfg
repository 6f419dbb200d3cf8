SPECIFICATION Spec
CONSTANTS
    ann = ann
    Ann = Ann
    bob = bob
    m1 = m1
    m2 = m2
    m3 = m3
    lower = lower
    upper = upper
    c1 = c1
    c2 = c2
    NoSender = NoSender
    Msg = {m1, m3}
    Sender = {ann, Ann, bob}
    SenderOf <- MCAnonymous
    Fold <- MCFold
    Box = {lower, upper}
    Targets <- MCTwoBoxes
    Conn = {c1}
    Requests <- MCMixed
    MaxFaults = 1
INVARIANTS
    LossOnlyInWindows
    LiveNotRequeued
PROPERTY MailboxSpec
CHECK_DEADLOCK FALSE
