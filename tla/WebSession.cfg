SPECIFICATION Spec
CONSTANTS
    bob = bob
    Bob = Bob
    None = None
    Tab = {t1, t2}
    Key = {bob, Bob}
    Fold <- MCFold
    Entered = {bob}
    Used = {Bob}
    Id = {m1}
    MaxAccount = 2
    MaxOpen = 2
    MaxSave = 2
INVARIANTS
    TypeOK
    IdlePageIsSaved
    DeletedStaysOut
    ContactsDistinct
SYMMETRY MCTabs
CHECK_DEADLOCK FALSE
