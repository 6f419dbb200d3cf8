SPECIFICATION Spec
CONSTANTS
    MinTTL = 4
    DefaultTTL = 8
    MaxTTL = 12
    Second = 4
    Half = 128
    NoTTL = NoTTL
    Text = {x, y}
    NoText = NoText
    Random = {n}
    Request = {r1, r2}
    AskedTTL <- MCAskedTTL
INVARIANTS
    TypeOK
    BurnReadOnce
    ConfirmedKept
    LifetimeBounded
PROPERTY VaultSpec
SYMMETRY Symmetry
