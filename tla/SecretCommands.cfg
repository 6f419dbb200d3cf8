SPECIFICATION Spec
CONSTANTS
    Handle = {h}
    Device = {d1, d2}
    Key = {k1, k2, k3}
    NoKey = NoKey
    Job = {j1}
    Reader = {r1, r2}
    MaxFaults = 1
SYMMETRY Symmetry
INVARIANTS
    TypeOK
    ConfirmedIsUsed
    FetchedOnce
