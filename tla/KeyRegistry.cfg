SPECIFICATION Spec
CONSTANTS
    Handle = {alice, bob}
    Key = {k1, k2}
    NoKey = NoKey
    Request = {r1, r2}
INVARIANTS
    TypeOK
    OwnerStands
    ConfirmedRecord
    LookupNeverMixes
SYMMETRY Symmetry
PROPERTY LedgerSpec
