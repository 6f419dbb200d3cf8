SPECIFICATION Spec
CONSTANTS
    d1 = d1
    d2 = d2
    Device = {d1, d2}
    Handle = {h1, h2}
    NoHandle = NoHandle
    Runs <- MCRuns
    Op = {o1, o2}
    MaxKeys <- MCMaxKeys
INVARIANTS
    TypeOK
    
    NoOrphan
    RefusalIsAnothers
SYMMETRY Symmetry
