SPECIFICATION Spec
CONSTANTS
    Writer = {w1}
    Inode = {i1, i2, i3, i4}
    NoInode = NoInode
    Chunks = 2
    MaxUpdates = 2
    MaxEdits = 2
    MaxFailures = 1
SYMMETRY Symmetry
INVARIANTS
    TypeOK
    NeverTorn
    AckedSurvives
    EditsKept
    AckedPrivate
PROPERTY ImplementsAtomicFile
CHECK_DEADLOCK FALSE
