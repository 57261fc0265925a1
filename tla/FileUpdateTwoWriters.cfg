SPECIFICATION Spec
CONSTANTS
    Writer = {w1, w2}
    Inode = {i1, i2, i3, i4}
    NoInode = NoInode
    Chunks = 2
    MaxUpdates = 2
    MaxEdits = 0
    MaxFailures = 0
INVARIANT NeverTorn
CHECK_DEADLOCK FALSE
