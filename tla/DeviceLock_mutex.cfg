\* README.md:26 against the code.
SPECIFICATION Spec
CONSTANTS
    Proc = {p1, p2, p3}
    Inode = {i1, i2, i3, i4}
    NoProc = NoProc
    NoInode = NoInode
    MaxPolls = 1
CHECK_DEADLOCK FALSE
INVARIANT MutualExclusion

