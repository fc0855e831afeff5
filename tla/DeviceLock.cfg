\* Three processes, a dead holder and two racers among them: every system
\* call interleaved, deaths anywhere, weak fairness of the calls.
SPECIFICATION FairSpec
CONSTANTS
    Proc = {p1, p2, p3}
    Inode = {i1, i2, i3, i4}
    NoProc = NoProc
    NoInode = NoInode
    MaxPolls = 1
CHECK_DEADLOCK FALSE
INVARIANTS TypeOK ExclusionWhileAllLive
PROPERTIES SettledUntilReleased ActsAsLockWhileAllLive AcquireTerminates
