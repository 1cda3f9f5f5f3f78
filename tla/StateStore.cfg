\* Two processes save and load two states, a piece at a time, under the lock;
\* either may be killed at any point, and any system call but a read may fail.
SPECIFICATION FairSpec
CONSTANTS
    Clients = {k1, k2}
    States = {none, s1}
    NoSessions = none
    Error = Error
    Torn = Torn
    Inodes = {i1, i2, i3}
    NoInode = NoInode
    Chunks = 2
ACTION_CONSTRAINT FixedChoice
INVARIANTS
    StoreTypeOK
    NeverPartial
PROPERTIES
    ImplementsAtomicState
    CallsReturn
