SPECIFICATION FairSpec
CONSTANTS
    Clients = {c1, c2}
    Threads = {t1, t2}
    Sessions = {"programming"}
    None = None
    MaxRequests = 3
    MaxS3Jobs = 1
    MaxTimeouts = 1
INVARIANTS
    TypeOK
    OneThreadPerClient
    QueueIsServed
    SessionIsTimed
    RequestIsWorkedOn
PROPERTY
    SessionEnds
CHECK_DEADLOCK FALSE
