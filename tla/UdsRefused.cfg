SPECIFICATION Spec
CONSTANTS
    Clients = {c1}
    Threads = {t1, t2}
    Sessions = {"programming"}
    None = None
    MaxRequests = 3
    MaxS3Jobs = 1
    MaxTimeouts = 1
PROPERTY
    RefusedIsIgnored
CHECK_DEADLOCK FALSE
