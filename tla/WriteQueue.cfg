\* The process may end, and all requests may be written.
CHECK_DEADLOCK FALSE
\* Two threads, so that handlers overlap, and a third request behind two that did.
CONSTANTS
    r1 = r1
    r2 = r2
    r3 = r3
    Threads = {t1, t2}
    Requests = {r1, r2, r3}
    NoRequest = NoRequest
    Garbage = Garbage
    MaxRaces = 1
SPECIFICATION FairSpec
CONSTRAINT InOneOrder
INVARIANTS
    TypeOK
    WrittenInOrder
    KeepsWriting
PROPERTIES
    
    EventuallyWritten
