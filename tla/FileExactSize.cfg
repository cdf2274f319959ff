\* When every client has left nothing more happens.
CHECK_DEADLOCK FALSE
\* One file whose size is a multiple of the chunk size.
CONSTANTS
    ann = ann
    bob = bob
    ray = ray
    one = one
    two = two
    doc = doc
    pic = pic
    None = None
    Clients <- OwnClients
    Names = {doc}
    Transfers <- OneTransfer
    From <- OneFrom
    To <- OneTo
    Name <- OneName
    Chunks <- OneChunks
    Exact = {one}
    MaxFaults = 0
SPECIFICATION Spec
INVARIANT
    CompletedIsRecorded
