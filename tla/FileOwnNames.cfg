\* When every client has left nothing more happens.
CHECK_DEADLOCK FALSE
\* One sender, two files, each with a name of its own.
CONSTANTS
    ann = ann
    bob = bob
    ray = ray
    one = one
    two = two
    doc = doc
    pic = pic
    None = None
    Clients <- OwnClients
    Names = {doc, pic}
    Transfers <- OwnTransfers
    From <- OwnFrom
    To <- OwnTo
    Name <- OwnNames
    Chunks <- OwnChunks
    Exact = {}
    MaxFaults = 1
SPECIFICATION FairSpec
INVARIANTS
    StoredInOrder
    
PROPERTY
    HandlerReturns
