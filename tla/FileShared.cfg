\* When every client has left nothing more happens.
CHECK_DEADLOCK FALSE
\* Two senders, one name, one receiver.
CONSTANTS
    ann = ann
    bob = bob
    ray = ray
    one = one
    two = two
    doc = doc
    pic = pic
    None = None
    Clients <- SharedClients
    Names = {doc}
    Transfers <- SharedTransfers
    From <- SharedFrom
    To <- SharedTo
    Name <- SharedName
    Chunks <- SharedChunks
    Exact = {}
    MaxFaults = 1
SPECIFICATION Spec
INVARIANTS
    TypeOK
    
    
    NotifiedOnce
