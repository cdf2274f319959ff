SPECIFICATION FairSpec
CONSTANTS
    alice = alice
    bob = bob
    a1 = a1
    b1 = b1
    b2 = b2
    p1 = p1
    Users <- MCUsers
    Conns <- MCConns
    Owner <- MCOwner
    Pool = {p1}
    Main = main
    MaxMsgs = 1
    MaxAuths = 1
    NoConn = NoConn
    NoThread = NoThread
    NoMsg = NoMsg
PROPERTIES
    ClosedIsForgotten
    
    EveryoneServed
\* The process may die, and it has nothing to do once every client is gone.
CHECK_DEADLOCK FALSE
