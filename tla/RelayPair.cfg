SPECIFICATION Spec
CONSTANTS
    alice = alice
    bob = bob
    a1 = a1
    b1 = b1
    b2 = b2
    p1 = p1
    Users <- MCUsers
    Conns <- PairConns
    Owner <- PairOwner
    Pool = {p1}
    Main = main
    MaxMsgs = 2
    MaxAuths = 2
    NoConn = NoConn
    NoThread = NoThread
    NoMsg = NoMsg
INVARIANT
    SenderToldFirst
\* The process may die, and it has nothing to do once every client is gone.
CHECK_DEADLOCK FALSE
