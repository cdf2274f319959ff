SPECIFICATION Spec
CONSTANTS
    ann1 = ann1
    ann2 = ann2
    bob1 = bob1
    ann = ann
    bob = bob
    right = right
    wrong = wrong
    Installs = {ann1, ann2, bob1}
    Nicks = {ann, bob}
    Nick <- MCNick
    Passwords = {right, wrong}
    MaxProcs = 3
    MaxRegs = 2
    MaxAuths = 1
    MaxLookups = 1
    MaxEnds = 1
    MaxFaults = 1
    NoInstall = NoInstall
    NoFile = NoFile
    Torn = Torn
    NoRequest = NoRequest
SYMMETRY MCSymmetry
CHECK_DEADLOCK FALSE
INVARIANTS
    TypeOK
    ToldIsStored
    NicknameOwnedOnce
    KeysOfNickname
    AuthorizedKnewPassword
    TransactionOfACall
