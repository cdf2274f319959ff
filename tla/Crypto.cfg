SPECIFICATION Spec
CONSTANT Invalid = Invalid
CHECK_DEADLOCK FALSE
INVARIANTS
    CipherIsAes
    
    DrawsInRange
    NumbersTested
    SignaturesAccepted
    MessagesRecovered
