\* When every request is answered, or the server does not serve, nothing more happens.
CHECK_DEADLOCK FALSE
\* Chunks of 2 bytes, files of up to 3. A call of stop may come before that of start,
\* or find the server serving.
CONSTANTS
    full = full
    short = short
    more = more
    bad = bad
    down1 = down1
    down2 = down2
    del = del
    doc = doc
    pic = pic
    Calls <- FewCalls
    Names = {doc, pic}
    Kind <- FewKinds
    Target <- FewTargets
    Size <- FewSizes
    Valid = {doc}
    ChunkSize = 2
    MaxFileSize = 3
    Word = 16
    MaxFaults = 1
    Callers = {start1, stop1}
    Starts = {start1}
    Nobody = Nobody
SPECIFICATION FairProcessSpec
INVARIANTS
    ProcessTypeOK
    WithinLimit
    
PROPERTIES
    
    
    MutexesStay
    ServedCallsReturn
