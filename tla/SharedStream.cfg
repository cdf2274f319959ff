SPECIFICATION Spec
CONSTANTS
    NoCall = NoCall
    Uploads = {u}
    Downloads = {d}
CHECK_DEADLOCK FALSE
INVARIANT DownloadIsOfFile
