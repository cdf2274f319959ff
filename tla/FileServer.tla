------------------------------ MODULE FileServer ------------------------------
(***************************************************************************)
(* The handlers of the file server: upload_file, download_file and         *)
(* delete_file, run by the threads of the HTTP library, with the lock on   *)
(* the file system, the map of file mutexes and the files.                 *)
(*                                                                         *)
(* Each request has a thread.  A body is a sequence of bytes that carry    *)
(* the request they came with.  The critical section of the map's own      *)
(* mutex is one step.                                                      *)
(***************************************************************************)
EXTENDS Integers, Sequences, FiniteSets

CONSTANTS
    Calls,       \* the requests
    Names,       \* file names
    Kind,        \* what a request asks for: upload, download or delete
    Target,      \* of which file
    Size,        \* and the size of its body
    Valid,       \* the names is_valid_filename accepts
    ChunkSize,   \* CHUNK_SIZE_BYTES
    MaxFileSize, \* _max_file_size
    Word,        \* size_t counts modulo Word
    MaxFaults    \* bound: how often the file system fails

ASSUME ServerAssumption ==
    /\ Kind \in [Calls -> {"upload", "download", "delete"}]
    /\ Target \in [Calls -> Names]
    /\ Size \in [Calls -> Nat \ {0}]
    /\ Valid \subseteq Names
    /\ ChunkSize \in Nat \ {0}
    /\ MaxFileSize \in Nat /\ Word \in Nat
    /\ ChunkSize <= MaxFileSize /\ MaxFileSize < Word
    /\ MaxFaults \in Nat

Body(c) == [i \in 1 .. Size[c] |-> c]

\* get_filepath_by_name puts a file two directories down; delete_file looks for it
\* in the storage directory itself.
Paths == {"nested", "flat"} \X Names
PathOf(c) == <<IF Kind[c] = "delete" THEN "flat" ELSE "nested", Target[c]>>

VARIABLES
    phase,   \* where the handler of a request is
    files,   \* the file at each path, <<>> if there is none
    mutexes, \* the paths in _file_mutexes
    inFs,    \* the handlers that hold _file_system_mutex
    inFile,  \* those that hold the mutex of a path
    found,   \* the file_size an upload found
    sent,    \* what a download has sent
    answer,  \* the answers sent
    faults   \* how often the file system failed

locals == <<found, sent>>
locks  == <<mutexes, inFs, inFile>>
vars   == <<phase, files, locks, locals, answer, faults>>

Phases == {"new", "file system", "mutex", "file", "check", "remove", "open",
           "write", "respond", "discard", "read", "done"}
Answers == {"none", "stored", "refused", "content", "not found", "error", "deleted"}

TypeOK ==
    /\ phase \in [Calls -> Phases]
    /\ files \in [Paths -> Seq(Calls)]
    /\ mutexes \subseteq Paths
    /\ inFs \subseteq Calls
    /\ inFile \in [Paths -> SUBSET Calls]
    /\ found \in [Calls -> Nat]
    /\ sent \in [Calls -> Seq(Calls)]
    /\ answer \in [Calls -> Answers]
    /\ faults \in 0 .. MaxFaults

Init ==
    /\ phase = [c \in Calls |-> "new"]
    /\ files = [p \in Paths |-> <<>>]
    /\ mutexes = {}
    /\ inFs = {}
    /\ inFile = [p \in Paths |-> {}]
    /\ found = [c \in Calls |-> 0]
    /\ sent = [c \in Calls |-> <<>>]
    /\ answer = [c \in Calls |-> "none"]
    /\ faults = 0

-----------------------------------------------------------------------------
Goto(c, p) == phase' = [phase EXCEPT ![c] = p]

Answer(c, a) == answer' = [answer EXCEPT ![c] = a]

\* The handler returns, and its lock objects give back what they hold.
Return(c) ==
    /\ Goto(c, "done")
    /\ inFs' = inFs \ {c}
    /\ inFile' = [inFile EXCEPT ![PathOf(c)] = @ \ {c}]
    /\ UNCHANGED mutexes

Fault == faults < MaxFaults /\ faults' = faults + 1

\* Faulty: a download does not wait for an upload.
MayHoldUnshared(c, holders) == holders = {} \/ Kind[c] = "download"

\* A shared_mutex: downloads take it shared, the others exclusively.
MayHold(c, holders) ==
    \/ holders = {}
    \/ Kind[c] = "download" /\ \A d \in holders : Kind[d] = "download"

\* An upload checks the name first.
Receive(c) ==
    /\ phase[c] = "new"
    /\ IF Kind[c] = "upload" /\ Target[c] \notin Valid
       THEN Goto(c, "done") /\ Answer(c, "refused")
       ELSE Goto(c, "file system") /\ UNCHANGED answer
    /\ UNCHANGED <<files, locks, locals, faults>>

LockFileSystem(c) ==
    /\ phase[c] = "file system"
    /\ MayHold(c, inFs)
    /\ inFs' = inFs \cup {c}
    /\ Goto(c, "mutex")
    /\ UNCHANGED <<files, mutexes, inFile, locals, answer, faults>>

\* Faulty: the mutex is kept by name.
GetMutexByName(c) ==
    /\ phase[c] = "mutex"
    /\ Kind[c] # "delete"
    /\ mutexes' = mutexes \cup {Target[c]}
    /\ Goto(c, "file")
    /\ UNCHANGED <<files, inFs, inFile, locals, answer, faults>>

\* The mutex of the path is created unless it is there.
GetMutex(c) ==
    /\ phase[c] = "mutex"
    /\ Kind[c] # "delete"
    /\ mutexes' = mutexes \cup {PathOf(c)}
    /\ Goto(c, "file")
    /\ UNCHANGED <<files, inFs, inFile, locals, answer, faults>>

LockFile(c) ==
    /\ phase[c] = "file"
    /\ MayHold(c, inFile[PathOf(c)])
    /\ inFile' = [inFile EXCEPT ![PathOf(c)] = @ \cup {c}]
    /\ Goto(c, "check")
    /\ UNCHANGED <<files, mutexes, inFs, locals, answer, faults>>

\* A delete does not create the mutex. It alone has the file system, so the rest of
\* it is one step.
DeleteFile(c) ==
    LET p == PathOf(c) IN
    /\ phase[c] = "mutex"
    /\ Kind[c] = "delete"
    /\ IF p \in mutexes /\ files[p] # <<>>
       THEN /\ Answer(c, "deleted")
            /\ files' = [files EXCEPT ![p] = <<>>]
            /\ mutexes' = mutexes \ {p}
       ELSE Answer(c, "not found") /\ UNCHANGED <<files, mutexes>>
    /\ Goto(c, "done")
    /\ inFs' = inFs \ {c}
    /\ UNCHANGED <<inFile, locals, faults>>

-----------------------------------------------------------------------------
(* upload_file.                                                            *)

\* Faulty: the body is not counted.
IsOversizeBodiless(c) ==
    Size[c] > ChunkSize \/ Len(files[PathOf(c)]) > MaxFileSize

\* file_size > _max_file_size - raw_data_bytes, on unsigned numbers.
IsOversize(c) ==
    \/ Size[c] > ChunkSize
    \/ Len(files[PathOf(c)]) > (MaxFileSize - Size[c]) % Word

\* A body that is too big, alone or with what is there, is answered first, ...
CheckSize(c) ==
    /\ phase[c] = "check"
    /\ Kind[c] = "upload"
    /\ found' = [found EXCEPT ![c] = Len(files[PathOf(c)])]
    /\ IF IsOversize(c)
       THEN Goto(c, "remove") /\ Answer(c, "refused")
       ELSE Goto(c, "open") /\ UNCHANGED answer
    /\ UNCHANGED <<files, locks, sent, faults>>

\* ... and then the file is removed.
RemoveFile(c) ==
    /\ phase[c] = "remove"
    /\ files' = [files EXCEPT ![PathOf(c)] = <<>>]
    /\ Return(c)
    /\ UNCHANGED <<locals, answer, faults>>

\* Faulty: the early return gives no lock back.
OpenFileKeepsLocks(c) ==
    /\ phase[c] = "open"
    /\ \/ Goto(c, "write") /\ UNCHANGED <<answer, faults>>
       \/ Fault /\ Answer(c, "refused") /\ Goto(c, "done")
    /\ UNCHANGED <<files, locks, locals>>

OpenFile(c) ==
    /\ phase[c] = "open"
    /\ \/ Goto(c, "write") /\ UNCHANGED <<locks, answer, faults>>
       \/ Fault /\ Answer(c, "refused") /\ Return(c)
    /\ UNCHANGED <<files, locals>>

\* A write that fails may have written a part.
WriteFile(c) ==
    LET p == PathOf(c) IN
    /\ phase[c] = "write"
    /\ \/ files' = [files EXCEPT ![p] = @ \o Body(c)]
          /\ Goto(c, "respond")
          /\ UNCHANGED faults
       \/ /\ Fault
          /\ \E k \in 0 .. Size[c] - 1 :
                 files' = [files EXCEPT ![p] = @ \o SubSeq(Body(c), 1, k)]
          /\ Goto(c, "discard")
    /\ UNCHANGED <<locks, locals, answer>>

Respond(c) ==
    /\ phase[c] = "respond"
    /\ Answer(c, "stored")
    /\ Return(c)
    /\ UNCHANGED <<files, locals, faults>>

\* Faulty: the part that was written stays.
DiscardKeepsPart(c) ==
    /\ phase[c] = "discard"
    /\ Answer(c, "refused")
    /\ Return(c)
    /\ UNCHANGED <<files, locals, faults>>

\* Not only the part: the file is removed.
Discard(c) ==
    /\ phase[c] = "discard"
    /\ files' = [files EXCEPT ![PathOf(c)] = <<>>]
    /\ Answer(c, "refused")
    /\ Return(c)
    /\ UNCHANGED <<locals, faults>>

-----------------------------------------------------------------------------
(* download_file.                                                          *)

OpenForReading(c) ==
    /\ phase[c] = "check"
    /\ Kind[c] = "download"
    /\ \/ /\ files[PathOf(c)] = <<>>
          /\ Answer(c, "not found") /\ Return(c)
          /\ UNCHANGED faults
       \/ /\ files[PathOf(c)] # <<>>
          /\ Fault /\ Answer(c, "error") /\ Return(c)
       \/ /\ files[PathOf(c)] # <<>>
          /\ Goto(c, "read")
          /\ UNCHANGED <<locks, answer, faults>>
    /\ UNCHANGED <<files, locals>>

\* file.read and gcount.
NextBytes(c) ==
    LET end == Len(sent[c]) + ChunkSize IN
    SubSeq(files[PathOf(c)], Len(sent[c]) + 1,
           IF end < Len(files[PathOf(c)]) THEN end ELSE Len(files[PathOf(c)]))

\* Every read is sent, the short or empty one that meets the end of the file too.
SendChunk(c) ==
    /\ phase[c] = "read"
    /\ sent' = [sent EXCEPT ![c] = @ \o NextBytes(c)]
    /\ IF Len(NextBytes(c)) = ChunkSize
       THEN UNCHANGED <<phase, locks, answer>>
       ELSE Answer(c, "content") /\ Return(c)
    /\ UNCHANGED <<files, found, faults>>

-----------------------------------------------------------------------------
UploadStep(c) ==
    \/ CheckSize(c)
    \/ RemoveFile(c)
    \/ OpenFile(c)
    \/ WriteFile(c)
    \/ Respond(c)
    \/ Discard(c)

DownloadStep(c) == OpenForReading(c) \/ SendChunk(c)

Step(c) ==
    \/ Receive(c)
    \/ LockFileSystem(c)
    \/ GetMutex(c)
    \/ LockFile(c)
    \/ DeleteFile(c)
    \/ UploadStep(c)
    \/ DownloadStep(c)

Next == \E c \in Calls : Step(c)

Spec == Init /\ [][Next]_vars

-----------------------------------------------------------------------------
(* Properties.                                                             *)

\* What the file server shows of its files: an upload counts once it is answered. One
\* that was written and not answered yet does not count, one that was refused has
\* already cost the file, and nobody can see that it is otherwise.
Visible(n) ==
    LET p == <<"nested", n>>
        busy == {c \in inFile[p] : phase[c] \in {"remove", "write", "respond", "discard"}}
    IN
    IF busy = {} THEN files[p]
    ELSE LET c == CHOOSE c \in busy : TRUE IN
         IF phase[c] = "remove" THEN <<>> ELSE SubSeq(files[p], 1, found[c])

Promise == INSTANCE FileStore WITH
    store  <- [n \in Names |-> Visible(n)],
    got    <- [c \in Calls |-> IF answer[c] = "content" THEN sent[c] ELSE <<>>]

\* The handlers together behave like a store whose operations are atomic: chunks of
\* concurrent uploads are not mixed, a download in many reads is one state of the
\* file, and an answer says what became of it.
KeepsPromise == Promise!Spec

\* upload_file appends to no file beyond the limit: the check of the size still holds
\* at the write.
WithinLimit == \A p \in Paths : Len(files[p]) <= MaxFileSize

\* In f a request has left its whole body in one place, or nothing; and it left it only
\* if it was sent to n, and was told that it is stored.
HoldsWhole(f, n, told) ==
    \A u \in Calls :
        LET at == {i \in DOMAIN f : f[i] = u} IN
        at # {} => /\ Target[u] = n /\ told[u] = "stored"
                   /\ \E k \in 0 .. Len(f) : at = k + 1 .. k + Size[u]

\* The files, and what download_file answered with, consist of whole bodies, each at most
\* once and of an upload_file of that name which was told of its success.
ContentsWhole ==
    /\ \A n \in Names : HoldsWhole(Visible(n), n, answer)
    /\ \A d \in Calls : answer[d] = "content" => HoldsWhole(sent[d], Target[d], answer)
=============================================================================
