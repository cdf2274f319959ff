--------------------------- MODULE FileServerProofs ---------------------------
(***************************************************************************)
(* Theorems about FileServer, for every set of requests, names and sizes.  *)
(* ServerInv says what each handler holds and knows in each phase; from it *)
(* follow the bound on the files and that the handlers implement           *)
(* FileStore, in which every request takes effect at once.                 *)
(***************************************************************************)
EXTENDS FileServer, SequenceTheorems, TLAPS

InsideFs  == {"mutex", "file", "check", "remove", "open", "write", "respond",
              "discard", "read"}
AtFile    == {"check", "remove", "open", "write", "respond", "discard", "read"}
Uploading == {"remove", "open", "write", "respond", "discard"}

\* A handler holds the file system and then the mutex of its file, until it returns.
LocksOf(c) ==
    /\ c \in inFs <=> phase[c] \in InsideFs
    /\ \A p \in Paths : c \in inFile[p] <=> p = PathOf(c) /\ phase[c] \in AtFile

\* Each handler stays on its own way.
KindOf(c) ==
    /\ phase[c] \in Uploading => Kind[c] = "upload"
    /\ phase[c] = "read" => Kind[c] = "download"
    /\ phase[c] \in AtFile \cup {"file"} => Kind[c] # "delete"

\* What an upload found of its file is true until it returns.
UploadOf(c) ==
    LET f == files[PathOf(c)] IN
    /\ phase[c] \in {"open", "write"} => found[c] = Len(f) /\ Len(f) + Size[c] <= MaxFileSize
    /\ phase[c] \in {"respond", "discard"} => found[c] <= Len(f)
    /\ phase[c] = "respond" => f = SubSeq(f, 1, found[c]) \o Body(c)

\* A download has sent the beginning of the file it is in.
DownloadOf(c) ==
    LET f == files[PathOf(c)] IN
    /\ phase[c] \in (InsideFs \ {"read"}) \cup {"new", "file system"} => sent[c] = <<>>
    /\ phase[c] = "read" =>
          f # <<>> /\ Len(sent[c]) <= Len(f) /\ sent[c] = SubSeq(f, 1, Len(sent[c]))

\* A request is answered when its handler returns; only a refused upload is answered
\* before its file is removed.
AnswerOf(c) ==
    /\ phase[c] \notin {"remove", "done"} => answer[c] = "none"
    /\ phase[c] = "remove" => answer[c] = "refused"

CallSound(c) == LocksOf(c) /\ KindOf(c) /\ UploadOf(c) /\ DownloadOf(c) /\ AnswerOf(c)

\* Only downloads share the file system.
Exclusive ==
    \A c, d \in inFs : c # d => Kind[c] = "download" /\ Kind[d] = "download"

\* Uploads put their files two directories down, and with them their mutexes.
NothingFlat ==
    \A n \in Names : <<"flat", n>> \notin mutexes /\ files[<<"flat", n>>] = <<>>

ServerInv ==
    /\ TypeOK
    /\ \A c \in Calls : CallSound(c)
    /\ Exclusive
    /\ NothingFlat
    /\ WithinLimit

-----------------------------------------------------------------------------
(* Facts about the values.                                                 *)

LEMMA ValuesTyped ==
    ASSUME NEW c \in Calls
    PROVE  /\ PathOf(c) \in Paths
           /\ Kind[c] \in {"upload", "download", "delete"}
           /\ Target[c] \in Names
           /\ Size[c] \in Nat \ {0} /\ ChunkSize \in Nat \ {0} /\ MaxFileSize \in Nat
           /\ Body(c) \in Seq(Calls) /\ Len(Body(c)) = Size[c]
           /\ Kind[c] # "delete" => PathOf(c) = <<"nested", Target[c]>>
           /\ Kind[c] = "delete" => PathOf(c) = <<"flat", Target[c]>>
<1>1. /\ Kind[c] \in {"upload", "download", "delete"} /\ Target[c] \in Names
      /\ Size[c] \in Nat \ {0} /\ ChunkSize \in Nat \ {0} /\ MaxFileSize \in Nat
  BY ServerAssumption
<1>2. Body(c) \in Seq(Calls) /\ Len(Body(c)) = Size[c]
  BY <1>1 DEF Body
<1>3. QED
  BY <1>1, <1>2 DEF PathOf, Paths

\* The subtraction does not wrap: a body of one chunk is no bigger than a file may be.
LEMMA SizeChecked ==
    ASSUME NEW c \in Calls, NEW n \in Nat, Size[c] <= ChunkSize
    PROVE  n > (MaxFileSize - Size[c]) % Word <=> n + Size[c] > MaxFileSize
<1>1. /\ Size[c] \in Nat /\ MaxFileSize \in Nat /\ Word \in Nat
      /\ MaxFileSize - Size[c] >= 0 /\ MaxFileSize - Size[c] < Word
  BY ServerAssumption
<1>2. ASSUME NEW x \in Nat, NEW w \in Nat, x < w PROVE x % w = x
  BY <1>2
<1>3. (MaxFileSize - Size[c]) % Word = MaxFileSize - Size[c]
  BY <1>1, <1>2
<1>4. QED
  BY <1>1, <1>3

\* The bytes before, up to and after a point of a sequence.
LEMMA Prefixes ==
    ASSUME NEW S, NEW s \in Seq(S)
    PROVE  /\ SubSeq(s, 1, 0) = <<>> /\ SubSeq(s, 1, Len(s)) = s
           /\ \A t \in Seq(S) : SubSeq(s \o t, 1, Len(s)) = s
           /\ \A a, b \in 0 .. Len(s) : a <= b =>
                 /\ SubSeq(s, 1, a) \o SubSeq(s, a + 1, b) = SubSeq(s, 1, b)
                 /\ Len(SubSeq(s, 1, a)) = a /\ Len(SubSeq(s, a + 1, b)) = b - a
                 /\ SubSeq(s, 1, a) \in Seq(S) /\ SubSeq(s, a + 1, b) \in Seq(S)
OBVIOUS

-----------------------------------------------------------------------------
(* The invariant.                                                          *)

LEMMA InitServer == Init => ServerInv
<1> SUFFICES ASSUME Init PROVE ServerInv
  OBVIOUS
<1>0. \A c \in Calls : PathOf(c) \in Paths
  BY ValuesTyped
<1>1. TypeOK
  BY ServerAssumption DEF Init, TypeOK, Phases, Answers
<1>2. \A c \in Calls : CallSound(c)
  BY <1>0 DEF Init, CallSound, LocksOf, KindOf, UploadOf, DownloadOf, AnswerOf, InsideFs,
              AtFile, Uploading
<1>3. Exclusive /\ NothingFlat /\ WithinLimit
  BY ServerAssumption DEF Init, Exclusive, NothingFlat, WithinLimit, Paths
<1>4. QED
  BY <1>1, <1>2, <1>3 DEF ServerInv

\* A handler's step leaves the others alone, and changes a file only when it has the
\* file system for itself.
OnlyOf(c) ==
    /\ \A d \in Calls \ {c} :
          /\ phase'[d] = phase[d] /\ found'[d] = found[d] /\ sent'[d] = sent[d]
          /\ answer'[d] = answer[d]
          /\ d \in inFs' <=> d \in inFs
          /\ \A p \in Paths : d \in inFile'[p] <=> d \in inFile[p]
    /\ \/ files' = files
       \/ /\ phase[c] \in Uploading
          /\ \A p \in Paths \ {PathOf(c)} : files'[p] = files[p]

\* What one step of a handler must do for the invariant to hold after it.
LEMMA StepKeeps ==
    ASSUME ServerInv, NEW c \in Calls, OnlyOf(c), TypeOK', CallSound(c)',
           files' = files \/ Len(files'[PathOf(c)]) <= MaxFileSize,
           phase'[c] \in InsideFs =>
               phase[c] \in InsideFs \/ MayHold(c, inFs),
           mutexes' \in {mutexes, mutexes \cup {PathOf(c)}},
           Kind[c] = "delete" => mutexes' = mutexes
    PROVE  ServerInv'
<1>1. ASSUME NEW d \in Calls \ {c} PROVE CallSound(d)'
  <2>1. CallSound(d) /\ PathOf(d) \in Paths
    BY ValuesTyped DEF ServerInv
  <2>2. files'[PathOf(d)] = files[PathOf(d)] \/ phase[d] \notin InsideFs
    <3>1. CASE phase[c] \in Uploading /\ phase[d] \in InsideFs
      <4>1. c \in inFs /\ d \in inFs /\ Kind[c] = "upload"
        BY <3>1 DEF ServerInv, CallSound, LocksOf, KindOf, InsideFs, Uploading
      <4>2. QED
        BY <4>1 DEF ServerInv, Exclusive
    <3>2. CASE files' = files
      BY <3>2
    <3>3. QED
      BY <3>1, <3>2 DEF OnlyOf
  <2>3. /\ phase'[d] = phase[d] /\ found'[d] = found[d] /\ sent'[d] = sent[d]
        /\ answer'[d] = answer[d]
        /\ d \in inFs' <=> d \in inFs
        /\ \A p \in Paths : d \in inFile'[p] <=> d \in inFile[p]
    BY DEF OnlyOf
  <2>4. LocksOf(d)' /\ KindOf(d)' /\ AnswerOf(d)'
    BY <2>1, <2>3 DEF CallSound, LocksOf, KindOf, AnswerOf, PathOf
  <2>5. UploadOf(d)' /\ DownloadOf(d)'
    <3> DEFINE p == PathOf(d)
    <3>1. UploadOf(d) /\ DownloadOf(d) /\ PathOf(d)' = p
      BY <2>1 DEF CallSound, PathOf
    <3>2. CASE files'[PathOf(d)] = files[PathOf(d)]
      BY <2>3, <3>1, <3>2 DEF UploadOf, DownloadOf
    <3>3. CASE phase[d] \notin InsideFs
      BY <2>3, <3>1, <3>3 DEF UploadOf, DownloadOf, InsideFs
    <3>4. QED
      BY <2>2, <3>2, <3>3
  <2>6. QED
    BY <2>4, <2>5 DEF CallSound
<1>2. Exclusive'
  <2> SUFFICES ASSUME NEW d \in inFs', NEW e \in inFs', d # e
               PROVE  Kind[d] = "download" /\ Kind[e] = "download"
    BY DEF Exclusive
  <2>1. d \in Calls /\ e \in Calls
    BY DEF TypeOK
  <2>2. \A x \in inFs : x # c => x \in Calls
    BY DEF ServerInv, TypeOK
  <2>3. CASE d # c /\ e # c
    BY <2>1, <2>3 DEF OnlyOf, ServerInv, Exclusive
  <2>4. ASSUME NEW x \in Calls \ {c}, x \in inFs', c \in inFs'
        PROVE  Kind[x] = "download" /\ Kind[c] = "download"
    <3>1. x \in inFs
      BY <2>4 DEF OnlyOf
    <3>2. phase'[c] \in InsideFs
      BY <2>4 DEF CallSound, LocksOf
    <3>3. CASE phase[c] \in InsideFs
      BY <3>1, <3>3 DEF ServerInv, CallSound, LocksOf, Exclusive
    <3>4. CASE MayHold(c, inFs)
      BY <3>1, <3>4 DEF MayHold
    <3>5. QED
      BY <3>2, <3>3, <3>4
  <2>5. QED
    BY <2>1, <2>3, <2>4
<1>3. NothingFlat'
  <2> SUFFICES ASSUME NEW n \in Names
               PROVE  <<"flat", n>> \notin mutexes' /\ files'[<<"flat", n>>] = <<>>
    BY DEF NothingFlat
  <2>1. <<"flat", n>> \notin mutexes /\ files[<<"flat", n>>] = <<>>
        /\ <<"flat", n>> \in Paths
    BY DEF ServerInv, NothingFlat, Paths
  <2>2. Kind[c] # "delete" => PathOf(c) # <<"flat", n>>
    BY ValuesTyped
  <2>3. phase[c] \in Uploading => Kind[c] = "upload"
    BY DEF ServerInv, CallSound, KindOf
  <2>4. QED
    BY <2>1, <2>2, <2>3 DEF OnlyOf
<1>4. WithinLimit'
  BY ValuesTyped DEF ServerInv, WithinLimit, OnlyOf
<1>5. QED
  BY <1>1, <1>2, <1>3, <1>4 DEF ServerInv

\* A request and what holds of it.
LEMMA CallHere ==
    ASSUME ServerInv, NEW c \in Calls
    PROVE  /\ LocksOf(c) /\ KindOf(c) /\ UploadOf(c) /\ DownloadOf(c) /\ AnswerOf(c)
           /\ phase \in [Calls -> Phases] /\ files \in [Paths -> Seq(Calls)]
           /\ mutexes \subseteq Paths /\ inFs \subseteq Calls
           /\ inFile \in [Paths -> SUBSET Calls]
           /\ found \in [Calls -> Nat] /\ sent \in [Calls -> Seq(Calls)]
           /\ answer \in [Calls -> Answers] /\ faults \in 0 .. MaxFaults
           /\ files[PathOf(c)] \in Seq(Calls)
           /\ Len(files[PathOf(c)]) \in Nat /\ Len(files[PathOf(c)]) <= MaxFileSize
           /\ PathOf(c)' = PathOf(c)
BY ValuesTyped, LenProperties
   DEF ServerInv, CallSound, TypeOK, WithinLimit, PathOf

-----------------------------------------------------------------------------
(* The steps.                                                              *)

\* A handler that goes to phase x and takes and gives no lock.
LEMMA GoesOn ==
    ASSUME ServerInv, NEW c \in Calls, NEW x \in Phases, Goto(c, x),
           UNCHANGED <<inFs, inFile>>,
           x \in InsideFs <=> phase[c] \in InsideFs,
           x \in AtFile <=> phase[c] \in AtFile,
           x \in Uploading => Kind[c] = "upload",
           x = "read" => Kind[c] = "download",
           x = "file" => Kind[c] # "delete"
    PROVE  /\ phase'[c] = x /\ \A d \in Calls \ {c} : phase'[d] = phase[d]
           /\ phase' \in [Calls -> Phases] /\ inFs' \subseteq Calls
           /\ inFile' \in [Paths -> SUBSET Calls]
           /\ LocksOf(c)' /\ KindOf(c)'
<1>1. phase'[c] = x /\ (\A d \in Calls \ {c} : phase'[d] = phase[d])
      /\ phase' \in [Calls -> Phases] /\ inFs' \subseteq Calls
      /\ inFile' \in [Paths -> SUBSET Calls]
  BY CallHere DEF Goto
<1>2. LocksOf(c)'
  BY <1>1, CallHere DEF LocksOf
<1>3. KindOf(c)'
  BY <1>1, CallHere DEF KindOf, AtFile
<1>4. QED
  BY <1>1, <1>2, <1>3

\* A handler that returns has no lock.
LEMMA Returns ==
    ASSUME ServerInv, NEW c \in Calls, Return(c)
    PROVE  /\ phase'[c] = "done" /\ \A d \in Calls \ {c} : phase'[d] = phase[d]
           /\ phase' \in [Calls -> Phases] /\ inFs' \subseteq Calls
           /\ inFile' \in [Paths -> SUBSET Calls] /\ mutexes' = mutexes
           /\ \A d \in Calls \ {c} :
                 /\ d \in inFs' <=> d \in inFs
                 /\ \A p \in Paths : d \in inFile'[p] <=> d \in inFile[p]
           /\ LocksOf(c)' /\ KindOf(c)' /\ UploadOf(c)' /\ DownloadOf(c)'
<1>1. /\ phase' = [phase EXCEPT ![c] = "done"] /\ inFs' = inFs \ {c}
      /\ inFile' = [inFile EXCEPT ![PathOf(c)] = @ \ {c}] /\ mutexes' = mutexes
  BY DEF Return, Goto
<1>2. /\ PathOf(c) \in Paths /\ phase \in [Calls -> Phases] /\ inFs \subseteq Calls
      /\ inFile \in [Paths -> SUBSET Calls] /\ LocksOf(c) /\ PathOf(c)' = PathOf(c)
  BY CallHere, ValuesTyped
<1>3. /\ phase'[c] = "done" /\ \A d \in Calls \ {c} : phase'[d] = phase[d]
      /\ phase' \in [Calls -> Phases] /\ inFs' \subseteq Calls
      /\ inFile' \in [Paths -> SUBSET Calls]
      /\ \A p \in Paths : inFile'[p] = IF p = PathOf(c) THEN inFile[p] \ {c} ELSE inFile[p]
  BY <1>1, <1>2 DEF Phases
<1>4. LocksOf(c)' /\ KindOf(c)' /\ UploadOf(c)' /\ DownloadOf(c)'
  BY <1>1, <1>2, <1>3
     DEF LocksOf, KindOf, UploadOf, DownloadOf, InsideFs, AtFile, Uploading
<1>5. QED
  BY <1>1, <1>3, <1>4

LEMMA FaultTyped ==
    ASSUME ServerInv, faults' = faults \/ Fault
    PROVE  faults' \in 0 .. MaxFaults
BY ServerAssumption DEF ServerInv, TypeOK, Fault

LEMMA ReceiveKeeps ==
    ASSUME ServerInv, NEW c \in Calls, Receive(c)
    PROVE  ServerInv' /\ OnlyOf(c)
<1>1. /\ phase[c] = "new"
      /\ UNCHANGED <<files, mutexes, inFs, inFile, found, sent, faults>>
      /\ \/ Goto(c, "done") /\ answer' = [answer EXCEPT ![c] = "refused"]
         \/ Goto(c, "file system") /\ answer' = answer
  BY DEF Receive, locks, locals, Answer
<1>2. PICK x \in {"done", "file system"} : /\ Goto(c, x)
                                           /\ x # "done" => answer' = answer
  BY <1>1
<1>3. /\ phase'[c] = x /\ \A d \in Calls \ {c} : phase'[d] = phase[d]
      /\ phase' \in [Calls -> Phases] /\ LocksOf(c)' /\ KindOf(c)'
  BY <1>1, <1>2, GoesOn DEF InsideFs, AtFile, Uploading, Phases
<1>4. TypeOK'
  BY <1>1, <1>3, CallHere DEF ServerInv, TypeOK, Answers
<1>5. CallSound(c)'
  BY <1>1, <1>2, <1>3, CallHere
     DEF CallSound, UploadOf, DownloadOf, AnswerOf, InsideFs
<1>6. OnlyOf(c)
  BY <1>1, <1>3, CallHere DEF OnlyOf
<1>7. QED
  BY <1>1, <1>3, <1>4, <1>5, <1>6, StepKeeps DEF InsideFs

LEMMA LockFileSystemKeeps ==
    ASSUME ServerInv, NEW c \in Calls, LockFileSystem(c)
    PROVE  ServerInv' /\ OnlyOf(c)
<1>1. /\ phase[c] = "file system" /\ MayHold(c, inFs)
      /\ inFs' = inFs \cup {c} /\ phase' = [phase EXCEPT ![c] = "mutex"]
      /\ UNCHANGED <<files, mutexes, inFile, found, sent, answer, faults>>
  BY DEF LockFileSystem, Goto, locals
<1>2. TypeOK'
  BY <1>1 DEF ServerInv, TypeOK, Phases
<1>3. CallSound(c)'
  BY <1>1, CallHere
     DEF CallSound, LocksOf, KindOf, UploadOf, DownloadOf, AnswerOf, InsideFs, AtFile, Uploading
<1>4. OnlyOf(c)
  BY <1>1, CallHere DEF OnlyOf
<1>5. QED
  BY <1>1, <1>2, <1>3, <1>4, StepKeeps

LEMMA GetMutexKeeps ==
    ASSUME ServerInv, NEW c \in Calls, GetMutex(c)
    PROVE  ServerInv' /\ OnlyOf(c)
<1>1. /\ phase[c] = "mutex" /\ Kind[c] # "delete" /\ Goto(c, "file")
      /\ mutexes' = mutexes \cup {PathOf(c)}
      /\ UNCHANGED <<files, inFs, inFile, found, sent, answer, faults>>
  BY DEF GetMutex, locals
<1>2. /\ phase'[c] = "file" /\ \A d \in Calls \ {c} : phase'[d] = phase[d]
      /\ phase' \in [Calls -> Phases] /\ LocksOf(c)' /\ KindOf(c)'
  BY <1>1, GoesOn DEF InsideFs, AtFile, Uploading, Phases
<1>3. TypeOK'
  BY <1>1, <1>2, ValuesTyped DEF ServerInv, TypeOK
<1>4. CallSound(c)'
  BY <1>1, <1>2, CallHere DEF CallSound, UploadOf, DownloadOf, AnswerOf, InsideFs
<1>5. OnlyOf(c)
  BY <1>1, <1>2 DEF OnlyOf
<1>6. QED
  BY <1>1, <1>3, <1>4, <1>5, StepKeeps DEF InsideFs

LEMMA LockFileKeeps ==
    ASSUME ServerInv, NEW c \in Calls, LockFile(c)
    PROVE  ServerInv' /\ OnlyOf(c)
<1>1. /\ phase[c] = "file" /\ phase' = [phase EXCEPT ![c] = "check"]
      /\ inFile' = [inFile EXCEPT ![PathOf(c)] = @ \cup {c}]
      /\ UNCHANGED <<files, mutexes, inFs, found, sent, answer, faults>>
  BY DEF LockFile, Goto, locals
<1>2. PathOf(c) \in Paths
  BY ValuesTyped
<1>3. TypeOK'
  BY <1>1, <1>2 DEF ServerInv, TypeOK, Phases
<1>4. LocksOf(c)'
  BY <1>1, <1>2, CallHere DEF LocksOf, InsideFs, AtFile
<1>5. CallSound(c)'
  BY <1>1, <1>4, CallHere
     DEF CallSound, KindOf, UploadOf, DownloadOf, AnswerOf, InsideFs, AtFile, Uploading
<1>6. OnlyOf(c)
  BY <1>1, <1>2, CallHere DEF OnlyOf
<1>7. QED
  BY <1>1, <1>3, <1>5, <1>6, StepKeeps DEF InsideFs

\* A delete never finds the mutex: what it looks for is not where uploads put it.
LEMMA DeleteKeeps ==
    ASSUME ServerInv, NEW c \in Calls, DeleteFile(c)
    PROVE  ServerInv' /\ OnlyOf(c)
<1>1. phase[c] = "mutex" /\ Kind[c] = "delete"
  BY DEF DeleteFile
<1>2. PathOf(c) \notin mutexes
  BY <1>1, ValuesTyped DEF ServerInv, NothingFlat
<1>3. /\ phase' = [phase EXCEPT ![c] = "done"] /\ inFs' = inFs \ {c}
      /\ answer' = [answer EXCEPT ![c] = "not found"]
      /\ UNCHANGED <<files, mutexes, inFile, found, sent, faults>>
  BY <1>2 DEF DeleteFile, Goto, Answer, locals
<1>4. TypeOK'
  BY <1>3 DEF ServerInv, TypeOK, Phases, Answers
<1>5. CallSound(c)'
  BY <1>1, <1>3, CallHere
     DEF CallSound, LocksOf, KindOf, UploadOf, DownloadOf, AnswerOf, InsideFs, AtFile, Uploading
<1>6. OnlyOf(c)
  BY <1>3, CallHere DEF OnlyOf
<1>7. QED
  BY <1>3, <1>4, <1>5, <1>6, CallHere, StepKeeps DEF InsideFs

LEMMA CheckSizeKeeps ==
    ASSUME ServerInv, NEW c \in Calls, CheckSize(c)
    PROVE  ServerInv' /\ OnlyOf(c)
<1> DEFINE n == Len(files[PathOf(c)])
<1>1. /\ phase[c] = "check" /\ Kind[c] = "upload"
      /\ found' = [found EXCEPT ![c] = n]
      /\ UNCHANGED <<files, mutexes, inFs, inFile, sent, faults>>
      /\ \/ Goto(c, "remove") /\ answer' = [answer EXCEPT ![c] = "refused"]
         \/ ~IsOversize(c) /\ Goto(c, "open") /\ answer' = answer
  BY DEF CheckSize, locks, Answer
<1>2. n \in Nat
  BY CallHere
<1>3. PICK x \in {"remove", "open"} :
          /\ Goto(c, x)
          /\ \/ x = "remove" /\ answer' = [answer EXCEPT ![c] = "refused"]
             \/ x = "open" /\ ~IsOversize(c) /\ answer' = answer
  BY <1>1
<1>4. /\ phase'[c] = x /\ \A d \in Calls \ {c} : phase'[d] = phase[d]
      /\ phase' \in [Calls -> Phases] /\ LocksOf(c)' /\ KindOf(c)'
  BY <1>1, <1>3, GoesOn DEF InsideFs, AtFile, Uploading, Phases
<1>5. TypeOK'
  BY <1>1, <1>2, <1>3, <1>4, CallHere DEF ServerInv, TypeOK, Answers
<1>6. x = "open" => n + Size[c] <= MaxFileSize
  <2>1. SUFFICES ASSUME ~IsOversize(c) PROVE n + Size[c] <= MaxFileSize
    BY <1>3
  <2>2. /\ Size[c] <= ChunkSize
        /\ ~(n > (MaxFileSize - Size[c]) % Word)
        /\ Size[c] \in Nat /\ ChunkSize \in Nat /\ MaxFileSize \in Nat
    BY <2>1, ValuesTyped DEF IsOversize
  <2>3. n > (MaxFileSize - Size[c]) % Word <=> n + Size[c] > MaxFileSize
    BY <1>2, <2>2, SizeChecked
  <2>4. QED
    BY <1>2, <2>2, <2>3
<1>7. found'[c] = n /\ files' = files /\ PathOf(c)' = PathOf(c)
  BY <1>1, CallHere
<1> HIDE DEF n
<1>8. UploadOf(c)'
  BY <1>4, <1>6, <1>7 DEF UploadOf, n
<1>9. CallSound(c)'
  BY <1>1, <1>3, <1>4, <1>8, CallHere
     DEF CallSound, DownloadOf, AnswerOf, InsideFs
<1>10. OnlyOf(c)
  BY <1>1, <1>3, <1>4, CallHere DEF OnlyOf
<1>11. QED
  BY <1>1, <1>5, <1>9, <1>10, StepKeeps DEF InsideFs

\* The file of an upload becomes f, and nobody else's.
LEMMA FileBecomes ==
    ASSUME ServerInv, NEW c \in Calls, NEW f \in Seq(Calls),
           files' = [files EXCEPT ![PathOf(c)] = f]
    PROVE  /\ files' \in [Paths -> Seq(Calls)] /\ files'[PathOf(c)] = f
           /\ \A p \in Paths \ {PathOf(c)} : files'[p] = files[p]
BY CallHere, ValuesTyped

LEMMA RemoveKeeps ==
    ASSUME ServerInv, NEW c \in Calls, RemoveFile(c) \/ Discard(c)
    PROVE  ServerInv' /\ OnlyOf(c)
<1>1. /\ phase[c] \in {"remove", "discard"} /\ Return(c)
      /\ files' = [files EXCEPT ![PathOf(c)] = <<>>]
      /\ UNCHANGED <<found, sent, faults>>
      /\ answer' \in {answer, [answer EXCEPT ![c] = "refused"]}
  BY DEF RemoveFile, Discard, locals, Answer
<1>2. <<>> \in Seq(Calls) /\ Len(<<>>) = 0
  OBVIOUS
<1>3. /\ files' \in [Paths -> Seq(Calls)] /\ files'[PathOf(c)] = <<>>
      /\ \A p \in Paths \ {PathOf(c)} : files'[p] = files[p]
  BY <1>1, <1>2, FileBecomes
<1>4. TypeOK'
  <2>1. answer' \in [Calls -> Answers]
    BY <1>1, CallHere DEF Answers
  <2>2. QED
    BY <1>1, <1>3, <2>1, Returns DEF ServerInv, TypeOK
<1>5. CallSound(c)'
  BY <1>1, Returns DEF CallSound, AnswerOf
<1>6. OnlyOf(c)
  BY <1>1, <1>3, Returns, CallHere DEF OnlyOf, Uploading
<1>7. QED
  BY <1>1, <1>2, <1>3, <1>4, <1>5, <1>6, Returns, ValuesTyped, StepKeeps DEF InsideFs

LEMMA OpenFileKeeps ==
    ASSUME ServerInv, NEW c \in Calls, OpenFile(c)
    PROVE  ServerInv' /\ OnlyOf(c)
<1>1. /\ phase[c] = "open" /\ UNCHANGED <<files, found, sent, mutexes>>
      /\ \/ Goto(c, "write") /\ UNCHANGED <<inFs, inFile, answer, faults>>
         \/ Fault /\ answer' = [answer EXCEPT ![c] = "refused"] /\ Return(c)
  BY DEF OpenFile, locals, locks, Answer, Return
<1>2. CASE Goto(c, "write") /\ UNCHANGED <<inFs, inFile, answer, faults>>
  <2>1. /\ phase'[c] = "write" /\ \A d \in Calls \ {c} : phase'[d] = phase[d]
        /\ phase' \in [Calls -> Phases] /\ LocksOf(c)' /\ KindOf(c)'
    BY <1>1, <1>2, GoesOn, CallHere DEF InsideFs, AtFile, Uploading, Phases, KindOf
  <2>2. TypeOK'
    BY <1>1, <1>2, <2>1 DEF ServerInv, TypeOK
  <2>3. CallSound(c)'
    BY <1>1, <1>2, <2>1, CallHere
       DEF CallSound, UploadOf, DownloadOf, AnswerOf, InsideFs
  <2>4. OnlyOf(c)
    BY <1>1, <1>2, <2>1 DEF OnlyOf
  <2>5. QED
    BY <1>1, <2>2, <2>3, <2>4, StepKeeps DEF InsideFs
<1>3. CASE Fault /\ answer' = [answer EXCEPT ![c] = "refused"] /\ Return(c)
  <2>1. TypeOK'
    <3>1. answer' \in [Calls -> Answers]
      BY <1>3, CallHere DEF Answers
    <3>2. faults' \in 0 .. MaxFaults
      BY <1>3, FaultTyped
    <3>3. QED
      BY <1>1, <1>3, <3>1, <3>2, Returns DEF ServerInv, TypeOK
  <2>2. CallSound(c)'
    BY <1>3, Returns DEF CallSound, AnswerOf
  <2>3. OnlyOf(c)
    BY <1>1, <1>3, Returns, CallHere DEF OnlyOf
  <2>4. QED
    BY <1>1, <1>3, <2>1, <2>2, <2>3, Returns, StepKeeps DEF InsideFs
<1>4. QED
  BY <1>1, <1>2, <1>3

\* What is written keeps the file within its limit, for the size that was checked is its
\* size still.
LEMMA WriteFileKeeps ==
    ASSUME ServerInv, NEW c \in Calls, WriteFile(c)
    PROVE  ServerInv' /\ OnlyOf(c)
<1> DEFINE f == files[PathOf(c)]
<1>1. PICK b \in Seq(Calls), x \in {"respond", "discard"} :
          /\ files' = [files EXCEPT ![PathOf(c)] = f \o b]
          /\ Goto(c, x) /\ Len(b) <= Size[c]
          /\ x = "respond" => b = Body(c)
          /\ faults' = faults \/ Fault
  <2>1. CASE /\ files' = [files EXCEPT ![PathOf(c)] = f \o Body(c)]
             /\ Goto(c, "respond") /\ faults' = faults
    <3>1. Body(c) \in Seq(Calls) /\ Len(Body(c)) <= Size[c]
      BY ValuesTyped
    <3>2. QED
      BY <2>1, <3>1
  <2>2. ASSUME NEW k \in 0 .. Size[c] - 1, Fault, Goto(c, "discard"),
               files' = [files EXCEPT ![PathOf(c)] = f \o SubSeq(Body(c), 1, k)]
        PROVE  \E b \in Seq(Calls), x \in {"respond", "discard"} :
                  /\ files' = [files EXCEPT ![PathOf(c)] = f \o b]
                  /\ Goto(c, x) /\ Len(b) <= Size[c]
                  /\ x = "respond" => b = Body(c)
                  /\ faults' = faults \/ Fault
    <3>1. SubSeq(Body(c), 1, k) \in Seq(Calls) /\ Len(SubSeq(Body(c), 1, k)) <= Size[c]
      BY <2>2, ValuesTyped, Prefixes
    <3>2. QED
      BY <2>2, <3>1
  <2>3. QED
    BY <2>1, <2>2, ValuesTyped DEF WriteFile
<1>2. /\ phase[c] = "write" /\ UNCHANGED <<mutexes, inFs, inFile, found, sent, answer>>
  BY DEF WriteFile, locks, locals
<1>3. /\ f \in Seq(Calls) /\ f \o b \in Seq(Calls) /\ Len(f \o b) = Len(f) + Len(b)
      /\ SubSeq(f \o b, 1, Len(f)) = f /\ Len(f) \in Nat /\ Len(b) \in Nat
      /\ Size[c] \in Nat /\ MaxFileSize \in Nat
  BY CallHere, ValuesTyped, ConcatProperties, Prefixes, LenProperties
<1>4. found[c] = Len(f) /\ Len(f) + Size[c] <= MaxFileSize
  BY <1>2, CallHere DEF UploadOf
<1> HIDE DEF f
<1>5. /\ files' \in [Paths -> Seq(Calls)] /\ files'[PathOf(c)] = f \o b
      /\ \A p \in Paths \ {PathOf(c)} : files'[p] = files[p]
  BY <1>1, <1>3, FileBecomes
<1>6. /\ phase'[c] = x /\ \A d \in Calls \ {c} : phase'[d] = phase[d]
      /\ phase' \in [Calls -> Phases] /\ LocksOf(c)' /\ KindOf(c)'
  BY <1>1, <1>2, GoesOn, CallHere DEF InsideFs, AtFile, Uploading, Phases, KindOf
<1>7. TypeOK'
  BY <1>1, <1>2, <1>5, <1>6, FaultTyped DEF ServerInv, TypeOK
<1>8. UploadOf(c)'
  <2>1. PathOf(c)' = PathOf(c) /\ Body(c)' = Body(c) /\ found'[c] = Len(f)
    BY <1>2, <1>4, CallHere DEF Body
  <2>2. x = "respond" => f \o b = SubSeq(f \o b, 1, Len(f)) \o Body(c)
    BY <1>1, <1>3
  <2>3. Len(f) <= Len(f \o b)
    BY <1>3
  <2>4. QED
    BY <1>5, <1>6, <2>1, <2>2, <2>3 DEF UploadOf
<1>9. CallSound(c)'
  BY <1>1, <1>2, <1>6, <1>8, CallHere DEF CallSound, DownloadOf, AnswerOf, InsideFs
<1>10. OnlyOf(c)
  BY <1>2, <1>5, <1>6 DEF OnlyOf, Uploading
<1>11. Len(files'[PathOf(c)]) <= MaxFileSize
  BY <1>1, <1>3, <1>4, <1>5
<1>12. QED
  BY <1>2, <1>7, <1>9, <1>10, <1>11, StepKeeps DEF InsideFs

LEMMA RespondKeeps ==
    ASSUME ServerInv, NEW c \in Calls, Respond(c)
    PROVE  ServerInv' /\ OnlyOf(c)
<1>1. /\ phase[c] = "respond" /\ Return(c)
      /\ UNCHANGED <<files, found, sent, faults>>
      /\ answer' = [answer EXCEPT ![c] = "stored"]
  BY DEF Respond, locals, Answer
<1>2. TypeOK'
  BY <1>1, Returns, CallHere DEF ServerInv, TypeOK, Answers
<1>3. CallSound(c)'
  BY <1>1, Returns DEF CallSound, AnswerOf
<1>4. OnlyOf(c)
  BY <1>1, Returns, CallHere DEF OnlyOf
<1>5. QED
  BY <1>1, <1>2, <1>3, <1>4, Returns, StepKeeps DEF InsideFs

LEMMA OpenForReadingKeeps ==
    ASSUME ServerInv, NEW c \in Calls, OpenForReading(c)
    PROVE  ServerInv' /\ OnlyOf(c)
<1>1. /\ phase[c] = "check" /\ Kind[c] = "download" /\ UNCHANGED <<files, found, sent>>
      /\ \/ /\ answer' \in {[answer EXCEPT ![c] = "not found"], [answer EXCEPT ![c] = "error"]}
            /\ Return(c)
            /\ faults' = faults \/ Fault
         \/ /\ files[PathOf(c)] # <<>> /\ Goto(c, "read")
            /\ UNCHANGED <<mutexes, inFs, inFile, answer, faults>>
  BY DEF OpenForReading, locals, locks, Answer
<1>2. CASE /\ answer' \in {[answer EXCEPT ![c] = "not found"], [answer EXCEPT ![c] = "error"]}
           /\ Return(c)
           /\ faults' = faults \/ Fault
  <2>1. TypeOK'
    <3>1. answer' \in [Calls -> Answers]
      BY <1>2, CallHere DEF Answers
    <3>2. QED
      BY <1>1, <1>2, <3>1, Returns, FaultTyped DEF ServerInv, TypeOK
  <2>2. CallSound(c)'
    BY <1>2, Returns DEF CallSound, AnswerOf
  <2>3. OnlyOf(c)
    BY <1>1, <1>2, Returns, CallHere DEF OnlyOf
  <2>4. QED
    BY <1>1, <1>2, <2>1, <2>2, <2>3, Returns, StepKeeps DEF InsideFs
<1>3. CASE /\ files[PathOf(c)] # <<>> /\ Goto(c, "read")
           /\ UNCHANGED <<mutexes, inFs, inFile, answer, faults>>
  <2>1. /\ phase'[c] = "read" /\ \A d \in Calls \ {c} : phase'[d] = phase[d]
        /\ phase' \in [Calls -> Phases] /\ LocksOf(c)' /\ KindOf(c)'
    BY <1>1, <1>3, GoesOn DEF InsideFs, AtFile, Uploading, Phases
  <2>2. TypeOK'
    BY <1>1, <1>3, <2>1 DEF ServerInv, TypeOK
  <2>3. sent[c] = <<>>
    BY <1>1, CallHere DEF DownloadOf, InsideFs
  <2>4. DownloadOf(c)'
    <3>1. Len(<<>>) = 0 /\ SubSeq(files[PathOf(c)], 1, 0) = <<>>
      BY CallHere, Prefixes
    <3>2. <<>> = SubSeq(files[PathOf(c)], 1, Len(<<>>)) /\ Len(<<>>) <= Len(files[PathOf(c)])
      BY <3>1, CallHere
    <3>3. sent'[c] = <<>> /\ files'[PathOf(c)'] = files[PathOf(c)] /\ phase'[c] = "read"
      BY <1>1, <2>1, <2>3, CallHere
    <3>4. QED
      BY <1>3, <3>2, <3>3 DEF DownloadOf
  <2>5. CallSound(c)'
    BY <1>1, <1>3, <2>1, <2>4, CallHere DEF CallSound, UploadOf, AnswerOf
  <2>6. OnlyOf(c)
    BY <1>1, <1>3, <2>1 DEF OnlyOf
  <2>7. QED
    BY <1>1, <1>3, <2>2, <2>5, <2>6, StepKeeps DEF InsideFs
<1>4. QED
  BY <1>1, <1>2, <1>3

\* What a read brings in goes on where the last one ended; a short one ends the file.
LEMMA NextBytesFit ==
    ASSUME ServerInv, NEW c \in Calls, phase[c] = "read"
    PROVE  LET f == files[PathOf(c)]
               t == sent[c] \o NextBytes(c)
           IN  /\ t \in Seq(Calls) /\ Len(t) <= Len(f) /\ t = SubSeq(f, 1, Len(t))
               /\ Len(NextBytes(c)) # ChunkSize => t = f
<1> DEFINE f == files[PathOf(c)]
           s == sent[c]
           b == IF Len(s) + ChunkSize < Len(f) THEN Len(s) + ChunkSize ELSE Len(f)
<1>1. /\ f \in Seq(Calls) /\ s \in Seq(Calls) /\ Len(s) <= Len(f)
      /\ s = SubSeq(f, 1, Len(s)) /\ ChunkSize \in Nat \ {0}
      /\ Len(f) \in Nat /\ Len(s) \in Nat
  BY CallHere, ValuesTyped, LenProperties DEF DownloadOf
<1>2. NextBytes(c) = SubSeq(f, Len(s) + 1, b)
  BY DEF NextBytes
<1> HIDE DEF f, s
<1>3. b \in Len(s) .. Len(f) /\ (b - Len(s) # ChunkSize => b = Len(f))
  BY <1>1
<1> HIDE DEF b
<1>4. /\ SubSeq(f, 1, Len(s)) \o SubSeq(f, Len(s) + 1, b) = SubSeq(f, 1, b)
      /\ Len(SubSeq(f, 1, b)) = b /\ Len(SubSeq(f, Len(s) + 1, b)) = b - Len(s)
      /\ SubSeq(f, 1, b) \in Seq(Calls) /\ SubSeq(f, 1, Len(f)) = f
  <2>1. \A x, y \in 0 .. Len(f) : x <= y =>
            /\ SubSeq(f, 1, x) \o SubSeq(f, x + 1, y) = SubSeq(f, 1, y)
            /\ Len(SubSeq(f, 1, x)) = x /\ Len(SubSeq(f, x + 1, y)) = y - x
            /\ SubSeq(f, 1, x) \in Seq(Calls) /\ SubSeq(f, x + 1, y) \in Seq(Calls)
    BY <1>1, Prefixes
  <2>2. Len(s) \in 0 .. Len(f) /\ b \in 0 .. Len(f) /\ Len(s) <= b /\ b <= b
    BY <1>1, <1>3
  <2>3. SubSeq(f, 1, Len(f)) = f
    BY <1>1, Prefixes
  <2>4. QED
    BY ONLY <2>1, <2>2, <2>3, Zenon
<1>5. s \o NextBytes(c) = SubSeq(f, 1, b) /\ Len(NextBytes(c)) = b - Len(s)
  BY <1>1, <1>2, <1>4
<1> DEFINE t == s \o NextBytes(c)
<1>6. t = SubSeq(f, 1, b) /\ Len(t) = b
  BY <1>4, <1>5
<1> HIDE DEF t
<1>7. /\ t \in Seq(Calls) /\ Len(t) <= Len(f) /\ t = SubSeq(f, 1, Len(t))
      /\ Len(NextBytes(c)) # ChunkSize => t = f
  <2>1. t \in Seq(Calls) /\ t = SubSeq(f, 1, Len(t))
    BY ONLY <1>4, <1>6, Zenon
  <2>2. Len(t) <= Len(f)
    BY <1>1, <1>3, <1>6
  <2>3. Len(NextBytes(c)) # ChunkSize => b = Len(f)
    BY ONLY <1>3, <1>5, Zenon
  <2>4. b = Len(f) => t = f
    BY ONLY <1>4, <1>6, Zenon
  <2>5. QED
    BY <2>1, <2>2, <2>3, <2>4
<1>8. QED
  BY <1>7 DEF t, s, f

LEMMA SendChunkKeeps ==
    ASSUME ServerInv, NEW c \in Calls, SendChunk(c)
    PROVE  ServerInv' /\ OnlyOf(c)
<1> DEFINE t == sent[c] \o NextBytes(c)
<1>1. /\ phase[c] = "read" /\ UNCHANGED <<files, found, faults>>
      /\ sent' = [sent EXCEPT ![c] = t]
      /\ \/ UNCHANGED <<phase, mutexes, inFs, inFile, answer>>
         \/ answer' = [answer EXCEPT ![c] = "content"] /\ Return(c)
  BY DEF SendChunk, locks, Answer
<1>2. /\ t \in Seq(Calls) /\ Len(t) <= Len(files[PathOf(c)])
      /\ t = SubSeq(files[PathOf(c)], 1, Len(t))
  BY <1>1, NextBytesFit
<1> HIDE DEF t
<1>3. sent' \in [Calls -> Seq(Calls)] /\ sent'[c] = t
      /\ \A d \in Calls \ {c} : sent'[d] = sent[d]
  BY <1>1, <1>2, CallHere
<1>4. CASE UNCHANGED <<phase, mutexes, inFs, inFile, answer>>
  <2>1. TypeOK'
    BY <1>1, <1>3, <1>4 DEF ServerInv, TypeOK
  <2>2. DownloadOf(c)'
    BY <1>1, <1>2, <1>3, <1>4, CallHere DEF DownloadOf
  <2>3. CallSound(c)'
    BY <1>1, <1>4, <2>2, CallHere DEF CallSound, LocksOf, KindOf, UploadOf, AnswerOf
  <2>4. OnlyOf(c)
    BY <1>1, <1>3, <1>4 DEF OnlyOf
  <2>5. QED
    BY <1>1, <1>4, <2>1, <2>3, <2>4, StepKeeps
<1>5. CASE answer' = [answer EXCEPT ![c] = "content"] /\ Return(c)
  <2>1. TypeOK'
    <3>1. answer' \in [Calls -> Answers]
      BY <1>5, CallHere DEF Answers
    <3>2. QED
      BY <1>1, <1>3, <1>5, <3>1, Returns DEF ServerInv, TypeOK
  <2>2. CallSound(c)'
    BY <1>5, Returns DEF CallSound, AnswerOf
  <2>3. OnlyOf(c)
    BY <1>1, <1>3, <1>5, Returns, CallHere DEF OnlyOf
  <2>4. QED
    BY <1>1, <1>5, <2>1, <2>2, <2>3, Returns, StepKeeps DEF InsideFs
<1>6. QED
  BY <1>1, <1>4, <1>5

LEMMA NextKeeps == ASSUME ServerInv, [Next]_vars PROVE ServerInv'
<1>1. ASSUME NEW c \in Calls, Step(c) PROVE ServerInv'
  BY <1>1, ReceiveKeeps, LockFileSystemKeeps, GetMutexKeeps, LockFileKeeps, DeleteKeeps,
     CheckSizeKeeps, RemoveKeeps, OpenFileKeeps, WriteFileKeeps, RespondKeeps,
     OpenForReadingKeeps, SendChunkKeeps
     DEF Step, UploadStep, DownloadStep
<1>2. CASE UNCHANGED vars
  <2>1. UNCHANGED <<phase, files, mutexes, inFs, inFile, found, sent, answer, faults>>
    BY <1>2 DEF vars, locks, locals
  <2>2. TypeOK' /\ Exclusive' /\ NothingFlat' /\ WithinLimit'
    BY <2>1 DEF ServerInv, TypeOK, Exclusive, NothingFlat, WithinLimit
  <2>3. \A c \in Calls : CallSound(c)'
    BY <2>1 DEF ServerInv, CallSound, LocksOf, KindOf, UploadOf, DownloadOf, AnswerOf,
                PathOf, Body
  <2>4. QED
    BY <2>2, <2>3 DEF ServerInv
<1>3. QED
  BY <1>1, <1>2 DEF Next

\* The handlers hold what their phase says and know what is true of their files.
THEOREM ServerInvariant == Spec => []ServerInv
BY InitServer, NextKeeps, PTL DEF Spec

\* Phases, files, locks, locals and answers stay within their types.
THEOREM FileServerTypeCorrect == Spec => []TypeOK
<1>1. ServerInv => TypeOK
  BY DEF ServerInv
<1>2. QED
  BY ServerInvariant, <1>1, PTL

\* No file grows beyond the limit: nobody else writes between the check of its size and
\* the write, and the subtraction of the check does not wrap.
THEOREM FilesWithinLimit == Spec => []WithinLimit
<1>1. ServerInv => WithinLimit
  BY DEF ServerInv
<1>2. QED
  BY ServerInvariant, <1>1, PTL

-----------------------------------------------------------------------------
(* The handlers implement FileStore.                                       *)

\* In these phases an upload has changed the file and not answered, or the reverse.
Unsettled == {"remove", "write", "respond", "discard"}

\* While an upload is unsettled its file shows what was there before, or nothing when it
\* was refused already; else it shows what is there.
Shown(n) ==
    /\ \A c \in Calls : Target[c] = n /\ phase[c] \in Unsettled =>
          Visible(n) = IF phase[c] = "remove" THEN <<>>
                       ELSE SubSeq(files[<<"nested", n>>], 1, found[c])
    /\ (\A c \in Calls : Target[c] = n => phase[c] \notin Unsettled) =>
          Visible(n) = files[<<"nested", n>>]

LEMMA VisibleShown == ServerInv => \A n \in Names : Shown(n)
<1> SUFFICES ASSUME ServerInv, NEW n \in Names PROVE Shown(n)
  OBVIOUS
<1> DEFINE p == <<"nested", n>>
           busy == {c \in inFile[p] : phase[c] \in {"remove", "write", "respond", "discard"}}
<1>0. p \in Paths
  BY DEF Paths
<1>1. Visible(n) = IF busy = {} THEN files[p]
                   ELSE LET c == CHOOSE c \in busy : TRUE IN
                        IF phase[c] = "remove" THEN <<>> ELSE SubSeq(files[p], 1, found[c])
  BY DEF Visible
<1>2. \A c : c \in busy <=> c \in Calls /\ Target[c] = n /\ phase[c] \in Unsettled
  <2>1. ASSUME NEW c \in busy PROVE c \in Calls /\ Target[c] = n /\ phase[c] \in Unsettled
    <3>1. c \in Calls /\ phase[c] \in Unsettled /\ c \in inFile[p]
      BY <1>0 DEF ServerInv, TypeOK, Unsettled
    <3>2. p = PathOf(c)
      BY <1>0, <3>1, CallHere DEF LocksOf
    <3>3. QED
      BY <3>1, <3>2 DEF PathOf
  <2>2. ASSUME NEW c \in Calls, Target[c] = n, phase[c] \in Unsettled PROVE c \in busy
    <3>1. Kind[c] = "upload" /\ phase[c] \in AtFile
      BY <2>2, CallHere DEF KindOf, Unsettled, Uploading, AtFile
    <3>2. PathOf(c) = p
      BY <2>2, <3>1, ValuesTyped
    <3>3. c \in inFile[p]
      BY <1>0, <3>1, <3>2, CallHere DEF LocksOf
    <3>4. QED
      BY <2>2, <3>3 DEF Unsettled
  <2>3. QED
    BY <2>1, <2>2
<1>3. \A c, d \in busy : c = d
  <2> SUFFICES ASSUME NEW c \in busy, NEW d \in busy PROVE c = d
    OBVIOUS
  <2>1. /\ c \in Calls /\ phase[c] \in Unsettled
        /\ d \in Calls /\ phase[d] \in Unsettled
    BY <1>2
  <2>2. Kind[c] = "upload" /\ c \in inFs /\ d \in inFs
    BY <2>1, CallHere DEF KindOf, LocksOf, Unsettled, Uploading, InsideFs
  <2>3. QED
    BY <2>2 DEF ServerInv, Exclusive
<1> HIDE DEF busy, p
<1>4. ASSUME NEW c \in busy
      PROVE  Visible(n) = IF phase[c] = "remove" THEN <<>> ELSE SubSeq(files[p], 1, found[c])
  <2>1. busy # {} /\ (CHOOSE d \in busy : TRUE) = c
    BY <1>3
  <2>2. QED
    BY <1>1, <2>1
<1>5. busy = {} => Visible(n) = files[p]
  BY <1>1
<1>6. QED
  BY <1>2, <1>4, <1>5 DEF Shown, p

LEMMA VisibleShownNext == ServerInv' => \A n \in Names : Shown(n)'
<1> DEFINE AllShown == \A n \in Names : Shown(n)
<1>1. ServerInv => AllShown
  BY VisibleShown
<1> HIDE DEF AllShown
<1>2. ServerInv' => AllShown'
  BY <1>1, PTL
<1>3. QED
  BY <1>2 DEF AllShown

\* What a step of c does not touch shows the same.
LEMMA SameVisible ==
    ASSUME ServerInv, ServerInv', NEW c \in Calls, NEW n \in Names,
           \A d \in Calls \ {c} : phase'[d] = phase[d] /\ found'[d] = found[d],
           files'[<<"nested", n>>] = files[<<"nested", n>>],
           Target[c] # n \/ (phase[c] \notin Unsettled /\ phase'[c] \notin Unsettled)
    PROVE  Visible(n)' = Visible(n)
<1>1. Shown(n) /\ Shown(n)'
  BY VisibleShown, VisibleShownNext
<1>2. CASE \E d \in Calls : Target[d] = n /\ phase[d] \in Unsettled
  <2>1. PICK d \in Calls : Target[d] = n /\ phase[d] \in Unsettled
    BY <1>2
  <2>2. d # c
    BY <2>1
  <2>3. QED
    BY <1>1, <2>1, <2>2 DEF Shown
<1>3. CASE \A d \in Calls : Target[d] = n => phase[d] \notin Unsettled
  <2>1. \A d \in Calls : Target[d] = n => phase'[d] \notin Unsettled
    BY <1>3
  <2>2. QED
    BY <1>1, <1>3, <2>1 DEF Shown
<1>4. QED
  BY <1>2, <1>3

\* What FileStore sees of the file server.
ShownStore == [n \in Names |-> Visible(n)]
ShownGot   == [c \in Calls |-> IF answer[c] = "content" THEN sent[c] ELSE <<>>]

LEMMA InitPromised == Init => Promise!Init
<1> SUFFICES ASSUME Init PROVE Promise!Init
  OBVIOUS
<1>1. ASSUME NEW n \in Names PROVE Visible(n) = <<>>
  <2>1. /\ \A c \in Calls : phase[c] \notin Unsettled
        /\ files[<<"nested", n>>] = <<>>
    BY DEF Init, Unsettled, Paths
  <2>2. QED
    BY <2>1, InitServer, VisibleShown DEF Shown
<1>2. ShownStore = [n \in Names |-> <<>>] /\ ShownGot = [c \in Calls |-> <<>>]
  BY <1>1 DEF ShownStore, ShownGot, Init
<1>3. QED
  BY <1>2 DEF Init, Promise!Init, ShownStore, ShownGot

\* A step that shows nothing.
LEMMA ShowsNothing ==
    ASSUME answer' = answer,
           \A n \in Names : Visible(n)' = Visible(n),
           \A c \in Calls : answer[c] = "content" => sent'[c] = sent[c]
    PROVE  UNCHANGED Promise!vars
<1>1. ShownStore' = ShownStore /\ ShownGot' = ShownGot
  BY DEF ShownStore, ShownGot
<1>2. QED
  BY <1>1 DEF Promise!vars, ShownStore, ShownGot

\* A request that is answered by its step.
LEMMA AnswersNow ==
    ASSUME ServerInv, NEW c \in Calls, NEW a, phase[c] \notin {"remove", "done"},
           answer' = [answer EXCEPT ![c] = a]
    PROVE  Promise!Answer(c, a)
BY CallHere DEF AnswerOf, Promise!Answer

\* An answer without content shows no content.
LEMMA SameGot ==
    ASSUME ServerInv, NEW c \in Calls,
           \/ answer' = answer
           \/ \E a : a # "content" /\ answer' = [answer EXCEPT ![c] = a],
           answer[c] # "content",
           \A d \in Calls \ {c} : sent'[d] = sent[d]
    PROVE  ShownGot' = ShownGot
<1>1. \A d \in Calls :
          (IF answer'[d] = "content" THEN sent'[d] ELSE <<>>)
              = (IF answer[d] = "content" THEN sent[d] ELSE <<>>)
  BY CallHere
<1>2. QED
  BY <1>1 DEF ShownGot

\* Before it is answered a request has no content to show.
LEMMA NoContentYet ==
    ASSUME ServerInv, NEW c \in Calls, phase[c] # "done" PROVE answer[c] # "content"
BY CallHere DEF AnswerOf

LEMMA OthersSame ==
    ASSUME ServerInv, ServerInv', NEW c \in Calls, OnlyOf(c)
    PROVE  \A n \in Names \ {Target[c]} : Visible(n)' = Visible(n)
<1> SUFFICES ASSUME NEW n \in Names \ {Target[c]} PROVE Visible(n)' = Visible(n)
  OBVIOUS
<1>1. <<"nested", n>> \in Paths \ {PathOf(c)}
  BY DEF Paths, PathOf
<1>2. files'[<<"nested", n>>] = files[<<"nested", n>>]
  BY <1>1 DEF OnlyOf
<1>3. QED
  BY <1>2, SameVisible DEF OnlyOf

\* Steps that neither change a file nor make it unsettled show nothing.
LEMMA SettledSame ==
    ASSUME ServerInv, ServerInv', NEW c \in Calls, OnlyOf(c), files' = files,
           phase[c] \notin Unsettled, phase'[c] \notin Unsettled
    PROVE  \A n \in Names : Visible(n)' = Visible(n)
BY SameVisible DEF OnlyOf

\* Nobody but c has an unsettled file while c is in the file system, if one of the two is
\* an upload.
LEMMA OwnVisible ==
    ASSUME ServerInv, NEW c \in Calls, phase[c] \in InsideFs, Kind[c] # "delete"
    PROVE  /\ phase[c] \in Unsettled =>
                 Visible(Target[c]) = IF phase[c] = "remove" THEN <<>>
                                      ELSE SubSeq(files[PathOf(c)], 1, found[c])
           /\ phase[c] \notin Unsettled => Visible(Target[c]) = files[PathOf(c)]
           /\ \A d \in Calls \ {c} : phase[d] \notin Unsettled
<1>1. ASSUME NEW d \in Calls \ {c}, phase[d] \in Unsettled PROVE FALSE
  <2>1. c \in inFs /\ d \in inFs /\ Kind[d] = "upload"
    BY <1>1, CallHere DEF LocksOf, KindOf, Unsettled, Uploading, InsideFs
  <2>2. QED
    BY <2>1 DEF ServerInv, Exclusive
<1>2. PathOf(c) = <<"nested", Target[c]>> /\ Target[c] \in Names
  BY ValuesTyped
<1>3. Shown(Target[c])
  BY <1>2, VisibleShown
<1>4. QED
  BY <1>1, <1>2, <1>3 DEF Shown

\* The same after its step.
LEMMA OwnVisibleNext ==
    ASSUME ServerInv, ServerInv', NEW c \in Calls, OnlyOf(c), phase[c] \in InsideFs,
           Kind[c] # "delete"
    PROVE  /\ phase'[c] \in Unsettled =>
                 Visible(Target[c])' = IF phase'[c] = "remove" THEN <<>>
                                       ELSE SubSeq(files'[PathOf(c)], 1, found'[c])
           /\ phase'[c] \notin Unsettled => Visible(Target[c])' = files'[PathOf(c)]
<1>1. \A d \in Calls \ {c} : phase'[d] \notin Unsettled
  BY OwnVisible DEF OnlyOf
<1>2. PathOf(c) = <<"nested", Target[c]>> /\ Target[c] \in Names
  BY ValuesTyped
<1>3. Shown(Target[c])'
  BY <1>2, VisibleShownNext
<1>4. QED
  BY <1>1, <1>2, <1>3 DEF Shown

\* The store after a step that changes what one file shows.
LEMMA StoreBecomes ==
    ASSUME ServerInv, ServerInv', NEW c \in Calls, OnlyOf(c), NEW v,
           Visible(Target[c])' = v
    PROVE  ShownStore' = [ShownStore EXCEPT ![Target[c]] = v]
<1>1. \A n \in Names : Visible(n)' = IF n = Target[c] THEN v ELSE Visible(n)
  BY OthersSame
<1>2. Target[c] \in Names
  BY ValuesTyped
<1>3. QED
  BY <1>1, <1>2 DEF ShownStore

LEMMA QuietStep ==
    ASSUME ServerInv, NEW c \in Calls, LockFileSystem(c) \/ GetMutex(c) \/ LockFile(c)
    PROVE  UNCHANGED Promise!vars
<1>1. /\ ServerInv' /\ OnlyOf(c) /\ UNCHANGED <<files, answer, sent>>
      /\ phase[c] \in {"file system", "mutex", "file"}
      /\ phase'[c] \in {"mutex", "file", "check"}
  BY LockFileSystemKeeps, GetMutexKeeps, LockFileKeeps, CallHere
     DEF LockFileSystem, GetMutex, LockFile, Goto, locals
<1>2. \A n \in Names : Visible(n)' = Visible(n)
  BY <1>1, SettledSame DEF Unsettled
<1>3. QED
  BY <1>1, <1>2, ShowsNothing

LEMMA ReceiveStep ==
    ASSUME ServerInv, NEW c \in Calls, Receive(c)
    PROVE  Promise!Refuse(c) \/ UNCHANGED Promise!vars
<1>1. /\ ServerInv' /\ OnlyOf(c) /\ UNCHANGED <<files, sent>>
      /\ phase[c] = "new" /\ phase'[c] \in {"done", "file system"}
      /\ \/ answer' = answer
         \/ Kind[c] = "upload" /\ answer' = [answer EXCEPT ![c] = "refused"]
  BY ReceiveKeeps, CallHere DEF Receive, Goto, locals, Answer
<1>2. \A n \in Names : Visible(n)' = Visible(n)
  BY <1>1, SettledSame DEF Unsettled
<1>3. CASE answer' = answer
  BY <1>1, <1>2, <1>3, ShowsNothing
<1>4. CASE Kind[c] = "upload" /\ answer' = [answer EXCEPT ![c] = "refused"]
  <2>1. Promise!Answer(c, "refused")
    BY <1>1, <1>4, AnswersNow
  <2>2. ShownStore' = ShownStore
    BY <1>2 DEF ShownStore
  <2>3. ShownGot' = ShownGot
    BY <1>1, <1>4, SameGot, NoContentYet
  <2>4. QED
    BY <1>4, <2>1, <2>2, <2>3 DEF Promise!Refuse, ShownStore, ShownGot
<1>5. QED
  BY <1>1, <1>3, <1>4

LEMMA DeleteStep ==
    ASSUME ServerInv, NEW c \in Calls, DeleteFile(c) PROVE Promise!Delete(c)
<1>1. phase[c] = "mutex" /\ Kind[c] = "delete" /\ PathOf(c) \notin mutexes
  BY ValuesTyped DEF DeleteFile, ServerInv, NothingFlat
<1>2. /\ ServerInv' /\ OnlyOf(c) /\ UNCHANGED <<files, sent>> /\ phase'[c] = "done"
      /\ answer' = [answer EXCEPT ![c] = "not found"]
  BY <1>1, DeleteKeeps, CallHere DEF DeleteFile, Goto, Answer, locals
<1>3. \A n \in Names : Visible(n)' = Visible(n)
  BY <1>1, <1>2, SettledSame DEF Unsettled
<1>4. ShownStore' = ShownStore
  BY <1>3 DEF ShownStore
<1>5. ShownGot' = ShownGot
  BY <1>1, <1>2, SameGot, NoContentYet
<1>6. Promise!Answer(c, "not found")
  BY <1>1, <1>2, AnswersNow
<1>7. QED
  BY <1>1, <1>4, <1>5, <1>6 DEF Promise!Delete, ShownStore, ShownGot

\* An upload is refused: its file shows what it showed, or nothing.
LEMMA RefusedStep ==
    ASSUME ServerInv, ServerInv', NEW c \in Calls, OnlyOf(c), Kind[c] = "upload",
           phase[c] \in InsideFs \ {"remove"},
           answer' = [answer EXCEPT ![c] = "refused"], sent' = sent,
           Visible(Target[c])' \in {<<>>, Visible(Target[c])}
    PROVE  Promise!Refuse(c)
<1>1. Promise!Answer(c, "refused")
  BY AnswersNow DEF InsideFs
<1>2. ShownGot' = ShownGot
  BY SameGot, NoContentYet DEF InsideFs
<1>3. ShownStore' \in {ShownStore, [ShownStore EXCEPT ![Target[c]] = <<>>]}
  <2>1. CASE Visible(Target[c])' = <<>>
    BY <2>1, StoreBecomes
  <2>2. CASE Visible(Target[c])' = Visible(Target[c])
    <3>1. \A n \in Names : Visible(n)' = Visible(n)
      BY <2>2, OthersSame
    <3>2. QED
      BY <3>1 DEF ShownStore
  <2>3. QED
    BY <2>1, <2>2
<1>4. QED
  BY <1>1, <1>2, <1>3 DEF Promise!Refuse, ShownStore, ShownGot

\* A step of an upload that shows nothing.
LEMMA UploadShowsNothing ==
    ASSUME ServerInv, ServerInv', NEW c \in Calls, OnlyOf(c),
           answer' = answer, sent' = sent,
           Visible(Target[c])' = Visible(Target[c])
    PROVE  UNCHANGED Promise!vars
<1>1. \A n \in Names : Visible(n)' = Visible(n)
  BY OthersSame
<1>2. QED
  BY <1>1, ShowsNothing

LEMMA CheckSizeStep ==
    ASSUME ServerInv, NEW c \in Calls, CheckSize(c)
    PROVE  Promise!Refuse(c) \/ UNCHANGED Promise!vars
<1>1. /\ ServerInv' /\ OnlyOf(c) /\ UNCHANGED <<files, sent>>
      /\ phase[c] = "check" /\ Kind[c] = "upload"
      /\ \/ phase'[c] = "remove" /\ answer' = [answer EXCEPT ![c] = "refused"]
         \/ phase'[c] = "open" /\ answer' = answer
  BY CheckSizeKeeps, CallHere DEF CheckSize, Goto, Answer
<1>2. CASE phase'[c] = "remove" /\ answer' = [answer EXCEPT ![c] = "refused"]
  <2>1. Visible(Target[c])' = <<>>
    BY <1>1, <1>2, OwnVisibleNext DEF InsideFs, Unsettled
  <2>2. QED
    BY <1>1, <1>2, <2>1, RefusedStep DEF InsideFs
<1>3. CASE phase'[c] = "open" /\ answer' = answer
  <2>1. \A n \in Names : Visible(n)' = Visible(n)
    BY <1>1, <1>3, SettledSame DEF Unsettled
  <2>2. QED
    BY <1>1, <1>3, <2>1, ShowsNothing
<1>4. QED
  BY <1>1, <1>2, <1>3

\* The file that is removed was not shown any more.
LEMMA RemoveStep ==
    ASSUME ServerInv, NEW c \in Calls, RemoveFile(c) PROVE UNCHANGED Promise!vars
<1>1. /\ ServerInv' /\ OnlyOf(c) /\ UNCHANGED <<sent, answer>>
      /\ phase[c] = "remove" /\ Kind[c] = "upload" /\ phase'[c] = "done"
      /\ files' = [files EXCEPT ![PathOf(c)] = <<>>]
  BY RemoveKeeps, Returns, CallHere DEF RemoveFile, locals, KindOf, Uploading
<1>2. Visible(Target[c]) = <<>>
  BY <1>1, OwnVisible DEF InsideFs, Unsettled
<1>3. files'[PathOf(c)] = <<>>
  BY <1>1, CallHere, ValuesTyped
<1>4. Visible(Target[c])' = <<>>
  BY <1>1, <1>3, OwnVisibleNext DEF InsideFs, Unsettled
<1>5. QED
  BY <1>1, <1>2, <1>4, UploadShowsNothing

LEMMA DiscardStep ==
    ASSUME ServerInv, NEW c \in Calls, Discard(c) PROVE Promise!Refuse(c)
<1>1. /\ ServerInv' /\ OnlyOf(c) /\ sent' = sent
      /\ answer' = [answer EXCEPT ![c] = "refused"]
      /\ phase[c] = "discard" /\ Kind[c] = "upload" /\ phase'[c] = "done"
      /\ files' = [files EXCEPT ![PathOf(c)] = <<>>]
  BY RemoveKeeps, Returns, CallHere DEF Discard, locals, KindOf, Uploading, Answer
<1>2. files'[PathOf(c)] = <<>>
  BY <1>1, CallHere, ValuesTyped
<1>3. Visible(Target[c])' = <<>>
  BY <1>1, <1>2, OwnVisibleNext DEF InsideFs, Unsettled
<1>4. QED
  BY <1>1, <1>3, RefusedStep DEF InsideFs

\* An open file shows what was there: all of it.
LEMMA OpenFileStep ==
    ASSUME ServerInv, NEW c \in Calls, OpenFile(c)
    PROVE  Promise!Refuse(c) \/ UNCHANGED Promise!vars
<1>1. /\ ServerInv' /\ OnlyOf(c) /\ UNCHANGED <<files, found, sent>>
      /\ phase[c] = "open" /\ Kind[c] = "upload"
      /\ \/ phase'[c] = "write" /\ answer' = answer
         \/ phase'[c] = "done" /\ answer' = [answer EXCEPT ![c] = "refused"]
  BY OpenFileKeeps, Returns, CallHere DEF OpenFile, Goto, Answer, locals, KindOf, Uploading
<1>2. Visible(Target[c]) = files[PathOf(c)]
  BY <1>1, OwnVisible DEF InsideFs, Unsettled
<1>3. SubSeq(files[PathOf(c)], 1, found[c]) = files[PathOf(c)]
  <2>1. found[c] = Len(files[PathOf(c)]) /\ files[PathOf(c)] \in Seq(Calls)
    BY <1>1, CallHere DEF UploadOf
  <2>2. QED
    BY <2>1, Prefixes
<1>4. Visible(Target[c])' = Visible(Target[c])
  BY <1>1, <1>2, <1>3, OwnVisibleNext DEF InsideFs, Unsettled
<1>5. CASE phase'[c] = "write" /\ answer' = answer
  BY <1>1, <1>4, <1>5, UploadShowsNothing
<1>6. CASE phase'[c] = "done" /\ answer' = [answer EXCEPT ![c] = "refused"]
  BY <1>1, <1>4, <1>6, RefusedStep DEF InsideFs
<1>7. QED
  BY <1>1, <1>5, <1>6

\* What is written, whole or in part, is not shown yet.
LEMMA WriteFileStep ==
    ASSUME ServerInv, NEW c \in Calls, WriteFile(c) PROVE UNCHANGED Promise!vars
<1> DEFINE f == files[PathOf(c)]
<1>1. /\ ServerInv' /\ OnlyOf(c) /\ UNCHANGED <<found, sent, answer>>
      /\ phase[c] = "write" /\ Kind[c] = "upload" /\ phase'[c] \in {"respond", "discard"}
  BY WriteFileKeeps, CallHere DEF WriteFile, Goto, locals, KindOf, Uploading
<1>2. PICK b \in Seq(Calls) : files' = [files EXCEPT ![PathOf(c)] = f \o b]
  <2>1. ASSUME NEW k \in 0 .. Size[c] - 1 PROVE SubSeq(Body(c), 1, k) \in Seq(Calls)
    BY ValuesTyped, Prefixes
  <2>2. QED
    BY <2>1, ValuesTyped DEF WriteFile
<1>3. /\ f \in Seq(Calls) /\ found[c] = Len(f) /\ files'[PathOf(c)] = f \o b
  BY <1>1, <1>2, CallHere, ValuesTyped DEF UploadOf
<1>4. SubSeq(f \o b, 1, Len(f)) = f /\ SubSeq(f, 1, Len(f)) = f
  BY <1>3, Prefixes
<1>5. Visible(Target[c]) = SubSeq(f, 1, Len(f))
  BY <1>1, <1>3, OwnVisible DEF InsideFs, Unsettled
<1>6. Visible(Target[c])' = SubSeq(f \o b, 1, Len(f))
  <2>1. Visible(Target[c])' = SubSeq(files'[PathOf(c)], 1, found'[c])
    BY <1>1, OwnVisibleNext DEF InsideFs, Unsettled
  <2> HIDE DEF f
  <2>2. QED
    BY <1>1, <1>3, <2>1
<1>7. Visible(Target[c])' = Visible(Target[c])
  BY ONLY <1>4, <1>5, <1>6, Zenon
<1>8. QED
  BY <1>1, <1>7, UploadShowsNothing

\* An upload that is answered shows its body behind what was there.
LEMMA RespondStep ==
    ASSUME ServerInv, NEW c \in Calls, Respond(c) PROVE Promise!Store(c)
<1> DEFINE f == files[PathOf(c)]
<1>1. /\ ServerInv' /\ OnlyOf(c) /\ UNCHANGED <<files, sent>>
      /\ phase[c] = "respond" /\ Kind[c] = "upload" /\ phase'[c] = "done"
      /\ answer' = [answer EXCEPT ![c] = "stored"]
  BY RespondKeeps, Returns, CallHere DEF Respond, locals, KindOf, Uploading, Answer
<1>2. f = SubSeq(f, 1, found[c]) \o Body(c)
  BY <1>1, CallHere DEF UploadOf
<1>3. Visible(Target[c]) = SubSeq(f, 1, found[c])
  BY <1>1, OwnVisible DEF InsideFs, Unsettled
<1>4. Visible(Target[c])' = f
  BY <1>1, OwnVisibleNext DEF InsideFs, Unsettled
<1> HIDE DEF f
<1>5. Visible(Target[c])' = Visible(Target[c]) \o Body(c)
  BY ONLY <1>2, <1>3, <1>4, Zenon
<1>6. ShownStore' = [ShownStore EXCEPT ![Target[c]] = Visible(Target[c]) \o Body(c)]
  BY <1>1, <1>5, StoreBecomes
<1>7. ShownStore[Target[c]] = Visible(Target[c])
  BY ValuesTyped DEF ShownStore
<1>8. ShownStore' = [ShownStore EXCEPT ![Target[c]] = @ \o Body(c)]
  BY ONLY <1>6, <1>7, Zenon
<1>9. ShownGot' = ShownGot
  BY <1>1, SameGot, NoContentYet
<1>10. Promise!Answer(c, "stored")
  BY <1>1, AnswersNow
<1>11. QED
  BY <1>1, <1>8, <1>9, <1>10 DEF Promise!Store, ShownStore, ShownGot

LEMMA OpenForReadingStep ==
    ASSUME ServerInv, NEW c \in Calls, OpenForReading(c)
    PROVE  Promise!Miss(c) \/ UNCHANGED Promise!vars
<1>1. /\ ServerInv' /\ OnlyOf(c) /\ UNCHANGED <<files, sent>>
      /\ phase[c] = "check" /\ Kind[c] = "download" /\ phase'[c] \in {"done", "read"}
      /\ \/ answer' = [answer EXCEPT ![c] = "not found"] /\ files[PathOf(c)] = <<>>
         \/ answer' = [answer EXCEPT ![c] = "error"]
         \/ answer' = answer
  BY OpenForReadingKeeps, Returns, CallHere DEF OpenForReading, Goto, Answer, locals
<1>2. \A n \in Names : Visible(n)' = Visible(n)
  BY <1>1, SettledSame DEF Unsettled
<1>3. CASE answer' = answer
  BY <1>1, <1>2, <1>3, ShowsNothing
<1>4. CASE \/ answer' = [answer EXCEPT ![c] = "not found"] /\ files[PathOf(c)] = <<>>
           \/ answer' = [answer EXCEPT ![c] = "error"]
  <2>1. \/ Promise!Answer(c, "not found") /\ files[PathOf(c)] = <<>>
        \/ Promise!Answer(c, "error")
    BY <1>1, <1>4, AnswersNow
  <2>2. ShownStore' = ShownStore
    BY <1>2 DEF ShownStore
  <2>3. ShownGot' = ShownGot
    BY <1>1, <1>4, SameGot, NoContentYet
  <2>4. ShownStore[Target[c]] = files[PathOf(c)]
    BY <1>1, OwnVisible, ValuesTyped DEF ShownStore, InsideFs, Unsettled
  <2>5. QED
    BY <1>1, <2>1, <2>2, <2>3, <2>4 DEF Promise!Miss, ShownStore, ShownGot
<1>5. QED
  BY <1>1, <1>3, <1>4

\* A download whose last read is sent has sent one state of the file, the one it shows.
LEMMA SendChunkStep ==
    ASSUME ServerInv, NEW c \in Calls, SendChunk(c)
    PROVE  Promise!Read(c) \/ UNCHANGED Promise!vars
<1> DEFINE t == sent[c] \o NextBytes(c)
<1>1. /\ ServerInv' /\ OnlyOf(c) /\ files' = files
      /\ phase[c] = "read" /\ Kind[c] = "download" /\ phase'[c] \in {"done", "read"}
      /\ sent' = [sent EXCEPT ![c] = t]
      /\ \/ answer' = answer
         \/ Len(NextBytes(c)) # ChunkSize /\ answer' = [answer EXCEPT ![c] = "content"]
  BY SendChunkKeeps, Returns, CallHere DEF SendChunk, Answer, KindOf
<1>2. /\ files[PathOf(c)] # <<>>
      /\ Len(NextBytes(c)) # ChunkSize => t = files[PathOf(c)]
  BY <1>1, NextBytesFit, CallHere DEF DownloadOf
<1> HIDE DEF t
<1>3. \A n \in Names : Visible(n)' = Visible(n)
  BY <1>1, SettledSame DEF Unsettled
<1>4. answer[c] = "none"
  BY <1>1, CallHere DEF AnswerOf
<1>5. \A d \in Calls \ {c} : sent'[d] = sent[d]
  BY <1>1, CallHere
<1>6. CASE answer' = answer
  BY <1>3, <1>4, <1>5, <1>6, ShowsNothing
<1>7. CASE Len(NextBytes(c)) # ChunkSize /\ answer' = [answer EXCEPT ![c] = "content"]
  <2>1. Promise!Answer(c, "content")
    BY <1>1, <1>7, AnswersNow
  <2>2. ShownStore' = ShownStore /\ ShownStore[Target[c]] = files[PathOf(c)]
    BY <1>1, <1>3, OwnVisible, ValuesTyped DEF ShownStore, InsideFs, Unsettled
  <2>3. sent'[c] = files[PathOf(c)] /\ answer'[c] = "content"
        /\ \A d \in Calls \ {c} : answer'[d] = answer[d]
    BY <1>1, <1>2, <1>7, CallHere
  <2>4. ShownGot' = [ShownGot EXCEPT ![c] = ShownStore[Target[c]]]
    BY <1>5, <2>2, <2>3 DEF ShownGot
  <2>5. QED
    BY <1>1, <1>2, <2>1, <2>2, <2>4 DEF Promise!Read, ShownStore, ShownGot
<1>8. QED
  BY <1>1, <1>6, <1>7

LEMMA NextPromised == ASSUME ServerInv, [Next]_vars PROVE [Promise!Next]_(Promise!vars)
<1>1. ASSUME NEW c \in Calls, Step(c)
      PROVE  \/ Promise!Store(c) \/ Promise!Refuse(c) \/ Promise!Read(c)
             \/ Promise!Miss(c) \/ Promise!Delete(c)
             \/ UNCHANGED Promise!vars
  BY <1>1, QuietStep, ReceiveStep, DeleteStep, CheckSizeStep, RemoveStep, OpenFileStep,
     WriteFileStep, RespondStep, DiscardStep, OpenForReadingStep, SendChunkStep
     DEF Step, UploadStep, DownloadStep
<1>2. CASE UNCHANGED vars
  <2>1. UNCHANGED <<phase, files, inFile, found, sent, answer>>
    BY <1>2 DEF vars, locks, locals
  <2>2. \A n \in Names : Visible(n)' = Visible(n)
    BY <2>1 DEF Visible
  <2>3. QED
    BY <2>1, <2>2, ShowsNothing
<1>3. QED
  BY <1>1, <1>2 DEF Next, Promise!Next

\* The handlers together behave like a store whose operations are atomic: chunks of
\* concurrent uploads are not mixed, a download in many reads is one state of the file,
\* and an answer says what became of it.
THEOREM PromiseKept == Spec => KeepsPromise
<1>1. ServerInv /\ [Next]_vars => [Promise!Next]_(Promise!vars)
  BY NextPromised
<1>2. QED
  BY InitPromised, ServerInvariant, <1>1, PTL DEF Spec, KeepsPromise, Promise!Spec

-----------------------------------------------------------------------------
(* What is in the files. It is proved of FileStore, and so of what         *)
(* FileServer shows.                                                       *)

\* The bodies in f are whole still when more requests were told of their success.
LEMMA WholeForMore ==
    ASSUME NEW f, NEW n, NEW told, NEW now, HoldsWhole(f, n, told),
           \A u \in Calls : told[u] = "stored" => now[u] = "stored"
    PROVE  HoldsWhole(f, n, now)
BY DEF HoldsWhole

\* A body that was not there before is appended.
LEMMA WholeAppended ==
    ASSUME NEW f \in Seq(Calls), NEW told \in [Calls -> Answers], NEW c \in Calls,
           HoldsWhole(f, Target[c], told), told[c] # "stored"
    PROVE  HoldsWhole(f \o Body(c), Target[c], [told EXCEPT ![c] = "stored"])
<1> DEFINE n == Len(f)
           g == f \o Body(c)
           now == [told EXCEPT ![c] = "stored"]
<1>1. /\ n \in Nat /\ DOMAIN f = 1 .. n /\ Size[c] \in Nat \ {0}
      /\ Len(g) = n + Size[c] /\ DOMAIN g = 1 .. n + Size[c]
      /\ \A i \in 1 .. n : g[i] = f[i]
      /\ \A i \in n + 1 .. n + Size[c] : g[i] = c
  <2>1. Size[c] \in Nat \ {0} /\ Body(c) \in Seq(Calls) /\ Len(Body(c)) = Size[c]
    BY ValuesTyped
  <2>2. \A i \in 1 .. Size[c] : Body(c)[i] = c
    BY DEF Body
  <2> HIDE DEF Body
  <2>3. /\ g \in Seq(Calls) /\ Len(g) = n + Size[c]
        /\ \A i \in 1 .. n + Size[c] : g[i] = IF i <= n THEN f[i] ELSE Body(c)[i - n]
    BY <2>1, ConcatProperties
  <2>4. n \in Nat /\ DOMAIN f = 1 .. n /\ DOMAIN g = 1 .. n + Size[c]
    BY <2>1, <2>3, LenProperties
  <2>5. \A i \in n + 1 .. n + Size[c] : i - n \in 1 .. Size[c] /\ ~(i <= n)
    BY <2>1, <2>4
  <2>6. QED
    BY <2>1, <2>2, <2>3, <2>4, <2>5
<1> HIDE DEF g, n
<1>2. ASSUME NEW u \in Calls, NEW i \in DOMAIN g, g[i] = u
      PROVE  /\ Target[u] = Target[c] /\ now[u] = "stored"
             /\ \E k \in 0 .. Len(g) : {j \in DOMAIN g : g[j] = u} = k + 1 .. k + Size[u]
  <2>1. CASE u = c
    <3>1. \A j \in 1 .. n : f[j] # c
      BY <1>1, <2>1 DEF HoldsWhole
    <3>2. {j \in DOMAIN g : g[j] = c} = n + 1 .. n + Size[c]
      BY <1>1, <3>1
    <3>3. i \in n + 1 .. n + Size[c]
      BY <1>2, <2>1, <3>2
    <3>4. now[c] = "stored"
      OBVIOUS
    <3>5. QED
      BY <1>1, <2>1, <3>2, <3>4
  <2>2. CASE u # c
    <3>1. {j \in DOMAIN g : g[j] = u} = {j \in DOMAIN f : f[j] = u}
      BY <1>1, <2>2
    <3>2. /\ Target[u] = Target[c] /\ told[u] = "stored"
          /\ \E k \in 0 .. n : {j \in DOMAIN f : f[j] = u} = k + 1 .. k + Size[u]
      BY <1>2, <3>1 DEF HoldsWhole, n
    <3>3. now[u] = "stored"
      BY <2>2, <3>2
    <3>4. 0 .. n \subseteq 0 .. Len(g)
      BY <1>1
    <3>5. QED
      BY <3>1, <3>2, <3>3, <3>4
  <2>3. QED
    BY <2>1, <2>2
<1>3. QED
  BY <1>2 DEF HoldsWhole, g

\* What a file shows is a sequence of bytes.
LEMMA VisibleTyped == ASSUME ServerInv, NEW n \in Names PROVE Visible(n) \in Seq(Calls)
<1> DEFINE f == files[<<"nested", n>>]
<1>1. f \in Seq(Calls) /\ <<>> \in Seq(Calls) /\ Shown(n)
  BY VisibleShown DEF ServerInv, TypeOK, Paths
<1>2. CASE \E c \in Calls : Target[c] = n /\ phase[c] \in Unsettled
  <2>1. PICK c \in Calls : Target[c] = n /\ phase[c] \in Unsettled
    BY <1>2
  <2>2. CASE phase[c] = "remove"
    BY <1>1, <2>1, <2>2 DEF Shown
  <2>3. CASE phase[c] # "remove"
    <3>1. Visible(n) = SubSeq(f, 1, found[c])
      BY <1>1, <2>1, <2>3 DEF Shown
    <3>2. PathOf(c) = <<"nested", n>>
      BY <2>1, ValuesTyped, CallHere DEF KindOf, Unsettled, Uploading
    <3>3. found[c] \in 0 .. Len(f)
      <4>1. phase[c] \in {"write", "respond", "discard"} /\ UploadOf(c)
        BY <2>1, <2>3, CallHere DEF Unsettled, ServerInv
      <4>2. found[c] \in Nat /\ Len(f) \in Nat
        BY <1>1 DEF ServerInv, TypeOK
      <4>3. found[c] <= Len(f)
        BY <3>2, <4>1, <4>2 DEF UploadOf
      <4>4. QED
        BY <4>2, <4>3
    <3>4. QED
      BY <1>1, <3>1, <3>3, SubSeqProperties
  <2>4. QED
    BY <2>2, <2>3
<1>3. CASE \A c \in Calls : Target[c] = n => phase[c] \notin Unsettled
  BY <1>1, <1>3 DEF Shown
<1>4. QED
  BY <1>2, <1>3

\* Each step of FileStore leaves whole bodies.
LEMMA PromiseKeepsWhole ==
    ASSUME ServerInv, ServerInv', ContentsWhole, [Promise!Next]_(Promise!vars)
    PROVE  ContentsWhole'
<1> DEFINE Told(d) == answer'[d] = "content"
<1>0. /\ answer \in [Calls -> Answers] /\ answer' \in [Calls -> Answers]
      /\ \A n \in Names : ShownStore[n] = Visible(n) /\ ShownStore'[n] = Visible(n)'
      /\ \A d \in Calls : answer[d] = "content" => ShownGot[d] = sent[d]
      /\ \A d \in Calls : answer'[d] = "content" => ShownGot'[d] = sent'[d]
      /\ ShownGot = [d \in Calls |-> ShownGot[d]]
      /\ ShownStore = [n \in Names |-> ShownStore[n]]
  BY DEF ServerInv, TypeOK, ShownStore, ShownGot
<1>1. /\ \A n \in Names : HoldsWhole(ShownStore[n], n, answer)
      /\ \A d \in Calls : answer[d] = "content" =>
            HoldsWhole(ShownGot[d], Target[d], answer)
  BY <1>0 DEF ContentsWhole
<1>2. SUFFICES /\ \A n \in Names : HoldsWhole(ShownStore'[n], n, answer')
               /\ \A d \in Calls : answer'[d] = "content" =>
                     HoldsWhole(ShownGot'[d], Target[d], answer')
  BY <1>0 DEF ContentsWhole
<1>3. \A n, told : HoldsWhole(<<>>, n, told)
  BY DEF HoldsWhole
<1>4. CASE UNCHANGED Promise!vars
  <2>1. ShownStore' = ShownStore /\ ShownGot' = ShownGot /\ answer' = answer
    BY <1>4 DEF Promise!vars, ShownStore, ShownGot
  <2>2. QED
    BY <1>1, <2>1
<1>5. ASSUME NEW c \in Calls,
             \/ Promise!Store(c) \/ Promise!Refuse(c) \/ Promise!Read(c)
             \/ Promise!Miss(c) \/ Promise!Delete(c)
      PROVE  /\ \A n \in Names : HoldsWhole(ShownStore'[n], n, answer')
             /\ \A d \in Calls : answer'[d] = "content" =>
                   HoldsWhole(ShownGot'[d], Target[d], answer')
  <2>1. /\ answer[c] = "none" /\ Target[c] \in Names
        /\ \E a \in Answers : answer' = [answer EXCEPT ![c] = a]
    BY <1>5, ValuesTyped DEF Promise!Store, Promise!Refuse, Promise!Read, Promise!Miss,
       Promise!Delete, Promise!Answer, Answers
  <2>2. \A u \in Calls : answer[u] = "stored" => answer'[u] = "stored"
    BY <1>0, <2>1
  <2>3. \A f, n : HoldsWhole(f, n, answer) => HoldsWhole(f, n, answer')
    BY <2>2, WholeForMore
  <2>4. CASE /\ ShownGot' = ShownGot /\ answer'[c] # "content"
             /\ \/ ShownStore' = ShownStore
                \/ ShownStore' = [ShownStore EXCEPT ![Target[c]] = <<>>]
    <3>1. \A n \in Names : ShownStore'[n] = ShownStore[n] \/ ShownStore'[n] = <<>>
      BY <1>0, <2>4
    <3>2. \A d \in Calls : answer'[d] = "content" => answer[d] = "content"
      BY <1>0, <2>1, <2>4
    <3>3. QED
      BY <1>1, <1>3, <2>3, <2>4, <3>1, <3>2
  <2>5. CASE Promise!Store(c)
    <3>1. /\ answer' = [answer EXCEPT ![c] = "stored"]
          /\ ShownGot' = ShownGot
          /\ ShownStore' = [ShownStore EXCEPT ![Target[c]] = @ \o Body(c)]
      BY <2>5 DEF Promise!Store, Promise!Answer, ShownStore, ShownGot
    <3>2. ShownStore[Target[c]] \in Seq(Calls)
      BY <1>0, <2>1, VisibleTyped
    <3>3. HoldsWhole(ShownStore[Target[c]] \o Body(c), Target[c], answer')
      BY <1>0, <1>1, <2>1, <3>1, <3>2, WholeAppended
    <3>4. \A n \in Names : \/ n = Target[c] /\ ShownStore'[n] = ShownStore[Target[c]] \o Body(c)
                           \/ ShownStore'[n] = ShownStore[n]
      BY <1>0, <3>1
    <3>5. \A n \in Names : HoldsWhole(ShownStore'[n], n, answer')
      BY <1>1, <2>3, <3>3, <3>4
    <3>6. \A d \in Calls : answer'[d] = "content" => answer[d] = "content"
      BY <1>0, <3>1
    <3>7. QED
      BY <1>1, <2>3, <3>1, <3>5, <3>6
  <2>6. CASE Promise!Read(c)
    <3>1. /\ answer' = [answer EXCEPT ![c] = "content"]
          /\ ShownStore' = ShownStore
          /\ ShownGot' = [ShownGot EXCEPT ![c] = ShownStore[Target[c]]]
      BY <2>6 DEF Promise!Read, Promise!Answer, ShownStore, ShownGot
    <3>2. \A d \in Calls : \/ d = c /\ ShownGot'[d] = ShownStore[Target[c]]
                           \/ ShownGot'[d] = ShownGot[d] /\ answer'[d] = answer[d]
      BY <1>0, <3>1
    <3>3. QED
      BY <1>1, <2>1, <2>3, <3>1, <3>2
  <2>7. CASE Promise!Refuse(c) \/ Promise!Miss(c) \/ Promise!Delete(c)
    <3>1. ShownGot' = ShownGot /\ answer'[c] # "content"
      BY <1>0, <2>7 DEF Promise!Refuse, Promise!Miss, Promise!Delete, Promise!Answer, ShownGot
    <3>2. \/ ShownStore' = ShownStore
          \/ ShownStore' = [ShownStore EXCEPT ![Target[c]] = <<>>]
      BY <2>7 DEF Promise!Refuse, Promise!Miss, Promise!Delete, ShownStore
    <3>3. QED
      BY <2>4, <3>1, <3>2
  <2>8. QED
    BY <1>5, <2>5, <2>6, <2>7
<1>6. QED
  BY <1>4, <1>5 DEF Promise!Next

\* Every file, and every answer of a download, consists of whole bodies of uploads that
\* were told of their success: concurrent ones are not mixed, a part of a failed one stays nowhere.
THEOREM ContentsAlwaysWhole == Spec => []ContentsWhole
<1>1. Init => ContentsWhole
  <2> SUFFICES ASSUME Init PROVE ContentsWhole
    OBVIOUS
  <2>1. ASSUME NEW n \in Names PROVE Visible(n) = <<>>
    <3>1. [m \in Names |-> Visible(m)] = [m \in Names |-> <<>>]
      BY InitPromised DEF Promise!Init
    <3>2. QED
      BY <3>1
  <2>2. \A d \in Calls : answer[d] # "content"
    BY DEF Init
  <2>3. \A n, told : HoldsWhole(<<>>, n, told)
    BY DEF HoldsWhole
  <2>4. QED
    BY <2>1, <2>2, <2>3 DEF ContentsWhole
<1>2. ServerInv /\ ServerInv' /\ ContentsWhole /\ [Next]_vars => ContentsWhole'
  BY NextPromised, PromiseKeepsWhole
<1>3. QED
  BY <1>1, <1>2, ServerInvariant, PTL DEF Spec
=============================================================================
