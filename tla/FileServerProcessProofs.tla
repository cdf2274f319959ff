------------------------ MODULE FileServerProcessProofs ------------------------
(***************************************************************************)
(* Theorems about FileServerProcess, for any calls of start and stop: the  *)
(* process does with its files what FileServer does, since no call of stop *)
(* finds a server that serves.                                             *)
(***************************************************************************)
EXTENDS FileServerProcess, FileServerProofs

\* A call past the lock has the mutex, and the endpoint is set as long as a call serves.
ProcessInv ==
    /\ at \in [Callers -> {"new", "inside", "serving", "done"}]
    /\ holder \in Callers \cup {Nobody}
    /\ running \in BOOLEAN /\ alive \in BOOLEAN /\ endpoint = running
    /\ \A c \in Callers : at[c] \in {"inside", "serving"} => holder = c
    /\ endpoint <=> Serving

\* Who is inside finds no endpoint.
LEMMA AloneInside ==
    ASSUME ProcessInv, NEW c \in Callers, at[c] = "inside"
    PROVE  /\ holder = c /\ ~endpoint /\ ~running
           /\ \A d \in Callers : d # c => at[d] \in {"new", "done"}
<1>1. holder = c /\ \A d \in Callers : d # c => at[d] \in {"new", "done"}
  BY DEF ProcessInv
<1>2. ~Serving
  BY <1>1 DEF Serving
<1>3. QED
  BY <1>1, <1>2 DEF ProcessInv

\* A step of the process keeps the invariant and whoever serves, and is a step of the
\* handlers or none: stop finds nothing to destroy.
LEMMA ProcessStep ==
    ASSUME ProcessInv, [ProcessNext]_<<vars, process>>
    PROVE  /\ ProcessInv'
           /\ [Next]_vars
           /\ \A c \in Callers : at[c] = "serving" => at'[c] = "serving"
<1> DEFINE Kept == /\ ProcessInv'
                   /\ [Next]_vars
                   /\ \A c \in Callers : at[c] = "serving" => at'[c] = "serving"
<1>0. /\ at \in [Callers -> {"new", "inside", "serving", "done"}]
      /\ Nobody \notin Callers
  BY ProcessAssumption DEF ProcessInv
<1>1. ASSUME NEW c \in Callers, Lock(c) PROVE Kept
  <2>1. \A d \in Callers : at[d] \in {"new", "done"}
    BY <1>0, <1>1 DEF Lock, ProcessInv
  <2>2. ~endpoint
    BY <2>1 DEF ProcessInv, Serving
  <2>3. \A d \in Callers : at'[d] # "serving"
    BY <1>0, <1>1, <2>1 DEF Lock
  <2>4. QED
    BY <1>0, <1>1, <2>1, <2>2, <2>3 DEF Lock, ProcessInv, Serving
<1>2. ASSUME NEW c \in Callers, Start(c) PROVE Kept
  <2>1. /\ at[c] = "inside" /\ holder = c /\ ~endpoint /\ ~running
        /\ \A d \in Callers : d # c => at[d] \in {"new", "done"}
    BY <1>2, AloneInside DEF Start
  <2>2. CASE /\ at' = [at EXCEPT ![c] = "serving"]
             /\ holder' = holder /\ running' = TRUE /\ endpoint' = TRUE
             /\ UNCHANGED <<alive, vars>>
    <3>1. Serving'
      BY <1>0, <2>2 DEF Serving
    <3>2. QED
      BY <1>0, <2>1, <2>2, <3>1 DEF ProcessInv
  <2>3. CASE alive' = FALSE /\ UNCHANGED <<at, holder, running, endpoint, vars>>
    BY <2>3 DEF ProcessInv, Serving
  <2>4. QED
    BY <1>2, <2>1, <2>2, <2>3 DEF Start
<1>3. ASSUME NEW c \in Callers, Stop(c) PROVE Kept
  <2>1. /\ at[c] = "inside" /\ holder = c /\ ~endpoint /\ ~running
        /\ \A d \in Callers : d # c => at[d] \in {"new", "done"}
    BY <1>3, AloneInside DEF Stop
  <2>2. /\ at' = [d \in Callers |-> IF d = c THEN "done" ELSE at[d]]
        /\ holder' = Nobody /\ running' = FALSE /\ endpoint' = FALSE
        /\ UNCHANGED <<alive, vars>>
    BY <1>3, <2>1 DEF Stop, vars, locks
  <2>3. \A d \in Callers : at'[d] \in {"new", "done"}
    BY <2>1, <2>2
  <2>4. QED
    BY <1>0, <2>1, <2>2, <2>3 DEF ProcessInv, Serving
<1>4. ASSUME NEW c \in Calls, Handle(c) PROVE Kept
  <2>1. Next /\ UNCHANGED <<at, holder, running, endpoint, alive>>
    BY <1>4 DEF Handle, Next, process
  <2>2. QED
    BY <2>1 DEF ProcessInv, Serving
<1>5. CASE UNCHANGED <<vars, process>>
  BY <1>5 DEF process, ProcessInv, Serving
<1>6. QED
  BY <1>1, <1>2, <1>3, <1>4, <1>5 DEF ProcessNext

\* The invariant of start and stop.
THEOREM ProcessInvariant == ProcessSpec => []ProcessInv
<1>1. ProcessInit => ProcessInv
  <2> SUFFICES ASSUME ProcessInit PROVE ProcessInv
    OBVIOUS
  <2>1. /\ at \in [Callers -> {"new", "inside", "serving", "done"}]
        /\ holder \in Callers \cup {Nobody}
        /\ \A c \in Callers : at[c] = "new"
    BY DEF ProcessInit
  <2>2. running \in BOOLEAN /\ alive \in BOOLEAN /\ endpoint = running
    BY Zenon DEF ProcessInit
  <2>3. ~Serving /\ ~endpoint
    BY <2>1 DEF Serving, ProcessInit
  <2>4. QED
    BY <2>1, <2>2, <2>3 DEF ProcessInv
<1>2. QED
  BY <1>1, ProcessStep, PTL DEF ProcessSpec

\* Whatever calls of start and stop there are, the process behaves like FileServer, and
\* so everything proved of the handlers is true of it.
THEOREM ProcessIsFileServer == ProcessSpec => Spec
<1>1. ProcessInit => Init
  BY DEF ProcessInit
<1>2. ProcessInv /\ [ProcessNext]_<<vars, process>> => [Next]_vars
  BY ProcessStep
<1>3. QED
  BY <1>1, <1>2, ProcessInvariant, PTL DEF ProcessSpec, Spec

\* Its variables have their types.
THEOREM ProcessTypeCorrect == ProcessSpec => []ProcessTypeOK
<1>1. ProcessInv /\ TypeOK => ProcessTypeOK
  BY DEF ProcessInv, ProcessTypeOK
<1>2. QED
  BY <1>1, ProcessInvariant, ProcessIsFileServer, FileServerTypeCorrect, PTL

\* Its files behave like a store whose operations are atomic.
THEOREM ProcessKeepsPromise == ProcessSpec => KeepsPromise
BY ProcessIsFileServer, PromiseKept, PTL

\* No call of stop ever ends a server that serves.
THEOREM AlwaysServesToTheEnd == ProcessSpec => ServesToTheEnd
<1>1. ProcessInv /\ [ProcessNext]_<<vars, process>>
        => [\A c \in Callers : at[c] = "serving" => at'[c] = "serving"]_<<vars, process>>
  BY ProcessStep
<1>2. QED
  BY <1>1, ProcessInvariant, PTL DEF ProcessSpec, ServesToTheEnd

\* A step of the handlers creates mutexes and destroys none: delete_file looks for those
\* that upload_file and download_file do not use.
LEMMA MutexesKept == ASSUME ServerInv, [Next]_vars PROVE mutexes \subseteq mutexes'
<1>1. ASSUME NEW c \in Calls, Step(c) PROVE mutexes \subseteq mutexes'
  <2>1. CASE DeleteFile(c)
    <3>1. Kind[c] = "delete" /\ Target[c] \in Names
      BY <2>1, ServerAssumption DEF DeleteFile
    <3>2. PathOf(c) \notin mutexes
      BY <3>1 DEF PathOf, ServerInv, NothingFlat
    <3>3. QED
      BY <2>1, <3>2 DEF DeleteFile
  <2>2. CASE GetMutex(c)
    BY <2>2 DEF GetMutex
  <2>3. CASE Receive(c) \/ LockFileSystem(c) \/ LockFile(c) \/ UploadStep(c)
             \/ DownloadStep(c)
    BY <2>3 DEF Receive, LockFileSystem, LockFile, UploadStep, DownloadStep, CheckSize,
                RemoveFile, OpenFile, WriteFile, Respond, Discard, OpenForReading,
                SendChunk, Return, locks
  <2>4. QED
    BY <1>1, <2>1, <2>2, <2>3 DEF Step
<1>2. CASE UNCHANGED vars
  BY <1>2 DEF vars, locks
<1>3. QED
  BY <1>1, <1>2 DEF Next

\* No file mutex is destroyed while a handler holds it or waits for it.
THEOREM MutexesAlwaysStay == ProcessSpec => MutexesStay
<1>1. ServerInv /\ [Next]_vars
        => [\A p \in mutexes \ mutexes' : \A c \in Calls :
                PathOf(c) = p => phase[c] \in {"new", "file system", "mutex", "done"}
           ]_<<vars, process>>
  BY MutexesKept
<1>2. ProcessSpec => [][Next]_vars
  BY ProcessIsFileServer, PTL DEF Spec
<1>3. QED
  BY <1>1, <1>2, ProcessIsFileServer, ServerInvariant, PTL DEF MutexesStay
=============================================================================
