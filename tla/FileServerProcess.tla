--------------------------- MODULE FileServerProcess ---------------------------
(***************************************************************************)
(* The handlers of FileServer in their process: start and stop, called by  *)
(* its threads.  start keeps _init_mutex while serve() answers requests,   *)
(* which it does until shutdown() is called.  Nobody who calls start       *)
(* catches what it throws.                                                 *)
(***************************************************************************)
EXTENDS FileServer

CONSTANTS
    Callers, \* the calls of start and stop
    Starts,  \* which of them are start
    Nobody   \* no call

ASSUME ProcessAssumption == Starts \subseteq Callers /\ Nobody \notin Callers

VARIABLES
    at,       \* where a call is
    holder,   \* which holds _init_mutex
    running,  \* _running
    endpoint, \* whether _http_endpoint is set
    alive     \* the process runs

process == <<at, holder, running, endpoint, alive>>

ProcessTypeOK ==
    /\ TypeOK
    /\ at \in [Callers -> {"new", "inside", "serving", "done"}]
    /\ holder \in Callers \cup {Nobody}
    /\ running \in BOOLEAN /\ endpoint \in BOOLEAN /\ alive \in BOOLEAN

ProcessInit ==
    /\ Init
    /\ at = [c \in Callers |-> "new"]
    /\ holder = Nobody
    /\ running = FALSE /\ endpoint = FALSE /\ alive = TRUE

-----------------------------------------------------------------------------
\* Faulty: stop does not lock.
LockStart(c) ==
    /\ alive
    /\ at[c] = "new"
    /\ c \in Starts => holder = Nobody
    /\ at' = [at EXCEPT ![c] = "inside"]
    /\ holder' = c
    /\ UNCHANGED <<running, endpoint, alive, vars>>

Lock(c) ==
    /\ alive
    /\ at[c] = "new"
    /\ holder = Nobody
    /\ at' = [at EXCEPT ![c] = "inside"]
    /\ holder' = c
    /\ UNCHANGED <<running, endpoint, alive, vars>>

\* Faulty: gives the mutex back before it serves.
StartUnlocks(c) ==
    /\ alive
    /\ at[c] = "inside" /\ c \in Starts
    /\ holder' = Nobody
    /\ at' = [at EXCEPT ![c] = IF running THEN "done" ELSE "serving"]
    /\ running' = TRUE /\ endpoint' = TRUE
    /\ UNCHANGED <<alive, vars>>

\* start up to serve(). The initialization may throw, and then the process ends.
Start(c) ==
    /\ alive
    /\ at[c] = "inside" /\ c \in Starts
    /\ \/ /\ at' = [at EXCEPT ![c] = IF running THEN "done" ELSE "serving"]
          /\ holder' = IF running THEN Nobody ELSE holder
          /\ running' = TRUE
          /\ endpoint' = (endpoint \/ ~running)
          /\ UNCHANGED alive
       \/ ~running /\ alive' = FALSE /\ UNCHANGED <<at, holder, running, endpoint>>
    /\ UNCHANGED vars

\* stop; with an endpoint it ends serve() and the call of start that is in it, and
\* destroys the file mutexes.
Stop(c) ==
    /\ alive
    /\ at[c] = "inside" /\ c \notin Starts
    /\ at' = [d \in Callers |->
                 IF d = c \/ (endpoint /\ at[d] = "serving") THEN "done" ELSE at[d]]
    /\ holder' = Nobody
    /\ running' = (running /\ ~endpoint)
    /\ endpoint' = FALSE
    /\ mutexes' = IF endpoint THEN {} ELSE mutexes
    /\ UNCHANGED <<alive, phase, files, inFs, inFile, locals, answer, faults>>

Serving == \E s \in Callers : at[s] = "serving"

\* serve() has the handler of a request do its next step.
Handle(c) == alive /\ Serving /\ Step(c) /\ UNCHANGED process

ProcessNext ==
    \/ \E c \in Callers : Lock(c) \/ Start(c) \/ Stop(c)
    \/ \E c \in Calls : Handle(c)

ProcessSpec == ProcessInit /\ [][ProcessNext]_<<vars, process>>

\* The threads run.
FairProcessSpec ==
    ProcessSpec /\ \A c \in Calls : WF_<<vars, process>>(Handle(c))

-----------------------------------------------------------------------------
(* Properties.                                                             *)

\* A file server that serves does so until its process ends, whoever calls stop: that
\* waits for the mutex start keeps, and never returns.
ServesToTheEnd ==
    [][\A c \in Callers : at[c] = "serving" => at'[c] = "serving"]_<<vars, process>>

\* Neither delete_file nor stop destroys a file mutex that a handler holds or waits for.
MutexesStay ==
    [][\A p \in mutexes \ mutexes' : \A c \in Calls :
           PathOf(c) = p => phase[c] \in {"new", "file system", "mutex", "done"}]_<<vars, process>>

\* Once the server serves, every request is answered and gives back its locks, whatever
\* fails.
ServedCallsReturn ==
    Serving ~> \A c \in Calls : phase[c] = "done" /\ answer[c] # "none"
=============================================================================
