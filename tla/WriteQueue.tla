------------------------------- MODULE WriteQueue -------------------------------
(***************************************************************************)
(* The requests a client writes: async_write posts each to the io_service, *)
(* whose threads put it into _write_queue and write what is in front.      *)
(*                                                                         *)
(* The threads share the queue without a lock.  A step is one access to    *)
(* it.  Two that change it at the same time are undefined behaviour: each  *)
(* may take place, be lost, or end the process.                            *)
(***************************************************************************)
EXTENDS Integers, Sequences, FiniteSets

CONSTANTS
    Threads,   \* the threads that call _io_service.run()
    Requests,  \* what is written, each once
    NoRequest, \* no request
    Garbage,   \* bytes of several requests, or of a freed one
    MaxRaces   \* bound: how often a change is lost

ASSUME QueueAssumption ==
    Garbage \notin Requests /\ NoRequest \notin Requests /\ MaxRaces \in Nat

VARIABLES
    posted,     \* the requests async_write was called with, in that order
    posts,      \* those whose handler did not begin yet
    queue,      \* _write_queue
    pc, req,    \* where a thread is, and the request it was given
    flight,     \* how many writes of a request are under way
    mixed,      \* they are more than one, or were since there was none
    done,       \* writes that succeeded and whose handler did not begin yet
    wire,       \* what was written to the socket
    broken,     \* the connection broke
    alive,      \* the process runs
    overlapped, \* a handler began before another had returned
    races       \* how often a change was lost

io   == <<flight, mixed, done, wire, broken>>
vars == <<posted, posts, queue, pc, req, io, alive, overlapped, races>>

\* write_in_progress is false in "first" and true in "behind".
Places == {"idle", "first", "behind", "pop", "start"}

TypeOK ==
    /\ posted \in Seq(Requests) /\ posts \in Seq(Requests) /\ queue \in Seq(Requests)
    /\ pc \in [Threads -> Places]
    /\ req \in [Threads -> Requests \cup {NoRequest}]
    /\ \A t \in Threads : pc[t] \in {"first", "behind"} => req[t] \in Requests
    /\ flight \in [Requests -> Nat] /\ done \in Nat
    /\ wire \in Seq(Requests \cup {Garbage})
    /\ mixed \in BOOLEAN /\ broken \in BOOLEAN
    /\ alive \in BOOLEAN /\ overlapped \in BOOLEAN
    /\ races \in 0 .. MaxRaces

Init ==
    /\ posted = <<>> /\ posts = <<>> /\ queue = <<>> /\ wire = <<>>
    /\ pc = [t \in Threads |-> "idle"]
    /\ req = [t \in Threads |-> NoRequest]
    /\ flight = [r \in Requests |-> 0]
    /\ done = 0
    /\ mixed = FALSE /\ broken = FALSE /\ alive = TRUE /\ overlapped = FALSE
    /\ races = 0

-----------------------------------------------------------------------------
\* Faulty: runs the handler ahead of those posted before.
PostAhead(r) ==
    /\ \A i \in DOMAIN posted : posted[i] # r
    /\ posted' = Append(posted, r)
    /\ posts' = <<r>> \o posts
    /\ UNCHANGED <<queue, pc, req, io, alive, overlapped, races>>

\* async_write, by a thread of the io_service or the one of the user.
Post(r) ==
    /\ \A i \in DOMAIN posted : posted[i] # r
    /\ posted' = Append(posted, r)
    /\ posts' = Append(posts, r)
    /\ UNCHANGED <<queue, pc, req, io, alive, overlapped, races>>

Goto(t, p) == pc' = [pc EXCEPT ![t] = p]

\* An idle thread begins a handler.
Begin(t, p) ==
    /\ pc[t] = "idle"
    /\ Goto(t, p)
    /\ overlapped' = (overlapped \/ \E u \in Threads : pc[u] # "idle")

\* Faulty: asks for a write, not for requests in the queue.
TakeAsksFlights(t) ==
    /\ posts # <<>>
    /\ Begin(t, IF \A r \in Requests : flight[r] = 0 THEN "first" ELSE "behind")
    /\ req' = [req EXCEPT ![t] = Head(posts)]
    /\ posts' = Tail(posts)
    /\ UNCHANGED <<posted, queue, io, alive, races>>

\* The posted handler looks whether the queue is empty.
Take(t) ==
    /\ posts # <<>>
    /\ Begin(t, IF queue = <<>> THEN "first" ELSE "behind")
    /\ req' = [req EXCEPT ![t] = Head(posts)]
    /\ posts' = Tail(posts)
    /\ UNCHANGED <<posted, queue, io, alive, races>>

\* Another thread is about to change the queue too.
Races(t) == \E u \in Threads \ {t} : pc[u] \in {"first", "behind", "pop"}

\* The queue becomes q, and the thread goes on at p; in a race also other things happen.
Change(t, q, p) ==
    \/ queue' = q /\ Goto(t, p) /\ UNCHANGED <<alive, races>>
    \/ /\ Races(t) /\ races < MaxRaces
       /\ races' = races + 1
       /\ Goto(t, p) /\ UNCHANGED <<queue, alive>>
    \/ Races(t) /\ alive' = FALSE /\ UNCHANGED <<queue, pc, races>>

\* Faulty: leaves the write to others.
PushOnly(t) ==
    /\ pc[t] \in {"first", "behind"}
    /\ Change(t, Append(queue, req[t]), "idle")
    /\ UNCHANGED <<posted, posts, req, io, overlapped>>

Push(t) ==
    /\ pc[t] \in {"first", "behind"}
    /\ Change(t, Append(queue, req[t]), IF pc[t] = "first" THEN "start" ELSE "idle")
    /\ UNCHANGED <<posted, posts, req, io, overlapped>>

\* do_write. The bytes of two writes at the same time mix.
Start(t) ==
    /\ pc[t] = "start"
    /\ IF queue = <<>> THEN UNCHANGED <<flight, mixed>>
       ELSE /\ flight' = [flight EXCEPT ![Head(queue)] = @ + 1]
            /\ mixed' = \E r \in Requests : flight[r] > 0
    /\ Goto(t, "idle")
    /\ UNCHANGED <<posted, posts, queue, req, done, wire, broken, alive, overlapped, races>>

\* handle_async_write after a success.
TakeDone(t) ==
    /\ done > 0
    /\ done' = done - 1
    /\ Begin(t, "pop")
    /\ UNCHANGED <<posted, posts, queue, req, flight, mixed, wire, broken, alive, races>>

\* Faulty: does not go on with the next request.
PopOnly(t) ==
    /\ pc[t] = "pop"
    /\ IF queue # <<>> THEN Change(t, Tail(queue), "idle")
       ELSE alive' = FALSE /\ UNCHANGED <<queue, pc, races>>
    /\ UNCHANGED <<posted, posts, req, io, overlapped>>

\* Of an empty queue, pop is undefined as well: the process ends.
Pop(t) ==
    /\ pc[t] = "pop"
    /\ IF queue # <<>> THEN Change(t, Tail(queue), "start")
       ELSE alive' = FALSE /\ UNCHANGED <<queue, pc, races>>
    /\ UNCHANGED <<posted, posts, req, io, overlapped>>

-----------------------------------------------------------------------------
(* The connection.                                                         *)

\* The buffer of a write is the front of the queue; it goes out whole if it is not mixed
\* with another, and not freed before.
Complete(r) ==
    /\ flight[r] > 0
    /\ ~broken
    /\ flight' = [flight EXCEPT ![r] = @ - 1]
    /\ wire' = Append(wire, IF ~mixed /\ queue # <<>> /\ Head(queue) = r
                            THEN r ELSE Garbage)
    /\ done' = done + 1
    /\ UNCHANGED <<posted, posts, queue, pc, req, mixed, broken, alive, overlapped, races>>

Break ==
    /\ ~broken
    /\ broken' = TRUE
    /\ UNCHANGED <<posted, posts, queue, pc, req, flight, mixed, done, wire>>
    /\ UNCHANGED <<alive, overlapped, races>>

\* Faulty: fails without having been started.
FailUnstarted(r) ==
    /\ broken
    /\ flight' = [flight EXCEPT ![r] = @ - 1]
    /\ UNCHANGED <<posted, posts, queue, pc, req, mixed, done, wire, broken>>
    /\ UNCHANGED <<alive, overlapped, races>>

\* handle_async_write after a failure only logs it.
Fail(r) ==
    /\ flight[r] > 0
    /\ broken
    /\ flight' = [flight EXCEPT ![r] = @ - 1]
    /\ UNCHANGED <<posted, posts, queue, pc, req, mixed, done, wire, broken>>
    /\ UNCHANGED <<alive, overlapped, races>>

-----------------------------------------------------------------------------
ThreadStep(t) == alive /\ (Take(t) \/ Push(t) \/ Start(t) \/ TakeDone(t) \/ Pop(t))

WriteStep(r) == alive /\ (Complete(r) \/ Fail(r))

Next ==
    \/ \E t \in Threads : ThreadStep(t)
    \/ \E r \in Requests : WriteStep(r)
    \/ alive /\ ((\E r \in Requests : Post(r)) \/ Break)

Spec == Init /\ [][Next]_vars

\* The threads run, and a write succeeds or fails in the end.
FairSpec ==
    /\ Spec
    /\ \A t \in Threads : WF_vars(ThreadStep(t))
    /\ \A r \in Requests : WF_vars(WriteStep(r))

-----------------------------------------------------------------------------
(* Properties. As long as no two handlers overlapped the queue does what   *)
(* it is for.                                                              *)

\* async_write writes requests whole, each once, in the order they were posted.
WrittenInOrder ==
    ~overlapped => Len(wire) <= Len(posted) /\ wire = SubSeq(posted, 1, Len(wire))

\* The one write under way is of the string in front of the queue, which stays there for
\* boost::asio::buffer to refer to until its handler pops it.
BufferStays ==
    ~overlapped => \A r \in Requests : flight[r] > 0 =>
        /\ flight[r] = 1 /\ ~mixed
        /\ queue # <<>> /\ Head(queue) = r

\* Requests are in the queue and nobody is going to write them: the handler of a posted
\* request leaves it to a write that is in progress, and there is none.
Mute ==
    /\ queue # <<>>
    /\ done = 0
    /\ \A r \in Requests : flight[r] = 0
    /\ \A t \in Threads : pc[t] \in {"idle", "behind"}

\* A client does not become mute as long as its connection works.
KeepsWriting == ~overlapped /\ ~broken => ~Mute

\* The same without the condition.
NeverMute == ~broken => ~Mute

\* A client that became mute, since a write failed or two handlers overlapped, writes
\* nothing ever again, however many requests async_write is called with.
MuteStaysMute == [][Mute => Mute' /\ wire' = wire]_vars

\* Every request is written.
EventuallyWritten ==
    \A r \in Requests :
        (\E i \in DOMAIN posted : posted[i] = r)
            ~> (overlapped \/ broken \/ \E i \in DOMAIN wire : wire[i] = r)
=============================================================================
