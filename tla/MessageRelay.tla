----------------------------- MODULE MessageRelay -----------------------------
(***************************************************************************)
(* The relay at the heart of the chat server: the io_service threads of    *)
(* Server, the per-connection loop RequestHandler::handle_request with its *)
(* handlers for "authorize" and "send_message", the map of connected       *)
(* clients (ConnectedClientsManager), and as much of Client as decides     *)
(* what arrives on a connection.                                           *)
(*                                                                         *)
(* One action is one access to something two threads share: a read from or *)
(* a write to a socket, one operation on the map, one call into the        *)
(* database.  Every connection is served by one thread from its first      *)
(* request to the end of the stream, so the program counter of that thread *)
(* is kept per connection, in phase.                                       *)
(*                                                                         *)
(* Frames are records; their JSON text is not modelled, except where it    *)
(* decides control: a request cut in two is "garbage", which does not      *)
(* parse.  A frame carries a message, or NoMsg.  Files are the business of *)
(* FileTransfer: here every message has file_name "none".                  *)
(***************************************************************************)
EXTENDS Naturals, Sequences, FiniteSets

CONSTANTS
    Users,      \* the registered users
    Conns,      \* TCP connections, each of one client process
    Owner,      \* the user of the client process behind a connection
    Pool,       \* the threads of Server::_thread_pool
    Main,       \* the thread that called Server::start
    MaxMsgs,    \* bound: how many messages the users type
    MaxAuths,   \* bound: how many passwords they enter
    NoConn,     \* the null socket pointer
    NoThread,   \* no thread runs this handler
    NoMsg       \* a frame that carries no message

ASSUME RelayAssumption ==
    /\ Owner \in [Conns -> Users]
    /\ Main \notin Pool
    /\ MaxMsgs \in Nat
    /\ MaxAuths \in Nat
    /\ NoConn \notin Conns
    /\ NoThread \notin Pool \cup {Main}
    /\ NoMsg \notin [id : 1 .. MaxMsgs, from : Conns, to : Users]

Threads  == Pool \cup {Main}
Messages == [id : 1 .. MaxMsgs, from : Conns, to : Users]
Carried  == Messages \cup {NoMsg}

Requests == [kind : {"authorize", "send_message", "garbage"}, msg : Carried]
Replies  == [kind : {"auth_ok", "auth_error", "ok", "error", "receive_msg"},
             msg : Carried]

Frame(kind, m) == [kind |-> kind, msg |-> m]
Garbage == Frame("garbage", NoMsg)

-----------------------------------------------------------------------------
VARIABLES
    client,     \* what the client process of each connection is doing
    inbox,      \* requests on their way to the server, per connection
    outbox,     \* all frames the server wrote to a connection while it was open
    seen,       \* how many of those the client read before it was authorized
    nsent,      \* how many messages were typed
    nauth,      \* how many passwords were entered
    phase,      \* where in handle_request the handler of a connection is
    thread,     \* the thread that runs that handler
    current,    \* the request's message while a handler function runs
    target,     \* its local receiver_socket
    registry,   \* ConnectedClientsManager::_connected_clients
    stored,     \* the messages the database holds
    alive       \* the server process runs

clientVars  == <<client, seen, nsent, nauth>>
handlerVars == <<phase, thread, current, target>>
serverVars  == <<handlerVars, registry, alive>>
vars == <<clientVars, inbox, outbox, serverVars, stored>>

ClientStates == {"off", "prompt", "awaiting", "chatting", "gone"}

\* The phases in which a thread sits in handle_request, and the others.
Busy == {"reading", "invalid", "erase",
         "insert", "auth_ok", "auth_error",
         "resolve", "refuse", "ack1", "lookup", "push1", "ack2", "push2"}
Phases == Busy \cup {"none", "backlog", "done", "abandoned"}

TypeOK ==
    /\ client \in [Conns -> ClientStates]
    /\ inbox \in [Conns -> Seq(Requests)]
    /\ outbox \in [Conns -> Seq(Replies)]
    /\ seen \in [Conns -> Nat]
    /\ nsent \in 0 .. MaxMsgs
    /\ nauth \in 0 .. MaxAuths
    /\ phase \in [Conns -> Phases]
    /\ thread \in [Conns -> Threads \cup {NoThread}]
    /\ current \in [Conns -> Carried]
    /\ target \in [Conns -> Conns \cup {NoConn}]
    /\ registry \in [Users -> Conns \cup {NoConn}]
    /\ stored \subseteq Messages
    /\ alive \in BOOLEAN

Init ==
    /\ client = [c \in Conns |-> "off"]
    /\ inbox = [c \in Conns |-> <<>>]
    /\ outbox = [c \in Conns |-> <<>>]
    /\ seen = [c \in Conns |-> 0]
    /\ nsent = 0
    /\ nauth = 0
    /\ phase = [c \in Conns |-> "none"]
    /\ thread = [c \in Conns |-> NoThread]
    /\ current = [c \in Conns |-> NoMsg]
    /\ target = [c \in Conns |-> NoConn]
    /\ registry = [u \in Users |-> NoConn]
    /\ stored = {}
    /\ alive = TRUE

-----------------------------------------------------------------------------
(* The client process behind a connection. Once the server is dead there   *)
(* is nothing left to model.                                               *)

\* Client::run connects before it asks the user for anything.
Connect(c) ==
    /\ alive
    /\ client[c] = "off"
    /\ client' = [client EXCEPT ![c] = "prompt"]
    /\ phase' = [phase EXCEPT ![c] = "backlog"]
    /\ UNCHANGED <<seen, nsent, nauth, inbox, outbox, thread, current, target,
                   registry, alive, stored>>

\* authorize_user writes its request, always with the user's own id ...
SendAuthorize(c) ==
    /\ alive
    /\ client[c] = "prompt"
    /\ nauth < MaxAuths
    /\ nauth' = nauth + 1
    /\ client' = [client EXCEPT ![c] = "awaiting"]
    /\ inbox' = [inbox EXCEPT ![c] = Append(@, Frame("authorize", NoMsg))]
    /\ UNCHANGED <<seen, nsent, outbox, serverVars, stored>>

\* ... and then receive_response hands it everything one read brought in. More
\* than one frame does not parse, a frame other than the answer has no status.
ReadAuthReply(c) ==
    /\ alive
    /\ client[c] = "awaiting"
    /\ \E k \in 1 .. Len(outbox[c]) - seen[c] :
         /\ seen' = [seen EXCEPT ![c] = @ + k]
         /\ client' = [client EXCEPT ![c] =
                IF k = 1 /\ outbox[c][seen[c] + 1].kind = "auth_ok"
                THEN "chatting" ELSE "prompt"]
    /\ UNCHANGED <<nsent, nauth, inbox, outbox, serverVars, stored>>

\* The user of an authorized client types a message: handle_user_interaction
\* writes it without waiting for the answer to an earlier one.
TypeMessage(c, u) ==
    /\ alive
    /\ client[c] = "chatting"
    /\ nsent < MaxMsgs
    /\ nsent' = nsent + 1
    /\ inbox' = [inbox EXCEPT ![c] =
           Append(@, Frame("send_message",
                           [id |-> nsent + 1, from |-> c, to |-> u]))]
    /\ UNCHANGED <<client, seen, nauth, outbox, serverVars, stored>>

\* The process ends, at any moment; its socket closes.
Leave(c) ==
    /\ alive
    /\ client[c] \in {"prompt", "awaiting", "chatting"}
    /\ client' = [client EXCEPT ![c] = "gone"]
    /\ UNCHANGED <<seen, nsent, nauth, inbox, outbox, serverVars, stored>>

-----------------------------------------------------------------------------
(* The threads that run the io_service.                                    *)

IdleThreads == {t \in Threads : \A c \in Conns : thread[c] # t}

\* An idle thread completes the accept, which posts handle_request and accepts
\* again; an idle thread takes the posted handler and is its thread from then on.
StartHandler(c) ==
    /\ phase[c] = "backlog"
    /\ \E t \in IdleThreads : thread' = [thread EXCEPT ![c] = t]
    /\ phase' = [phase EXCEPT ![c] = "reading"]
    /\ UNCHANGED <<clientVars, inbox, outbox, current, target, registry, alive,
                   stored>>

\* c's handler goes on to phase p of the function it is in ...
Goto(c, p) ==
    /\ phase' = [phase EXCEPT ![c] = p]
    /\ UNCHANGED <<thread, current, target>>

\* ... or that function ends, and its locals with it.
Finish(c, p, t) ==
    /\ phase' = [phase EXCEPT ![c] = p]
    /\ thread' = [thread EXCEPT ![c] = t]
    /\ current' = [current EXCEPT ![c] = NoMsg]
    /\ target' = [target EXCEPT ![c] = NoConn]

Return(c) == Finish(c, "reading", thread[c])

\* The process terminates, and with it goes all it had in memory.
Terminate ==
    /\ alive' = FALSE
    /\ phase' = [c \in Conns |-> "none"]
    /\ thread' = [c \in Conns |-> NoThread]
    /\ current' = [c \in Conns |-> NoMsg]
    /\ target' = [c \in Conns |-> NoConn]
    /\ registry' = [u \in Users |-> NoConn]

\* An exception leaves handle_request: in a pool thread nothing catches it and
\* the process terminates; Server::start catches it in the main thread, which
\* forgets the handler and runs the io_service again.
Escape(c) ==
    \/ thread[c] # Main /\ Terminate
    \/ /\ thread[c] = Main
       /\ Finish(c, "abandoned", NoThread)
       /\ UNCHANGED <<registry, alive>>

\* boost::asio::write of f to d by c's handler, which then goes on to phase p.
\* After the peer has closed, the kernel may still take the bytes, or the write
\* throws.
Write(c, d, f, p) ==
    /\ IF client[d] = "gone" THEN UNCHANGED outbox
       ELSE outbox' = [outbox EXCEPT ![d] = Append(@, f)]
    /\ \/ /\ IF p = "reading" THEN Return(c) ELSE Goto(c, p)
          /\ UNCHANGED <<registry, alive>>
       \/ client[d] = "gone" /\ Escape(c)
    /\ UNCHANGED <<clientVars, inbox, stored>>

-----------------------------------------------------------------------------
(* RequestHandler::handle_request.                                         *)

\* Where the dispatch leads. For "authorize" that includes authorize_user, which
\* touches nothing here: it compares the credentials, and also fails when the
\* database does.
FirstPhases(kind) ==
    CASE kind = "authorize"    -> {"insert", "auth_error"}
      [] kind = "send_message" -> {"resolve"}
      [] kind = "garbage"      -> {"invalid"}

\* What one pass of the loop leaves of the stream when its read brought in k
\* frames, and perhaps the beginning of the next: the first frame is handled and
\* request_buf.consume drops the rest, so the next frame may have lost its head.
Leftovers(s, k) ==
    LET rest == SubSeq(s, k + 1, Len(s))
    IN  IF rest = <<>> THEN {rest} ELSE {rest, [rest EXCEPT ![1] = Garbage]}

\* Faulty: the handler runs with the locals of no request.
ReadRequestUnbound(c) ==
    /\ phase[c] = "reading"
    /\ inbox[c] # <<>>
    /\ inbox' = [inbox EXCEPT ![c] = Tail(@)]
    /\ \E p \in FirstPhases(Head(inbox[c]).kind) : Goto(c, p)
    /\ UNCHANGED <<clientVars, outbox, registry, alive, stored>>

ReadRequest(c) ==
    /\ phase[c] = "reading"
    /\ inbox[c] # <<>>
    /\ \E k \in 1 .. Len(inbox[c]) : \E rest \in Leftovers(inbox[c], k) :
         inbox' = [inbox EXCEPT ![c] = rest]
    /\ current' = [current EXCEPT ![c] = Head(inbox[c]).msg]
    /\ \E p \in FirstPhases(Head(inbox[c]).kind) :
         phase' = [phase EXCEPT ![c] = p]
    /\ UNCHANGED <<clientVars, outbox, thread, target, registry, alive, stored>>

\* The "Invalid JSON format" reply, by the overload that does not throw.
ReplyInvalid(c) ==
    /\ phase[c] = "invalid"
    /\ IF client[c] = "gone" THEN UNCHANGED outbox
       ELSE outbox' = [outbox EXCEPT ![c] = Append(@, Frame("error", NoMsg))]
    /\ Return(c)
    /\ UNCHANGED <<clientVars, inbox, registry, alive, stored>>

\* Faulty: the loop goes on after the end of the stream.
ReadEofNoBreak(c) ==
    /\ phase[c] = "reading"
    /\ inbox[c] = <<>>
    /\ client[c] = "gone"
    /\ Goto(c, "reading")
    /\ UNCHANGED <<clientVars, inbox, outbox, registry, alive, stored>>

\* read_until reports the end of the stream.
ReadEof(c) ==
    /\ phase[c] = "reading"
    /\ inbox[c] = <<>>
    /\ client[c] = "gone"
    /\ Goto(c, "erase")
    /\ UNCHANGED <<clientVars, inbox, outbox, registry, alive, stored>>

\* Faulty: the map keeps the socket; the user's entry is dropped, whatever socket
\* it holds; the thread is not given back.
EraseClientKeepsEntry(c) ==
    /\ phase[c] = "erase"
    /\ Finish(c, "done", NoThread)
    /\ UNCHANGED <<clientVars, inbox, outbox, registry, alive, stored>>

EraseClientByUser(c) ==
    /\ phase[c] = "erase"
    /\ registry' = [registry EXCEPT ![Owner[c]] = NoConn]
    /\ Finish(c, "done", NoThread)
    /\ UNCHANGED <<clientVars, inbox, outbox, alive, stored>>

EraseClientKeepsThread(c) ==
    /\ phase[c] = "erase"
    /\ registry' = [u \in Users |-> IF registry[u] = c THEN NoConn ELSE registry[u]]
    /\ Finish(c, "done", thread[c])
    /\ UNCHANGED <<clientVars, inbox, outbox, alive, stored>>

\* remove_client_by_socket drops the entry that holds this socket, whoever's it
\* is; then the loop ends.
EraseClient(c) ==
    /\ phase[c] = "erase"
    /\ registry' = [u \in Users |-> IF registry[u] = c THEN NoConn ELSE registry[u]]
    /\ Finish(c, "done", NoThread)
    /\ UNCHANGED <<clientVars, inbox, outbox, alive, stored>>

-----------------------------------------------------------------------------
(* handle_authorize.                                                       *)

\* add_client comes before the answer is written.
AddClient(c) ==
    /\ phase[c] = "insert"
    /\ registry' = [registry EXCEPT ![Owner[c]] = c]
    /\ Goto(c, "auth_ok")
    /\ UNCHANGED <<clientVars, inbox, outbox, alive, stored>>

ReplyAuthorize(c) ==
    /\ phase[c] \in {"auth_ok", "auth_error"}
    /\ Write(c, c, Frame(phase[c], NoMsg), "reading")

-----------------------------------------------------------------------------
(* handle_send_message.                                                    *)

\* Faulty: a failed create_message is taken for a success.
StoreMessageUnchecked(c) ==
    /\ phase[c] = "resolve"
    /\ stored' \in {stored, stored \cup {current[c]}}
    /\ Goto(c, "ack1")
    /\ UNCHANGED <<clientVars, inbox, outbox, registry, alive>>

\* get_user_id and create_message; either fails when the database does.
StoreMessage(c) ==
    /\ phase[c] = "resolve"
    /\ \/ stored' = stored \cup {current[c]} /\ Goto(c, "ack1")
       \/ UNCHANGED stored /\ Goto(c, "refuse")
    /\ UNCHANGED <<clientVars, inbox, outbox, registry, alive>>

\* Faulty: returns without an answer.
RefuseMessageSilently(c) ==
    /\ phase[c] = "refuse"
    /\ Return(c)
    /\ UNCHANGED <<clientVars, inbox, outbox, registry, alive, stored>>

RefuseMessage(c) ==
    /\ phase[c] = "refuse"
    /\ Write(c, c, Frame("error", current[c]), "reading")

\* Faulty: goes straight to the receiver.
AckSenderLater(c) ==
    /\ phase[c] = "ack1"
    /\ Goto(c, "lookup")
    /\ UNCHANGED <<clientVars, inbox, outbox, registry, alive, stored>>

\* The sender is told before the receiver is looked up ...
AckSender(c) ==
    /\ phase[c] = "ack1"
    /\ Write(c, c, Frame("ok", current[c]), "lookup")

LookupReceiver(c) ==
    /\ phase[c] = "lookup"
    /\ target' = [target EXCEPT ![c] = registry[current[c].to]]
    /\ phase' = [phase EXCEPT ![c] =
           IF registry[current[c].to] = NoConn THEN "ack2" ELSE "push1"]
    /\ UNCHANGED <<clientVars, inbox, outbox, thread, current, registry, alive,
                   stored>>

PushToReceiver(c) ==
    /\ phase[c] = "push1"
    /\ Write(c, target[c], Frame("receive_msg", current[c]), "ack2")

\* ... and both are told once more, on the sockets already in hand.
AckSenderAgain(c) ==
    /\ phase[c] = "ack2"
    /\ Write(c, c, Frame("ok", current[c]),
             IF target[c] = NoConn THEN "reading" ELSE "push2")

\* Faulty: looks the receiver up again.
PushToReceiverFresh(c) ==
    /\ phase[c] = "push2"
    /\ registry[current[c].to] # NoConn
    /\ Write(c, registry[current[c].to], Frame("receive_msg", current[c]), "reading")

PushToReceiverAgain(c) ==
    /\ phase[c] = "push2"
    /\ Write(c, target[c], Frame("receive_msg", current[c]), "reading")

-----------------------------------------------------------------------------
(* The map is a std::map that no lock protects.  Two operations on it race *)
(* when they overlap and one of them writes.  Of what the build may then   *)
(* do, three outcomes are represented: the process crashes in the broken   *)
(* tree, an insertion is lost, a lookup misses an entry that is there.     *)

Writing(c) == phase[c] \in {"insert", "erase"}
InMap(c)   == phase[c] \in {"insert", "erase", "lookup"}
Racing(c)  == InMap(c) /\ \E d \in Conns \ {c} : InMap(d) /\ (Writing(c) \/ Writing(d))

RaceCrash(c) ==
    /\ Racing(c)
    /\ Terminate
    /\ UNCHANGED <<clientVars, inbox, outbox, stored>>

RaceLosesInsert(c) ==
    /\ Racing(c)
    /\ phase[c] = "insert"
    /\ Goto(c, "auth_ok")
    /\ UNCHANGED <<clientVars, inbox, outbox, registry, alive, stored>>

RaceMissesEntry(c) ==
    /\ Racing(c)
    /\ phase[c] = "lookup"
    /\ Goto(c, "ack2")
    /\ UNCHANGED <<clientVars, inbox, outbox, registry, alive, stored>>

-----------------------------------------------------------------------------
ClientStep(c) ==
    \/ Connect(c)
    \/ SendAuthorize(c)
    \/ ReadAuthReply(c)
    \/ \E u \in Users : TypeMessage(c, u)
    \/ Leave(c)

LoopStep(c) ==
    \/ ReadRequest(c)
    \/ ReplyInvalid(c)
    \/ ReadEof(c)
    \/ EraseClient(c)

AuthorizeStep(c) ==
    \/ AddClient(c)
    \/ ReplyAuthorize(c)

SendStep(c) ==
    \/ StoreMessage(c)
    \/ RefuseMessage(c)
    \/ AckSender(c)
    \/ LookupReceiver(c)
    \/ PushToReceiver(c)
    \/ AckSenderAgain(c)
    \/ PushToReceiverAgain(c)

RaceStep(c) ==
    \/ RaceCrash(c)
    \/ RaceLosesInsert(c)
    \/ RaceMissesEntry(c)

HandlerStep(c) == LoopStep(c) \/ AuthorizeStep(c) \/ SendStep(c)

Next ==
    \E c \in Conns :
        ClientStep(c) \/ StartHandler(c) \/ HandlerStep(c) \/ RaceStep(c)

Spec == Init /\ [][Next]_vars

\* The threads run; a blocked thread reads again when there is something to read.
\* The handler queue of the io_service and the listen backlog are served in
\* order, so a connection whose turn comes up again and again is taken. No user
\* is obliged to do anything; a client blocked in receive_response reads.
Fairness ==
    \A c \in Conns :
        /\ WF_vars(HandlerStep(c))
        /\ SF_vars(StartHandler(c))
        /\ WF_vars(ReadAuthReply(c))

FairSpec == Spec /\ Fairness

-----------------------------------------------------------------------------
(* Safety.                                                                 *)

Written(d) == {outbox[d][i] : i \in DOMAIN outbox[d]}
Copies(d, f) == Cardinality({i \in DOMAIN outbox[d] : outbox[d][i] = f})

\* A socket in the map of connected clients belongs to the user it is filed
\* under, and its handler has not ended: it still reads the connection, or the
\* main thread lost it to an exception. A lookup never finds a connection whose
\* handler saw the end of the stream.
RegistrationSound ==
    \A u \in Users : LET c == registry[u] IN
        c # NoConn => Owner[c] = u /\ phase[c] \in Busy \cup {"abandoned"}

\* What handle_send_message tells anyone about a message is true: the reply goes
\* to the connection that sent it, a copy goes to a connection of its receiver,
\* and by then the database holds the message.
RelayTruthful ==
    \A d \in Conns : \A f \in Written(d) :
        /\ f.kind = "ok" => f.msg \in stored /\ f.msg.from = d
        /\ f.kind = "receive_msg" => f.msg \in stored /\ f.msg.to = Owner[d]

\* Both copies of a message go to one connection, and there are no more than two
\* copies, also when the receiver disconnects and comes back on another
\* connection between the two writes; the sender gets at most two answers.
OneReceivingSocket ==
    \A c \in Conns : \A f \in Written(c) :
        /\ f.kind \in {"ok", "receive_msg"} => Copies(c, f) <= 2
        /\ f.kind = "receive_msg" => \A d \in Conns \ {c} : f \notin Written(d)

\* No receiver knows of a message before its sender: a copy is written only after
\* the first success reply was, unless the sender's connection had closed.
SenderToldFirst ==
    \A d \in Conns : \A f \in Written(d) :
        f.kind = "receive_msg" =>
            \/ Frame("ok", f.msg) \in Written(f.msg.from)
            \/ client[f.msg.from] = "gone"

\* A user goes offline only through the end of the very stream that is registered:
\* the end of an older connection of the same user, noticed after the user came
\* back, leaves the new registration alone.
OnlyOwnEndForgets ==
    [][\A u \in Users :
         alive' /\ registry[u] # NoConn /\ registry'[u] = NoConn =>
             phase[registry[u]] = "erase" /\ phase'[registry[u]] = "done"]_vars

\* to_do.md:41 asks that errors in request and response handling do not prevent
\* the server from running: apart from the data race on the map, nothing that
\* happens on a connection stops the process.
ServerSurvives ==
    [][alive /\ ~alive' => \E c \in Conns : Racing(c)]_vars

-----------------------------------------------------------------------------
(* Liveness. Each is conditional on the process and on the handler: an     *)
(* exception that ends either is the subject of ServerSurvives.            *)

Lost(c) == ~alive \/ phase[c] = "abandoned"

\* Once the client process has ended, its connection is eventually out of the map
\* for good, whatever the handler was doing when the stream ended.
ClosedIsForgotten ==
    \A c \in Conns :
        client[c] = "gone" ~> (Lost(c) \/ [](\A u \in Users : registry[u] # c))

\* The request a handler is about to read is answered, if the client stays: with
\* success or an error for a message, with the verdict for an authorization.
Answered(c, m) ==
    \E f \in Written(c) : f.msg = m /\ f.kind \in {"ok", "error"}

HeadRequestAnswered ==
    \A c \in Conns : \A m \in {x \in Messages : x.from = c} :
        (phase[c] = "reading" /\ inbox[c] # <<>> /\ Head(inbox[c]).msg = m)
            ~> (Answered(c, m) \/ client[c] = "gone" \/ Lost(c))

\* A pool smaller than the number of connections starves nobody, provided that
\* clients leave: every connection is eventually read.
EveryoneServed ==
    (\A c \in Conns : WF_vars(Leave(c))) =>
        \A c \in Conns :
            phase[c] = "backlog" ~> (phase[c] = "reading" \/ ~alive)
=============================================================================
