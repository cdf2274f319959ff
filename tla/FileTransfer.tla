----------------------------- MODULE FileTransfer -----------------------------
(***************************************************************************)
(* How a file gets from one client to another: Client::send_file_chunks    *)
(* with its wait for acknowledgements, RequestHandler::handle_file_chunk   *)
(* and send_file_to_client with the upload states and the pending          *)
(* transfers that all handlers share, the file server behind them, and the *)
(* receiving client's handle_incoming_file and handle_incoming_file_chunk. *)
(*                                                                         *)
(* A connection has one client process and one server thread that handles  *)
(* its requests in turn; both are named by the client.  How connections    *)
(* are accepted, authorized and registered, and what else "send_message"   *)
(* does, is the business of MessageRelay: here a client registers when it  *)
(* connects, and a message always has a file.                              *)
(*                                                                         *)
(* The file server is seen through FileServerClient: a store of chunk      *)
(* sequences with an append and a read, either of which may fail; one of   *)
(* its own failures removes the file.                                      *)
(***************************************************************************)
EXTENDS Naturals, Sequences, FiniteSets

CONSTANTS
    Clients,
    Names,      \* file names
    Transfers,  \* the files the users send
    From, To,   \* whose they are and who they are for
    Name,       \* under which name
    Chunks,     \* of how many chunks, 512 bytes each but for the last
    Exact,      \* those whose size is a multiple of 512 bytes
    MaxFaults,  \* bound: how often the file server fails
    None        \* no transfer, no holder of the lock

ASSUME TransferAssumption ==
    /\ From \in [Transfers -> Clients]
    /\ To \in [Transfers -> Clients]
    /\ Name \in [Transfers -> Names]
    /\ Chunks \in [Transfers -> Nat \ {0}]
    /\ Exact \subseteq Transfers
    /\ MaxFaults \in Nat
    /\ None \notin Transfers \cup Clients

Pieces == [x : Transfers, i : Nat \ {0}]
Piece(x, i) == [x |-> x, i |-> i]

\* The body of the file server's answer "File not found" or "Failed to open file",
\* which download_file_chunks takes for a chunk: it does not look at the status.
ErrorPage == [x |-> None, i |-> 0]
Contents == Pieces \cup {ErrorPage}

\* What a client sends: the message that announces a file, a chunk of it, and the
\* "chunk_received" by which a receiver answers a chunk.
Requests == [kind : {"send_message"}, x : Transfers]
               \cup [kind : {"file_chunk"}, p : Pieces]
               \cup [kind : {"chunk_received"}]

\* What the server sends, as far as a client acts on it.
Frames == [kind : {"acknowledged", "rejected"}]
             \cup [kind : {"incoming_file"}, name : Names]
             \cup [kind : {"file_chunk"}, name : Names, p : Contents, last : BOOLEAN]

Announcement(x) == [kind |-> "send_message", x |-> x]
Chunk(x, i)     == [kind |-> "file_chunk", p |-> Piece(x, i)]

\* Faulty: one chunk too early.
IsLastEarly(p) == p.i + 1 >= Chunks[p.x]

\* is_last of a chunk: end of file, or fewer bytes than asked for. Reading exactly
\* what is left of the file is neither.
IsLast(p) == p.i = Chunks[p.x] /\ p.x \notin Exact

-----------------------------------------------------------------------------
VARIABLES
    conn,       \* each client's connection
    todo,       \* the files nobody has sent yet
    sending,    \* the file whose send_file_chunks runs in a client, or None
    number,     \* its chunk_number
    acked,      \* Client::_chunk_acknowledged
    completed,  \* the files send_file_chunks logged as completed
    opened,     \* the names in Client::_incoming_files
    disk,       \* the files in a client's _user_files_dir, as received
    inbox,      \* requests on their way to the server
    outbox,     \* frames on their way to a client
    phase,      \* where the handler of a connection is
    piece,      \* the chunk that handle_file_chunk is about
    entry,      \* position of its pending_it, 0 if none
    match,      \* the transfer found there, with its receiver_socket
    goods,      \* the downloaded chunks it has not yet sent
    pending,    \* RequestHandler::_pending_file_transfers
    uploads,    \* RequestHandler::_file_uploads
    holder,     \* who holds _pending_transfers_mutex
    online,     \* the clients in the map of connected clients
    store,      \* the files on the file server
    faults,     \* how often the file server failed
    removed,    \* the names whose file it removed
    notices     \* how often the receiver of a transfer was notified

userVars   == <<conn, todo, sending, number, acked, completed>>
clientVars == <<userVars, opened, disk>>
localVars  == <<piece, entry, match, goods>>
sharedVars == <<pending, uploads, holder, online>>
serviceVars == <<store, faults, removed>>
vars == <<clientVars, inbox, outbox, phase, localVars, sharedVars, serviceVars,
          notices>>

NoPiece == [x |-> None, i |-> 0]

Busy == {"push", "reset", "check", "upload", "record", "lock",
         "notify", "download", "forward", "erase", "accept", "reject"}
Phases == Busy \cup {"reading", "ended", "lost"}

TypeOK ==
    /\ conn \in [Clients -> {"off", "on", "gone"}]
    /\ todo \subseteq Transfers
    /\ sending \in [Clients -> Transfers \cup {None}]
    /\ number \in [Clients -> Nat]
    /\ acked \in [Clients -> BOOLEAN]
    /\ completed \subseteq Transfers
    /\ opened \in [Clients -> SUBSET Names]
    /\ disk \in [Clients -> [Names -> Seq(Contents)]]
    /\ inbox \in [Clients -> Seq(Requests)]
    /\ outbox \in [Clients -> Seq(Frames)]
    /\ phase \in [Clients -> Phases]
    /\ piece \in [Clients -> [x : Transfers \cup {None}, i : Nat]]
    /\ entry \in [Clients -> Nat]
    /\ match \in [Clients -> Transfers \cup {None}]
    /\ goods \in [Clients -> Seq(Contents)]
    /\ pending \in Seq(Transfers)
    /\ uploads \in [Names -> [last : Nat, completed : BOOLEAN]]
    /\ holder \in Clients \cup {None}
    /\ online \subseteq Clients
    /\ store \in [Names -> Seq(Pieces)]
    /\ faults \in 0 .. MaxFaults
    /\ removed \subseteq Names
    /\ notices \in [Transfers -> Nat]

\* The upload state handle_file_chunk gives a name it does not know is the one
\* handle_send_message gives every name: {0, false}.
Fresh == [last |-> 0, completed |-> FALSE]

Init ==
    /\ conn = [c \in Clients |-> "off"]
    /\ todo = Transfers
    /\ sending = [c \in Clients |-> None]
    /\ number = [c \in Clients |-> 0]
    /\ acked = [c \in Clients |-> FALSE]
    /\ completed = {}
    /\ opened = [c \in Clients |-> {}]
    /\ disk = [c \in Clients |-> [n \in Names |-> <<>>]]
    /\ inbox = [c \in Clients |-> <<>>]
    /\ outbox = [c \in Clients |-> <<>>]
    /\ phase = [c \in Clients |-> "reading"]
    /\ piece = [c \in Clients |-> NoPiece]
    /\ entry = [c \in Clients |-> 0]
    /\ match = [c \in Clients |-> None]
    /\ goods = [c \in Clients |-> <<>>]
    /\ pending = <<>>
    /\ uploads = [n \in Names |-> Fresh]
    /\ holder = None
    /\ online = {}
    /\ store = [n \in Names |-> <<>>]
    /\ faults = 0
    /\ removed = {}
    /\ notices = [x \in Transfers |-> 0]

-----------------------------------------------------------------------------
(* The client.                                                             *)

\* It connects, authorizes and is registered.
Connect(c) ==
    /\ conn[c] = "off"
    /\ conn' = [conn EXCEPT ![c] = "on"]
    /\ online' = online \cup {c}
    /\ UNCHANGED <<todo, sending, number, acked, completed, opened, disk, inbox,
                   outbox, phase, localVars, pending, uploads, holder,
                   serviceVars, notices>>

\* The user sends a message with a file, and send_file_chunks its first chunk. Both
\* are posted to an io_service that several threads run, so the queue of writes may
\* get them in either order.
SendFile(c, x) ==
    /\ conn[c] = "on"
    /\ sending[c] = None
    /\ x \in todo /\ From[x] = c
    /\ todo' = todo \ {x}
    /\ sending' = [sending EXCEPT ![c] = x]
    /\ number' = [number EXCEPT ![c] = 1]
    /\ \E posted \in {<<Announcement(x), Chunk(x, 1)>>, <<Chunk(x, 1), Announcement(x)>>} :
           inbox' = [inbox EXCEPT ![c] = @ \o posted]
    /\ UNCHANGED <<conn, acked, completed, opened, disk, outbox, phase, localVars,
                   sharedVars, serviceVars, notices>>

\* The wait ends because _chunk_acknowledged is set, by whichever acknowledgement;
\* the flag is cleared, and the next chunk is sent or the transfer logged.
NextChunk(c) ==
    LET x == sending[c] IN
    /\ conn[c] = "on"
    /\ x # None
    /\ acked[c]
    /\ acked' = [acked EXCEPT ![c] = FALSE]
    /\ IF number[c] < Chunks[x]
       THEN /\ number' = [number EXCEPT ![c] = @ + 1]
            /\ inbox' = [inbox EXCEPT ![c] = Append(@, Chunk(x, number[c] + 1))]
            /\ UNCHANGED <<sending, completed>>
       ELSE /\ sending' = [sending EXCEPT ![c] = None]
            /\ number' = [number EXCEPT ![c] = 0]
            /\ completed' = completed \cup {x}
            /\ UNCHANGED inbox
    /\ UNCHANGED <<conn, todo, opened, disk, outbox, phase, localVars, sharedVars,
                   serviceVars, notices>>

\* It ends because five seconds have passed; the transfer is given up.
Timeout(c) ==
    /\ conn[c] = "on"
    /\ sending[c] # None
    /\ ~acked[c]
    /\ sending' = [sending EXCEPT ![c] = None]
    /\ number' = [number EXCEPT ![c] = 0]
    /\ UNCHANGED <<conn, todo, acked, completed, opened, disk, inbox, outbox, phase,
                   localVars, sharedVars, serviceVars, notices>>

\* The read loop takes a frame: handle_chunk_acknowledgment sets the flag on success,
\* handle_incoming_file opens and truncates, handle_incoming_file_chunk writes to the
\* open file, answers, and closes it after the last chunk.
ReceiveFrame(c) ==
    LET f == Head(outbox[c]) IN
    /\ conn[c] = "on"
    /\ outbox[c] # <<>>
    /\ outbox' = [outbox EXCEPT ![c] = Tail(@)]
    /\ acked' = [acked EXCEPT ![c] = @ \/ f.kind = "acknowledged"]
    /\ \/ /\ f.kind \in {"acknowledged", "rejected"}
          /\ UNCHANGED <<opened, disk, inbox>>
       \/ /\ f.kind = "incoming_file"
          /\ opened' = [opened EXCEPT ![c] = @ \cup {f.name}]
          /\ disk' = [disk EXCEPT ![c][f.name] = <<>>]
          /\ UNCHANGED inbox
       \/ /\ f.kind = "file_chunk" /\ f.name \in opened[c]
          /\ opened' = [opened EXCEPT ![c] = IF f.last THEN @ \ {f.name} ELSE @]
          /\ disk' = [disk EXCEPT ![c][f.name] = Append(@, f.p)]
          /\ inbox' = [inbox EXCEPT ![c] = Append(@, [kind |-> "chunk_received"])]
       \/ /\ f.kind = "file_chunk" /\ f.name \notin opened[c]
          /\ UNCHANGED <<opened, disk, inbox>>
    /\ UNCHANGED <<conn, todo, sending, number, completed, phase, localVars,
                   sharedVars, serviceVars, notices>>

\* The client process ends, and nobody reads what is on its way to it.
Leave(c) ==
    /\ conn[c] = "on"
    /\ conn' = [conn EXCEPT ![c] = "gone"]
    /\ sending' = [sending EXCEPT ![c] = None]
    /\ number' = [number EXCEPT ![c] = 0]
    /\ acked' = [acked EXCEPT ![c] = FALSE]
    /\ outbox' = [outbox EXCEPT ![c] = <<>>]
    /\ UNCHANGED <<todo, completed, opened, disk, inbox, phase, localVars,
                   sharedVars, serviceVars, notices>>

-----------------------------------------------------------------------------
(* The handler of a connection.                                            *)

File(c) == Name[piece[c].x]

Goto(c, p) == phase' = [phase EXCEPT ![c] = p]

\* handle_request is back at its read, or ends for phase p.
Return(c, p) ==
    /\ Goto(c, p)
    /\ piece' = [piece EXCEPT ![c] = NoPiece]

\* boost::asio::write to d: what it writes to a closed connection is lost, if the
\* write does not throw.
Write(d, f) ==
    IF conn[d] = "gone" THEN UNCHANGED outbox
    ELSE outbox' = [outbox EXCEPT ![d] = Append(@, f)]

\* handle_send_message writes to its sender and to the receiver's socket, before and
\* after what it does for the file; one that throws ends the handler.
MayThrow(x) == conn[From[x]] = "gone" \/ conn[To[x]] = "gone"

\* One read brings in k requests, perhaps the last of them in part; the first is
\* handled and the rest of what was read is dropped. A request without its head
\* has no effect, no more than "chunk_received", which the dispatch does not know.
ReadRequest(c) ==
    LET r == Head(inbox[c]) IN
    /\ phase[c] = "reading"
    /\ inbox[c] # <<>>
    /\ \E k \in 1 .. Len(inbox[c]) :
           inbox' = [inbox EXCEPT ![c] = SubSeq(@, k + 1, Len(@))]
    /\ \/ /\ r.kind = "chunk_received"
          /\ UNCHANGED <<phase, piece>>
       \/ /\ r.kind = "file_chunk"
          /\ piece' = [piece EXCEPT ![c] = r.p]
          /\ Goto(c, "check")
       \/ /\ r.kind = "send_message"
          /\ piece' = [piece EXCEPT ![c] = Piece(r.x, 0)]
          /\ Goto(c, "push")
       \/ /\ r.kind = "send_message"    \* it refused the message, or a write threw
          /\ \E p \in {"reading"} \cup (IF MayThrow(r.x) THEN {"lost"} ELSE {}) :
                 Return(c, p)
    /\ UNCHANGED <<clientVars, outbox, entry, match, goods, sharedVars, serviceVars,
                   notices>>

\* read_until reports the end of the stream.
EndOfStream(c) ==
    /\ phase[c] = "reading"
    /\ inbox[c] = <<>>
    /\ conn[c] = "gone"
    /\ online' = online \ {c}
    /\ Goto(c, "ended")
    /\ UNCHANGED <<clientVars, inbox, outbox, localVars, pending, uploads, holder,
                   serviceVars, notices>>

\* handle_send_message, for the file: the transfer is filed under the lock, ...
PushPending(c) ==
    /\ phase[c] = "push"
    /\ holder = None
    /\ pending' = Append(pending, piece[c].x)
    /\ Goto(c, "reset")
    /\ UNCHANGED <<clientVars, inbox, outbox, localVars, uploads, holder, online,
                   serviceVars, notices>>

\* ... and the upload state of the name is reset without it.
ResetUpload(c) ==
    /\ phase[c] = "reset"
    /\ uploads' = [uploads EXCEPT ![File(c)] = Fresh]
    /\ \E p \in {"reading"} \cup (IF MayThrow(piece[c].x) THEN {"lost"} ELSE {}) :
           Return(c, p)
    /\ UNCHANGED <<clientVars, inbox, outbox, entry, match, goods, pending, holder,
                   online, serviceVars, notices>>

-----------------------------------------------------------------------------
(* handle_file_chunk.                                                      *)

\* Faulty: chunks are taken in any order.
CheckOrderNever(c) ==
    /\ phase[c] = "check"
    /\ Goto(c, "upload")
    /\ UNCHANGED <<clientVars, inbox, outbox, localVars, sharedVars, serviceVars,
                   notices>>

CheckOrder(c) ==
    /\ phase[c] = "check"
    /\ Goto(c, IF piece[c].i = uploads[File(c)].last + 1 THEN "upload" ELSE "reject")
    /\ UNCHANGED <<clientVars, inbox, outbox, localVars, sharedVars, serviceVars,
                   notices>>

\* The call fails: on the way to the file server or back, so that it may have
\* appended all the same, or in the file server, which removes a file that is too
\* long or that it cannot write to.
FailUpload(c) ==
    /\ faults < MaxFaults
    /\ faults' = faults + 1
    /\ \/ store' \in {store, [store EXCEPT ![File(c)] = Append(@, piece[c])]}
          /\ UNCHANGED removed
       \/ store' = [store EXCEPT ![File(c)] = <<>>]
          /\ removed' = removed \cup {File(c)}

\* Faulty: the result of the upload is ignored.
UploadChunkIgnored(c) ==
    /\ phase[c] = "upload"
    /\ \/ store' = [store EXCEPT ![File(c)] = Append(@, piece[c])]
          /\ UNCHANGED <<faults, removed>>
       \/ FailUpload(c)
    /\ Goto(c, "record")
    /\ UNCHANGED <<clientVars, inbox, outbox, localVars, sharedVars, notices>>

\* upload_file_chunk: the file server appends, or the call fails.
UploadChunk(c) ==
    /\ phase[c] = "upload"
    /\ \/ /\ store' = [store EXCEPT ![File(c)] = Append(@, piece[c])]
          /\ Goto(c, "record")
          /\ UNCHANGED <<faults, removed>>
       \/ FailUpload(c) /\ Goto(c, "reject")
    /\ UNCHANGED <<clientVars, inbox, outbox, localVars, sharedVars, notices>>

\* The state is written through the reference taken before the upload.
RecordChunk(c) ==
    /\ phase[c] = "record"
    /\ uploads' = [uploads EXCEPT
           ![File(c)] = [last |-> piece[c].i,
                         completed |-> @.completed \/ IsLast(piece[c])]]
    /\ Goto(c, IF IsLast(piece[c]) THEN "lock" ELSE "accept")
    /\ UNCHANGED <<clientVars, inbox, outbox, localVars, pending, holder, online,
                   serviceVars, notices>>

\* After the last chunk, the first pending transfer of that name is looked for, and
\* its receiver; without either the lock is given back at once.
Matching(n) == {i \in DOMAIN pending : Name[pending[i]] = n}
FirstMatching(n) == CHOOSE i \in Matching(n) : \A j \in Matching(n) : i <= j

\* Faulty: the lock is not waited for.
LockPendingUnlocked(c) ==
    /\ phase[c] = "lock"
    /\ IF Matching(File(c)) # {} /\ To[pending[FirstMatching(File(c))]] \in online
       THEN /\ holder' = c
            /\ entry' = [entry EXCEPT ![c] = FirstMatching(File(c))]
            /\ match' = [match EXCEPT ![c] = pending[FirstMatching(File(c))]]
            /\ Goto(c, "notify")
       ELSE /\ Goto(c, "accept")
            /\ UNCHANGED <<holder, entry, match>>
    /\ UNCHANGED <<clientVars, inbox, outbox, piece, goods, pending, uploads, online,
                   serviceVars, notices>>

LockPending(c) ==
    /\ phase[c] = "lock"
    /\ holder = None
    /\ IF Matching(File(c)) # {} /\ To[pending[FirstMatching(File(c))]] \in online
       THEN /\ holder' = c
            /\ entry' = [entry EXCEPT ![c] = FirstMatching(File(c))]
            /\ match' = [match EXCEPT ![c] = pending[FirstMatching(File(c))]]
            /\ Goto(c, "notify")
       ELSE /\ Goto(c, "accept")
            /\ UNCHANGED <<holder, entry, match>>
    /\ UNCHANGED <<clientVars, inbox, outbox, piece, goods, pending, uploads, online,
                   serviceVars, notices>>

Receiver(c) == To[match[c]]

\* The end of the scope that holds the lock.
Unlock(c) ==
    /\ holder' = None
    /\ entry' = [entry EXCEPT ![c] = 0]
    /\ match' = [match EXCEPT ![c] = None]
    /\ Goto(c, "accept")

\* Faulty: an exception leaves the lock taken.
NotifyReceiverKeepsLock(c) ==
    /\ phase[c] = "notify"
    /\ \/ /\ Write(Receiver(c), [kind |-> "incoming_file", name |-> File(c)])
          /\ notices' = [notices EXCEPT ![match[c]] = @ + 1]
          /\ Goto(c, "download")
       \/ /\ conn[Receiver(c)] = "gone"
          /\ Goto(c, "accept")
          /\ UNCHANGED <<outbox, notices>>
    /\ UNCHANGED <<clientVars, inbox, localVars, sharedVars, serviceVars>>

\* The lock is held over all that follows. When the notification throws, it is given
\* back and the transfer stays pending.
NotifyReceiver(c) ==
    /\ phase[c] = "notify"
    /\ \/ /\ Write(Receiver(c), [kind |-> "incoming_file", name |-> File(c)])
          /\ notices' = [notices EXCEPT ![match[c]] = @ + 1]
          /\ Goto(c, "download")
          /\ UNCHANGED <<entry, match, holder>>
       \/ /\ conn[Receiver(c)] = "gone"
          /\ Unlock(c)
          /\ UNCHANGED <<outbox, notices>>
    /\ UNCHANGED <<clientVars, inbox, piece, goods, pending, uploads, online,
                   serviceVars>>

\* download_file_chunks: a failure on the way leaves what had arrived by then; one of
\* the file server, or a missing file, its answer.
DownloadChunks(c) ==
    LET s == store[File(c)] IN
    /\ phase[c] = "download"
    /\ \/ goods' = [goods EXCEPT ![c] = IF s = <<>> THEN <<ErrorPage>> ELSE s]
          /\ UNCHANGED faults
       \/ /\ faults < MaxFaults
          /\ faults' = faults + 1
          /\ \E g \in {SubSeq(s, 1, k) : k \in 0 .. Len(s)} \cup {<<ErrorPage>>} :
                 goods' = [goods EXCEPT ![c] = g]
    /\ Goto(c, IF goods'[c] = <<>> THEN "erase" ELSE "forward")
    /\ UNCHANGED <<clientVars, inbox, outbox, piece, entry, match, sharedVars, store,
                   removed, notices>>

\* send_file_to_client writes them one by one; the first write that throws ends it.
ForwardChunk(c) ==
    /\ phase[c] = "forward"
    /\ \/ /\ Write(Receiver(c), [kind |-> "file_chunk", name |-> File(c),
                                 p |-> Head(goods[c]), last |-> Len(goods[c]) = 1])
          /\ goods' = [goods EXCEPT ![c] = Tail(@)]
          /\ Goto(c, IF Len(goods[c]) = 1 THEN "erase" ELSE "forward")
       \/ /\ conn[Receiver(c)] = "gone"
          /\ goods' = [goods EXCEPT ![c] = <<>>]
          /\ Goto(c, "erase")
          /\ UNCHANGED outbox
    /\ UNCHANGED <<clientVars, inbox, piece, entry, match, sharedVars, serviceVars,
                   notices>>

\* Faulty: the delivered transfer stays pending.
ErasePendingForgotten(c) ==
    /\ phase[c] = "erase"
    /\ Unlock(c)
    /\ UNCHANGED <<clientVars, inbox, outbox, piece, goods, pending, uploads, online,
                   serviceVars, notices>>

\* Faulty: the transfer is cleared, not erased.
ErasePendingCleared(c) ==
    /\ phase[c] = "erase"
    /\ pending' = [pending EXCEPT ![entry[c]] = None]
    /\ Unlock(c)
    /\ UNCHANGED <<clientVars, inbox, outbox, piece, goods, uploads, online,
                   serviceVars, notices>>

\* However that went, the transfer is erased, and the lock given back.
ErasePending(c) ==
    /\ phase[c] = "erase"
    /\ pending' = SubSeq(pending, 1, entry[c] - 1)
                     \o SubSeq(pending, entry[c] + 1, Len(pending))
    /\ Unlock(c)
    /\ UNCHANGED <<clientVars, inbox, outbox, piece, goods, uploads, online,
                   serviceVars, notices>>

\* The acknowledgement, positive or negative; an exception is caught.
AnswerChunk(c) ==
    /\ phase[c] \in {"accept", "reject"}
    /\ Write(c, [kind |-> IF phase[c] = "accept" THEN "acknowledged" ELSE "rejected"])
    /\ Return(c, "reading")
    /\ UNCHANGED <<clientVars, inbox, entry, match, goods, sharedVars, serviceVars,
                   notices>>

-----------------------------------------------------------------------------
ClientStep(c) ==
    \/ Connect(c)
    \/ \E x \in Transfers : SendFile(c, x)
    \/ NextChunk(c)
    \/ Timeout(c)
    \/ ReceiveFrame(c)
    \/ Leave(c)

ChunkStep(c) ==
    \/ CheckOrder(c)
    \/ UploadChunk(c)
    \/ RecordChunk(c)
    \/ LockPending(c)
    \/ NotifyReceiver(c)
    \/ DownloadChunks(c)
    \/ ForwardChunk(c)
    \/ ErasePending(c)
    \/ AnswerChunk(c)

HandlerStep(c) ==
    \/ ReadRequest(c)
    \/ EndOfStream(c)
    \/ PushPending(c)
    \/ ResetUpload(c)
    \/ ChunkStep(c)

Next == \E c \in Clients : ClientStep(c) \/ HandlerStep(c)

Spec == Init /\ [][Next]_vars

\* Every handler has a thread of its own, and a thread runs; a mutex that is free
\* again and again is had eventually.
Fairness == \A c \in Clients : SF_vars(HandlerStep(c))

FairSpec == Spec /\ Fairness

-----------------------------------------------------------------------------
(* Properties.                                                             *)

\* What handle_file_chunk believes it has received the file server has: chunk
\* numbers and upload results of concurrent transfers under one name, and resets by
\* new messages, never let last_chunk_received run ahead of the store. Only a file
\* that the file server removed, which nobody tells the handlers, is an exception.
UploadsAreStored ==
    \A n \in Names \ removed : uploads[n].last <= Len(store[n])

\* A receiver's file is at every moment a beginning of what the file server holds
\* under that name, or its error message: deliveries of one name are never
\* interleaved, repeated in part or out of order, whatever fails on the way, unless
\* the file server removed the file.
ReceivedIsPrefix ==
    \A c \in Clients : \A n \in Names \ removed :
        LET d == disk[c][n] IN
        \/ d = <<ErrorPage>>
        \/ Len(d) <= Len(store[n]) /\ d = SubSeq(store[n], 1, Len(d))

\* The receiver of a message is told of its file at most once, however many uploads
\* of that name end at the same time.
NotifiedOnce == \A x \in Transfers : notices[x] <= 1

\* A chunk handler gets to its answer and back to the read: no path through the
\* delivery keeps the lock.
HandlerReturns ==
    \A c \in Clients : phase[c] \in Busy ~> phase[c] \notin Busy

\* If nobody else uses the name, the file server holds the chunks of a file in order
\* and from the first, whatever was lost, given up or acknowledged too late.
OwnName(x) == \A y \in Transfers \ {x} : Name[y] # Name[x]

StoredInOrder ==
    \A x \in Transfers : OwnName(x) =>
        \A i \in DOMAIN store[Name[x]] : store[Name[x]][i] = Piece(x, i)

\* Then, and if the file server did not fail, a file its receiver has closed is the
\* whole file.
ClosedIsWhole ==
    \A x \in Transfers : OwnName(x) /\ faults = 0 =>
        LET d == disk[To[x]][Name[x]] IN
        d # <<>> /\ Name[x] \notin opened[To[x]] => Len(d) = Chunks[x]

\* file_server/README.md, steps 7 and 8: once all chunks are sent the file is stored
\* and goes to the receiver, which takes the server to have seen the last chunk.
CompletedIsRecorded ==
    \A x \in completed : uploads[Name[x]].completed
=============================================================================
