-------------------------- MODULE FileTransferProofs --------------------------
(***************************************************************************)
(* Theorems about FileTransfer, for every set of clients, names and        *)
(* transfers.  That last_chunk_received never runs ahead of the store is   *)
(* not inductive: it depends on what a handler knows between its check and *)
(* its record, while other handlers upload and reset the same name.        *)
(***************************************************************************)
EXTENDS FileTransfer, SequenceTheorems, WellFoundedInduction, TLAPS

\* The phases of handle_file_chunk, and those in which it holds the lock.
Holding == {"notify", "download", "forward", "erase"}
Handling == {"check", "upload", "record", "lock", "accept", "reject"} \cup Holding

\* The locals a phase depends on are there.
LocalsBound ==
    \A c \in Clients :
        /\ phase[c] \in Handling => piece[c] \in Pieces
        /\ phase[c] \in {"push", "reset"} => piece[c].x \in Transfers
        /\ phase[c] \in Holding => match[c] \in Transfers
        /\ phase[c] = "forward" => goods[c] # <<>>

\* The mutex belongs to whoever is in the scope of the lock_guard.
LockHeld == \A c \in Clients : holder = c <=> phase[c] \in Holding

\* pending_it points at the transfer it found as long as the lock is held.
IteratorValid ==
    \A c \in Clients : phase[c] \in Holding =>
        entry[c] \in 1 .. Len(pending) /\ pending[entry[c]] = match[c]

\* Between check and record: the chunk in hand is at most the next one, and once it
\* is uploaded, it is there, unless the file server removed the file.
UploadKnown ==
    \A c \in Clients : File(c) \notin removed =>
        /\ phase[c] = "upload" => piece[c].i <= Len(store[File(c)]) + 1
        /\ phase[c] = "record" => piece[c].i <= Len(store[File(c)])

UploadInv ==
    /\ TypeOK
    /\ LocalsBound
    /\ LockHeld
    /\ IteratorValid
    /\ UploadKnown
    /\ UploadsAreStored

-----------------------------------------------------------------------------
(* Facts about requests and frames.                                        *)

LEMMA RequestsTyped ==
    /\ \A x \in Transfers : Announcement(x) \in Requests
    /\ \A x \in Transfers, i \in Nat \ {0} : Piece(x, i) \in Pieces /\ Chunk(x, i) \in Requests
    /\ [kind |-> "chunk_received"] \in Requests
    /\ \A r \in Requests :
         /\ r.kind = "send_message" => r.x \in Transfers
         /\ r.kind = "file_chunk" => r.p \in Pieces
BY DEF Requests, Announcement, Chunk, Piece, Pieces

LEMMA FramesTyped ==
    /\ [kind |-> "acknowledged"] \in Frames
    /\ [kind |-> "rejected"] \in Frames
    /\ \A n \in Names : [kind |-> "incoming_file", name |-> n] \in Frames
    /\ \A n \in Names, p \in Contents, l \in BOOLEAN :
         [kind |-> "file_chunk", name |-> n, p |-> p, last |-> l] \in Frames
    /\ \A f \in Frames :
         /\ f.kind \in {"incoming_file", "file_chunk"} => f.name \in Names
         /\ f.kind = "file_chunk" => f.p \in Contents
BY DEF Frames

LEMMA WriteTyped ==
    ASSUME outbox \in [Clients -> Seq(Frames)], NEW d \in Clients, NEW f \in Frames,
           Write(d, f)
    PROVE  outbox' \in [Clients -> Seq(Frames)]
<1>1. Append(outbox[d], f) \in Seq(Frames)
  BY AppendProperties
<1>2. QED
  BY <1>1 DEF Write

\* If any pending transfer has that name, the loop finds one.
LEMMA FirstMatchingFound ==
    ASSUME NEW n \in Names, pending \in Seq(Transfers), Matching(n) # {}
    PROVE  /\ FirstMatching(n) \in 1 .. Len(pending)
           /\ Name[pending[FirstMatching(n)]] = n
<1>1. Matching(n) \subseteq Nat /\ \A i \in Matching(n) : i \in 1 .. Len(pending)
  BY DEF Matching
<1>2. PICK i \in Matching(n) : \A j \in Matching(n) : ~ (<<j, i>> \in OpToRel(<, Nat))
  BY <1>1, NatLessThanWellFounded, WFMin
<1>3. \A j \in Matching(n) : i <= j
  <2> SUFFICES ASSUME NEW j \in Matching(n), j < i
               PROVE  FALSE
    BY <1>1
  <2>1. <<j, i>> \in {ss \in Nat \X Nat : ss[1] < ss[2]}
    BY <1>1
  <2>2. OpToRel(<, Nat) = {ss \in Nat \X Nat : ss[1] < ss[2]}
    BY DEF OpToRel
  <2>3. QED
    BY <1>2, <2>1, <2>2
<1>4. QED
  BY <1>1, <1>3 DEF FirstMatching, Matching

\* A step of a client changes none of what the server's invariants speak about.
LEMMA ServerUntouched ==
    ASSUME UploadInv, TypeOK',
           UNCHANGED <<phase, localVars, pending, uploads, holder, serviceVars>>
    PROVE  UploadInv'
BY DEF UploadInv, LocalsBound, LockHeld, IteratorValid, UploadKnown, UploadsAreStored, File,
       localVars, serviceVars

LEMMA ClientStepKeeps ==
    ASSUME UploadInv, NEW c \in Clients, ClientStep(c)
    PROVE  UploadInv'
<1> USE TransferAssumption
<1>0. TypeOK
  BY DEF UploadInv
<1> USE DEF clientVars, userVars, localVars, sharedVars, serviceVars
<1>1. CASE Connect(c)
  <2>1. TypeOK'
    BY <1>0, <1>1 DEF TypeOK, Connect
  <2>2. QED
    BY <1>1, <2>1, ServerUntouched DEF Connect
<1>2. CASE \E x \in Transfers : SendFile(c, x)
  <2>1. PICK x \in Transfers : SendFile(c, x)
    BY <1>2
  <2>2. Announcement(x) \in Requests /\ Chunk(x, 1) \in Requests
    BY RequestsTyped
  <2>3. /\ <<Announcement(x), Chunk(x, 1)>> \in Seq(Requests)
        /\ <<Chunk(x, 1), Announcement(x)>> \in Seq(Requests)
    BY <2>2
  <2>4. PICK posted \in Seq(Requests) : inbox' = [inbox EXCEPT ![c] = @ \o posted]
    BY <2>1, <2>3 DEF SendFile
  <2>5. inbox[c] \o posted \in Seq(Requests)
    BY <1>0, ConcatProperties DEF TypeOK
  <2>6. inbox' \in [Clients -> Seq(Requests)]
    BY <1>0, <2>4, <2>5 DEF TypeOK
  <2>7. TypeOK'
    BY <1>0, <2>1, <2>6 DEF TypeOK, SendFile
  <2>8. QED
    BY <2>1, <2>7, ServerUntouched DEF SendFile
<1>3. CASE NextChunk(c)
  <2>1. sending[c] \in Transfers /\ number[c] + 1 \in Nat \ {0}
    <3>1. sending[c] \in Transfers \cup {None} /\ number[c] \in Nat
      BY <1>0 DEF TypeOK
    <3>2. sending[c] # None
      BY <1>3 DEF NextChunk
    <3>3. QED
      BY <3>1, <3>2
  <2>2. Append(inbox[c], Chunk(sending[c], number[c] + 1)) \in Seq(Requests)
    BY <1>0, <2>1, RequestsTyped, AppendProperties DEF TypeOK
  <2>3. inbox' \in [Clients -> Seq(Requests)]
    BY <1>0, <1>3, <2>2 DEF TypeOK, NextChunk
  <2>4. /\ sending' \in [Clients -> Transfers \cup {None}]
        /\ completed' \subseteq Transfers /\ number' \in [Clients -> Nat]
    <3>1. /\ sending \in [Clients -> Transfers \cup {None}] /\ number \in [Clients -> Nat]
          /\ completed \subseteq Transfers
      BY <1>0 DEF TypeOK
    <3>2. CASE /\ number' = [number EXCEPT ![c] = @ + 1]
               /\ UNCHANGED <<sending, completed>>
      BY <2>1, <3>1, <3>2
    <3>3. CASE /\ sending' = [sending EXCEPT ![c] = None]
               /\ number' = [number EXCEPT ![c] = 0]
               /\ completed' = completed \cup {sending[c]}
      BY <2>1, <3>1, <3>3
    <3>4. QED
      BY <1>3, <3>2, <3>3 DEF NextChunk
  <2>7. acked' \in [Clients -> BOOLEAN]
    <3>1. acked' = [acked EXCEPT ![c] = FALSE]
      BY <1>3 DEF NextChunk
    <3>2. QED
      BY <1>0, <3>1 DEF TypeOK
  <2>5. TypeOK'
    BY <1>0, <1>3, <2>3, <2>4, <2>7 DEF TypeOK, NextChunk
  <2>6. QED
    BY <1>3, <2>5, ServerUntouched DEF NextChunk
<1>4. CASE Timeout(c)
  <2>1. TypeOK'
    BY <1>0, <1>4 DEF TypeOK, Timeout
  <2>2. QED
    BY <1>4, <2>1, ServerUntouched DEF Timeout
<1>5. CASE ReceiveFrame(c)
  <2> DEFINE f == Head(outbox[c])
  <2>1. f \in Frames /\ Tail(outbox[c]) \in Seq(Frames)
    BY <1>0, <1>5, HeadTailProperties DEF TypeOK, ReceiveFrame
  <2>2. /\ f.kind \in {"incoming_file", "file_chunk"} => f.name \in Names
        /\ f.kind = "file_chunk" => f.p \in Contents
    BY <2>1, FramesTyped
  <2>3. outbox' \in [Clients -> Seq(Frames)]
    BY <1>0, <1>5, <2>1 DEF TypeOK, ReceiveFrame
  <2>4. acked' \in [Clients -> BOOLEAN]
    <3>1. (acked[c] \/ f.kind = "acknowledged") \in BOOLEAN
      OBVIOUS
    <3>2. acked' = [acked EXCEPT ![c] = acked[c] \/ f.kind = "acknowledged"]
      BY <1>5 DEF ReceiveFrame
    <3>3. acked \in [Clients -> BOOLEAN]
      BY <1>0 DEF TypeOK
    <3> HIDE DEF f
    <3>4. QED
      BY <3>1, <3>2, <3>3, Zenon
  <2>5. opened' \in [Clients -> SUBSET Names]
    <3>1. opened \in [Clients -> SUBSET Names]
      BY <1>0 DEF TypeOK
    <3>2. CASE UNCHANGED opened
      BY <3>1, <3>2
    <3>3. CASE f.kind = "incoming_file" /\ opened' = [opened EXCEPT ![c] = @ \cup {f.name}]
      BY <2>2, <3>1, <3>3
    <3>4. CASE opened' = [opened EXCEPT ![c] = IF f.last THEN @ \ {f.name} ELSE @]
      BY <3>1, <3>4
    <3>5. QED
      BY <1>5, <3>2, <3>3, <3>4 DEF ReceiveFrame
  <2>6. disk' \in [Clients -> [Names -> Seq(Contents)]]
    <3>1. CASE UNCHANGED disk
      BY <1>0, <3>1 DEF TypeOK
    <3>2. CASE f.kind = "incoming_file" /\ disk' = [disk EXCEPT ![c][f.name] = <<>>]
      BY <1>0, <2>2, <3>2, EmptySeq DEF TypeOK
    <3>3. CASE f.kind = "file_chunk" /\ disk' = [disk EXCEPT ![c][f.name] = Append(@, f.p)]
      <4>1. Append(disk[c][f.name], f.p) \in Seq(Contents)
        BY <1>0, <2>2, <3>3, AppendProperties DEF TypeOK
      <4>2. QED
        BY <1>0, <2>2, <3>3, <4>1 DEF TypeOK
    <3>4. QED
      BY <1>5, <3>1, <3>2, <3>3 DEF ReceiveFrame
  <2>7. inbox' \in [Clients -> Seq(Requests)]
    <3>1. Append(inbox[c], [kind |-> "chunk_received"]) \in Seq(Requests)
      BY <1>0, RequestsTyped, AppendProperties DEF TypeOK
    <3>2. \/ inbox' = inbox
          \/ inbox' = [inbox EXCEPT ![c] = Append(@, [kind |-> "chunk_received"])]
      BY <1>5 DEF ReceiveFrame
    <3>3. QED
      BY <1>0, <3>1, <3>2 DEF TypeOK
  <2>8. TypeOK'
    BY <1>0, <1>5, <2>3, <2>4, <2>5, <2>6, <2>7 DEF TypeOK, ReceiveFrame
  <2>9. QED
    BY <1>5, <2>8, ServerUntouched DEF ReceiveFrame
<1>6. CASE Leave(c)
  <2>1. TypeOK'
    BY <1>0, <1>6, EmptySeq DEF TypeOK, Leave
  <2>2. QED
    BY <1>6, <2>1, ServerUntouched DEF Leave
<1>7. QED
  BY <1>1, <1>2, <1>3, <1>4, <1>5, <1>6 DEF ClientStep

-----------------------------------------------------------------------------
(* The steps of a handler.                                                 *)

\* A step that moves c's handler to phase p keeps the invariant if what p needs is
\* there: its locals, the lock, and what it knows about the store, which has only
\* grown; and if the upload states are still below it.
LEMMA HandlerMoves ==
    ASSUME UploadInv, TypeOK', NEW c \in Clients, NEW p \in Phases,
           phase' = [phase EXCEPT ![c] = p],
           \A d \in Clients \ {c} :
               /\ piece'[d] = piece[d] /\ entry'[d] = entry[d]
               /\ match'[d] = match[d] /\ goods'[d] = goods[d],
           p \in Handling => piece'[c] \in Pieces,
           p \in {"push", "reset"} => piece'[c].x \in Transfers,
           p \in Holding => match'[c] \in Transfers,
           p = "forward" => goods'[c] # <<>>,
           holder' = c <=> p \in Holding,
           \A d \in Clients \ {c} : holder' = d <=> holder = d,
           p \in Holding => entry'[c] \in 1 .. Len(pending') /\ pending'[entry'[c]] = match'[c],
           pending' = pending \/ \A d \in Clients \ {c} : holder # d,
           removed \subseteq removed',
           \A n \in Names \ removed' : Len(store[n]) <= Len(store'[n]),
           p = "upload" /\ Name[piece'[c].x] \notin removed' => piece'[c].i <= Len(store'[Name[piece'[c].x]]) + 1,
           p = "record" /\ Name[piece'[c].x] \notin removed' => piece'[c].i <= Len(store'[Name[piece'[c].x]]),
           \A n \in Names \ removed' : uploads'[n].last <= Len(store'[n])
    PROVE  UploadInv'
<1> USE TransferAssumption DEF UploadInv
<1>0. /\ phase \in [Clients -> Phases]
      /\ \A n \in Names : Len(store[n]) \in Nat /\ Len(store'[n]) \in Nat
      /\ \A d \in Clients : piece[d].i \in Nat
  BY LenProperties DEF TypeOK
<1>1. LocalsBound'
  BY <1>0 DEF LocalsBound
<1>2. LockHeld'
  BY <1>0 DEF LockHeld
<1>3. UploadKnown'
  <2> SUFFICES ASSUME NEW d \in Clients,
                      Name[piece'[d].x] \notin removed'
               PROVE  /\ phase'[d] = "upload" => piece'[d].i <= Len(store'[Name[piece'[d].x]]) + 1
                      /\ phase'[d] = "record" => piece'[d].i <= Len(store'[Name[piece'[d].x]])
    BY DEF UploadKnown, File
  <2>1. CASE d = c
    <3>1. phase'[c] = p
      BY <1>0
    <3>2. QED
      BY <2>1, <3>1
  <2>2. CASE d # c /\ phase[d] \in {"upload", "record"}
    <3>1. piece[d] \in Pieces
      BY <2>2 DEF LocalsBound, Handling
    <3>2. Name[piece[d].x] \in Names
      BY <3>1 DEF Pieces
    <3>4. phase'[d] = phase[d] /\ piece'[d] = piece[d]
      BY <1>0, <2>2
    <3>3. /\ Name[piece[d].x] \notin removed /\ Name[piece[d].x] \notin removed'
          /\ phase[d] = "upload" => piece[d].i <= Len(store[Name[piece[d].x]]) + 1
          /\ phase[d] = "record" => piece[d].i <= Len(store[Name[piece[d].x]])
      BY <3>4 DEF UploadKnown, File
    <3>5. QED
      <4> DEFINE n == Name[piece[d].x]
      <4>1. /\ Len(store[n]) \in Nat /\ Len(store'[n]) \in Nat /\ piece[d].i \in Nat
            /\ Len(store[n]) <= Len(store'[n])
        BY <1>0, <3>2, <3>3
      <4>2. /\ phase[d] = "upload" => piece[d].i <= Len(store[n]) + 1
            /\ phase[d] = "record" => piece[d].i <= Len(store[n])
        BY <3>3
      <4>3. /\ phase[d] = "upload" => piece[d].i <= Len(store'[n]) + 1
            /\ phase[d] = "record" => piece[d].i <= Len(store'[n])
        <5> HIDE DEF n
        <5>1. QED
          BY <4>1, <4>2
      <4>4. QED
        BY <3>4, <4>3
  <2>3. CASE d # c /\ phase[d] \notin {"upload", "record"}
    BY <1>0, <2>3
  <2>4. QED
    BY <2>1, <2>2, <2>3
<1>4. UploadsAreStored'
  BY DEF UploadsAreStored
<1>5. IteratorValid'
  BY <1>0 DEF IteratorValid, LockHeld
<1>6. QED
  BY <1>1, <1>2, <1>3, <1>4, <1>5

\* What most steps leave alone.
LEMMA StoreUntouched ==
    ASSUME UploadInv, UNCHANGED <<uploads, store, removed>>
    PROVE  /\ removed \subseteq removed'
           /\ \A n \in Names \ removed' : Len(store[n]) <= Len(store'[n])
           /\ \A n \in Names \ removed' : uploads'[n].last <= Len(store'[n])
<1>1. \A n \in Names : Len(store[n]) \in Nat
  BY LenProperties DEF UploadInv, TypeOK
<1>2. QED
  BY <1>1 DEF UploadInv, UploadsAreStored

LEMMA LoopStepKeeps ==
    ASSUME UploadInv, NEW c \in Clients,
           ReadRequest(c) \/ EndOfStream(c) \/ PushPending(c) \/ ResetUpload(c)
    PROVE  UploadInv'
<1> USE TransferAssumption
        DEF clientVars, userVars, localVars, sharedVars, serviceVars, Goto, Return
<1>0. TypeOK /\ LocalsBound /\ LockHeld /\ UploadsAreStored
  BY DEF UploadInv
<1> DEFINE PieceTypes == [x : Transfers \cup {None}, i : Nat]
<1>01. piece \in [Clients -> PieceTypes] /\ NoPiece \in PieceTypes
  BY <1>0 DEF TypeOK, NoPiece
<1>1. CASE ReadRequest(c)
  <2> DEFINE r == Head(inbox[c])
  <2>1. inbox[c] \in Seq(Requests) /\ inbox[c] # <<>>
    BY <1>0, <1>1 DEF TypeOK, ReadRequest
  <2>2. r \in Requests
    BY <2>1, HeadTailProperties
  <2>3. PICK k \in 1 .. Len(inbox[c]) :
              inbox' = [inbox EXCEPT ![c] = SubSeq(@, k + 1, Len(@))]
    BY <1>1 DEF ReadRequest
  <2>4. SubSeq(inbox[c], k + 1, Len(inbox[c])) \in Seq(Requests)
    BY <2>1, SubSeqProperties
  <2>5. inbox' \in [Clients -> Seq(Requests)]
    BY <1>0, <2>3, <2>4 DEF TypeOK
  <2>6. /\ phase[c] = "reading"
        /\ UNCHANGED <<clientVars, outbox, entry, match, goods, sharedVars,
                       serviceVars, notices>>
    BY <1>1 DEF ReadRequest
  <2>7. PICK p \in {"reading", "lost", "check", "push"}, q \in PieceTypes :
             /\ phase' = [phase EXCEPT ![c] = p]
             /\ piece' = [piece EXCEPT ![c] = q]
             /\ p = "check" => q \in Pieces
             /\ p = "push" => q.x \in Transfers
    <3>1. CASE r.kind = "chunk_received" /\ UNCHANGED <<phase, piece>>
      <4>1. phase' = [phase EXCEPT ![c] = "reading"] /\ piece' = [piece EXCEPT ![c] = piece[c]]
        BY <1>0, <1>01, <2>6, <3>1 DEF TypeOK
      <4>2. QED
        BY <1>01, <4>1
    <3>2. CASE /\ r.kind = "file_chunk"
               /\ piece' = [piece EXCEPT ![c] = r.p]
               /\ phase' = [phase EXCEPT ![c] = "check"]
      <4>1. r.p \in Pieces
        BY <2>2, <3>2, RequestsTyped
      <4>2. r.p \in PieceTypes
        BY <4>1 DEF Pieces
      <4>3. QED
        BY <3>2, <4>1, <4>2
    <3>3. CASE /\ r.kind = "send_message"
               /\ piece' = [piece EXCEPT ![c] = Piece(r.x, 0)]
               /\ phase' = [phase EXCEPT ![c] = "push"]
      <4>1. r.x \in Transfers
        BY <2>2, <3>3, RequestsTyped
      <4>2. Piece(r.x, 0) \in PieceTypes /\ Piece(r.x, 0).x = r.x
        BY <4>1 DEF Piece
      <4>3. QED
        BY <3>3, <4>1, <4>2
    <3>4. CASE \E p \in {"reading", "lost"} :
                  /\ phase' = [phase EXCEPT ![c] = p]
                  /\ piece' = [piece EXCEPT ![c] = NoPiece]
      BY <1>01, <3>4
    <3>5. QED
      BY <1>1, <3>1, <3>2, <3>3, <3>4 DEF ReadRequest
  <2>8. p \in Phases /\ p \notin Holding /\ holder # c
    BY <1>0, <2>6 DEF Phases, Busy, Holding, LockHeld
  <2>9. TypeOK'
    BY <1>0, <2>5, <2>6, <2>7, <2>8 DEF TypeOK
  <2>10. QED
    BY <1>01, <2>6, <2>7, <2>8, <2>9, StoreUntouched, HandlerMoves DEF Handling
<1>2. CASE EndOfStream(c)
  <2>1. holder # c /\ "ended" \in Phases /\ "ended" \notin Holding /\ "ended" \notin Handling
    BY <1>0, <1>2 DEF EndOfStream, LockHeld, Holding, Handling, Phases
  <2>2. TypeOK'
    BY <1>0, <1>2, <2>1 DEF TypeOK, EndOfStream
  <2>3. QED
    BY <1>2, <2>1, <2>2, StoreUntouched, HandlerMoves DEF EndOfStream
<1>3. CASE PushPending(c)
  <2>1. piece[c].x \in Transfers
    BY <1>0, <1>3 DEF LocalsBound, PushPending
  <2>2. "reset" \in Phases /\ "reset" \notin Holding /\ "reset" \notin Handling
    BY DEF Holding, Handling, Phases, Busy
  <2>3. pending' \in Seq(Transfers)
    BY <1>0, <1>3, <2>1, AppendProperties DEF TypeOK, PushPending
  <2>4. TypeOK'
    BY <1>0, <1>3, <2>2, <2>3 DEF TypeOK, PushPending
  <2>5. \A d \in Clients : holder # d
    BY <1>3 DEF PushPending
  <2>6. QED
    BY <1>3, <2>1, <2>2, <2>4, <2>5, StoreUntouched, HandlerMoves DEF PushPending
<1>4. CASE ResetUpload(c)
  <2>1. piece[c].x \in Transfers /\ holder # c
    BY <1>0, <1>4 DEF LocalsBound, LockHeld, ResetUpload, Holding
  <2>2. uploads' = [uploads EXCEPT ![Name[piece[c].x]] = Fresh]
    BY <1>4 DEF ResetUpload, File
  <2>3. PICK p \in {"reading", "lost"} : /\ phase' = [phase EXCEPT ![c] = p]
                                         /\ piece' = [piece EXCEPT ![c] = NoPiece]
    BY <1>4 DEF ResetUpload
  <2>4. p \in Phases /\ p \notin Holding /\ p \notin Handling
    BY DEF Holding, Handling, Phases, Busy
  <2>5. uploads' \in [Names -> [last : Nat, completed : BOOLEAN]]
    BY <1>0, <2>1, <2>2 DEF TypeOK, Fresh
  <2>6. TypeOK'
    BY <1>0, <1>01, <1>4, <2>3, <2>4, <2>5 DEF TypeOK, ResetUpload
  <2>7. \A n \in Names : Len(store[n]) \in Nat
    BY <1>0, LenProperties DEF TypeOK
  <2>8. \A n \in Names \ removed : uploads'[n].last <= Len(store[n])
    BY <1>0, <2>2, <2>7 DEF TypeOK, Fresh, UploadsAreStored
  <2>9. /\ UNCHANGED <<entry, match, goods, pending, holder, store, removed>>
        /\ \A d \in Clients \ {c} : piece'[d] = piece[d]
    BY <1>01, <1>4, <2>3 DEF ResetUpload
  <2>10. p \notin {"push", "reset", "upload", "record", "forward"}
    BY <2>3
  <2>11. /\ \A n \in Names \ removed' : Len(store[n]) <= Len(store'[n])
         /\ \A n \in Names \ removed' : uploads'[n].last <= Len(store'[n])
    BY <2>7, <2>8, <2>9
  <2>12. QED
    BY <2>1, <2>3, <2>4, <2>6, <2>9, <2>10, <2>11, HandlerMoves
<1>5. QED
  BY <1>1, <1>2, <1>3, <1>4

-----------------------------------------------------------------------------
(* The steps of handle_file_chunk before it takes the lock.                *)

\* Who is not in the scope of the lock does not hold it, and leaves it alone.
LEMMA ChunkStored ==
    ASSUME UploadInv, NEW c \in Clients,
           CheckOrder(c) \/ UploadChunk(c) \/ RecordChunk(c)
    PROVE  UploadInv'
<1> USE TransferAssumption
    DEF clientVars, userVars, localVars, sharedVars, serviceVars, Goto
<1>0. TypeOK /\ LocalsBound /\ LockHeld /\ UploadKnown /\ UploadsAreStored
  BY DEF UploadInv
<1> DEFINE n == Name[piece[c].x]
<1>1. phase[c] \in {"check", "upload", "record"}
  BY DEF CheckOrder, UploadChunk, RecordChunk
<1>2. piece[c] \in Pieces /\ n \in Names /\ holder # c /\ piece[c].i \in Nat \ {0}
  BY <1>0, <1>1 DEF LocalsBound, LockHeld, Handling, Holding, Pieces
<1>3. \A m \in Names : store[m] \in Seq(Pieces) /\ Len(store[m]) \in Nat
  BY <1>0, LenProperties DEF TypeOK
<1>4. UNCHANGED <<piece, entry, match, goods, pending, holder>>
  BY DEF CheckOrder, UploadChunk, RecordChunk
<1>5. \A p \in {"check", "upload", "record", "lock", "accept", "reject"} :
          /\ p \in Phases /\ p \notin Holding /\ p \notin {"push", "reset", "forward"}
          /\ [phase EXCEPT ![c] = p] \in [Clients -> Phases]
  BY <1>0 DEF Phases, Busy, Holding, TypeOK
<1>51. /\ uploads \in [Names -> [last : Nat, completed : BOOLEAN]]
       /\ \A m \in Names : uploads[m].last \in Nat
       /\ \A m \in Names \ removed : uploads[m].last <= Len(store[m])
       /\ store \in [Names -> Seq(Pieces)] /\ faults \in 0 .. MaxFaults
       /\ removed \subseteq Names
  BY <1>0 DEF TypeOK, UploadsAreStored
<1>6. CASE CheckOrder(c)
  <2>1. PICK p \in {"upload", "reject"} :
             /\ phase' = [phase EXCEPT ![c] = p]
             /\ p = "upload" => piece[c].i = uploads[n].last + 1
    BY <1>6 DEF CheckOrder, File
  <2>2. TypeOK'
    <3>1. phase' \in [Clients -> Phases]
      BY <1>5, <2>1
    <3>2. QED
      BY <1>0, <1>6, <3>1 DEF TypeOK, CheckOrder
  <2>3. /\ n \notin removed => uploads[n].last <= Len(store[n])
        /\ uploads[n].last \in Nat
    BY <1>2, <1>51
  <2>4. UNCHANGED <<uploads, store, removed>>
    BY <1>6 DEF CheckOrder
  <2>5. p = "upload" /\ Name[piece'[c].x] \notin removed' => piece'[c].i <= Len(store'[Name[piece'[c].x]]) + 1
    BY <1>2, <1>3, <1>4, <2>1, <2>3, <2>4
  <2>6. p # "record"
    BY <2>1
  <2>7. QED
    BY <1>2, <1>4, <1>5, <2>1, <2>2, <2>4, <2>5, <2>6, StoreUntouched, HandlerMoves
<1>7. CASE UploadChunk(c)
  <2> DEFINE appended == [store EXCEPT ![n] = Append(@, piece[c])]
  <2> DEFINE cleared == [store EXCEPT ![n] = <<>>]
  <2>1. PICK p \in {"record", "reject"} :
             /\ phase' = [phase EXCEPT ![c] = p]
             /\ \/ store' \in {store, appended} /\ removed' = removed
                \/ store' = cleared /\ removed' = removed \cup {n}
             /\ p = "record" => store' = appended
    <3>1. CASE store' = appended /\ Goto(c, "record") /\ UNCHANGED removed
      BY <3>1
    <3>2. CASE FailUpload(c) /\ Goto(c, "reject")
      BY <3>2 DEF FailUpload, File
    <3>3. QED
      BY <1>7, <3>1, <3>2 DEF UploadChunk, File
  <2>2. Append(store[n], piece[c]) \in Seq(Pieces)
        /\ Len(Append(store[n], piece[c])) = Len(store[n]) + 1
    BY <1>2, <1>3, AppendProperties
  <2>3. appended \in [Names -> Seq(Pieces)] /\ cleared \in [Names -> Seq(Pieces)]
    BY <1>51, <2>2, EmptySeq
  <2>4. store' \in [Names -> Seq(Pieces)] /\ removed' \subseteq Names
    BY <1>2, <1>51, <2>1, <2>3
  <2>5. faults' \in 0 .. MaxFaults
    <3>1. faults' = faults \/ (faults < MaxFaults /\ faults' = faults + 1)
      BY <1>7 DEF UploadChunk, FailUpload
    <3>2. QED
      BY <1>51, <3>1
  <2>6. TypeOK'
    <3>1. phase' \in [Clients -> Phases]
      BY <1>5, <2>1
    <3>2. QED
      BY <1>0, <1>7, <2>4, <2>5, <3>1 DEF TypeOK, UploadChunk
  <2>7. removed \subseteq removed' /\ \A m \in Names \ removed' : Len(store[m]) <= Len(store'[m])
    <3> SUFFICES ASSUME NEW m \in Names \ removed'
                 PROVE  Len(store[m]) <= Len(store'[m])
      BY <2>1
    <3>1. \/ store'[m] = store[m]
          \/ m = n /\ store'[m] = Append(store[n], piece[c])
      BY <1>51, <2>1
    <3>2. CASE m = n /\ store'[m] = Append(store[n], piece[c])
      <4>1. Len(store'[m]) = Len(store[m]) + 1
        BY <2>2, <3>2
      <4>2. QED
        BY <1>3, <4>1
    <3>3. QED
      BY <1>3, <3>1, <3>2
  <2>8. \A m \in Names : Len(store'[m]) \in Nat
    BY <2>4, LenProperties
  <2>9. uploads' = uploads
    BY <1>7 DEF UploadChunk
  <2>10. \A m \in Names \ removed' : uploads'[m].last <= Len(store'[m])
    <3> SUFFICES ASSUME NEW m \in Names \ removed'
                 PROVE  uploads[m].last <= Len(store'[m])
      BY <2>9
    <3>1. uploads[m].last <= Len(store[m]) /\ Len(store[m]) <= Len(store'[m])
      BY <1>51, <2>7
    <3>2. QED
      BY <1>3, <1>51, <2>8, <3>1
  <2>11. n \notin removed => piece[c].i <= Len(store[n]) + 1
    BY <1>0, <1>7 DEF UploadKnown, UploadChunk, File
  <2>12. p = "record" /\ Name[piece'[c].x] \notin removed' => piece'[c].i <= Len(store'[Name[piece'[c].x]])
    <3> SUFFICES ASSUME p = "record", n \notin removed'
                 PROVE  piece[c].i <= Len(store'[n])
      BY <1>4
    <3>1. store'[n] = Append(store[n], piece[c]) /\ n \notin removed
      BY <1>2, <1>51, <2>1, <2>7
    <3>2. QED
      BY <2>2, <2>11, <3>1
  <2>13. p # "upload"
    BY <2>1
  <2>14. QED
    BY <1>2, <1>4, <1>5, <2>1, <2>6, <2>7, <2>10, <2>12, <2>13, HandlerMoves
<1>8. CASE RecordChunk(c)
  <2>1. PICK p \in {"lock", "accept"} : phase' = [phase EXCEPT ![c] = p]
    BY <1>8 DEF RecordChunk
  <2>2. PICK b \in BOOLEAN :
             uploads' = [uploads EXCEPT ![n] = [last |-> piece[c].i, completed |-> b]]
    <3>1. uploads[n].completed \in BOOLEAN /\ IsLast(piece[c]) \in BOOLEAN
      BY <1>0, <1>2 DEF TypeOK, IsLast
    <3>2. QED
      BY <1>8, <3>1 DEF RecordChunk, File
  <2>3. uploads' \in [Names -> [last : Nat, completed : BOOLEAN]]
    BY <1>2, <1>51, <2>2
  <2>4. TypeOK'
    <3>1. phase' \in [Clients -> Phases]
      BY <1>5, <2>1
    <3>2. QED
      BY <1>0, <1>8, <2>3, <3>1 DEF TypeOK, RecordChunk
  <2>5. n \notin removed => piece[c].i <= Len(store[n])
    BY <1>0, <1>8 DEF UploadKnown, RecordChunk, File
  <2>6. store' = store /\ removed' = removed
    BY <1>8 DEF RecordChunk
  <2>7. \A m \in Names \ removed' : Len(store[m]) <= Len(store'[m])
    BY <1>3, <2>6
  <2>8. \A m \in Names \ removed' : uploads'[m].last <= Len(store'[m])
    BY <1>51, <2>2, <2>5, <2>6
  <2>9. p \notin {"upload", "record"}
    BY <2>1
  <2>10. removed \subseteq removed'
    BY <2>6
  <2>11. QED
    BY <1>2, <1>4, <1>5, <2>1, <2>4, <2>7, <2>8, <2>9, <2>10, HandlerMoves
<1>9. QED
  BY <1>6, <1>7, <1>8

-----------------------------------------------------------------------------
(* The delivery, under the lock, and the answer.                           *)

\* Leaving the scope of the lock_guard.
LEMMA UnlockKeeps ==
    ASSUME UploadInv, TypeOK', NEW c \in Clients, phase[c] \in Holding, Unlock(c),
           UNCHANGED <<piece, goods, uploads, store, removed>>
    PROVE  UploadInv'
<1> USE TransferAssumption
<1>1. /\ "accept" \in Phases /\ "accept" \in Handling /\ "accept" \notin Holding
      /\ phase[c] \in Handling
  BY DEF Phases, Busy, Handling, Holding
<1>2. piece[c] \in Pieces /\ holder = c
  BY <1>1 DEF UploadInv, LocalsBound, LockHeld
<1>3. /\ phase' = [phase EXCEPT ![c] = "accept"] /\ holder' = None
      /\ \A d \in Clients \ {c} : entry'[d] = entry[d] /\ match'[d] = match[d]
  BY DEF Unlock, Goto, UploadInv, TypeOK
<1>4. holder' # c /\ \A d \in Clients : holder' # d
  BY <1>3
<1>5. \A d \in Clients \ {c} : holder # d
  BY <1>2
<1>6. QED
  BY <1>1, <1>2, <1>3, <1>4, <1>5, StoreUntouched, HandlerMoves

\* Staying in it.
LEMMA HoldingKeeps ==
    ASSUME UploadInv, TypeOK', NEW c \in Clients, phase[c] \in Holding,
           NEW p \in Holding, phase' = [phase EXCEPT ![c] = p],
           \A d \in Clients \ {c} : goods'[d] = goods[d],
           p = "forward" => goods'[c] # <<>>,
           UNCHANGED <<piece, entry, match, pending, holder, uploads, store, removed>>
    PROVE  UploadInv'
<1>1. p \in Phases /\ phase[c] \in Handling
      /\ p \notin {"push", "reset", "upload", "record"}
  BY DEF Phases, Busy, Handling, Holding
<1>2. /\ piece[c] \in Pieces /\ match[c] \in Transfers /\ holder = c
      /\ entry[c] \in 1 .. Len(pending) /\ pending[entry[c]] = match[c]
  BY <1>1 DEF UploadInv, LocalsBound, LockHeld, IteratorValid
<1>3. QED
  BY <1>1, <1>2, StoreUntouched, HandlerMoves

LEMMA ChunkDelivered ==
    ASSUME UploadInv, NEW c \in Clients,
           \/ LockPending(c) \/ NotifyReceiver(c) \/ DownloadChunks(c)
           \/ ForwardChunk(c) \/ ErasePending(c) \/ AnswerChunk(c)
    PROVE  UploadInv'
<1> USE TransferAssumption
    DEF clientVars, userVars, localVars, sharedVars, serviceVars
<1>0. /\ TypeOK /\ LocalsBound /\ LockHeld /\ IteratorValid
      /\ phase \in [Clients -> Phases] /\ entry \in [Clients -> Nat]
      /\ match \in [Clients -> Transfers \cup {None}] /\ goods \in [Clients -> Seq(Contents)]
      /\ outbox \in [Clients -> Seq(Frames)] /\ pending \in Seq(Transfers)
      /\ faults \in 0 .. MaxFaults /\ notices \in [Transfers -> Nat]
      /\ store \in [Names -> Seq(Pieces)]
  BY DEF UploadInv, TypeOK
<1>1. /\ phase[c] \in Holding => /\ match[c] \in Transfers /\ piece[c] \in Pieces
                                 /\ entry[c] \in 1 .. Len(pending)
                                 /\ Receiver(c) \in Clients
      /\ phase[c] \in Handling => piece[c] \in Pieces /\ File(c) \in Names
  BY <1>0 DEF LocalsBound, IteratorValid, Receiver, File, Handling, Pieces
<1>2. ASSUME Unlock(c)
      PROVE  /\ phase' \in [Clients -> Phases] /\ entry' \in [Clients -> Nat]
             /\ match' \in [Clients -> Transfers \cup {None}]
             /\ holder' \in Clients \cup {None}
  <2>1. "accept" \in Phases
    BY DEF Phases, Busy
  <2>2. QED
    BY <1>0, <1>2, <2>1 DEF Unlock, Goto
<1>3. CASE LockPending(c)
  <2>1. phase[c] \in Handling /\ phase[c] \notin Holding /\ \A d \in Clients : holder # d
    BY <1>3 DEF LockPending, Handling, Holding
  <2> DEFINE e == FirstMatching(File(c))
  <2>2. CASE /\ Matching(File(c)) # {}
             /\ holder' = c /\ entry' = [entry EXCEPT ![c] = e]
             /\ match' = [match EXCEPT ![c] = pending[e]]
             /\ Goto(c, "notify")
    <3>1. e \in 1 .. Len(pending)
      BY <1>0, <1>1, <2>1, <2>2, FirstMatchingFound
    <3> HIDE DEF e
    <3>2. e \in Nat /\ pending[e] \in Transfers
      BY <1>0, <3>1
    <3>3. /\ "notify" \in Phases /\ "notify" \in Holding
          /\ phase' = [phase EXCEPT ![c] = "notify"]
      BY <2>2 DEF Phases, Busy, Holding, Goto
    <3>4. /\ entry' \in [Clients -> Nat] /\ match' \in [Clients -> Transfers \cup {None}]
          /\ phase' \in [Clients -> Phases]
      BY <1>0, <2>2, <3>2, <3>3
    <3>5. TypeOK'
      BY <1>0, <1>3, <2>2, <3>4 DEF TypeOK, LockPending
    <3>6. UNCHANGED <<piece, goods, pending, uploads, store, removed>>
      BY <1>3 DEF LockPending
    <3>7. /\ match'[c] \in Transfers /\ entry'[c] \in 1 .. Len(pending')
          /\ pending'[entry'[c]] = match'[c]
          /\ \A d \in Clients \ {c} : entry'[d] = entry[d] /\ match'[d] = match[d]
      BY <1>0, <2>2, <3>1, <3>2, <3>6
    <3>8. QED
      BY <1>1, <2>1, <2>2, <3>3, <3>5, <3>6, <3>7, StoreUntouched, HandlerMoves
  <2>3. CASE Goto(c, "accept") /\ UNCHANGED <<holder, entry, match>>
    <3>1. /\ "accept" \in Phases /\ "accept" \notin Holding
          /\ phase' = [phase EXCEPT ![c] = "accept"]
      BY <2>3 DEF Phases, Busy, Holding, Goto
    <3>2. TypeOK'
      BY <1>0, <1>3, <2>3, <3>1 DEF TypeOK, LockPending
    <3>3. UNCHANGED <<piece, goods, pending, uploads, store, removed>>
      BY <1>3 DEF LockPending
    <3>4. QED
      BY <1>1, <2>1, <2>3, <3>1, <3>2, <3>3, StoreUntouched, HandlerMoves
  <2>4. QED
    BY <1>3, <2>2, <2>3 DEF LockPending
<1>4. CASE NotifyReceiver(c)
  <2>1. phase[c] \in Holding
    BY <1>4 DEF NotifyReceiver, Holding
  <2>2. UNCHANGED <<piece, goods, pending, uploads, store, removed>>
    BY <1>4 DEF NotifyReceiver
  <2>3. CASE /\ Write(Receiver(c), [kind |-> "incoming_file", name |-> File(c)])
             /\ notices' = [notices EXCEPT ![match[c]] = @ + 1]
             /\ Goto(c, "download")
             /\ UNCHANGED <<entry, match, holder>>
    <3>1. /\ "download" \in Phases /\ "download" \in Holding
          /\ phase' = [phase EXCEPT ![c] = "download"]
      BY <2>3 DEF Phases, Busy, Holding, Goto
    <3>2. [kind |-> "incoming_file", name |-> File(c)] \in Frames
      BY <1>1, <2>1, FramesTyped DEF Handling
    <3>3. outbox' \in [Clients -> Seq(Frames)]
      BY <1>0, <1>1, <2>1, <2>3, <3>2, WriteTyped
    <3>4. notices' \in [Transfers -> Nat]
      <4>1. match[c] \in Transfers /\ notices \in [Transfers -> Nat]
        BY <1>0, <1>1, <2>1
      <4>2. notices[match[c]] + 1 \in Nat
        BY <4>1
      <4>3. QED
        BY <2>3, <4>1, <4>2
    <3>5. phase' \in [Clients -> Phases]
      BY <1>0, <3>1
    <3>6. TypeOK'
      BY <1>0, <1>4, <2>3, <3>3, <3>4, <3>5 DEF TypeOK, NotifyReceiver
    <3>7. QED
      BY <2>1, <2>2, <2>3, <3>1, <3>6, HoldingKeeps
  <2>4. CASE Unlock(c) /\ UNCHANGED <<outbox, notices>>
    <3>1. TypeOK'
      BY <1>0, <1>2, <1>4, <2>4 DEF TypeOK, NotifyReceiver
    <3>2. QED
      BY <2>1, <2>2, <2>4, <3>1, UnlockKeeps
  <2>5. QED
    BY <1>4, <2>3, <2>4 DEF NotifyReceiver
<1>5. CASE DownloadChunks(c)
  <2>1. phase[c] \in Holding
    BY <1>5 DEF DownloadChunks, Holding
  <2>2. UNCHANGED <<piece, entry, match, pending, holder, uploads, store, removed>>
    BY <1>5 DEF DownloadChunks
  <2>3. store[File(c)] \in Seq(Pieces)
    BY <1>0, <1>1, <2>1 DEF Handling
  <2>4. PICK g \in Seq(Contents) : goods' = [goods EXCEPT ![c] = g]
    <3> DEFINE s == store[File(c)]
    <3>1. <<ErrorPage>> \in Seq(Contents)
      BY DEF Contents
    <3>2. s \in Seq(Contents)
      BY <2>3 DEF Contents
    <3>3. \A k \in 0 .. Len(s) : SubSeq(s, 1, k) \in Seq(Contents)
      BY <3>2, SubSeqProperties
    <3>4. PICK g : /\ goods' = [goods EXCEPT ![c] = g]
                   /\ g \in {SubSeq(s, 1, k) : k \in 0 .. Len(s)} \cup {<<ErrorPage>>, s}
      BY <1>5 DEF DownloadChunks
    <3>5. QED
      BY <3>1, <3>2, <3>3, <3>4
  <2>5. PICK p \in {"erase", "forward"} : /\ phase' = [phase EXCEPT ![c] = p]
                                          /\ p = "forward" => goods'[c] # <<>>
    <3>1. phase' = [phase EXCEPT ![c] = IF goods'[c] = <<>> THEN "erase" ELSE "forward"]
      BY <1>5 DEF DownloadChunks, Goto
    <3>2. QED
      BY <3>1
  <2>6. p \in Phases /\ p \in Holding
    BY DEF Phases, Busy, Holding
  <2>7. phase' \in [Clients -> Phases] /\ goods' \in [Clients -> Seq(Contents)]
    BY <1>0, <2>4, <2>5, <2>6
  <2>8. faults' \in 0 .. MaxFaults
    <3>1. faults' = faults \/ (faults < MaxFaults /\ faults' = faults + 1)
      BY <1>5 DEF DownloadChunks
    <3>2. QED
      BY <1>0, <3>1
  <2>9. TypeOK'
    BY <1>0, <1>5, <2>7, <2>8 DEF TypeOK, DownloadChunks
  <2>10. \A d \in Clients \ {c} : goods'[d] = goods[d]
    BY <1>0, <2>4
  <2>11. QED
    BY <2>1, <2>2, <2>5, <2>6, <2>9, <2>10, HoldingKeeps
<1>6. CASE ForwardChunk(c)
  <2>1. phase[c] = "forward" /\ phase[c] \in Holding /\ phase[c] \in Handling
    BY <1>6 DEF ForwardChunk, Holding, Handling
  <2>2. UNCHANGED <<piece, entry, match, pending, holder, uploads, store, removed>>
    BY <1>6 DEF ForwardChunk
  <2>3. goods[c] \in Seq(Contents) /\ goods[c] # <<>>
    BY <1>0, <2>1 DEF LocalsBound
  <2>4. /\ Head(goods[c]) \in Contents /\ Tail(goods[c]) \in Seq(Contents)
        /\ Len(Tail(goods[c])) = Len(goods[c]) - 1 /\ Len(goods[c]) \in Nat
    BY <2>3, HeadTailProperties, LenProperties
  <2>5. PICK p \in {"erase", "forward"}, g \in Seq(Contents) :
             /\ phase' = [phase EXCEPT ![c] = p]
             /\ goods' = [goods EXCEPT ![c] = g]
             /\ p = "forward" => g # <<>>
             /\ outbox' \in [Clients -> Seq(Frames)]
    <3>1. CASE /\ Write(Receiver(c), [kind |-> "file_chunk", name |-> File(c),
                                      p |-> Head(goods[c]), last |-> Len(goods[c]) = 1])
               /\ goods' = [goods EXCEPT ![c] = Tail(@)]
               /\ Goto(c, IF Len(goods[c]) = 1 THEN "erase" ELSE "forward")
      <4>1. [kind |-> "file_chunk", name |-> File(c), p |-> Head(goods[c]),
             last |-> Len(goods[c]) = 1] \in Frames
        <5>1. File(c) \in Names /\ (Len(goods[c]) = 1) \in BOOLEAN
          BY <1>1, <2>1
        <5>2. QED
          BY <2>4, <5>1, FramesTyped
      <4>2. outbox' \in [Clients -> Seq(Frames)]
        BY <1>0, <1>1, <2>1, <3>1, <4>1, WriteTyped
      <4>3. CASE Len(goods[c]) = 1
        BY <2>4, <3>1, <4>2, <4>3 DEF Goto
      <4>4. CASE Len(goods[c]) # 1
        <5>1. Tail(goods[c]) # <<>>
          <6>1. Len(goods[c]) # 0
            BY <2>3, EmptySeq
          <6>2. Len(Tail(goods[c])) # 0
            BY <2>4, <4>4, <6>1
          <6>3. QED
            BY <2>4, <6>2, EmptySeq
        <5>2. QED
          BY <2>4, <3>1, <4>2, <4>4, <5>1 DEF Goto
      <4>5. QED
        BY <4>3, <4>4
    <3>2. CASE /\ goods' = [goods EXCEPT ![c] = <<>>]
               /\ Goto(c, "erase") /\ UNCHANGED outbox
      <4>1. <<>> \in Seq(Contents) /\ outbox' \in [Clients -> Seq(Frames)]
        BY <1>0, <3>2, EmptySeq
      <4>2. QED
        BY <3>2, <4>1 DEF Goto
    <3>3. QED
      BY <1>6, <3>1, <3>2 DEF ForwardChunk
  <2>6. p \in Phases /\ p \in Holding
    BY DEF Phases, Busy, Holding
  <2>7. phase' \in [Clients -> Phases] /\ goods' \in [Clients -> Seq(Contents)]
    BY <1>0, <2>5, <2>6
  <2>8. TypeOK'
    BY <1>0, <1>6, <2>5, <2>7 DEF TypeOK, ForwardChunk
  <2>9. /\ \A d \in Clients \ {c} : goods'[d] = goods[d]
        /\ p = "forward" => goods'[c] # <<>>
    BY <1>0, <2>5
  <2>10. QED
    BY <2>1, <2>2, <2>5, <2>6, <2>8, <2>9, HoldingKeeps
<1>7. CASE ErasePending(c)
  <2>1. phase[c] \in Holding /\ UNCHANGED <<piece, goods, uploads, store, removed>> /\ Unlock(c)
    BY <1>7 DEF ErasePending, Holding
  <2>2. entry[c] \in 1 .. Len(pending)
    BY <1>1, <2>1
  <2>3. pending' \in Seq(Transfers)
    <3>1. Len(pending) \in Nat /\ \A i \in 1 .. Len(pending) : pending[i] \in Transfers
      BY <1>0, ElementOfSeq, LenProperties
    <3>2. \A i \in 1 .. entry[c] - 1 : pending[i] \in Transfers
      BY <2>2, <3>1
    <3>3. SubSeq(pending, 1, entry[c] - 1) \in Seq(Transfers)
      <4>1. 1 \in Int /\ entry[c] - 1 \in Int
        BY <2>2
      <4>2. QED
        BY <3>2, <4>1, SubSeqProperties
    <3>4. \A i \in entry[c] + 1 .. Len(pending) : pending[i] \in Transfers
      BY <2>2, <3>1
    <3>5. SubSeq(pending, entry[c] + 1, Len(pending)) \in Seq(Transfers)
      <4>1. entry[c] + 1 \in Int /\ Len(pending) \in Int
        BY <2>2, <3>1
      <4>2. QED
        BY <3>4, <4>1, SubSeqProperties
    <3>6. QED
      BY <1>7, <3>3, <3>5, ConcatProperties DEF ErasePending
  <2>4. TypeOK'
    BY <1>0, <1>2, <1>7, <2>1, <2>3 DEF TypeOK, ErasePending
  <2>5. QED
    BY <2>1, <2>4, UnlockKeeps
<1>8. CASE AnswerChunk(c)
  <2>1. /\ phase' = [phase EXCEPT ![c] = "reading"]
        /\ piece' = [piece EXCEPT ![c] = NoPiece]
        /\ UNCHANGED <<entry, match, goods, pending, holder, uploads, store, removed>>
    BY <1>8 DEF AnswerChunk, Return, Goto
  <2>2. "reading" \in Phases /\ "reading" \notin Holding /\ "reading" \notin Handling
    BY DEF Phases, Holding, Handling
  <2>3. holder # c
    BY <1>0, <1>8 DEF LockHeld, AnswerChunk, Holding
  <2>4. [kind |-> IF phase[c] = "accept" THEN "acknowledged" ELSE "rejected"] \in Frames
    BY FramesTyped
  <2>5. outbox' \in [Clients -> Seq(Frames)]
    BY <1>0, <1>8, <2>4, WriteTyped DEF AnswerChunk
  <2>6. /\ piece \in [Clients -> [x : Transfers \cup {None}, i : Nat]]
        /\ NoPiece \in [x : Transfers \cup {None}, i : Nat]
    BY <1>0 DEF TypeOK, NoPiece
  <2>7. /\ piece' \in [Clients -> [x : Transfers \cup {None}, i : Nat]]
        /\ phase' \in [Clients -> Phases]
        /\ \A d \in Clients \ {c} : piece'[d] = piece[d]
    BY <1>0, <2>1, <2>2, <2>6
  <2>8. TypeOK'
    BY <1>0, <1>8, <2>5, <2>7 DEF TypeOK, AnswerChunk
  <2>9. QED
    BY <2>1, <2>2, <2>3, <2>7, <2>8, StoreUntouched, HandlerMoves
<1>9. QED
  BY <1>3, <1>4, <1>5, <1>6, <1>7, <1>8

-----------------------------------------------------------------------------
(* The theorems.                                                           *)

LEMMA UploadInvInitially == Init => UploadInv
<1> SUFFICES ASSUME Init PROVE UploadInv
  OBVIOUS
<1> USE TransferAssumption DEF Init
<1>1. \A S : <<>> \in Seq(S)
  BY EmptySeq
<1>2. TypeOK
  BY <1>1 DEF TypeOK, Phases, NoPiece, Fresh
<1>3. LocalsBound /\ LockHeld /\ IteratorValid /\ UploadKnown
  BY DEF LocalsBound, LockHeld, IteratorValid, UploadKnown, Holding, Handling
<1>4. UploadsAreStored
  BY EmptySeq DEF UploadsAreStored, Fresh
<1>5. QED
  BY <1>2, <1>3, <1>4 DEF UploadInv

LEMMA StuttersKeep == UploadInv /\ UNCHANGED vars => UploadInv'
<1> SUFFICES ASSUME UploadInv, UNCHANGED vars PROVE UploadInv'
  OBVIOUS
<1> USE DEF vars, clientVars, userVars, localVars, sharedVars, serviceVars
<1>1. TypeOK'
  BY DEF UploadInv, TypeOK
<1>2. QED
  BY <1>1, ServerUntouched

\* What the handlers of all connections keep true together: phases and their locals,
\* the lock and who is in its scope, the iterator under it, and the chunks counted
\* and stored.
THEOREM UploadInvariant == Spec => []UploadInv
<1>1. UploadInv /\ [Next]_vars => UploadInv'
  <2> SUFFICES ASSUME UploadInv, [Next]_vars PROVE UploadInv'
    OBVIOUS
  <2>1. CASE UNCHANGED vars
    BY <2>1, StuttersKeep
  <2>2. ASSUME NEW c \in Clients, ClientStep(c) \/ HandlerStep(c)
        PROVE  UploadInv'
    <3>1. CASE ClientStep(c)
      BY <3>1, ClientStepKeeps
    <3>2. CASE ReadRequest(c) \/ EndOfStream(c) \/ PushPending(c) \/ ResetUpload(c)
      BY <3>2, LoopStepKeeps
    <3>3. CASE ChunkStep(c)
      BY <3>3, ChunkStored, ChunkDelivered DEF ChunkStep
    <3>4. QED
      BY <2>2, <3>1, <3>2, <3>3 DEF HandlerStep
  <2>3. QED
    BY <2>1, <2>2 DEF Next
<1>2. QED
  BY <1>1, UploadInvInitially, PTL DEF Spec

\* Type correctness.
THEOREM TransferTypeCorrect == Spec => []TypeOK
<1>1. UploadInv => TypeOK
  BY DEF UploadInv
<1>2. QED
  BY <1>1, UploadInvariant, PTL

\* last_chunk_received of a name never runs ahead of what the file server has stored
\* under it, with any number of concurrent handlers, resets and failures, as long as
\* the file server has not removed the file.
THEOREM UploadsAlwaysStored == Spec => []UploadsAreStored
<1>1. UploadInv => UploadsAreStored
  BY DEF UploadInv
<1>2. QED
  BY <1>1, UploadInvariant, PTL

\* Two handlers are never both between finding a pending transfer and erasing it:
\* that scope is the lock_guard's.
DeliverOneAtATime ==
    \A c, d \in Clients : phase[c] \in Holding /\ phase[d] \in Holding => c = d

THEOREM DeliveriesExcluded == Spec => []DeliverOneAtATime
<1>1. UploadInv => DeliverOneAtATime
  BY DEF UploadInv, LockHeld, DeliverOneAtATime
<1>2. QED
  BY <1>1, UploadInvariant, PTL

\* While a delivery runs, pending_it denotes the transfer it was found for, whatever
\* other handlers push: what is erased at the end is what was delivered.
THEOREM IteratorStaysValid == Spec => []IteratorValid
<1>1. UploadInv => IteratorValid
  BY DEF UploadInv
<1>2. QED
  BY <1>1, UploadInvariant, PTL

-----------------------------------------------------------------------------
(***************************************************************************)
(* What becomes of a transfer, for every set of clients, names and         *)
(* transfers: it is announced once, pending once, and told to its receiver *)
(* at most once.  The invariant follows the announcement from the user     *)
(* through the queue and the list of pending transfers to the delivery; it *)
(* is proved relative to UploadInv.                                        *)
(***************************************************************************)

\* Each client sends, and its handler has in hand, only its own files, and none that
\* the user has not sent yet.
OwnRequests ==
    \A c \in Clients :
        /\ \A k \in DOMAIN inbox[c] :
              /\ inbox[c][k].kind = "send_message" =>
                    From[inbox[c][k].x] = c /\ inbox[c][k].x \notin todo
              /\ inbox[c][k].kind = "file_chunk" =>
                    From[inbox[c][k].p.x] = c /\ inbox[c][k].p.x \notin todo
        /\ phase[c] \in Busy => From[piece[c].x] = c /\ piece[c].x \notin todo
        /\ sending[c] # None => From[sending[c]] = c /\ sending[c] \notin todo

\* The announcement of x is on its way to the handler, or about to be filed.
Announced(x) ==
    \/ \E k \in DOMAIN inbox[From[x]] : inbox[From[x]][k] = Announcement(x)
    \/ phase[From[x]] = "push" /\ piece[From[x]].x = x

\* It is so once.
AnnouncedOnce(x) ==
    LET c == From[x] IN
    /\ \A k, l \in DOMAIN inbox[c] :
          inbox[c][k] = Announcement(x) /\ inbox[c][l] = Announcement(x) => k = l
    /\ phase[c] = "push" /\ piece[c].x = x =>
          \A k \in DOMAIN inbox[c] : inbox[c][k] # Announcement(x)

\* The delivery of the transfer at position k of the pending ones has begun: its
\* receiver was told of it.
Underway(k) ==
    \E h \in Clients : phase[h] \in {"download", "forward", "erase"} /\ entry[h] = k

\* A transfer that is pending or whose receiver was told of it is announced no more; it
\* is pending once, and when the receiver was told, only until that delivery is over.
PendingOnce(x) ==
    /\ \A k \in DOMAIN pending : pending[k] = x => x \notin todo /\ ~Announced(x)
    /\ \A k, l \in DOMAIN pending : pending[k] = x /\ pending[l] = x => k = l
    /\ notices[x] # 0 => notices[x] = 1 /\ x \notin todo /\ ~Announced(x)
    /\ notices[x] # 0 => \A k \in DOMAIN pending : pending[k] = x => Underway(k)

FiledInv ==
    /\ OwnRequests
    /\ \A x \in Transfers : AnnouncedOnce(x) /\ PendingOnce(x)

-----------------------------------------------------------------------------
(* Queues of requests.                                                     *)

\* What a step leaves in an inbox, but for answers to chunks, was there before, in the
\* same order.
Behind(c) ==
    \E m \in Nat : \A k \in DOMAIN inbox'[c] : inbox'[c][k].kind # "chunk_received" =>
        k + m \in DOMAIN inbox[c] /\ inbox'[c][k] = inbox[c][k + m]

LEMMA InboxTyped ==
    ASSUME TypeOK, NEW c \in Clients
    PROVE  /\ inbox[c] \in Seq(Requests) /\ Len(inbox[c]) \in Nat
           /\ DOMAIN inbox[c] = 1 .. Len(inbox[c])
           /\ \A k \in DOMAIN inbox[c] : inbox[c][k] \in Requests
BY LenProperties, ElementOfSeq DEF TypeOK

LEMMA RequestForms ==
    ASSUME NEW r \in Requests
    PROVE  /\ r.kind \in {"send_message", "file_chunk", "chunk_received"}
           /\ r.kind = "send_message" => r.x \in Transfers /\ r = Announcement(r.x)
           /\ r.kind = "file_chunk" =>
                 /\ r.p \in Pieces /\ r.p.x \in Transfers /\ r.p.i \in Nat \ {0}
                 /\ r = Chunk(r.p.x, r.p.i)
           /\ \A x : r = Announcement(x) => r.kind = "send_message" /\ r.x = x
           /\ \A x, i : r = Chunk(x, i) => r.kind = "file_chunk" /\ r.p.x = x /\ r.p.i = i
BY DEF Requests, Announcement, Chunk, Piece, Pieces

LEMMA BehindUnchanged ==
    ASSUME TypeOK, NEW c \in Clients, inbox'[c] = inbox[c]
    PROVE  Behind(c)
<1>1. \A k \in DOMAIN inbox'[c] : k + 0 \in DOMAIN inbox[c] /\ inbox'[c][k] = inbox[c][k + 0]
  BY InboxTyped
<1>2. QED
  BY <1>1 DEF Behind

LEMMA BehindAppended ==
    ASSUME TypeOK, NEW c \in Clients,
           inbox'[c] = Append(inbox[c], [kind |-> "chunk_received"])
    PROVE  Behind(c)
<1> DEFINE s == inbox[c]
           r == [kind |-> "chunk_received"]
<1>1. s \in Seq(Requests) /\ Len(s) \in Nat /\ DOMAIN s = 1 .. Len(s)
  BY InboxTyped
<1>2. /\ DOMAIN Append(s, r) = 1 .. Len(s) + 1
      /\ \A k \in 1 .. Len(s) : Append(s, r)[k] = s[k]
      /\ Append(s, r)[Len(s) + 1] = r
  BY <1>1, RequestsTyped, AppendProperties
<1>3. ASSUME NEW k \in DOMAIN inbox'[c], inbox'[c][k].kind # "chunk_received"
      PROVE  k + 0 \in DOMAIN inbox[c] /\ inbox'[c][k] = inbox[c][k + 0]
  <2>1. k \in 1 .. Len(s) + 1
    BY <1>2, <1>3
  <2>2. k # Len(s) + 1
    BY <1>2, <1>3
  <2>3. QED
    BY <1>1, <1>2, <2>1, <2>2
<1>4. QED
  BY <1>3 DEF Behind

\* A read takes some requests from the front.
LEMMA ReadTaken ==
    ASSUME TypeOK, NEW c \in Clients, NEW k \in 1 .. Len(inbox[c]),
           inbox'[c] = SubSeq(inbox[c], k + 1, Len(inbox[c]))
    PROVE  /\ DOMAIN inbox'[c] = 1 .. Len(inbox[c]) - k
           /\ \A l \in DOMAIN inbox'[c] :
                 l + k \in DOMAIN inbox[c] /\ inbox'[c][l] = inbox[c][l + k]
<1>1. /\ inbox[c] \in Seq(Requests) /\ Len(inbox[c]) \in Nat
      /\ DOMAIN inbox[c] = 1 .. Len(inbox[c])
  BY InboxTyped
<1>2. \A s \in Seq(Requests) : \A j \in 1 .. Len(s) :
         /\ DOMAIN SubSeq(s, j + 1, Len(s)) = 1 .. Len(s) - j
         /\ \A l \in 1 .. Len(s) - j : SubSeq(s, j + 1, Len(s))[l] = s[l + j]
  OBVIOUS
<1>3. QED
  BY <1>1, <1>2

-----------------------------------------------------------------------------
(* Announced and pending once.                                             *)

LEMMA OwnKept ==
    ASSUME TypeOK, TypeOK', OwnRequests, todo' = todo,
           \A d \in Clients :
               /\ Behind(d)
               /\ phase'[d] \in Busy => phase[d] \in Busy /\ piece'[d].x = piece[d].x
               /\ sending'[d] # None => sending'[d] = sending[d]
    PROVE  OwnRequests'
<1> SUFFICES ASSUME NEW d \in Clients
             PROVE  /\ \A k \in DOMAIN inbox'[d] :
                          /\ inbox'[d][k].kind = "send_message" =>
                                From[inbox'[d][k].x] = d /\ inbox'[d][k].x \notin todo'
                          /\ inbox'[d][k].kind = "file_chunk" =>
                                From[inbox'[d][k].p.x] = d /\ inbox'[d][k].p.x \notin todo'
                    /\ phase'[d] \in Busy => From[piece'[d].x] = d /\ piece'[d].x \notin todo'
                    /\ sending'[d] # None => From[sending'[d]] = d /\ sending'[d] \notin todo'
  BY DEF OwnRequests
<1>1. PICK m \in Nat : \A k \in DOMAIN inbox'[d] : inbox'[d][k].kind # "chunk_received" =>
          k + m \in DOMAIN inbox[d] /\ inbox'[d][k] = inbox[d][k + m]
  BY DEF Behind
<1>2. QED
  BY <1>1 DEF OwnRequests

\* Nothing is announced that was not, if the handlers do not come to a new announcement.
LEMMA AnnouncedBefore ==
    ASSUME TypeOK, TypeOK', NEW x \in Transfers, AnnouncedOnce(x),
           Behind(From[x]),
           phase'[From[x]] = "push" =>
               phase[From[x]] = "push" /\ piece'[From[x]].x = piece[From[x]].x
    PROVE  AnnouncedOnce(x)' /\ (Announced(x)' => Announced(x))
<1> DEFINE c == From[x]
           a == Announcement(x)
<1>0. c \in Clients /\ a.kind = "send_message"
  BY TransferAssumption DEF Announcement
<1>1. PICK m \in Nat : \A k \in DOMAIN inbox'[c] : inbox'[c][k].kind # "chunk_received" =>
          k + m \in DOMAIN inbox[c] /\ inbox'[c][k] = inbox[c][k + m]
  BY DEF Behind
<1>2. \A k \in DOMAIN inbox'[c] : k \in Nat /\
          (inbox'[c][k] = a => k + m \in DOMAIN inbox[c] /\ inbox[c][k + m] = a)
  <2>1. DOMAIN inbox'[c] \subseteq Nat
    <3>1. inbox'[c] \in Seq(Requests)
      BY <1>0 DEF TypeOK
    <3>2. QED
      BY <3>1
  <2>2. QED
    BY <1>0, <1>1, <2>1
<1>3. ASSUME NEW k \in DOMAIN inbox'[c], NEW l \in DOMAIN inbox'[c],
             inbox'[c][k] = a, inbox'[c][l] = a
      PROVE  k = l
  <2>1. k + m = l + m
    BY <1>2, <1>3 DEF AnnouncedOnce
  <2>2. QED
    BY <1>2, <2>1
<1>4. ASSUME phase'[c] = "push", piece'[c].x = x, NEW k \in DOMAIN inbox'[c]
      PROVE  inbox'[c][k] # a
  BY <1>2, <1>4 DEF AnnouncedOnce
<1>5. ASSUME Announced(x)' PROVE Announced(x)
  BY <1>2, <1>5 DEF Announced
<1>6. AnnouncedOnce(x)'
  BY <1>3, <1>4 DEF AnnouncedOnce
<1>7. QED
  BY <1>5, <1>6

LEMMA FiledUntouched ==
    ASSUME TypeOK, TypeOK', FiledInv, UNCHANGED <<todo, pending, notices>>,
           \A d \in Clients :
               /\ Behind(d)
               /\ phase'[d] \in Busy => phase[d] \in Busy /\ piece'[d].x = piece[d].x
               /\ phase'[d] = "push" => phase[d] = "push"
               /\ sending'[d] # None => sending'[d] = sending[d]
               /\ phase[d] \in {"download", "forward", "erase"} =>
                      phase'[d] \in {"download", "forward", "erase"} /\ entry'[d] = entry[d]
    PROVE  FiledInv'
<1> USE DEF FiledInv
<1>1. OwnRequests'
  BY OwnKept
<1>2. ASSUME NEW x \in Transfers
      PROVE  AnnouncedOnce(x)' /\ (Announced(x)' => Announced(x))
  <2>1. From[x] \in Clients /\ "push" \in Busy
    BY TransferAssumption DEF Busy
  <2>2. QED
    BY <2>1, AnnouncedBefore
<1>3. ASSUME NEW k, Underway(k) PROVE Underway(k)'
  BY <1>3 DEF Underway
<1>4. ASSUME NEW x \in Transfers PROVE PendingOnce(x)'
  BY <1>2, <1>3 DEF PendingOnce
<1>5. QED
  BY <1>1, <1>2, <1>4

\* The user's message and its first chunk come to the end of the queue.
LEMMA PostedTwo ==
    ASSUME TypeOK, NEW c \in Clients, NEW x \in Transfers, SendFile(c, x)
    PROVE  \E a, b \in {Len(inbox[c]) + 1, Len(inbox[c]) + 2} :
               /\ a # b
               /\ DOMAIN inbox'[c] = 1 .. Len(inbox[c]) + 2
               /\ inbox'[c][a] = Announcement(x) /\ inbox'[c][b] = Chunk(x, 1)
               /\ \A k \in DOMAIN inbox[c] : inbox'[c][k] = inbox[c][k]
               /\ \A d \in Clients \ {c} : inbox'[d] = inbox[d]
<1>1. /\ inbox[c] \in Seq(Requests) /\ Len(inbox[c]) \in Nat
      /\ DOMAIN inbox[c] = 1 .. Len(inbox[c])
  BY InboxTyped
<1>2. PICK posted \in {<<Announcement(x), Chunk(x, 1)>>, <<Chunk(x, 1), Announcement(x)>>} :
          inbox' = [inbox EXCEPT ![c] = @ \o posted]
  BY DEF SendFile
<1>3. Announcement(x) \in Requests /\ Chunk(x, 1) \in Requests
  BY RequestsTyped
<1>4. \A s \in Seq(Requests) : \A p, q \in Requests :
          /\ DOMAIN (s \o <<p, q>>) = 1 .. Len(s) + 2
          /\ (s \o <<p, q>>)[Len(s) + 1] = p /\ (s \o <<p, q>>)[Len(s) + 2] = q
          /\ \A k \in 1 .. Len(s) : (s \o <<p, q>>)[k] = s[k]
  OBVIOUS
<1>5. inbox \in [Clients -> Seq(Requests)]
  BY DEF TypeOK
<1>6. inbox'[c] = inbox[c] \o posted /\ \A d \in Clients \ {c} : inbox'[d] = inbox[d]
  BY <1>2, <1>5
<1> DEFINE n == Len(inbox[c])
<1>7. n + 1 # n + 2
  BY <1>1
<1>8. CASE posted = <<Announcement(x), Chunk(x, 1)>>
  <2>1. /\ DOMAIN inbox'[c] = 1 .. n + 2
        /\ inbox'[c][n + 1] = Announcement(x) /\ inbox'[c][n + 2] = Chunk(x, 1)
        /\ \A k \in 1 .. n : inbox'[c][k] = inbox[c][k]
    BY <1>1, <1>3, <1>4, <1>6, <1>8
  <2>2. QED
    BY <1>1, <1>6, <1>7, <2>1
<1>9. CASE posted = <<Chunk(x, 1), Announcement(x)>>
  <2>1. /\ DOMAIN inbox'[c] = 1 .. n + 2
        /\ inbox'[c][n + 1] = Chunk(x, 1) /\ inbox'[c][n + 2] = Announcement(x)
        /\ \A k \in 1 .. n : inbox'[c][k] = inbox[c][k]
    BY <1>1, <1>3, <1>4, <1>6, <1>9
  <2>2. QED
    BY <1>1, <1>6, <1>7, <2>1
<1>10. QED
  BY <1>8, <1>9

\* The next chunk comes to the end of the queue, or the transfer is over.
LEMMA PostedChunk ==
    ASSUME TypeOK, NEW c \in Clients, NextChunk(c)
    PROVE  LET x == sending[c] IN
           /\ x \in Transfers /\ number[c] \in Nat
           /\ \A d \in Clients \ {c} : inbox'[d] = inbox[d]
           /\ \/ /\ number[c] < Chunks[x]
                 /\ sending' = sending /\ number' = [number EXCEPT ![c] = @ + 1]
                 /\ DOMAIN inbox'[c] = 1 .. Len(inbox[c]) + 1
                 /\ inbox'[c][Len(inbox[c]) + 1] = Chunk(x, number[c] + 1)
                 /\ \A k \in DOMAIN inbox[c] : inbox'[c][k] = inbox[c][k]
              \/ /\ sending' = [sending EXCEPT ![c] = None]
                 /\ number' = [number EXCEPT ![c] = 0]
                 /\ inbox' = inbox
<1> DEFINE x == sending[c]
           r == Chunk(x, number[c] + 1)
<1>1. /\ inbox[c] \in Seq(Requests) /\ Len(inbox[c]) \in Nat
      /\ DOMAIN inbox[c] = 1 .. Len(inbox[c])
  BY InboxTyped
<1>2. x \in Transfers /\ number[c] \in Nat
  BY DEF NextChunk, TypeOK
<1>3. r \in Requests
  BY <1>2, RequestsTyped
<1>4. \A s \in Seq(Requests) : \A q \in Requests :
          /\ DOMAIN Append(s, q) = 1 .. Len(s) + 1 /\ Append(s, q)[Len(s) + 1] = q
          /\ \A k \in 1 .. Len(s) : Append(s, q)[k] = s[k]
  OBVIOUS
<1>5. inbox \in [Clients -> Seq(Requests)]
  BY DEF TypeOK
<1>6. CASE number[c] < Chunks[x]
  <2>1. /\ inbox' = [inbox EXCEPT ![c] = Append(@, r)] /\ sending' = sending
        /\ number' = [number EXCEPT ![c] = @ + 1]
    BY <1>6 DEF NextChunk
  <2>2. inbox'[c] = Append(inbox[c], r) /\ \A d \in Clients \ {c} : inbox'[d] = inbox[d]
    BY <1>5, <2>1
  <2> HIDE DEF r
  <2>3. /\ DOMAIN inbox'[c] = 1 .. Len(inbox[c]) + 1
        /\ inbox'[c][Len(inbox[c]) + 1] = r
        /\ \A k \in DOMAIN inbox[c] : inbox'[c][k] = inbox[c][k]
    BY <1>1, <1>3, <1>4, <2>2
  <2>4. QED
    BY <1>2, <1>6, <2>1, <2>2, <2>3 DEF r
<1>7. CASE ~(number[c] < Chunks[x])
  BY <1>2, <1>7 DEF NextChunk
<1>8. QED
  BY <1>6, <1>7

LEMMA SendFileFiles ==
    ASSUME TypeOK, TypeOK', FiledInv, NEW c \in Clients, NEW x \in Transfers, SendFile(c, x)
    PROVE  FiledInv'
<1> USE DEF FiledInv
<1> DEFINE n == Len(inbox[c])
<1>1. PICK a \in {n + 1, n + 2}, b \in {n + 1, n + 2} :
          /\ a # b
          /\ DOMAIN inbox'[c] = 1 .. n + 2
          /\ inbox'[c][a] = Announcement(x) /\ inbox'[c][b] = Chunk(x, 1)
          /\ \A k \in DOMAIN inbox[c] : inbox'[c][k] = inbox[c][k]
          /\ \A d \in Clients \ {c} : inbox'[d] = inbox[d]
  BY PostedTwo
<1>2. /\ n \in Nat /\ DOMAIN inbox[c] = 1 .. n
      /\ Announcement(x).kind = "send_message" /\ Announcement(x).x = x
      /\ Chunk(x, 1).kind = "file_chunk" /\ Chunk(x, 1).p.x = x
  BY InboxTyped DEF Announcement, Chunk, Piece
<1>3. /\ \A k \in DOMAIN inbox'[c] : k \in DOMAIN inbox[c] \/ k = a \/ k = b
      /\ a \notin DOMAIN inbox[c] /\ b \notin DOMAIN inbox[c]
      /\ a \in DOMAIN inbox'[c]
  BY <1>1, <1>2
<1>4. /\ x \in todo /\ From[x] = c /\ todo' = todo \ {x}
      /\ sending \in [Clients -> Transfers \cup {None}] /\ sending' = [sending EXCEPT ![c] = x]
      /\ UNCHANGED <<phase, piece, entry, pending, notices>>
  BY DEF SendFile, localVars, sharedVars, TypeOK
<1> HIDE DEF n
<1>5. OwnRequests'
  <2> SUFFICES ASSUME NEW d \in Clients
               PROVE  /\ \A k \in DOMAIN inbox'[d] :
                            /\ inbox'[d][k].kind = "send_message" =>
                                  From[inbox'[d][k].x] = d /\ inbox'[d][k].x \notin todo'
                            /\ inbox'[d][k].kind = "file_chunk" =>
                                  From[inbox'[d][k].p.x] = d /\ inbox'[d][k].p.x \notin todo'
                      /\ phase'[d] \in Busy => From[piece'[d].x] = d /\ piece'[d].x \notin todo'
                      /\ sending'[d] # None => From[sending'[d]] = d /\ sending'[d] \notin todo'
    BY DEF OwnRequests
  <2>1. CASE d = c
    <3>1. ASSUME NEW k \in DOMAIN inbox'[c]
          PROVE  /\ inbox'[c][k].kind = "send_message" =>
                       From[inbox'[c][k].x] = c /\ inbox'[c][k].x \notin todo'
                 /\ inbox'[c][k].kind = "file_chunk" =>
                       From[inbox'[c][k].p.x] = c /\ inbox'[c][k].p.x \notin todo'
      <4>1. CASE k \in DOMAIN inbox[c]
        BY <1>1, <1>4, <4>1 DEF OwnRequests
      <4>2. CASE k = a
        BY <1>1, <1>2, <1>4, <4>2
      <4>3. CASE k = b
        BY <1>1, <1>2, <1>4, <4>3
      <4>4. QED
        BY <1>3, <4>1, <4>2, <4>3
    <3>2. QED
      BY <1>4, <2>1, <3>1 DEF OwnRequests
  <2>2. CASE d # c
    BY <1>1, <1>4, <2>2 DEF OwnRequests
  <2>3. QED
    BY <2>1, <2>2
<1>6. /\ \A k \in DOMAIN inbox[c] : inbox[c][k] # Announcement(x)
      /\ ~(phase[c] = "push" /\ piece[c].x = x)
      /\ \A k \in DOMAIN pending : pending[k] # x
      /\ notices[x] = 0
  BY <1>2, <1>4 DEF OwnRequests, PendingOnce, Busy
<1>7. AnnouncedOnce(x)' /\ PendingOnce(x)'
  <2>1. \A k \in DOMAIN inbox'[c] : inbox'[c][k] = Announcement(x) => k = a
    BY <1>1, <1>2, <1>3, <1>6
  <2>2. AnnouncedOnce(x)'
    BY <1>4, <1>6, <2>1 DEF AnnouncedOnce
  <2>3. PendingOnce(x)'
    BY <1>4, <1>6 DEF PendingOnce
  <2>4. QED
    BY <2>2, <2>3
<1>8. ASSUME NEW y \in Transfers \ {x} PROVE AnnouncedOnce(y)' /\ PendingOnce(y)'
  <2>1. ASSUME NEW k \in DOMAIN inbox'[From[y]], inbox'[From[y]][k] = Announcement(y)
        PROVE  k \in DOMAIN inbox[From[y]] /\ inbox[From[y]][k] = Announcement(y)
    <3>1. From[y] \in Clients
      BY TransferAssumption
    <3>2. Announcement(y) # Announcement(x) /\ Announcement(y) # Chunk(x, 1)
      BY DEF Announcement, Chunk
    <3>3. CASE From[y] = c
      BY <1>1, <1>3, <2>1, <3>2, <3>3
    <3>4. CASE From[y] # c
      BY <1>1, <2>1, <3>1, <3>4
    <3>5. QED
      BY <3>3, <3>4
  <2>2. AnnouncedOnce(y)'
    BY <1>4, <2>1 DEF AnnouncedOnce
  <2>3. Announced(y)' => Announced(y)
    BY <1>4, <2>1 DEF Announced
  <2>4. \A k : Underway(k) => Underway(k)'
    BY <1>4 DEF Underway
  <2>5. PendingOnce(y)'
    BY <1>4, <2>3, <2>4 DEF PendingOnce
  <2>6. QED
    BY <2>2, <2>5
<1>9. QED
  BY <1>5, <1>7, <1>8

LEMMA NextChunkFiles ==
    ASSUME TypeOK, TypeOK', FiledInv, NEW c \in Clients, NextChunk(c)
    PROVE  FiledInv'
<1> USE DEF FiledInv
<1> DEFINE n == Len(inbox[c])
           x == sending[c]
<1>1. UNCHANGED <<phase, piece, entry, pending, notices, todo>>
  BY DEF NextChunk, localVars, sharedVars
<1>2. n \in Nat /\ DOMAIN inbox[c] = 1 .. n /\ "push" \in Busy
  BY InboxTyped DEF Busy
<1>3. sending \in [Clients -> Transfers \cup {None}]
  BY DEF TypeOK
<1>4. CASE inbox' = inbox /\ sending' = [sending EXCEPT ![c] = None]
  <2>1. \A d \in Clients : Behind(d)
    BY <1>4, BehindUnchanged
  <2>2. QED
    BY <1>1, <1>3, <1>4, <2>1, FiledUntouched
<1>5. ASSUME x \in Transfers, number[c] \in Nat, sending' = sending,
             \A d \in Clients \ {c} : inbox'[d] = inbox[d],
             DOMAIN inbox'[c] = 1 .. n + 1,
             inbox'[c][n + 1] = Chunk(x, number[c] + 1),
             \A k \in DOMAIN inbox[c] : inbox'[c][k] = inbox[c][k]
      PROVE  FiledInv'
  <2>1. \A k \in DOMAIN inbox'[c] : k \in DOMAIN inbox[c] \/ k = n + 1
    BY <1>2, <1>5
  <2>2. /\ Chunk(x, number[c] + 1).kind = "file_chunk" /\ Chunk(x, number[c] + 1).p.x = x
        /\ \A y : Announcement(y) # Chunk(x, number[c] + 1)
    BY DEF Chunk, Piece, Announcement
  <2>3. From[x] = c /\ x \notin todo
    BY <1>5, TransferAssumption DEF OwnRequests
  <2>4. OwnRequests'
    <3>1. ASSUME NEW k \in DOMAIN inbox'[c]
          PROVE  /\ inbox'[c][k].kind = "send_message" =>
                       From[inbox'[c][k].x] = c /\ inbox'[c][k].x \notin todo
                 /\ inbox'[c][k].kind = "file_chunk" =>
                       From[inbox'[c][k].p.x] = c /\ inbox'[c][k].p.x \notin todo
      <4>1. CASE k \in DOMAIN inbox[c]
        BY <1>5, <4>1 DEF OwnRequests
      <4>2. CASE k = n + 1
        BY <1>5, <2>2, <2>3, <4>2
      <4>3. QED
        BY <2>1, <4>1, <4>2
    <3>2. QED
      BY <1>1, <1>5, <3>1 DEF OwnRequests
  <2>5. ASSUME NEW y \in Transfers PROVE AnnouncedOnce(y)' /\ PendingOnce(y)'
    <3>1. ASSUME NEW k \in DOMAIN inbox'[From[y]], inbox'[From[y]][k] = Announcement(y)
          PROVE  k \in DOMAIN inbox[From[y]] /\ inbox[From[y]][k] = Announcement(y)
      <4>1. From[y] \in Clients
        BY TransferAssumption
      <4>2. CASE From[y] = c
        BY <1>5, <2>1, <2>2, <3>1, <4>2
      <4>3. CASE From[y] # c
        BY <1>5, <3>1, <4>1, <4>3
      <4>4. QED
        BY <4>2, <4>3
    <3>2. AnnouncedOnce(y)'
      BY <1>1, <3>1 DEF AnnouncedOnce
    <3>3. Announced(y)' => Announced(y)
      BY <1>1, <3>1 DEF Announced
    <3>4. \A k : Underway(k) => Underway(k)'
      BY <1>1 DEF Underway
    <3>5. PendingOnce(y)'
      BY <1>1, <3>3, <3>4 DEF PendingOnce
    <3>6. QED
      BY <3>2, <3>5
  <2>6. QED
    BY <2>4, <2>5
<1>6. QED
  BY <1>4, <1>5, PostedChunk

LEMMA ClientFiles ==
    ASSUME TypeOK, TypeOK', FiledInv, NEW c \in Clients, ClientStep(c)
    PROVE  FiledInv'
<1> USE DEF clientVars, userVars, localVars, sharedVars, serviceVars
<1>0. sending \in [Clients -> Transfers \cup {None}]
  BY DEF TypeOK
<1>1. CASE Connect(c)
  BY <1>1, BehindUnchanged, FiledUntouched DEF Connect
<1>2. CASE \E x \in Transfers : SendFile(c, x)
  BY <1>2, SendFileFiles
<1>3. CASE NextChunk(c)
  BY <1>3, NextChunkFiles
<1>4. CASE Timeout(c)
  BY <1>0, <1>4, BehindUnchanged, FiledUntouched DEF Timeout
<1>5. CASE ReceiveFrame(c)
  <2>1. ASSUME NEW d \in Clients PROVE Behind(d)
    <3>1. \/ inbox' = inbox
          \/ inbox' = [inbox EXCEPT ![c] = Append(@, [kind |-> "chunk_received"])]
      BY <1>5 DEF ReceiveFrame
    <3>2. inbox \in [Clients -> Seq(Requests)]
      BY DEF TypeOK
    <3>3. \/ inbox'[d] = inbox[d]
          \/ inbox'[d] = Append(inbox[d], [kind |-> "chunk_received"])
      BY <3>1, <3>2
    <3>4. QED
      BY <3>3, BehindUnchanged, BehindAppended
  <2>2. UNCHANGED <<todo, pending, notices, phase, piece, entry, sending>>
    BY <1>5 DEF ReceiveFrame
  <2>3. QED
    BY <2>1, <2>2, FiledUntouched
<1>6. CASE Leave(c)
  BY <1>0, <1>6, BehindUnchanged, FiledUntouched DEF Leave
<1>7. QED
  BY <1>1, <1>2, <1>3, <1>4, <1>5, <1>6 DEF ClientStep

\* A handler that goes on with what it has, within a delivery or outside of one.
LEMMA FiledGoingOn ==
    ASSUME TypeOK, TypeOK', FiledInv, NEW c \in Clients, NEW p \in Phases \ {"push"},
           UNCHANGED <<todo, inbox, sending, pending, notices>>,
           phase[c] \in Busy, phase' = [phase EXCEPT ![c] = p],
           \A d \in Clients \ {c} : piece'[d] = piece[d] /\ entry'[d] = entry[d],
           p \in Busy => piece'[c] = piece[c],
           phase[c] \in {"download", "forward", "erase"} =>
               p \in {"download", "forward", "erase"} /\ entry'[c] = entry[c]
    PROVE  FiledInv'
<1>1. phase'[c] = p /\ \A d \in Clients \ {c} : phase'[d] = phase[d]
  BY DEF TypeOK
<1>2. \A d \in Clients : Behind(d)
  BY BehindUnchanged
<1>3. QED
  BY <1>1, <1>2, FiledUntouched

\* A request taken from the queue is no more in it.
LEMMA ReadFiles ==
    ASSUME TypeOK, TypeOK', FiledInv, NEW c \in Clients, ReadRequest(c)
    PROVE  FiledInv'
<1> USE DEF FiledInv
<1>1. /\ phase[c] = "reading" /\ inbox[c] # <<>>
      /\ UNCHANGED <<todo, sending, entry, pending, notices>>
      /\ phase \in [Clients -> Phases]
      /\ piece \in [Clients -> [x : Transfers \cup {None}, i : Nat]]
      /\ inbox \in [Clients -> Seq(Requests)]
  BY DEF ReadRequest, clientVars, userVars, sharedVars, TypeOK
<1>2. /\ inbox[c] \in Seq(Requests) /\ Len(inbox[c]) \in Nat
      /\ DOMAIN inbox[c] = 1 .. Len(inbox[c])
  BY InboxTyped
<1>3. PICK k \in 1 .. Len(inbox[c]) : inbox' = [inbox EXCEPT ![c] = SubSeq(@, k + 1, Len(@))]
  BY DEF ReadRequest
<1>4. /\ inbox'[c] = SubSeq(inbox[c], k + 1, Len(inbox[c]))
      /\ \A d \in Clients \ {c} : inbox'[d] = inbox[d]
  BY <1>1, <1>3
<1>5. /\ DOMAIN inbox'[c] = 1 .. Len(inbox[c]) - k
      /\ \A l \in DOMAIN inbox'[c] : l + k \in DOMAIN inbox[c] /\ inbox'[c][l] = inbox[c][l + k]
  BY <1>4, ReadTaken
<1>6. \A d \in Clients : Behind(d)
  <2>1. Behind(c)
    BY <1>5 DEF Behind
  <2>2. QED
    BY <1>4, <2>1, BehindUnchanged
<1>7. PICK r \in Requests : 1 \in DOMAIN inbox[c] /\ r = inbox[c][1] /\ r = Head(inbox[c])
  <2>1. Len(inbox[c]) # 0
    BY <1>1, <1>2, EmptySeq
  <2>2. Head(inbox[c]) \in Requests /\ Head(inbox[c]) = inbox[c][1] /\ 1 \in DOMAIN inbox[c]
    BY <1>1, <1>2, <2>1, HeadTailProperties
  <2>3. QED
    BY <2>2
\* What the handler takes up is the client's own, as everything in the queue is.
<1>13. ASSUME \A d \in Clients \ {c} : phase'[d] = phase[d] /\ piece'[d] = piece[d],
              phase'[c] \in Busy, From[piece'[c].x] = c, piece'[c].x \notin todo
       PROVE  OwnRequests'
  <2> SUFFICES ASSUME NEW d \in Clients
               PROVE  /\ \A l \in DOMAIN inbox'[d] :
                            /\ inbox'[d][l].kind = "send_message" =>
                                  From[inbox'[d][l].x] = d /\ inbox'[d][l].x \notin todo'
                            /\ inbox'[d][l].kind = "file_chunk" =>
                                  From[inbox'[d][l].p.x] = d /\ inbox'[d][l].p.x \notin todo'
                      /\ phase'[d] \in Busy => From[piece'[d].x] = d /\ piece'[d].x \notin todo'
                      /\ sending'[d] # None => From[sending'[d]] = d /\ sending'[d] \notin todo'
    BY DEF OwnRequests
  <2>1. CASE d = c
    <3>1. ASSUME NEW l \in DOMAIN inbox'[c]
          PROVE  /\ inbox'[c][l].kind = "send_message" =>
                       From[inbox'[c][l].x] = c /\ inbox'[c][l].x \notin todo'
                 /\ inbox'[c][l].kind = "file_chunk" =>
                       From[inbox'[c][l].p.x] = c /\ inbox'[c][l].p.x \notin todo'
      <4>1. l + k \in DOMAIN inbox[c] /\ inbox'[c][l] = inbox[c][l + k] /\ todo' = todo
        BY <1>1, <1>5
      <4>2. QED
        BY ONLY <4>1, OwnRequests, c \in Clients DEF OwnRequests
    <3>2. sending'[c] # None => From[sending'[c]] = c /\ sending'[c] \notin todo'
      BY <1>1 DEF OwnRequests
    <3>3. QED
      BY <1>1, <1>13, <2>1, <3>1, <3>2
  <2>2. CASE d # c
    BY <1>1, <1>4, <1>13, <2>2 DEF OwnRequests
  <2>3. QED
    BY <2>1, <2>2
<1>8. CASE r.kind = "chunk_received" /\ UNCHANGED <<phase, piece>>
  BY <1>1, <1>6, <1>8, FiledUntouched
<1>9. CASE /\ r.kind = "file_chunk"
           /\ piece' = [piece EXCEPT ![c] = r.p]
           /\ phase' = [phase EXCEPT ![c] = "check"]
  <2>1. /\ phase'[c] = "check" /\ piece'[c] = r.p
        /\ \A d \in Clients \ {c} : phase'[d] = phase[d] /\ piece'[d] = piece[d]
    BY <1>1, <1>9
  <2>2. From[r.p.x] = c /\ r.p.x \notin todo
    BY <1>7, <1>9 DEF OwnRequests
  <2>3. OwnRequests'
    BY <1>13, <2>1, <2>2 DEF Busy
  <2>4. ASSUME NEW x \in Transfers PROVE AnnouncedOnce(x)' /\ (Announced(x)' => Announced(x))
    BY <1>6, <2>1, AnnouncedBefore, TransferAssumption
  <2>5. \A j : Underway(j) => Underway(j)'
    BY <1>1, <2>1 DEF Underway
  <2>6. \A x \in Transfers : PendingOnce(x)'
    BY <1>1, <2>4, <2>5 DEF PendingOnce
  <2>7. QED
    BY <2>3, <2>4, <2>6
<1>10. CASE /\ r.kind = "send_message"
            /\ piece' = [piece EXCEPT ![c] = Piece(r.x, 0)]
            /\ phase' = [phase EXCEPT ![c] = "push"]
  <2>1. /\ phase'[c] = "push" /\ piece'[c].x = r.x
        /\ \A d \in Clients \ {c} : phase'[d] = phase[d] /\ piece'[d] = piece[d]
    BY <1>1, <1>10 DEF Piece
  <2>2. From[r.x] = c /\ r.x \notin todo
    BY <1>7, <1>10 DEF OwnRequests
  <2>3. OwnRequests'
    BY <1>13, <2>1, <2>2 DEF Busy
  <2>4. r.x \in Transfers /\ r = Announcement(r.x)
    BY <1>7, <1>10, RequestForms
  <2>5. AnnouncedOnce(r.x)' /\ (Announced(r.x)' => Announced(r.x))
    <3>1. ASSUME NEW l \in DOMAIN inbox'[c] PROVE inbox'[c][l] # Announcement(r.x)
      <4>1. l \in Nat /\ l + k # 1
        BY <1>2, <1>5
      <4>2. QED
        BY <1>5, <1>7, <2>2, <2>4, <4>1 DEF AnnouncedOnce
    <3>2. QED
      BY <1>7, <2>2, <2>4, <3>1 DEF AnnouncedOnce, Announced
  <2>6. ASSUME NEW x \in Transfers PROVE AnnouncedOnce(x)' /\ (Announced(x)' => Announced(x))
    <3>1. CASE x = r.x
      BY <2>5, <3>1
    <3>2. CASE x # r.x
      <4>1. From[x] = c =>
                /\ AnnouncedOnce(x)' /\ (Announced(x)' => Announced(x))
        <5>1. SUFFICES ASSUME From[x] = c
                       PROVE  AnnouncedOnce(x)' /\ (Announced(x)' => Announced(x))
          OBVIOUS
        <5>2. \A l \in DOMAIN inbox'[c] : l \in Nat
          BY <1>5
        <5>3. \A l \in DOMAIN inbox'[c] : inbox'[c][l] = Announcement(x) =>
                  l + k \in DOMAIN inbox[c] /\ inbox[c][l + k] = Announcement(x)
          BY <1>5
        <5>4. Announced(x)' => Announced(x)
          BY <2>1, <3>2, <5>1, <5>3 DEF Announced
        <5>5. AnnouncedOnce(x)'
          <6>1. ASSUME NEW l \in DOMAIN inbox'[c], NEW m \in DOMAIN inbox'[c],
                       inbox'[c][l] = Announcement(x), inbox'[c][m] = Announcement(x)
                PROVE  l = m
            <7>1. l + k = m + k
              BY <5>1, <5>3, <6>1 DEF AnnouncedOnce
            <7>2. QED
              BY <5>2, <7>1
          <6>2. QED
            BY <2>1, <3>2, <5>1, <6>1 DEF AnnouncedOnce
        <5>6. QED
          BY <5>4, <5>5
      <4>2. CASE From[x] # c
        BY <1>6, <2>1, <4>2, AnnouncedBefore, TransferAssumption
      <4>3. QED
        BY <4>1, <4>2
    <3>3. QED
      BY <3>1, <3>2
  <2>7. \A j : Underway(j) => Underway(j)'
    BY <1>1, <2>1 DEF Underway
  <2>8. \A x \in Transfers : PendingOnce(x)'
    BY <1>1, <2>6, <2>7 DEF PendingOnce
  <2>9. QED
    BY <2>3, <2>6, <2>8
<1>11. CASE \E p \in {"reading", "lost"} : Return(c, p)
  <2>1. PICK p \in {"reading", "lost"} : /\ phase' = [phase EXCEPT ![c] = p]
                                         /\ piece' = [piece EXCEPT ![c] = NoPiece]
    BY <1>11 DEF Return, Goto
  <2>2. /\ phase'[c] = p /\ p \notin Busy
        /\ \A d \in Clients \ {c} : phase'[d] = phase[d] /\ piece'[d] = piece[d]
    BY <1>1, <2>1 DEF Busy
  <2>3. QED
    BY <1>1, <1>6, <2>2, FiledUntouched DEF Busy
<1>12. QED
  BY <1>7, <1>8, <1>9, <1>10, <1>11 DEF ReadRequest, Goto

\* The transfer that is filed was announced, so it is not pending, and nobody was told.
LEMMA PushFiles ==
    ASSUME UploadInv, TypeOK', FiledInv, NEW c \in Clients, PushPending(c)
    PROVE  FiledInv'
<1> USE DEF FiledInv
<1>0. PICK x \in Transfers : x = piece[c].x
  BY DEF UploadInv, LocalsBound, PushPending
<1>1. /\ pending' = Append(pending, x) /\ pending \in Seq(Transfers)
      /\ phase[c] = "push" /\ phase' = [phase EXCEPT ![c] = "reset"]
      /\ phase \in [Clients -> Phases]
      /\ UNCHANGED <<todo, sending, inbox, piece, entry, notices>>
  BY <1>0 DEF PushPending, Goto, clientVars, userVars, localVars, UploadInv, TypeOK
<1>2. phase'[c] = "reset" /\ \A d \in Clients \ {c} : phase'[d] = phase[d]
  BY <1>1
<1>3. /\ Len(pending) \in Nat /\ DOMAIN pending = 1 .. Len(pending)
      /\ DOMAIN pending' = 1 .. Len(pending) + 1
      /\ pending'[Len(pending) + 1] = x
      /\ \A k \in 1 .. Len(pending) : pending'[k] = pending[k]
  <2>1. \A s \in Seq(Transfers) : \A y \in Transfers :
            /\ Len(s) \in Nat /\ DOMAIN s = 1 .. Len(s)
            /\ DOMAIN Append(s, y) = 1 .. Len(s) + 1 /\ Append(s, y)[Len(s) + 1] = y
            /\ \A k \in 1 .. Len(s) : Append(s, y)[k] = s[k]
    OBVIOUS
  <2>2. QED
    BY <1>1, <2>1
<1>4. OwnRequests' /\ From[x] = c /\ x \notin todo
  <2>1. /\ \A d \in Clients : Behind(d)
        /\ \A d \in Clients : phase'[d] \in Busy => phase[d] \in Busy /\ piece'[d].x = piece[d].x
    BY <1>1, <1>2, BehindUnchanged DEF Busy, UploadInv
  <2>2. OwnRequests'
    BY <1>1, <2>1, OwnKept DEF UploadInv
  <2>3. QED
    BY <1>0, <1>1, <2>2 DEF OwnRequests, Busy
<1>5. ASSUME NEW y \in Transfers PROVE AnnouncedOnce(y)' /\ (Announced(y)' => Announced(y))
  <2>1. phase'[From[y]] = "push" => phase[From[y]] = "push" /\ piece'[From[y]].x = piece[From[y]].x
    BY <1>1, <1>2, TransferAssumption
  <2>2. From[y] \in Clients /\ Behind(From[y])
    BY <1>1, BehindUnchanged, TransferAssumption DEF UploadInv
  <2>3. QED
    BY <2>1, <2>2, AnnouncedBefore DEF UploadInv
<1>6. ASSUME NEW k, Underway(k) PROVE Underway(k)'
  BY <1>1, <1>2, <1>6 DEF Underway
<1>7. /\ \A k \in DOMAIN pending : pending[k] # x
      /\ notices[x] = 0 /\ ~Announced(x)'
  <2>1. Announced(x)
    BY <1>0, <1>1, <1>4 DEF Announced
  <2>2. ~Announced(x)'
    BY <1>0, <1>1, <1>2, <1>4 DEF Announced, AnnouncedOnce
  <2>3. QED
    BY <2>1, <2>2 DEF PendingOnce
<1>8. PendingOnce(x)'
  <2>1. \A k \in DOMAIN pending' : pending'[k] = x => k = Len(pending) + 1
    BY <1>3, <1>7
  <2>2. QED
    BY <1>1, <1>4, <1>7, <2>1 DEF PendingOnce
<1>9. ASSUME NEW y \in Transfers \ {x} PROVE PendingOnce(y)'
  <2>1. \A k \in DOMAIN pending' : pending'[k] = y => k \in DOMAIN pending /\ pending[k] = y
    BY <1>3
  <2>2. QED
    BY <1>1, <1>5, <1>6, <2>1 DEF PendingOnce
<1>10. QED
  BY <1>4, <1>5, <1>8, <1>9

\* The receiver is told of a transfer that is pending and whose delivery is not underway,
\* since one is at a time.
LEMMA NotifyFiles ==
    ASSUME UploadInv, TypeOK', FiledInv, NEW c \in Clients, NotifyReceiver(c)
    PROVE  FiledInv'
<1> USE DEF FiledInv
<1>1. /\ phase[c] = "notify" /\ UNCHANGED <<todo, sending, inbox, piece, pending>>
      /\ phase \in [Clients -> Phases] /\ notices \in [Transfers -> Nat]
      /\ entry \in [Clients -> Nat]
  BY DEF NotifyReceiver, clientVars, userVars, UploadInv, TypeOK
<1>2. CASE Unlock(c) /\ UNCHANGED notices
  <2>1. /\ phase' = [phase EXCEPT ![c] = "accept"] /\ "accept" \in Phases \ {"push"}
        /\ phase[c] \in Busy
        /\ entry' = [entry EXCEPT ![c] = 0]
    BY <1>1, <1>2 DEF Unlock, Goto, Phases, Busy
  <2>2. QED
    BY <1>1, <1>2, <2>1, FiledGoingOn DEF UploadInv
<1>3. CASE /\ notices' = [notices EXCEPT ![match[c]] = @ + 1]
           /\ phase' = [phase EXCEPT ![c] = "download"]
           /\ UNCHANGED entry
  <2>1. PICK x \in Transfers : x = match[c]
    BY <1>1 DEF UploadInv, LocalsBound, Holding
  <2>2. /\ entry[c] \in DOMAIN pending /\ pending[entry[c]] = x
        /\ \A d \in Clients \ {c} : phase[d] \notin Holding
    <3>1. phase[c] \in Holding /\ pending \in Seq(Transfers)
      BY <1>1 DEF Holding, UploadInv, TypeOK
    <3>2. DOMAIN pending = 1 .. Len(pending)
      BY <3>1
    <3>3. QED
      BY <2>1, <3>1, <3>2 DEF UploadInv, LockHeld, IteratorValid
  <2>3. /\ phase'[c] = "download" /\ \A d \in Clients \ {c} : phase'[d] = phase[d]
        /\ \A d \in Clients : Behind(d)
    BY <1>1, <1>3, BehindUnchanged DEF UploadInv
  <2>4. \A d \in Clients :
            /\ phase'[d] \in Busy => phase[d] \in Busy /\ piece'[d].x = piece[d].x
            /\ phase'[d] = "push" => phase[d] = "push" /\ piece'[d].x = piece[d].x
    BY <1>1, <2>3 DEF Busy
  <2>5. OwnRequests'
    BY <1>1, <2>3, <2>4, OwnKept DEF UploadInv
  <2>6. ASSUME NEW y \in Transfers PROVE AnnouncedOnce(y)' /\ (Announced(y)' => Announced(y))
    BY <2>3, <2>4, AnnouncedBefore, TransferAssumption DEF UploadInv
  <2>7. ASSUME NEW k, Underway(k) PROVE Underway(k)'
    BY <1>1, <1>3, <2>3, <2>7 DEF Underway
  <2>8. ~Underway(entry[c]) /\ Underway(entry[c])'
    BY <1>1, <1>3, <2>2, <2>3 DEF Underway, Holding
  <2>9. notices[x] = 0
    BY <2>2, <2>8 DEF PendingOnce
  <2>10. notices'[x] = 1 /\ \A y \in Transfers \ {x} : notices'[y] = notices[y]
    BY <1>1, <1>3, <2>1, <2>9
  <2>11. PendingOnce(x)'
    <3>1. \A k \in DOMAIN pending : pending[k] = x => k = entry[c]
      BY <2>2 DEF PendingOnce
    <3>2. \A k \in DOMAIN pending' : pending'[k] = x => Underway(k)'
      <4>1. \A k : k = entry[c] => Underway(k)'
        BY <1>1, <1>3, <2>3 DEF Underway
      <4>2. QED
        BY <1>1, <3>1, <4>1
    <3>3. x \notin todo' /\ ~Announced(x)'
      BY <1>1, <2>2, <2>6 DEF PendingOnce
    <3>4. \A k, l \in DOMAIN pending' : pending'[k] = x /\ pending'[l] = x => k = l
      BY <1>1, <3>1
    <3>5. QED
      BY <2>10, <3>2, <3>3, <3>4 DEF PendingOnce
  <2>12. ASSUME NEW y \in Transfers \ {x} PROVE PendingOnce(y)'
    BY <1>1, <2>6, <2>7, <2>10 DEF PendingOnce
  <2>13. QED
    BY <2>5, <2>6, <2>11, <2>12
<1>4. QED
  BY <1>2, <1>3 DEF NotifyReceiver, Goto

\* What is erased is the transfer whose delivery is underway, and there is only one.
LEMMA EraseFiles ==
    ASSUME UploadInv, TypeOK', FiledInv, NEW c \in Clients, ErasePending(c)
    PROVE  FiledInv'
<1> USE DEF FiledInv
<1> DEFINE e == entry[c]
           n == Len(pending)
<1>1. /\ phase[c] = "erase" /\ UNCHANGED <<todo, sending, inbox, piece, notices>>
      /\ pending' = SubSeq(pending, 1, e - 1) \o SubSeq(pending, e + 1, n)
      /\ phase' = [phase EXCEPT ![c] = "accept"]
      /\ entry' = [entry EXCEPT ![c] = 0]
      /\ phase \in [Clients -> Phases] /\ entry \in [Clients -> Nat]
      /\ pending \in Seq(Transfers)
  BY DEF ErasePending, Unlock, Goto, clientVars, userVars, UploadInv, TypeOK
<1>2. /\ e \in 1 .. n /\ n \in Nat /\ DOMAIN pending = 1 .. n
      /\ \A d \in Clients \ {c} : phase[d] \notin Holding
  <2>1. phase[c] \in Holding /\ n \in Nat /\ DOMAIN pending = 1 .. n
    BY <1>1, LenProperties DEF Holding
  <2>2. QED
    BY <2>1 DEF UploadInv, LockHeld, IteratorValid
<1>3. /\ phase'[c] = "accept" /\ \A d \in Clients \ {c} : phase'[d] = phase[d]
      /\ \A d \in Clients \ {c} : entry'[d] = entry[d]
      /\ \A d \in Clients : Behind(d)
  BY <1>1, BehindUnchanged DEF UploadInv
<1>4. \A d \in Clients :
          /\ phase'[d] \in Busy => phase[d] \in Busy /\ piece'[d].x = piece[d].x
          /\ phase'[d] = "push" => phase[d] = "push" /\ piece'[d].x = piece[d].x
  BY <1>1, <1>3 DEF Busy
<1>5. OwnRequests'
  BY <1>1, <1>3, <1>4, OwnKept DEF UploadInv
<1>6. ASSUME NEW y \in Transfers PROVE AnnouncedOnce(y)' /\ (Announced(y)' => Announced(y))
  BY <1>3, <1>4, AnnouncedBefore, TransferAssumption DEF UploadInv
\* Positions after the erased one move down.
<1>7. /\ DOMAIN pending' = 1 .. n - 1
      /\ \A k \in 1 .. n - 1 : pending'[k] = IF k < e THEN pending[k] ELSE pending[k + 1]
  <2> DEFINE a == SubSeq(pending, 1, e - 1)
             b == SubSeq(pending, e + 1, n)
  <2>1. \A s \in Seq(Transfers) : \A j \in 1 .. Len(s) :
            /\ SubSeq(s, 1, j - 1) \in Seq(Transfers) /\ SubSeq(s, j + 1, Len(s)) \in Seq(Transfers)
            /\ Len(SubSeq(s, 1, j - 1)) = j - 1 /\ Len(SubSeq(s, j + 1, Len(s))) = Len(s) - j
            /\ \A k \in 1 .. j - 1 : SubSeq(s, 1, j - 1)[k] = s[k]
            /\ \A k \in 1 .. Len(s) - j : SubSeq(s, j + 1, Len(s))[k] = s[k + j]
    OBVIOUS
  <2>2. /\ a \in Seq(Transfers) /\ b \in Seq(Transfers) /\ Len(a) = e - 1 /\ Len(b) = n - e
        /\ \A k \in 1 .. e - 1 : a[k] = pending[k]
        /\ \A k \in 1 .. n - e : b[k] = pending[k + e]
    BY <1>1, <1>2, <2>1
  <2> HIDE DEF a, b
  <2>3. /\ Len(a \o b) = n - 1 /\ a \o b \in Seq(Transfers)
        /\ \A k \in 1 .. n - 1 : (a \o b)[k] = IF k <= e - 1 THEN a[k] ELSE b[k - (e - 1)]
    <3>1. /\ a \o b \in Seq(Transfers) /\ Len(a \o b) = Len(a) + Len(b)
          /\ \A i \in 1 .. Len(a) + Len(b) :
                (a \o b)[i] = IF i <= Len(a) THEN a[i] ELSE b[i - Len(a)]
      BY <2>2, ConcatProperties
    <3>2. Len(a) + Len(b) = n - 1
      BY <1>2, <2>2
    <3>3. QED
      BY <2>2, <3>1, <3>2
  <2>4. pending' = a \o b
    BY <1>1 DEF a, b
  <2>5. DOMAIN pending' = 1 .. n - 1
    BY <2>3, <2>4
  <2> HIDE DEF e, n
  <2>6. ASSUME NEW k \in 1 .. n - 1
        PROVE  pending'[k] = IF k < e THEN pending[k] ELSE pending[k + 1]
    <3>1. CASE k < e
      BY <1>2, <2>2, <2>3, <2>4, <3>1
    <3>2. CASE ~(k < e)
      <4>1. k - (e - 1) \in 1 .. n - e /\ k - (e - 1) + e = k + 1
        BY <1>2, <3>2
      <4>2. b[k - (e - 1)] = pending[k + 1]
        BY <2>2, <4>1
      <4>3. ~(k <= e - 1) /\ k \in 1 .. n - 1
        BY <1>2, <3>2
      <4>4. (a \o b)[k] = b[k - (e - 1)]
        BY <2>3, <4>3
      <4>5. QED
        BY <2>4, <3>2, <4>2, <4>4
    <3>3. QED
      BY <3>1, <3>2
  <2>7. QED
    BY <2>5, <2>6
<1>8. ASSUME NEW k \in DOMAIN pending'
      PROVE  \E j \in DOMAIN pending : j # e /\ pending'[k] = pending[j]
  <2>1. CASE k < e
    BY <1>2, <1>7, <1>8, <2>1
  <2>2. CASE ~(k < e)
    BY <1>2, <1>7, <1>8, <2>2
  <2>3. QED
    BY <2>1, <2>2
<1>9. ASSUME NEW k \in DOMAIN pending', NEW l \in DOMAIN pending', k # l
      PROVE  \E i, j \in DOMAIN pending : i # j /\ pending'[k] = pending[i] /\ pending'[l] = pending[j]
  <2> DEFINE At(m) == IF m < e THEN m ELSE m + 1
  <2>1. At(k) # At(l) /\ At(k) \in DOMAIN pending /\ At(l) \in DOMAIN pending
    BY <1>2, <1>7, <1>9
  <2>2. pending'[k] = pending[At(k)] /\ pending'[l] = pending[At(l)]
    BY <1>2, <1>7, <1>9
  <2> HIDE DEF At
  <2>3. QED
    BY <2>1, <2>2
<1> HIDE DEF e, n
<1>10. ASSUME NEW y \in Transfers PROVE PendingOnce(y)'
  <2>1. \A k \in DOMAIN pending' : pending'[k] = y => y \notin todo' /\ ~Announced(y)'
    BY <1>1, <1>6, <1>8 DEF PendingOnce
  <2>2. \A k, l \in DOMAIN pending' : pending'[k] = y /\ pending'[l] = y => k = l
    BY <1>9 DEF PendingOnce
  <2>3. notices'[y] # 0 => notices'[y] = 1 /\ y \notin todo' /\ ~Announced(y)'
    BY <1>1, <1>6 DEF PendingOnce
  <2>4. ASSUME notices'[y] # 0, NEW k \in DOMAIN pending', pending'[k] = y
        PROVE  FALSE
    <3>1. PICK j \in DOMAIN pending : j # e /\ pending[j] = y
      BY <1>8, <2>4
    <3>2. Underway(j)
      BY <1>1, <2>4, <3>1 DEF PendingOnce
    <3>3. PICK h \in Clients : phase[h] \in {"download", "forward", "erase"} /\ entry[h] = j
      BY <3>2 DEF Underway
    <3>4. h = c
      BY <1>2, <3>3 DEF Holding
    <3>5. QED
      BY <3>1, <3>3, <3>4 DEF e
  <2>5. QED
    BY <2>1, <2>2, <2>3, <2>4 DEF PendingOnce
<1>11. QED
  BY <1>5, <1>6, <1>10

LEMMA HandlerFiles ==
    ASSUME UploadInv, TypeOK', FiledInv, NEW c \in Clients, HandlerStep(c)
    PROVE  FiledInv'
<1> USE DEF clientVars, userVars, localVars, sharedVars, serviceVars, Goto
<1>0. TypeOK /\ phase \in [Clients -> Phases] /\ Busy \subseteq Phases
  BY DEF UploadInv, TypeOK, Phases
<1>1. CASE ReadRequest(c)
  BY <1>0, <1>1, ReadFiles
<1>2. CASE EndOfStream(c)
  <2>1. /\ phase' = [phase EXCEPT ![c] = "ended"] /\ phase[c] = "reading"
        /\ UNCHANGED <<todo, sending, inbox, piece, entry, pending, notices>>
    BY <1>2 DEF EndOfStream
  <2>2. phase'[c] = "ended" /\ \A d \in Clients \ {c} : phase'[d] = phase[d]
    BY <1>0, <2>1
  <2>3. \A d \in Clients : Behind(d)
    BY <1>0, <2>1, BehindUnchanged
  <2>4. QED
    BY <1>0, <2>1, <2>2, <2>3, FiledUntouched DEF Busy
<1>3. CASE PushPending(c)
  BY <1>3, PushFiles
<1>4. CASE ResetUpload(c)
  <2>1. PICK p \in {"reading", "lost"} : /\ phase' = [phase EXCEPT ![c] = p]
                                         /\ piece' = [piece EXCEPT ![c] = NoPiece]
    BY <1>4 DEF ResetUpload, Return
  <2>2. /\ p \in Phases \ {"push"} /\ p \notin Busy /\ phase[c] \in Busy /\ phase[c] = "reset"
        /\ UNCHANGED <<todo, sending, inbox, entry, pending, notices>>
    BY <1>4 DEF ResetUpload, Phases, Busy
  <2>3. \A d \in Clients \ {c} : piece'[d] = piece[d]
    BY <1>0, <2>1 DEF TypeOK
  <2>4. QED
    BY <1>0, <2>1, <2>2, <2>3, FiledGoingOn
<1>5. CASE CheckOrder(c)
  <2>1. PICK p \in {"upload", "reject"} : phase' = [phase EXCEPT ![c] = p]
    BY <1>5 DEF CheckOrder
  <2>2. p \in Phases \ {"push"} /\ phase[c] \in Busy /\ phase[c] = "check"
    BY <1>5 DEF CheckOrder, Phases, Busy
  <2>3. QED
    BY <1>0, <1>5, <2>1, <2>2, FiledGoingOn DEF CheckOrder
<1>6. CASE UploadChunk(c)
  <2>1. PICK p \in {"record", "reject"} : phase' = [phase EXCEPT ![c] = p]
    BY <1>6 DEF UploadChunk
  <2>2. p \in Phases \ {"push"} /\ phase[c] \in Busy /\ phase[c] = "upload"
    BY <1>6 DEF UploadChunk, Phases, Busy
  <2>3. QED
    BY <1>0, <1>6, <2>1, <2>2, FiledGoingOn DEF UploadChunk
<1>7. CASE RecordChunk(c)
  <2>1. PICK p \in {"lock", "accept"} : phase' = [phase EXCEPT ![c] = p]
    BY <1>7 DEF RecordChunk
  <2>2. p \in Phases \ {"push"} /\ phase[c] \in Busy /\ phase[c] = "record"
    BY <1>7 DEF RecordChunk, Phases, Busy
  <2>3. QED
    BY <1>0, <1>7, <2>1, <2>2, FiledGoingOn DEF RecordChunk
<1>8. CASE LockPending(c)
  <2>1. PICK p \in {"notify", "accept"} : phase' = [phase EXCEPT ![c] = p]
    BY <1>8 DEF LockPending
  <2>2. /\ p \in Phases \ {"push"} /\ phase[c] \in Busy /\ phase[c] = "lock"
        /\ UNCHANGED <<todo, sending, inbox, piece, pending, notices>>
    BY <1>8 DEF LockPending, Phases, Busy
  <2>3. \A d \in Clients \ {c} : entry'[d] = entry[d]
    BY <1>0, <1>8 DEF LockPending, TypeOK
  <2>4. QED
    BY <1>0, <2>1, <2>2, <2>3, FiledGoingOn
<1>9. CASE NotifyReceiver(c)
  BY <1>9, NotifyFiles
<1>10. CASE DownloadChunks(c)
  <2>1. PICK p \in {"forward", "erase"} : phase' = [phase EXCEPT ![c] = p]
    BY <1>10 DEF DownloadChunks
  <2>2. p \in Phases \ {"push"} /\ phase[c] \in Busy
    BY <1>10 DEF DownloadChunks, Phases, Busy
  <2>3. QED
    BY <1>0, <1>10, <2>1, <2>2, FiledGoingOn DEF DownloadChunks
<1>11. CASE ForwardChunk(c)
  <2>1. PICK p \in {"forward", "erase"} : phase' = [phase EXCEPT ![c] = p]
    BY <1>11 DEF ForwardChunk
  <2>2. p \in Phases \ {"push"} /\ phase[c] \in Busy
    BY <1>11 DEF ForwardChunk, Phases, Busy
  <2>3. QED
    BY <1>0, <1>11, <2>1, <2>2, FiledGoingOn DEF ForwardChunk
<1>12. CASE ErasePending(c)
  BY <1>12, EraseFiles
<1>13. CASE AnswerChunk(c)
  <2>1. /\ phase' = [phase EXCEPT ![c] = "reading"]
        /\ piece' = [piece EXCEPT ![c] = NoPiece]
        /\ phase[c] \in {"accept", "reject"}
        /\ UNCHANGED <<todo, sending, inbox, entry, pending, notices>>
    BY <1>13 DEF AnswerChunk, Return
  <2>2. "reading" \in Phases \ {"push"} /\ "reading" \notin Busy /\ phase[c] \in Busy
    BY <2>1 DEF Phases, Busy
  <2>3. \A d \in Clients \ {c} : piece'[d] = piece[d]
    BY <1>0, <2>1 DEF TypeOK
  <2>4. QED
    BY <1>0, <2>1, <2>2, <2>3, FiledGoingOn
<1>14. QED
  BY <1>1, <1>2, <1>3, <1>4, <1>5, <1>6, <1>7, <1>8, <1>9, <1>10, <1>11, <1>12, <1>13
     DEF HandlerStep, ChunkStep

\* Every file the users send is announced and filed at most once, by its own sender's
\* handler, and told to its receiver at most once, with any number of handlers.
THEOREM FiledInvariant == Spec => []FiledInv
<1>1. Init => FiledInv
  <2> SUFFICES ASSUME Init PROVE FiledInv
    OBVIOUS
  <2>1. /\ \A c \in Clients : DOMAIN inbox[c] = {} /\ phase[c] = "reading" /\ sending[c] = None
        /\ DOMAIN pending = {} /\ \A x \in Transfers : notices[x] = 0
    BY DEF Init
  <2>2. OwnRequests
    BY <2>1 DEF OwnRequests, Busy
  <2>3. \A x \in Transfers : AnnouncedOnce(x) /\ PendingOnce(x)
    BY <2>1, TransferAssumption DEF AnnouncedOnce, PendingOnce
  <2>4. QED
    BY <2>2, <2>3 DEF FiledInv
<1>2. UploadInv /\ UploadInv' /\ FiledInv /\ [Next]_vars => FiledInv'
  <2> SUFFICES ASSUME UploadInv, UploadInv', FiledInv, [Next]_vars PROVE FiledInv'
    OBVIOUS
  <2>0. TypeOK /\ TypeOK'
    BY DEF UploadInv
  <2>1. CASE UNCHANGED vars
    <3>1. UNCHANGED <<todo, sending, inbox, phase, piece, entry, pending, notices>>
      BY <2>1 DEF vars, clientVars, userVars, localVars, sharedVars
    <3>2. \A d \in Clients : Behind(d)
      BY <2>0, <3>1, BehindUnchanged
    <3>3. QED
      BY <2>0, <3>1, <3>2, FiledUntouched
  <2>2. ASSUME NEW c \in Clients, ClientStep(c) PROVE FiledInv'
    BY <2>0, <2>2, ClientFiles
  <2>3. ASSUME NEW c \in Clients, HandlerStep(c) PROVE FiledInv'
    BY <2>0, <2>3, HandlerFiles
  <2>4. QED
    BY <2>1, <2>2, <2>3 DEF Next
<1>3. QED
  BY <1>1, <1>2, UploadInvariant, PTL DEF Spec

\* The receiver of a message is told of its file at most once, however many uploads of
\* that name end at the same time.
THEOREM NotifiedAtMostOnce == Spec => []NotifiedOnce
<1>1. UploadInv /\ FiledInv => NotifiedOnce
  <2> SUFFICES ASSUME UploadInv, FiledInv, NEW x \in Transfers PROVE notices[x] <= 1
    BY DEF NotifiedOnce
  <2>1. notices[x] = 0 \/ notices[x] = 1
    BY DEF FiledInv, PendingOnce
  <2>2. QED
    BY <2>1
<1>2. QED
  BY <1>1, UploadInvariant, FiledInvariant, PTL
=============================================================================
