-------------------------- MODULE FileContentsProofs --------------------------
(***************************************************************************)
(* What is in the files, for every set of clients, names and transfers:    *)
(* the chunks of a file whose name nobody else uses are stored in order    *)
(* and from the first, and what a receiver writes is a beginning of what   *)
(* the file server holds.  The invariants follow the chunks from the       *)
(* sender through its queue and its handler to the store, and from there   *)
(* through the handler that delivers them and the queue of frames to the   *)
(* receiver's disk; they are proved relative to UploadInv and FiledInv.    *)
(***************************************************************************)
EXTENDS FileTransferProofs

\* Chunk i of x may still get to its check or be uploaded.
Ahead(x, i) ==
    LET c == From[x] IN
    \/ x \in todo
    \/ sending[c] = x /\ i > number[c]
    \/ \E k \in DOMAIN inbox[c] : inbox[c][k] = Chunk(x, i)
    \/ phase[c] \in {"check", "upload"} /\ piece[c] = Piece(x, i)

\* The chunks of a file are sent and handled in the order of their numbers, each once.
SentInOrder(x) ==
    LET c == From[x] IN
    /\ \A k, l \in DOMAIN inbox[c] : \A i, j \in Nat \ {0} :
          k < l /\ inbox[c][k] = Chunk(x, i) /\ inbox[c][l] = Chunk(x, j) => i < j
    /\ phase[c] \in Busy /\ piece[c].x = x =>
          \A k \in DOMAIN inbox[c] : \A i \in Nat \ {0} :
              inbox[c][k] = Chunk(x, i) => piece[c].i < i
    /\ sending[c] = x =>
          \A k \in DOMAIN inbox[c] : \A i \in Nat \ {0} :
              inbox[c][k] = Chunk(x, i) => i <= number[c]
    /\ sending[c] = x /\ phase[c] \in Busy /\ piece[c].x = x => piece[c].i <= number[c]

\* The file server holds the first chunks of a file whose name nobody else uses, and as
\* long as the next one may come, as many as last_chunk_received says.
StoredOf(x) ==
    LET c == From[x]
        n == Name[x]
    IN
    /\ \A i \in DOMAIN store[n] : store[n][i] = Piece(x, i)
    /\ \A i \in Nat \ {0} : Ahead(x, i) =>
          uploads[n].last < i /\ (i = uploads[n].last + 1 => Len(store[n]) = uploads[n].last)
    /\ phase[c] \in {"upload", "record"} /\ piece[c].x = x => piece[c].i = uploads[n].last + 1
    /\ phase[c] = "record" /\ piece[c].x = x => Len(store[n]) = piece[c].i
    /\ phase[c] \in Holding \cup {"lock"} /\ piece[c].x = x => Len(store[n]) = Chunks[x]

StoredInv == \A x \in Transfers : SentInOrder(x) /\ (OwnName(x) => StoredOf(x))

-----------------------------------------------------------------------------
(* Chunks in order.                                                        *)

\* No chunk comes before another one that it was not before, and none is ahead that was
\* not, if the sender posts none and its handler comes to no new one.
LEMMA OrderKept ==
    ASSUME TypeOK, TypeOK', NEW x \in Transfers, SentInOrder(x), todo' = todo,
           Behind(From[x]),
           sending'[From[x]] = x => sending[From[x]] = x /\ number'[From[x]] = number[From[x]],
           phase'[From[x]] \in Busy =>
               phase[From[x]] \in Busy /\ piece'[From[x]] = piece[From[x]],
           phase'[From[x]] \in {"check", "upload"} => phase[From[x]] \in {"check", "upload"}
    PROVE  /\ SentInOrder(x)'
           /\ \A i \in Nat \ {0} : Ahead(x, i)' => Ahead(x, i)
<1> DEFINE c == From[x]
<1>0. c \in Clients
  BY TransferAssumption
<1>1. PICK m \in Nat : \A k \in DOMAIN inbox'[c] : inbox'[c][k].kind # "chunk_received" =>
          k + m \in DOMAIN inbox[c] /\ inbox'[c][k] = inbox[c][k + m]
  BY DEF Behind
<1>2. /\ DOMAIN inbox'[c] \subseteq Nat
      /\ DOMAIN inbox[c] \subseteq Nat
  <2>1. inbox'[c] \in Seq(Requests) /\ inbox[c] \in Seq(Requests)
    BY <1>0 DEF TypeOK
  <2>2. QED
    BY <2>1
<1>3. \A i : Chunk(x, i).kind = "file_chunk"
  BY DEF Chunk
<1>4. \A k \in DOMAIN inbox'[c] : \A i \in Nat \ {0} : inbox'[c][k] = Chunk(x, i) =>
          k + m \in DOMAIN inbox[c] /\ inbox[c][k + m] = Chunk(x, i)
  BY <1>1, <1>3
<1>5. ASSUME NEW k \in DOMAIN inbox'[c], NEW l \in DOMAIN inbox'[c],
             NEW i \in Nat \ {0}, NEW j \in Nat \ {0},
             k < l, inbox'[c][k] = Chunk(x, i), inbox'[c][l] = Chunk(x, j)
      PROVE  i < j
  <2>1. k + m < l + m
    BY <1>2, <1>5
  <2>2. QED
    BY <1>4, <1>5, <2>1 DEF SentInOrder
<1>6. SentInOrder(x)'
  BY <1>4, <1>5 DEF SentInOrder, Busy
<1>7. ASSUME NEW i \in Nat \ {0}, Ahead(x, i)' PROVE Ahead(x, i)
  BY <1>4, <1>7 DEF Ahead, Busy
<1>8. QED
  BY <1>6, <1>7

LEMMA SendFileOrder ==
    ASSUME TypeOK, TypeOK', FiledInv, NEW c \in Clients, NEW x \in Transfers, SendFile(c, x),
           NEW y \in Transfers, SentInOrder(y)
    PROVE  /\ SentInOrder(y)'
           /\ \A i \in Nat \ {0} : Ahead(y, i)' => Ahead(y, i)
<1> DEFINE n == Len(inbox[c])
<1>1. PICK a \in {n + 1, n + 2}, b \in {n + 1, n + 2} :
          /\ a # b
          /\ DOMAIN inbox'[c] = 1 .. n + 2
          /\ inbox'[c][a] = Announcement(x) /\ inbox'[c][b] = Chunk(x, 1)
          /\ \A k \in DOMAIN inbox[c] : inbox'[c][k] = inbox[c][k]
          /\ \A d \in Clients \ {c} : inbox'[d] = inbox[d]
  BY PostedTwo
<1>2. /\ n \in Nat /\ DOMAIN inbox[c] = 1 .. n
      /\ \A k \in DOMAIN inbox[c] : inbox[c][k] \in Requests
  BY InboxTyped
<1>3. \A k \in DOMAIN inbox'[c] : k \in DOMAIN inbox[c] \/ k = a \/ k = b
  BY <1>1, <1>2
<1>4. /\ x \in todo /\ From[x] = c /\ todo' = todo \ {x} /\ sending[c] = None
      /\ sending'[c] = x /\ number'[c] = 1 /\ x # None
      /\ \A d \in Clients \ {c} : sending'[d] = sending[d] /\ number'[d] = number[d]
      /\ UNCHANGED <<phase, piece>>
  BY TransferAssumption DEF SendFile, localVars, TypeOK
<1> HIDE DEF n
<1>5. \A z, i : /\ Announcement(x) # Chunk(z, i)
                /\ Chunk(x, 1) = Chunk(z, i) => z = x /\ i = 1
                /\ Chunk(z, i).kind = "file_chunk" /\ Chunk(z, i).p.x = z
  BY DEF Announcement, Chunk, Piece
<1>6. CASE y = x
  <2>1. /\ \A k \in DOMAIN inbox[c] : \A i : inbox[c][k] # Chunk(x, i)
        /\ ~(phase[c] \in Busy /\ piece[c].x = x)
    BY <1>4, <1>5 DEF FiledInv, OwnRequests
  <2>2. \A k \in DOMAIN inbox'[c] : \A i : inbox'[c][k] = Chunk(x, i) => k = b /\ i = 1
    BY <1>1, <1>3, <1>5, <2>1
  <2>3. b \in Nat
    BY <1>1, <1>2
  <2>4. SentInOrder(x)'
    BY <1>4, <2>1, <2>2, <2>3 DEF SentInOrder
  <2>5. \A i \in Nat \ {0} : Ahead(x, i)
    BY <1>4 DEF Ahead
  <2>6. QED
    BY <1>6, <2>4, <2>5
<1>7. CASE y # x /\ From[y] = c
  <2>1. \A k \in DOMAIN inbox'[c] : \A i : inbox'[c][k] = Chunk(y, i) =>
            k \in DOMAIN inbox[c] /\ inbox[c][k] = Chunk(y, i)
    BY <1>1, <1>3, <1>5, <1>7
  <2>2. SentInOrder(y)'
    BY <1>4, <1>7, <2>1 DEF SentInOrder
  <2>3. \A i \in Nat \ {0} : Ahead(y, i)' => Ahead(y, i)
    BY <1>4, <1>7, <2>1 DEF Ahead
  <2>4. QED
    BY <2>2, <2>3
<1>8. CASE From[y] # c
  <2>1. From[y] \in Clients \ {c} /\ y # x
    BY <1>4, <1>8, TransferAssumption
  <2>2. SentInOrder(y)'
    BY <1>1, <1>4, <2>1 DEF SentInOrder
  <2>3. \A i \in Nat \ {0} : Ahead(y, i)' => Ahead(y, i)
    BY <1>1, <1>4, <2>1 DEF Ahead
  <2>4. QED
    BY <2>2, <2>3
<1>9. QED
  BY <1>6, <1>7, <1>8

LEMMA NextChunkOrder ==
    ASSUME TypeOK, TypeOK', FiledInv, NEW c \in Clients, NextChunk(c),
           NEW y \in Transfers, SentInOrder(y)
    PROVE  /\ SentInOrder(y)'
           /\ \A i \in Nat \ {0} : Ahead(y, i)' => Ahead(y, i)
<1> DEFINE n == Len(inbox[c])
<1>1. UNCHANGED <<phase, piece, todo>>
  BY DEF NextChunk, localVars
<1>2. /\ n \in Nat /\ DOMAIN inbox[c] = 1 .. n
      /\ sending \in [Clients -> Transfers \cup {None}] /\ number \in [Clients -> Nat]
      /\ From[y] \in Clients
  BY InboxTyped, TransferAssumption DEF TypeOK
<1>3. CASE inbox' = inbox /\ sending' = [sending EXCEPT ![c] = None]
                         /\ number' = [number EXCEPT ![c] = 0]
  <2>1. sending'[From[y]] = y => sending[From[y]] = y /\ number'[From[y]] = number[From[y]]
    BY <1>2, <1>3, TransferAssumption
  <2>2. Behind(From[y])
    BY <1>2, <1>3, BehindUnchanged
  <2>3. QED
    BY <1>1, <2>1, <2>2, OrderKept
<1>4. ASSUME NEW x \in Transfers, x = sending[c], NEW m \in Nat, m = number[c],
             sending' = sending, number' = [number EXCEPT ![c] = @ + 1],
             \A d \in Clients \ {c} : inbox'[d] = inbox[d],
             DOMAIN inbox'[c] = 1 .. n + 1,
             inbox'[c][n + 1] = Chunk(x, m + 1),
             \A k \in DOMAIN inbox[c] : inbox'[c][k] = inbox[c][k]
      PROVE  /\ SentInOrder(y)'
             /\ \A i \in Nat \ {0} : Ahead(y, i)' => Ahead(y, i)
  <2>1. /\ From[x] = c /\ number'[c] = m + 1
        /\ \A d \in Clients \ {c} : number'[d] = number[d]
    BY <1>2, <1>4, TransferAssumption DEF FiledInv, OwnRequests
  <2>2. \A k \in DOMAIN inbox'[c] : k \in Nat /\ (k \in DOMAIN inbox[c] \/ k = n + 1)
    BY <1>2, <1>4
  <2> HIDE DEF n
  <2>3. \A i, j, z : Chunk(z, i) = Chunk(y, j) => z = y /\ i = j
    BY DEF Chunk, Piece
  <2>4. CASE y = x
    <3>1. \A k \in DOMAIN inbox'[c] : \A i \in Nat \ {0} : inbox'[c][k] = Chunk(x, i) =>
              \/ k \in DOMAIN inbox[c] /\ inbox[c][k] = Chunk(x, i) /\ i <= m
              \/ k = n + 1 /\ i = m + 1
      BY <1>4, <2>1, <2>2, <2>3, <2>4 DEF SentInOrder
    <3>2. ASSUME NEW k \in DOMAIN inbox'[c], NEW l \in DOMAIN inbox'[c],
                 NEW i \in Nat \ {0}, NEW j \in Nat \ {0},
                 k < l, inbox'[c][k] = Chunk(x, i), inbox'[c][l] = Chunk(x, j)
          PROVE  i < j
      <4>1. k \in DOMAIN inbox[c] /\ inbox[c][k] = Chunk(x, i) /\ i <= m
        BY <1>2, <2>2, <3>1, <3>2
      <4>2. CASE l = n + 1 /\ j = m + 1
        BY <1>4, <4>1, <4>2
      <4>3. CASE l \in DOMAIN inbox[c] /\ inbox[c][l] = Chunk(x, j)
        BY <2>1, <2>4, <3>2, <4>1, <4>3 DEF SentInOrder
      <4>4. QED
        BY <3>1, <3>2, <4>2, <4>3
    <3>3. ASSUME phase[c] \in Busy, piece[c].x = x, NEW k \in DOMAIN inbox'[c],
                 NEW i \in Nat \ {0}, inbox'[c][k] = Chunk(x, i)
          PROVE  piece[c].i < i
      <4>1. piece[c].i \in Nat /\ piece[c].i <= m
        BY <1>4, <2>1, <2>4, <3>3 DEF SentInOrder, TypeOK
      <4>2. CASE i = m + 1
        BY <1>4, <4>1, <4>2
      <4>3. CASE k \in DOMAIN inbox[c] /\ inbox[c][k] = Chunk(x, i)
        BY <2>1, <2>4, <3>3, <4>3 DEF SentInOrder
      <4>4. QED
        BY <3>1, <3>3, <4>2, <4>3
    <3>4. \A k \in DOMAIN inbox'[c] : \A i \in Nat \ {0} :
              inbox'[c][k] = Chunk(x, i) => i <= m + 1
      BY <1>4, <3>1
    <3>5. phase[c] \in Busy /\ piece[c].x = x => piece[c].i <= m + 1
      <4>1. phase[c] \in Busy /\ piece[c].x = x => piece[c].i <= m
        BY <1>4, <2>1, <2>4 DEF SentInOrder
      <4>2. piece[c].i \in Nat
        BY DEF TypeOK
      <4>3. QED
        BY <1>4, <4>1, <4>2
    <3>6. SentInOrder(x)'
      BY <1>1, <2>1, <3>2, <3>3, <3>4, <3>5 DEF SentInOrder
    <3>7. ASSUME NEW i \in Nat \ {0}, Ahead(x, i)' PROVE Ahead(x, i)
      <4>1. CASE x \in todo'
        BY <1>1, <4>1 DEF Ahead
      <4>2. CASE i > number'[c]
        BY <1>4, <2>1, <4>2 DEF Ahead
      <4>3. CASE \E k \in DOMAIN inbox'[c] : inbox'[c][k] = Chunk(x, i)
        BY <1>4, <2>1, <3>1, <4>3 DEF Ahead
      <4>4. CASE phase'[c] \in {"check", "upload"} /\ piece'[c] = Piece(x, i)
        BY <1>1, <2>1, <4>4 DEF Ahead
      <4>5. QED
        BY <2>1, <3>7, <4>1, <4>2, <4>3, <4>4 DEF Ahead
    <3>8. QED
      BY <2>4, <3>6, <3>7
  <2>5. CASE y # x
    <3> DEFINE d == From[y]
    <3>1. \A k \in DOMAIN inbox'[d] : \A i : inbox'[d][k] = Chunk(y, i) =>
              k \in DOMAIN inbox[d] /\ inbox[d][k] = Chunk(y, i)
      <4>1. CASE d # c
        BY <1>2, <1>4, <4>1
      <4>2. CASE d = c
        <5>1. ASSUME NEW k \in DOMAIN inbox'[c], NEW i, inbox'[c][k] = Chunk(y, i)
              PROVE  k \in DOMAIN inbox[c] /\ inbox[c][k] = Chunk(y, i)
          <6>1. k # n + 1
            BY <1>4, <2>3, <2>5, <5>1
          <6>2. QED
            BY <1>4, <2>2, <5>1, <6>1
        <5>2. QED
          BY <4>2, <5>1
      <4>3. QED
        BY <4>1, <4>2
    <3>2. sending'[d] = y => sending[d] = y /\ number'[d] = number[d]
      BY <1>2, <1>4, <2>1, <2>5
    <3>3. UNCHANGED <<phase, piece, todo>>
      BY <1>1
    <3>4. /\ \A k, l \in DOMAIN inbox'[d] : \A i, j \in Nat \ {0} :
                k < l /\ inbox'[d][k] = Chunk(y, i) /\ inbox'[d][l] = Chunk(y, j) => i < j
          /\ phase[d] \in Busy /\ piece[d].x = y =>
                \A k \in DOMAIN inbox'[d] : \A i \in Nat \ {0} :
                    inbox'[d][k] = Chunk(y, i) => piece[d].i < i
          /\ sending'[d] = y =>
                \A k \in DOMAIN inbox'[d] : \A i \in Nat \ {0} :
                    inbox'[d][k] = Chunk(y, i) => i <= number'[d]
          /\ sending'[d] = y /\ phase[d] \in Busy /\ piece[d].x = y => piece[d].i <= number'[d]
      BY ONLY SentInOrder(y), <3>1, <3>2 DEF SentInOrder
    <3>5. SentInOrder(y)'
      BY ONLY <3>3, <3>4 DEF SentInOrder
    <3>6. \A i \in Nat \ {0} : Ahead(y, i)' => Ahead(y, i)
      BY ONLY <3>1, <3>2, <3>3 DEF Ahead
    <3>7. QED
      BY <3>5, <3>6
  <2>7. QED
    BY <2>4, <2>5
<1>5. QED
  <2>1. PICK x \in Transfers, m \in Nat : x = sending[c] /\ m = number[c]
    BY PostedChunk
  <2>2. QED
    BY <1>3, <1>4, <2>1, PostedChunk

LEMMA ReadOrder ==
    ASSUME TypeOK, TypeOK', NEW c \in Clients, ReadRequest(c),
           NEW y \in Transfers, SentInOrder(y)
    PROVE  /\ SentInOrder(y)'
           /\ \A i \in Nat \ {0} : Ahead(y, i)' => Ahead(y, i)
<1>1. /\ phase[c] = "reading" /\ inbox[c] # <<>>
      /\ UNCHANGED <<todo, sending, number>>
      /\ phase \in [Clients -> Phases]
      /\ piece \in [Clients -> [x : Transfers \cup {None}, i : Nat]]
      /\ inbox \in [Clients -> Seq(Requests)]
      /\ number \in [Clients -> Nat]
      /\ From[y] \in Clients
  BY TransferAssumption DEF ReadRequest, clientVars, userVars, TypeOK
<1>2. /\ inbox[c] \in Seq(Requests) /\ Len(inbox[c]) \in Nat
      /\ DOMAIN inbox[c] = 1 .. Len(inbox[c])
  BY InboxTyped
<1>3. PICK k \in 1 .. Len(inbox[c]) : inbox' = [inbox EXCEPT ![c] = SubSeq(@, k + 1, Len(@))]
  BY DEF ReadRequest
<1>4. /\ inbox'[c] = SubSeq(inbox[c], k + 1, Len(inbox[c]))
      /\ \A d \in Clients \ {c} : inbox'[d] = inbox[d]
  BY <1>1, <1>3
<1>5. /\ DOMAIN inbox'[c] = 1 .. Len(inbox[c]) - k
      /\ \A l \in DOMAIN inbox'[c] : l + k \in DOMAIN inbox[c] /\ inbox'[c][l] = inbox[c][l + k]
  BY <1>4, ReadTaken
<1>6. \A d \in Clients : Behind(d)
  <2>1. Behind(c)
    BY <1>5 DEF Behind
  <2>2. QED
    BY <1>4, <2>1, BehindUnchanged
<1>7. PICK r \in Requests : 1 \in DOMAIN inbox[c] /\ r = inbox[c][1] /\ r = Head(inbox[c])
  <2>1. Len(inbox[c]) # 0
    BY <1>1, <1>2, EmptySeq
  <2>2. Head(inbox[c]) \in Requests /\ Head(inbox[c]) = inbox[c][1] /\ 1 \in DOMAIN inbox[c]
    BY <1>1, <1>2, <2>1, HeadTailProperties
  <2>3. QED
    BY <2>2
\* What is left comes after what is handled.
<1>8. \A l \in DOMAIN inbox'[c] : 1 < l + k /\ l \in Nat
  BY <1>2, <1>5
<1>9. CASE UNCHANGED <<phase, piece>>
  BY <1>1, <1>6, <1>9, OrderKept
<1>10. CASE \E p \in {"reading", "lost"} : Return(c, p)
  <2>1. PICK p \in {"reading", "lost"} : /\ phase' = [phase EXCEPT ![c] = p]
                                         /\ piece' = [piece EXCEPT ![c] = NoPiece]
    BY <1>10 DEF Return, Goto
  <2>2. /\ phase'[c] = p /\ p \notin Busy
        /\ \A d \in Clients \ {c} : phase'[d] = phase[d] /\ piece'[d] = piece[d]
    BY <1>1, <2>1 DEF Busy
  <2>3. QED
    BY <1>1, <1>6, <2>2, OrderKept DEF Busy
<1>11. ASSUME \A d \in Clients \ {c} : phase'[d] = phase[d] /\ piece'[d] = piece[d],
              NEW q \in Nat, piece'[c].i = q,
              phase'[c] = "check" \/ phase'[c] = "push",
              q = 0 \/ \A x \in Transfers : piece'[c].x = x => r = Chunk(x, q),
              phase'[c] = "check" => \A x \in Transfers : piece'[c].x = x => r = Chunk(x, q)
       PROVE  /\ SentInOrder(y)'
              /\ \A i \in Nat \ {0} : Ahead(y, i)' => Ahead(y, i)
  <2>1. CASE From[y] # c
    BY <1>1, <1>6, <1>11, <2>1, OrderKept
  <2>2. CASE From[y] = c
    <3>1. ASSUME NEW l \in DOMAIN inbox'[c], NEW i \in Nat \ {0}, inbox'[c][l] = Chunk(y, i)
          PROVE  l + k \in DOMAIN inbox[c] /\ inbox[c][l + k] = Chunk(y, i)
      BY <1>5, <3>1
    <3>2. \A l, m \in DOMAIN inbox'[c] : \A i, j \in Nat \ {0} :
              l < m /\ inbox'[c][l] = Chunk(y, i) /\ inbox'[c][m] = Chunk(y, j) => i < j
      <4> SUFFICES ASSUME NEW l \in DOMAIN inbox'[c], NEW m \in DOMAIN inbox'[c],
                          NEW i \in Nat \ {0}, NEW j \in Nat \ {0}, l < m,
                          inbox'[c][l] = Chunk(y, i), inbox'[c][m] = Chunk(y, j)
                   PROVE  i < j
        OBVIOUS
      <4>1. l + k < m + k
        BY <1>8
      <4>2. QED
        BY <2>2, <3>1, <4>1 DEF SentInOrder
    <3>3. ASSUME piece'[c].x = y, NEW l \in DOMAIN inbox'[c], NEW i \in Nat \ {0},
                 inbox'[c][l] = Chunk(y, i)
          PROVE  q < i
      <4>1. CASE q = 0
        BY <4>1
      <4>2. CASE q # 0
        <5>1. inbox[c][1] = Chunk(y, q)
          BY <1>7, <1>11, <3>3, <4>2
        <5>2. q \in Nat \ {0} /\ 1 < l + k
          BY <1>8, <4>2
        <5>3. QED
          BY <1>7, <2>2, <3>1, <3>3, <5>1, <5>2 DEF SentInOrder
      <4>3. QED
        BY <4>1, <4>2
    <3>4. sending[c] = y => \A l \in DOMAIN inbox'[c] : \A i \in Nat \ {0} :
              inbox'[c][l] = Chunk(y, i) => i <= number[c]
      BY <2>2, <3>1 DEF SentInOrder
    <3>5. sending[c] = y /\ piece'[c].x = y => q <= number[c]
      <4>1. CASE q = 0
        BY <1>1, <4>1
      <4>2. CASE q # 0
        BY <1>7, <1>11, <2>2, <4>2 DEF SentInOrder
      <4>3. QED
        BY <4>1, <4>2
    <3>6. SentInOrder(y)'
      BY <1>1, <1>11, <2>2, <3>2, <3>3, <3>4, <3>5 DEF SentInOrder
    <3>7. ASSUME NEW i \in Nat \ {0}, Ahead(y, i)' PROVE Ahead(y, i)
      <4>1. CASE phase'[c] = "check" /\ piece'[c] = Piece(y, i)
        <5>1. piece'[c].x = y /\ i = q
          BY <1>11, <4>1 DEF Piece
        <5>2. inbox[c][1] = Chunk(y, i)
          BY <1>7, <1>11, <4>1, <5>1
        <5>3. QED
          BY <1>7, <2>2, <5>2 DEF Ahead
      <4>2. CASE ~(phase'[c] = "check" /\ piece'[c] = Piece(y, i))
        BY <1>1, <1>11, <2>2, <3>1, <3>7, <4>2 DEF Ahead
      <4>3. QED
        BY <4>1, <4>2
    <3>8. QED
      BY <3>6, <3>7
  <2>3. QED
    BY <2>1, <2>2
<1>12. CASE r.kind = "file_chunk" /\ piece' = [piece EXCEPT ![c] = r.p]
                                  /\ phase' = [phase EXCEPT ![c] = "check"]
  <2>1. /\ piece'[c] = r.p /\ phase'[c] = "check" /\ r = Chunk(r.p.x, r.p.i)
        /\ r.p.i \in Nat
        /\ \A d \in Clients \ {c} : phase'[d] = phase[d] /\ piece'[d] = piece[d]
    BY <1>1, <1>12, RequestForms
  <2>2. QED
    BY <1>11, <2>1
<1>13. CASE r.kind = "send_message" /\ piece' = [piece EXCEPT ![c] = Piece(r.x, 0)]
                                    /\ phase' = [phase EXCEPT ![c] = "push"]
  <2>1. /\ piece'[c].i = 0 /\ phase'[c] = "push"
        /\ \A d \in Clients \ {c} : phase'[d] = phase[d] /\ piece'[d] = piece[d]
    BY <1>1, <1>13 DEF Piece
  <2>2. QED
    BY <1>11, <2>1
<1>14. QED
  BY <1>7, <1>9, <1>10, <1>12, <1>13 DEF ReadRequest, Goto

\* A handler that has its request goes from phase to phase with the chunk it has.
LEMMA HandlerGoesOn ==
    ASSUME TypeOK, NEW c \in Clients,
           EndOfStream(c) \/ PushPending(c) \/ ResetUpload(c) \/ ChunkStep(c)
    PROVE  /\ UNCHANGED <<todo, sending, number, inbox>>
           /\ \A d \in Clients \ {c} : phase'[d] = phase[d] /\ piece'[d] = piece[d]
           /\ phase'[c] \in Busy => phase[c] \in Busy /\ piece'[c] = piece[c]
           /\ phase'[c] # "check"
           /\ phase'[c] = "upload" => phase[c] = "check"
           /\ phase'[c] = "record" => phase[c] = "upload"
           /\ phase'[c] = "lock" => phase[c] = "record"
           /\ phase'[c] \in Holding => phase[c] \in Holding \cup {"lock"}
<1> USE DEF clientVars, userVars, localVars, sharedVars, serviceVars, Goto
<1>0. /\ phase \in [Clients -> Phases]
      /\ piece \in [Clients -> [x : Transfers \cup {None}, i : Nat]]
  BY DEF TypeOK
\* A step from p to q with the chunk, or back to the read without it.
<1>1. ASSUME NEW q, phase' = [phase EXCEPT ![c] = q],
             \/ UNCHANGED piece
             \/ q \notin Busy /\ \A d \in Clients \ {c} : piece'[d] = piece[d]
      PROVE  /\ phase'[c] = q /\ (q \in Busy => piece'[c] = piece[c])
             /\ \A d \in Clients \ {c} : phase'[d] = phase[d] /\ piece'[d] = piece[d]
  BY <1>0, <1>1
<1>2. CASE EndOfStream(c)
  <2>1. phase' = [phase EXCEPT ![c] = "ended"] /\ UNCHANGED <<piece, todo, sending, number, inbox>>
    BY <1>2 DEF EndOfStream
  <2>2. phase'[c] = "ended" /\ \A d \in Clients \ {c} : phase'[d] = phase[d]
    BY <1>0, <2>1
  <2>3. QED
    BY <2>1, <2>2 DEF Busy, Holding
<1>3. CASE PushPending(c)
  <2>1. /\ phase' = [phase EXCEPT ![c] = "reset"] /\ phase[c] = "push"
        /\ UNCHANGED <<piece, todo, sending, number, inbox>>
    BY <1>3 DEF PushPending
  <2>2. QED
    BY <1>1, <2>1 DEF Busy, Holding
<1>4. CASE ResetUpload(c)
  <2>1. PICK q \in {"reading", "lost"} : /\ phase' = [phase EXCEPT ![c] = q]
                                         /\ piece' = [piece EXCEPT ![c] = NoPiece]
    BY <1>4 DEF ResetUpload, Return
  <2>2. UNCHANGED <<todo, sending, number, inbox>>
    BY <1>4 DEF ResetUpload
  <2>3. q \notin Busy /\ q \notin Holding /\ \A d \in Clients \ {c} : piece'[d] = piece[d]
    BY <1>0, <2>1 DEF Busy, Holding
  <2>4. QED
    BY <1>1, <2>1, <2>2, <2>3 DEF Busy, Holding
<1>5. CASE CheckOrder(c)
  <2>1. PICK q \in {"upload", "reject"} : phase' = [phase EXCEPT ![c] = q]
    BY <1>5 DEF CheckOrder
  <2>2. phase[c] = "check" /\ UNCHANGED <<piece, todo, sending, number, inbox>>
    BY <1>5 DEF CheckOrder
  <2>3. QED
    BY <1>1, <2>1, <2>2 DEF Busy, Holding
<1>6. CASE UploadChunk(c)
  <2>1. PICK q \in {"record", "reject"} : phase' = [phase EXCEPT ![c] = q]
    BY <1>6 DEF UploadChunk
  <2>2. phase[c] = "upload" /\ UNCHANGED <<piece, todo, sending, number, inbox>>
    BY <1>6 DEF UploadChunk
  <2>3. QED
    BY <1>1, <2>1, <2>2 DEF Busy, Holding
<1>7. CASE RecordChunk(c)
  <2>1. PICK q \in {"lock", "accept"} : phase' = [phase EXCEPT ![c] = q]
    BY <1>7 DEF RecordChunk
  <2>2. phase[c] = "record" /\ UNCHANGED <<piece, todo, sending, number, inbox>>
    BY <1>7 DEF RecordChunk
  <2>3. QED
    BY <1>1, <2>1, <2>2 DEF Busy, Holding
<1>8. CASE LockPending(c)
  <2>1. PICK q \in {"notify", "accept"} : phase' = [phase EXCEPT ![c] = q]
    BY <1>8 DEF LockPending
  <2>2. phase[c] = "lock" /\ UNCHANGED <<piece, todo, sending, number, inbox>>
    BY <1>8 DEF LockPending
  <2>3. QED
    BY <1>1, <2>1, <2>2 DEF Busy, Holding
<1>9. CASE NotifyReceiver(c)
  <2>1. PICK q \in {"download", "accept"} : phase' = [phase EXCEPT ![c] = q]
    BY <1>9 DEF NotifyReceiver, Unlock
  <2>2. phase[c] = "notify" /\ UNCHANGED <<piece, todo, sending, number, inbox>>
    BY <1>9 DEF NotifyReceiver
  <2>3. QED
    BY <1>1, <2>1, <2>2 DEF Busy, Holding
<1>10. CASE DownloadChunks(c)
  <2>1. PICK q \in {"forward", "erase"} : phase' = [phase EXCEPT ![c] = q]
    BY <1>10 DEF DownloadChunks
  <2>2. phase[c] = "download" /\ UNCHANGED <<piece, todo, sending, number, inbox>>
    BY <1>10 DEF DownloadChunks
  <2>3. QED
    BY <1>1, <2>1, <2>2 DEF Busy, Holding
<1>11. CASE ForwardChunk(c)
  <2>1. PICK q \in {"forward", "erase"} : phase' = [phase EXCEPT ![c] = q]
    BY <1>11 DEF ForwardChunk
  <2>2. phase[c] = "forward" /\ UNCHANGED <<piece, todo, sending, number, inbox>>
    BY <1>11 DEF ForwardChunk
  <2>3. QED
    BY <1>1, <2>1, <2>2 DEF Busy, Holding
<1>12. CASE ErasePending(c)
  <2>1. phase' = [phase EXCEPT ![c] = "accept"]
    BY <1>12 DEF ErasePending, Unlock
  <2>2. phase[c] = "erase" /\ UNCHANGED <<piece, todo, sending, number, inbox>>
    BY <1>12 DEF ErasePending
  <2>3. QED
    BY <1>1, <2>1, <2>2 DEF Busy, Holding
<1>13. CASE AnswerChunk(c)
  <2>1. /\ phase' = [phase EXCEPT ![c] = "reading"]
        /\ piece' = [piece EXCEPT ![c] = NoPiece]
        /\ UNCHANGED <<todo, sending, number, inbox>>
    BY <1>13 DEF AnswerChunk, Return
  <2>2. /\ phase'[c] = "reading"
        /\ \A d \in Clients \ {c} : phase'[d] = phase[d] /\ piece'[d] = piece[d]
    BY <1>0, <2>1
  <2>3. QED
    BY <2>1, <2>2 DEF Busy, Holding
<1>14. QED
  BY <1>2, <1>3, <1>4, <1>5, <1>6, <1>7, <1>8, <1>9, <1>10, <1>11, <1>12, <1>13 DEF ChunkStep

\* The order of chunks, and what is ahead, over any step of a client or a handler.
LEMMA StepsInOrder ==
    ASSUME TypeOK, TypeOK', FiledInv, NEW c \in Clients, ClientStep(c) \/ HandlerStep(c),
           NEW y \in Transfers, SentInOrder(y)
    PROVE  /\ SentInOrder(y)'
           /\ \A i \in Nat \ {0} : Ahead(y, i)' => Ahead(y, i)
<1> USE DEF clientVars, userVars, localVars, sharedVars, serviceVars
<1>0. /\ From[y] \in Clients /\ y # None
      /\ sending \in [Clients -> Transfers \cup {None}] /\ number \in [Clients -> Nat]
  BY TransferAssumption DEF TypeOK
<1>1. CASE Connect(c)
  BY <1>0, <1>1, BehindUnchanged, OrderKept DEF Connect
<1>2. CASE \E x \in Transfers : SendFile(c, x)
  BY <1>2, SendFileOrder
<1>3. CASE NextChunk(c)
  BY <1>3, NextChunkOrder
<1>4. CASE Timeout(c)
  BY <1>0, <1>4, BehindUnchanged, OrderKept DEF Timeout
<1>5. CASE ReceiveFrame(c)
  <2>1. Behind(From[y])
    <3>1. \/ inbox' = inbox
          \/ inbox' = [inbox EXCEPT ![c] = Append(@, [kind |-> "chunk_received"])]
      BY <1>5 DEF ReceiveFrame
    <3>2. inbox \in [Clients -> Seq(Requests)]
      BY DEF TypeOK
    <3>3. \A d \in Clients : \/ inbox'[d] = inbox[d]
                             \/ inbox'[d] = Append(inbox[d], [kind |-> "chunk_received"])
      BY <3>1, <3>2
    <3>4. QED
      BY <1>0, <3>3, BehindUnchanged, BehindAppended
  <2>2. UNCHANGED <<todo, phase, piece, sending, number>>
    BY <1>5 DEF ReceiveFrame
  <2>3. QED
    BY <2>1, <2>2, OrderKept
<1>6. CASE Leave(c)
  BY <1>0, <1>6, BehindUnchanged, OrderKept DEF Leave
<1>7. CASE ReadRequest(c)
  BY <1>7, ReadOrder
<1>8. CASE EndOfStream(c) \/ PushPending(c) \/ ResetUpload(c) \/ ChunkStep(c)
  <2>1. Behind(From[y])
    BY <1>0, <1>8, HandlerGoesOn, BehindUnchanged
  <2>2. /\ UNCHANGED <<todo, sending, number>>
        /\ phase'[From[y]] \in Busy =>
               phase[From[y]] \in Busy /\ piece'[From[y]] = piece[From[y]]
        /\ phase'[From[y]] \in {"check", "upload"} => phase[From[y]] \in {"check", "upload"}
    BY <1>0, <1>8, HandlerGoesOn
  <2>3. QED
    BY <2>1, <2>2, OrderKept
<1>9. QED
  BY <1>1, <1>2, <1>3, <1>4, <1>5, <1>6, <1>7, <1>8 DEF ClientStep, HandlerStep

-----------------------------------------------------------------------------
(* Chunks stored in order.                                                 *)

\* What was stored stays, if the step is not about the name, and its sender's handler
\* does not come to know more.
LEMMA StoredKept ==
    ASSUME NEW x \in Transfers, StoredOf(x),
           store'[Name[x]] = store[Name[x]], uploads'[Name[x]] = uploads[Name[x]],
           \A i \in Nat \ {0} : Ahead(x, i)' => Ahead(x, i),
           phase'[From[x]] \in {"upload", "record"} \cup Holding \cup {"lock"} =>
               piece'[From[x]] = piece[From[x]],
           phase'[From[x]] = "upload" => phase[From[x]] = "upload",
           phase'[From[x]] = "record" => phase[From[x]] = "record",
           phase'[From[x]] \in Holding \cup {"lock"} => phase[From[x]] \in Holding \cup {"lock"}
    PROVE  StoredOf(x)'
<1> DEFINE c == From[x]
           n == Name[x]
<1>1. /\ \A i \in DOMAIN store'[n] : store'[n][i] = Piece(x, i)
      /\ \A i \in Nat \ {0} : Ahead(x, i)' =>
            uploads'[n].last < i /\ (i = uploads'[n].last + 1 => Len(store'[n]) = uploads'[n].last)
  BY DEF StoredOf
<1>2. /\ phase'[c] \in {"upload", "record"} /\ piece'[c].x = x => piece'[c].i = uploads'[n].last + 1
      /\ phase'[c] = "record" /\ piece'[c].x = x => Len(store'[n]) = piece'[c].i
      /\ phase'[c] \in Holding \cup {"lock"} /\ piece'[c].x = x => Len(store'[n]) = Chunks[x]
  BY DEF StoredOf
<1>3. QED
  BY ONLY <1>1, <1>2 DEF StoredOf

\* A handler whose chunk or message is not of x has a file of another name.
LEMMA OtherFile ==
    ASSUME UploadInv, FiledInv, NEW c \in Clients, phase[c] \in Busy,
           NEW x \in Transfers, OwnName(x), File(c) = Name[x]
    PROVE  c = From[x] /\ piece[c].x = x
<1>1. piece[c].x \in Transfers
  BY DEF UploadInv, LocalsBound, Busy, Handling, Holding, Pieces
<1>2. piece[c].x = x
  BY <1>1 DEF OwnName, File
<1>3. QED
  BY <1>2 DEF FiledInv, OwnRequests

\* Once it is uploaded or rejected, a chunk is not ahead any more, only later ones are.
LEMMA ChunkPassed ==
    ASSUME TypeOK, FiledInv, NEW x \in Transfers, SentInOrder(x), NEW q \in Nat \ {0},
           phase[From[x]] \in Busy, piece[From[x]] = Piece(x, q),
           UNCHANGED <<todo, sending, number, inbox>>,
           phase'[From[x]] \notin {"check", "upload"}
    PROVE  \A i \in Nat \ {0} : Ahead(x, i)' => i > q
<1>1. x \notin todo'
  BY TransferAssumption DEF FiledInv, OwnRequests, Piece
<1>2. /\ sending'[From[x]] = x => q <= number'[From[x]]
      /\ \A k \in DOMAIN inbox'[From[x]] : \A i \in Nat \ {0} :
            inbox'[From[x]][k] = Chunk(x, i) => q < i
  BY DEF SentInOrder, Piece
<1>3. number'[From[x]] \in Nat
  BY TransferAssumption DEF TypeOK
<1>4. SUFFICES ASSUME NEW i \in Nat \ {0}, Ahead(x, i)' PROVE i > q
  OBVIOUS
<1>5. CASE sending'[From[x]] = x /\ i > number'[From[x]]
  BY <1>2, <1>3, <1>5
<1>6. CASE \E k \in DOMAIN inbox'[From[x]] : inbox'[From[x]][k] = Chunk(x, i)
  BY <1>2, <1>6
<1>7. QED
  BY <1>1, <1>4, <1>5, <1>6 DEF Ahead

\* What c's handler has in hand, when it is about x.
LEMMA InHand ==
    ASSUME UploadInv, NEW c \in Clients, NEW x \in Transfers, piece[c].x = x,
           phase[c] \in Handling
    PROVE  \E q \in Nat \ {0} : piece[c] = Piece(x, q)
BY DEF UploadInv, LocalsBound, Pieces, Piece

LEMMA ResetStored ==
    ASSUME UploadInv, FiledInv, NEW c \in Clients, ResetUpload(c), NEW x \in Transfers, OwnName(x),
           StoredOf(x), \A i \in Nat \ {0} : Ahead(x, i)' => Ahead(x, i)
    PROVE  StoredOf(x)'
<1> DEFINE n == Name[x]
<1>1. /\ phase[c] = "reset" /\ phase[c] \in Busy
      /\ uploads' = [uploads EXCEPT ![File(c)] = Fresh] /\ store' = store
      /\ uploads \in [Names -> [last : Nat, completed : BOOLEAN]]
      /\ n \in Names /\ From[x] \in Clients
  BY TransferAssumption DEF ResetUpload, Busy, serviceVars, UploadInv, TypeOK
<1>2. /\ phase'[c] \in {"reading", "lost"}
      /\ \A d \in Clients \ {c} : phase'[d] = phase[d] /\ piece'[d] = piece[d]
  BY DEF ResetUpload, Return, Goto, UploadInv, TypeOK
<1>3. CASE File(c) = n
  <2>1. c = From[x] /\ uploads'[n].last = 0
    BY <1>1, <1>3, OtherFile DEF Fresh
  <2>2. \A i \in DOMAIN store'[n] : store'[n][i] = Piece(x, i)
    BY <1>1 DEF StoredOf
  <2>3. ASSUME NEW i \in Nat \ {0}, Ahead(x, i)'
        PROVE  0 < i /\ (i = 0 + 1 => Len(store'[n]) = 0)
    <3>1. /\ Ahead(x, i) /\ uploads[n].last \in Nat
          /\ uploads[n].last < i
          /\ (i = uploads[n].last + 1 => Len(store[n]) = uploads[n].last)
      BY <1>1, <2>3 DEF StoredOf
    <3>2. QED
      BY <1>1, <3>1
  <2>4. QED
    BY <1>2, <2>1, <2>2, <2>3 DEF StoredOf, Holding
<1>4. CASE File(c) # n
  <2>1. uploads'[n] = uploads[n] /\ store'[n] = store[n]
    BY <1>1, <1>4
  <2>2. QED
    BY <1>1, <1>2, <2>1, StoredKept DEF Holding
<1>5. QED
  BY <1>3, <1>4

LEMMA CheckStored ==
    ASSUME UploadInv, FiledInv, NEW c \in Clients, CheckOrder(c), NEW x \in Transfers, OwnName(x),
           StoredOf(x), \A i \in Nat \ {0} : Ahead(x, i)' => Ahead(x, i)
    PROVE  StoredOf(x)'
<1>1. /\ phase[c] = "check" /\ UNCHANGED <<piece, store, uploads>>
      /\ phase' = [phase EXCEPT ![c] =
             IF piece[c].i = uploads[File(c)].last + 1 THEN "upload" ELSE "reject"]
      /\ phase \in [Clients -> Phases] /\ From[x] \in Clients
  BY TransferAssumption DEF CheckOrder, Goto, localVars, sharedVars, serviceVars, UploadInv, TypeOK
<1>2. /\ phase'[c] = IF piece[c].i = uploads[File(c)].last + 1 THEN "upload" ELSE "reject"
      /\ \A d \in Clients \ {c} : phase'[d] = phase[d]
  BY <1>1
<1>3. CASE c = From[x] /\ piece[c].x = x
  BY <1>1, <1>2, <1>3 DEF StoredOf, Holding, File
<1>4. CASE c = From[x] /\ piece[c].x # x
  BY <1>1, <1>2, <1>4 DEF StoredOf, Holding
<1>5. CASE c # From[x]
  BY <1>1, <1>2, <1>5, StoredKept
<1>6. QED
  BY <1>3, <1>4, <1>5

LEMMA UploadStored ==
    ASSUME UploadInv, FiledInv, NEW c \in Clients, UploadChunk(c),
           NEW x \in Transfers, OwnName(x), SentInOrder(x), StoredOf(x),
           \A i \in Nat \ {0} : Ahead(x, i)' => Ahead(x, i)
    PROVE  StoredOf(x)'
<1> DEFINE n == Name[x]
<1>1. /\ phase[c] = "upload" /\ phase[c] \in Busy /\ phase[c] \in Handling
      /\ UNCHANGED <<piece, uploads>>
      /\ phase \in [Clients -> Phases] /\ From[x] \in Clients /\ n \in Names
      /\ store \in [Names -> Seq(Pieces)]
      /\ uploads[n].last \in Nat
  BY TransferAssumption DEF UploadChunk, Busy, Handling, localVars, sharedVars, UploadInv, TypeOK
<1>2. PICK q \in {"record", "reject"} :
          /\ phase' = [phase EXCEPT ![c] = q]
          /\ q = "record" => store' = [store EXCEPT ![File(c)] = Append(@, piece[c])]
          /\ store' \in {store, [store EXCEPT ![File(c)] = Append(@, piece[c])],
                         [store EXCEPT ![File(c)] = <<>>]}
  BY DEF UploadChunk, FailUpload, Goto
<1>3. phase'[c] = q /\ \A d \in Clients \ {c} : phase'[d] = phase[d]
  BY <1>1, <1>2
<1>4. CASE File(c) # n
  <2>1. store'[n] = store[n]
    BY <1>1, <1>2, <1>4
  <2>2. phase'[c] = "record" => piece[c].x # x
    BY <1>4 DEF File
  <2>3. CASE c = From[x]
    <3>1. /\ \A i \in DOMAIN store'[n] : store'[n][i] = Piece(x, i)
          /\ \A i \in Nat \ {0} : Ahead(x, i)' =>
                uploads'[n].last < i /\ (i = uploads'[n].last + 1 => Len(store'[n]) = uploads'[n].last)
      BY <1>1, <2>1 DEF StoredOf
    <3>2. phase'[c] \in {"upload", "record"} \cup Holding \cup {"lock"} => piece'[c].x # x
      BY <1>1, <1>3, <1>4 DEF File, Holding
    <3>3. QED
      BY ONLY <2>3, <3>1, <3>2 DEF StoredOf
  <2>4. CASE c # From[x]
    BY <1>1, <1>3, <2>1, <2>4, StoredKept
  <2>5. QED
    BY <2>3, <2>4
<1>5. CASE File(c) = n
  <2>1. c = From[x] /\ piece[c].x = x
    BY <1>1, <1>5, OtherFile
  <2>2. PICK m \in Nat \ {0} : piece[c] = Piece(x, m)
    BY <1>1, <2>1, InHand
  <2>3. m = uploads[n].last + 1 /\ Len(store[n]) = uploads[n].last
    <3>1. m = uploads[n].last + 1
      BY <1>1, <2>1, <2>2 DEF StoredOf, Piece
    <3>2. Ahead(x, m)
      BY <1>1, <2>1, <2>2 DEF Ahead
    <3>3. QED
      BY <3>1, <3>2 DEF StoredOf
  <2>4. store[n] \in Seq(Pieces) /\ Piece(x, m) \in Pieces
    BY <1>1, RequestsTyped
  <2>5. /\ Append(store[n], Piece(x, m)) \in Seq(Pieces)
        /\ Len(Append(store[n], Piece(x, m))) = m
        /\ \A i \in DOMAIN Append(store[n], Piece(x, m)) :
              Append(store[n], Piece(x, m))[i] = Piece(x, i)
    <3>1. \A s \in Seq(Pieces) : \A e \in Pieces :
              /\ Append(s, e) \in Seq(Pieces) /\ Len(Append(s, e)) = Len(s) + 1
              /\ DOMAIN Append(s, e) = 1 .. Len(s) + 1 /\ DOMAIN s = 1 .. Len(s)
              /\ \A i \in 1 .. Len(s) + 1 : Append(s, e)[i] = IF i <= Len(s) THEN s[i] ELSE e
      OBVIOUS
    <3> DEFINE t == Append(store[n], Piece(x, m))
    <3>2. /\ t \in Seq(Pieces) /\ Len(t) = Len(store[n]) + 1
          /\ DOMAIN t = 1 .. Len(store[n]) + 1 /\ DOMAIN store[n] = 1 .. Len(store[n])
          /\ \A i \in 1 .. Len(store[n]) + 1 :
                t[i] = IF i <= Len(store[n]) THEN store[n][i] ELSE Piece(x, m)
      BY <2>4, <3>1
    <3>3. \A i \in DOMAIN store[n] : store[n][i] = Piece(x, i)
      BY DEF StoredOf
    <3> HIDE DEF t
    <3>4. ASSUME NEW i \in DOMAIN t PROVE t[i] = Piece(x, i)
      <4>1. CASE i <= Len(store[n])
        BY <1>1, <2>3, <3>2, <3>3, <3>4, <4>1
      <4>2. CASE ~(i <= Len(store[n]))
        <5>1. i = m /\ i \in 1 .. Len(store[n]) + 1
          BY <1>1, <2>3, <3>2, <3>4, <4>2
        <5>2. QED
          BY <3>2, <4>2, <5>1
      <4>3. QED
        BY <4>1, <4>2
    <3>5. Len(t) = m
      BY <1>1, <2>3, <3>2
    <3>6. QED
      BY <3>2, <3>4, <3>5 DEF t
  <2>6. /\ \A i \in DOMAIN store'[n] : store'[n][i] = Piece(x, i)
        /\ q = "record" => Len(store'[n]) = m
    <3>1. CASE store' = store /\ q # "record"
      BY <3>1 DEF StoredOf
    <3>2. CASE store' = [store EXCEPT ![File(c)] = Append(@, piece[c])]
      <4>1. store'[n] = Append(store[n], Piece(x, m))
        BY <1>1, <1>5, <2>2, <3>2
      <4>2. QED
        BY <2>5, <4>1
    <3>3. CASE store' = [store EXCEPT ![File(c)] = <<>>] /\ q # "record"
      <4>1. store'[n] = <<>>
        BY <1>1, <1>5, <3>3
      <4>2. QED
        BY <3>3, <4>1
    <3>4. QED
      BY <1>2, <3>1, <3>2, <3>3
  <2>7. ASSUME NEW i \in Nat \ {0}, Ahead(x, i)' PROVE i > uploads[n].last + 1
    <3>1. UNCHANGED <<todo, sending, number, inbox>> /\ TypeOK
      BY DEF UploadChunk, clientVars, userVars, UploadInv
    <3>2. phase'[From[x]] \notin {"check", "upload"}
      BY <1>3, <2>1
    <3>3. i > m
      BY <1>1, <2>1, <2>2, <2>7, <3>1, <3>2, ChunkPassed
    <3>4. QED
      BY <2>3, <3>3
  <2>8. piece'[c].i = uploads'[n].last + 1 /\ (q = "record" => Len(store'[n]) = piece'[c].i)
    BY <1>1, <2>2, <2>3, <2>6 DEF Piece
  <2>9. \A i \in Nat \ {0} : Ahead(x, i)' =>
            uploads'[n].last < i /\ (i = uploads'[n].last + 1 => Len(store'[n]) = uploads'[n].last)
    BY <1>1, <2>7
  <2>10. phase'[c] \notin Holding \cup {"lock"}
    BY <1>3 DEF Holding
  <2>11. QED
    BY <1>3, <2>1, <2>6, <2>8, <2>9, <2>10 DEF StoredOf
<1>6. QED
  BY <1>4, <1>5

LEMMA RecordStored ==
    ASSUME UploadInv, FiledInv, NEW c \in Clients, RecordChunk(c),
           NEW x \in Transfers, OwnName(x), SentInOrder(x), StoredOf(x),
           \A i \in Nat \ {0} : Ahead(x, i)' => Ahead(x, i)
    PROVE  StoredOf(x)'
<1> DEFINE n == Name[x]
<1>1. /\ phase[c] = "record" /\ phase[c] \in Busy /\ phase[c] \in Handling
      /\ UNCHANGED <<piece, store, todo, sending, number, inbox>>
      /\ phase \in [Clients -> Phases] /\ From[x] \in Clients /\ n \in Names
      /\ uploads \in [Names -> [last : Nat, completed : BOOLEAN]]
      /\ uploads' = [uploads EXCEPT ![File(c)] =
             [last |-> piece[c].i, completed |-> @.completed \/ IsLast(piece[c])]]
  BY TransferAssumption
     DEF RecordChunk, Busy, Handling, clientVars, userVars, localVars, serviceVars, UploadInv, TypeOK
<1>2. /\ phase' = [phase EXCEPT ![c] = IF IsLast(piece[c]) THEN "lock" ELSE "accept"]
      /\ \A d \in Clients \ {c} : phase'[d] = phase[d]
      /\ phase'[c] \in {"lock", "accept"}
      /\ phase'[c] = "lock" => IsLast(piece[c])
  BY <1>1 DEF RecordChunk, Goto
<1>3. CASE File(c) # n
  <2>1. store'[n] = store[n] /\ uploads'[n] = uploads[n]
    BY <1>1, <1>3
  <2>2. CASE c = From[x]
    <3>1. /\ \A i \in DOMAIN store'[n] : store'[n][i] = Piece(x, i)
          /\ \A i \in Nat \ {0} : Ahead(x, i)' =>
                uploads'[n].last < i /\ (i = uploads'[n].last + 1 => Len(store'[n]) = uploads'[n].last)
      BY <1>1, <2>1 DEF StoredOf
    <3>2. piece'[c].x # x
      BY <1>1, <1>3 DEF File
    <3>3. QED
      BY ONLY <2>2, <3>1, <3>2 DEF StoredOf
  <2>3. CASE c # From[x]
    BY <1>1, <1>2, <2>1, <2>3, StoredKept
  <2>4. QED
    BY <2>2, <2>3
<1>4. CASE File(c) = n
  <2>1. c = From[x] /\ piece[c].x = x
    BY <1>1, <1>4, OtherFile
  <2>2. PICK m \in Nat \ {0} : piece[c] = Piece(x, m)
    BY <1>1, <2>1, InHand
  <2>3. Len(store[n]) = m
    BY <1>1, <2>1, <2>2 DEF StoredOf, Piece
  <2>4. uploads'[n].last = m
    BY <1>1, <1>4, <2>2 DEF Piece
  <2>5. \A i \in DOMAIN store'[n] : store'[n][i] = Piece(x, i)
    BY <1>1 DEF StoredOf
  <2>6. \A i \in Nat \ {0} : Ahead(x, i)' => i > m
    <3>1. phase'[From[x]] \notin {"check", "upload"} /\ TypeOK
      BY <1>2, <2>1 DEF UploadInv
    <3>2. QED
      BY <1>1, <2>1, <2>2, <3>1, ChunkPassed
  <2>7. \A i \in Nat \ {0} : Ahead(x, i)' =>
            uploads'[n].last < i /\ (i = uploads'[n].last + 1 => Len(store'[n]) = uploads'[n].last)
    BY <1>1, <2>3, <2>4, <2>6
  <2>8. phase'[c] = "lock" => Len(store'[n]) = Chunks[x]
    BY <1>1, <1>2, <2>2, <2>3 DEF IsLast, Piece
  <2>9. QED
    BY <1>2, <2>1, <2>5, <2>7, <2>8 DEF StoredOf, Holding
<1>5. QED
  BY <1>3, <1>4

LEMMA StepsStored ==
    ASSUME UploadInv, FiledInv, NEW c \in Clients, ClientStep(c) \/ HandlerStep(c),
           NEW x \in Transfers, OwnName(x), SentInOrder(x), StoredOf(x),
           \A i \in Nat \ {0} : Ahead(x, i)' => Ahead(x, i)
    PROVE  StoredOf(x)'
<1> USE DEF clientVars, userVars, localVars, sharedVars, serviceVars
<1>0. TypeOK /\ From[x] \in Clients
  BY TransferAssumption DEF UploadInv
\* Most steps neither store anything nor change an upload state.
<1>1. ASSUME UNCHANGED <<store, uploads>>,
             \A d \in Clients :
                 /\ phase'[d] \in {"upload", "record"} \cup Holding \cup {"lock"} => piece'[d] = piece[d]
                 /\ phase'[d] = "upload" => phase[d] = "upload"
                 /\ phase'[d] = "record" => phase[d] = "record"
                 /\ phase'[d] \in Holding \cup {"lock"} => phase[d] \in Holding \cup {"lock"}
      PROVE  StoredOf(x)'
  BY <1>0, <1>1, StoredKept
<1>2. CASE ClientStep(c)
  <2>1. UNCHANGED <<store, uploads, phase, piece>>
    BY <1>2 DEF ClientStep, Connect, SendFile, NextChunk, Timeout, ReceiveFrame, Leave
  <2>2. QED
    BY <1>1, <2>1
<1>3. CASE ReadRequest(c)
  <2>1. /\ UNCHANGED <<store, uploads>> /\ phase[c] = "reading"
        /\ phase \in [Clients -> Phases]
        /\ piece \in [Clients -> [x : Transfers \cup {None}, i : Nat]]
    BY <1>0, <1>3 DEF ReadRequest, TypeOK
  <2>2. \/ UNCHANGED <<phase, piece>>
        \/ \E p \in {"reading", "lost", "check", "push"} : \E v :
               phase' = [phase EXCEPT ![c] = p] /\ piece' = [piece EXCEPT ![c] = v]
    BY <1>3 DEF ReadRequest, Return, Goto
  <2>3. CASE UNCHANGED <<phase, piece>>
    BY <1>1, <2>1, <2>3
  <2>4. ASSUME NEW p \in {"reading", "lost", "check", "push"}, NEW v,
               phase' = [phase EXCEPT ![c] = p], piece' = [piece EXCEPT ![c] = v]
        PROVE  StoredOf(x)'
    <3>1. phase'[c] = p /\ \A d \in Clients \ {c} : phase'[d] = phase[d] /\ piece'[d] = piece[d]
      BY <2>1, <2>4
    <3>2. p \notin {"upload", "record"} \cup Holding \cup {"lock"}
      BY DEF Holding
    <3>3. QED
      BY <1>1, <2>1, <3>1, <3>2
  <2>5. QED
    BY <2>2, <2>3, <2>4
<1>4. CASE ResetUpload(c)
  BY <1>4, ResetStored
<1>5. CASE CheckOrder(c)
  BY <1>5, CheckStored
<1>6. CASE UploadChunk(c)
  BY <1>6, UploadStored
<1>7. CASE RecordChunk(c)
  BY <1>7, RecordStored
<1>8. CASE \/ EndOfStream(c) \/ PushPending(c) \/ LockPending(c) \/ NotifyReceiver(c)
           \/ DownloadChunks(c) \/ ForwardChunk(c) \/ ErasePending(c) \/ AnswerChunk(c)
  <2>1. UNCHANGED <<store, uploads>>
    BY <1>8 DEF EndOfStream, PushPending, LockPending, NotifyReceiver, DownloadChunks,
                ForwardChunk, ErasePending, AnswerChunk
  <2>2. phase[c] \notin {"check", "upload", "record"}
    BY <1>8 DEF EndOfStream, PushPending, LockPending, NotifyReceiver, DownloadChunks,
                ForwardChunk, ErasePending, AnswerChunk
  <2>3. /\ \A d \in Clients \ {c} : phase'[d] = phase[d] /\ piece'[d] = piece[d]
        /\ phase'[c] \in Busy => piece'[c] = piece[c]
        /\ phase'[c] = "upload" => phase[c] = "check"
        /\ phase'[c] = "record" => phase[c] = "upload"
        /\ phase'[c] = "lock" => phase[c] = "record"
        /\ phase'[c] \in Holding => phase[c] \in Holding \cup {"lock"}
    BY <1>0, <1>8, HandlerGoesOn DEF ChunkStep
  <2>4. Holding \subseteq Busy /\ {"upload", "record", "lock"} \subseteq Busy
    BY DEF Holding, Busy
  <2>5. QED
    BY <1>1, <2>1, <2>2, <2>3, <2>4
<1>9. QED
  BY <1>2, <1>3, <1>4, <1>5, <1>6, <1>7, <1>8 DEF HandlerStep, ChunkStep

\* The chunks of each file go from its sender to the store in the order of their numbers,
\* whatever is lost, given up, announced late or acknowledged too early on the way.
THEOREM StoredInvariant == Spec => []StoredInv
<1>1. Init => StoredInv
  <2> SUFFICES ASSUME Init, NEW x \in Transfers
               PROVE  SentInOrder(x) /\ (OwnName(x) => StoredOf(x))
    BY DEF StoredInv
  <2>1. /\ From[x] \in Clients /\ Name[x] \in Names
        /\ phase[From[x]] = "reading" /\ DOMAIN inbox[From[x]] = {}
        /\ sending[From[x]] = None /\ x # None
        /\ store[Name[x]] = <<>> /\ uploads[Name[x]].last = 0
    BY TransferAssumption DEF Init, Fresh
  <2>2. SentInOrder(x)
    BY <2>1 DEF SentInOrder, Busy
  <2>3. StoredOf(x)
    BY <2>1 DEF StoredOf, Holding
  <2>4. QED
    BY <2>2, <2>3
<1>2. UploadInv /\ UploadInv' /\ FiledInv /\ StoredInv /\ [Next]_vars => StoredInv'
  <2> SUFFICES ASSUME UploadInv, UploadInv', FiledInv, StoredInv, [Next]_vars
               PROVE  StoredInv'
    OBVIOUS
  <2>1. CASE UNCHANGED vars
    <3>1. UNCHANGED <<todo, sending, number, inbox, phase, piece, store, uploads>>
      BY <2>1 DEF vars, clientVars, userVars, localVars, sharedVars, serviceVars
    <3>2. ASSUME NEW x \in Transfers PROVE SentInOrder(x)' /\ (OwnName(x) => StoredOf(x)')
      <4>1. SentInOrder(x)' /\ \A i \in Nat \ {0} : Ahead(x, i)' => Ahead(x, i)
        BY <3>1 DEF StoredInv, SentInOrder, Ahead
      <4>2. OwnName(x) => StoredOf(x)'
        BY <3>1, <4>1, StoredKept DEF StoredInv
      <4>3. QED
        BY <4>1, <4>2
    <3>3. QED
      BY <3>2 DEF StoredInv, OwnName
  <2>2. ASSUME NEW c \in Clients, ClientStep(c) \/ HandlerStep(c) PROVE StoredInv'
    <3>1. ASSUME NEW x \in Transfers PROVE SentInOrder(x)' /\ (OwnName(x) => StoredOf(x)')
      <4>1. SentInOrder(x)' /\ \A i \in Nat \ {0} : Ahead(x, i)' => Ahead(x, i)
        BY <2>2, StepsInOrder DEF StoredInv, UploadInv
      <4>2. OwnName(x) => StoredOf(x)'
        BY <2>2, <4>1, StepsStored DEF StoredInv
      <4>3. QED
        BY <4>1, <4>2
    <3>2. QED
      BY <3>1 DEF StoredInv, OwnName
  <2>3. QED
    BY <2>1, <2>2 DEF Next
<1>3. QED
  BY <1>1, <1>2, UploadInvariant, FiledInvariant, PTL DEF Spec

\* If nobody else uses the name, the file server holds the chunks of a file in order and
\* from the first.
THEOREM FilesStoredInOrder == Spec => []StoredInOrder
<1>1. StoredInv => StoredInOrder
  BY DEF StoredInv, StoredOf, StoredInOrder
<1>2. QED
  BY <1>1, StoredInvariant, PTL

-----------------------------------------------------------------------------
(* What the receivers write.                                               *)

\* What the file n of a client is like after some of the frames on their way to it: how
\* long, and whether it is open.
States == [len : Nat, open : BOOLEAN]

\* Frame f takes it from s to t; a chunk that is written is the next of the stored file.
Advances(f, n, s, t) ==
    \/ /\ f.kind = "incoming_file" /\ f.name = n
       /\ t = [len |-> 0, open |-> TRUE]
    \/ /\ f.kind = "file_chunk" /\ f.name = n /\ s.open
       /\ t = [len |-> s.len + 1, open |-> ~f.last]
       /\ \/ f.p = ErrorPage /\ s.len = 0 /\ f.last
          \/ s.len + 1 <= Len(store[n]) /\ f.p = store[n][s.len + 1]
       /\ f.last /\ faults = 0 =>
             \A x \in Transfers : OwnName(x) /\ Name[x] = n => s.len + 1 = Chunks[x]
    \/ /\ \/ f.kind \in {"acknowledged", "rejected"}
          \/ f.kind \in {"incoming_file", "file_chunk"} /\ f.name # n
          \/ f.kind = "file_chunk" /\ ~s.open
       /\ t = s

\* What the handler h that delivers n is yet to write goes on from s.
GoesOnFrom(h, n, s) ==
    /\ phase[h] = "download" => s.len = 0 /\ s.open
    /\ phase[h] = "forward" =>
          /\ s.open
          /\ \/ goods[h] = <<ErrorPage>> /\ s.len = 0
             \/ /\ s.len + Len(goods[h]) <= Len(store[n])
                /\ \A k \in 1 .. Len(goods[h]) : goods[h][k] = store[n][s.len + k]
          /\ faults = 0 =>
             \A x \in Transfers : OwnName(x) /\ Name[x] = n => s.len + Len(goods[h]) = Chunks[x]

Delivers(h, d, n) == phase[h] \in {"download", "forward"} /\ Receiver(h) = d /\ File(h) = n

EndsWell(d, n, s) == \A h \in Clients : Delivers(h, d, n) => GoesOnFrom(h, n, s)

\* The frames of q take the file through the states st.
Course(q, st, n) ==
    /\ st \in [0 .. Len(q) -> States]
    /\ \A i \in 1 .. Len(q) : Advances(q[i], n, st[i - 1], st[i])

\* The frames on their way to d take its file n from what it is now to where the handler
\* that delivers it, if one does, goes on.
StreamOf(d, n) ==
    \E q \in Seq(Frames) : \E st :
        /\ q = outbox[d]
        /\ Course(q, st, n)
        /\ st[0] = [len |-> Len(disk[d][n]), open |-> n \in opened[d]]
        /\ EndsWell(d, n, st[Len(q)])

\* What a client has written is a beginning of what is stored, and when it is closed
\* and nothing failed, all of it.
DiskOf(d, n) ==
    /\ \/ disk[d][n] = <<ErrorPage>> /\ n \notin opened[d]
       \/ /\ Len(disk[d][n]) <= Len(store[n])
          /\ \A i \in 1 .. Len(disk[d][n]) : disk[d][n][i] = store[n][i]
    /\ faults = 0 /\ disk[d][n] # <<>> /\ n \notin opened[d] =>
          \A x \in Transfers : OwnName(x) /\ Name[x] = n => Len(disk[d][n]) = Chunks[x]

MatchNamed == \A h \in Clients : phase[h] \in Holding => Name[match[h]] = File(h)

DeliveryInv ==
    /\ MatchNamed
    /\ \A d \in Clients : \A n \in Names \ removed :
          DiskOf(d, n) /\ (conn[d] # "gone" => StreamOf(d, n))

\* A stored file that is not removed only grows.
Grows(n) ==
    /\ Len(store[n]) <= Len(store'[n])
    /\ \A i \in 1 .. Len(store[n]) : store'[n][i] = store[n][i]
    /\ faults' = 0 => faults = 0

LEMMA StoreGrows ==
    ASSUME TypeOK, TypeOK', NEW c \in Clients, ClientStep(c) \/ HandlerStep(c) \/ UNCHANGED vars,
           NEW n \in Names \ removed'
    PROVE  Grows(n) /\ n \notin removed
<1> USE DEF clientVars, userVars, localVars, sharedVars, serviceVars
<1>0. /\ store \in [Names -> Seq(Pieces)] /\ Len(store[n]) \in Nat
      /\ faults \in Nat
  BY LenProperties, TransferAssumption DEF TypeOK
<1>1. CASE UNCHANGED <<store, removed, faults>>
  BY <1>0, <1>1 DEF Grows
<1>2. CASE UploadChunk(c)
  <2>1. CASE removed' = removed /\ (faults' = faults \/ faults' = faults + 1) /\
             store' \in {store, [store EXCEPT ![File(c)] = Append(@, piece[c])]}
    <3>1. CASE store'[n] = store[n]
      BY <1>0, <2>1, <3>1 DEF Grows
    <3>2. CASE store'[n] = Append(store[n], piece[c])
      <4>1. \A s \in Seq(Pieces) : \A e :
                Len(Append(s, e)) = Len(s) + 1 /\ \A i \in 1 .. Len(s) : Append(s, e)[i] = s[i]
        OBVIOUS
      <4>2. QED
        BY <1>0, <2>1, <3>2, <4>1 DEF Grows
    <3>3. QED
      BY <1>0, <2>1, <3>1, <3>2
  <2>2. CASE /\ store' = [store EXCEPT ![File(c)] = <<>>] /\ removed' = removed \cup {File(c)}
             /\ faults' = faults + 1
    BY <1>0, <2>2 DEF Grows
  <2>3. QED
    BY <1>2, <2>1, <2>2 DEF UploadChunk, FailUpload
<1>3. CASE DownloadChunks(c)
  BY <1>0, <1>3 DEF DownloadChunks, Grows
<1>4. CASE ClientStep(c)
  BY <1>1, <1>4 DEF ClientStep, Connect, SendFile, NextChunk, Timeout, ReceiveFrame, Leave
<1>5. CASE \/ ReadRequest(c) \/ EndOfStream(c) \/ PushPending(c) \/ ResetUpload(c)
           \/ CheckOrder(c) \/ RecordChunk(c) \/ LockPending(c) \/ NotifyReceiver(c)
           \/ ForwardChunk(c) \/ ErasePending(c) \/ AnswerChunk(c)
  BY <1>1, <1>5 DEF ReadRequest, EndOfStream, PushPending, ResetUpload, CheckOrder, RecordChunk,
     LockPending, NotifyReceiver, ForwardChunk, ErasePending, AnswerChunk
<1>6. QED
  BY <1>1, <1>2, <1>3, <1>4, <1>5 DEF HandlerStep, ChunkStep, vars

\* As it grows, the frames advance as they did, and the disks stay a beginning of it.
LEMMA AdvancesKept ==
    ASSUME NEW n \in Names, Len(store[n]) \in Nat, Len(store'[n]) \in Nat, Grows(n),
           NEW f, NEW s \in States, NEW t, Advances(f, n, s, t)
    PROVE  Advances(f, n, s, t)'
<1>1. s.len \in Nat
  BY DEF States
<1>2. ASSUME s.len + 1 <= Len(store[n]) /\ f.p = store[n][s.len + 1]
      PROVE  s.len + 1 <= Len(store'[n]) /\ f.p = store'[n][s.len + 1]
  BY <1>1, <1>2 DEF Grows
<1>3. QED
  BY <1>2 DEF Advances, Grows

LEMMA DiskKept ==
    ASSUME TypeOK, NEW d \in Clients, NEW n \in Names, Len(store[n]) \in Nat, Len(store'[n]) \in Nat,
           Grows(n), DiskOf(d, n),
           disk'[d][n] = disk[d][n], n \in opened'[d] <=> n \in opened[d]
    PROVE  DiskOf(d, n)'
<1>1. Len(disk[d][n]) \in Nat
  BY LenProperties DEF TypeOK
<1>2. ASSUME /\ Len(disk[d][n]) <= Len(store[n])
             /\ \A i \in 1 .. Len(disk[d][n]) : disk[d][n][i] = store[n][i]
      PROVE  /\ Len(disk[d][n]) <= Len(store'[n])
             /\ \A i \in 1 .. Len(disk[d][n]) : disk[d][n][i] = store'[n][i]
  BY <1>1, <1>2 DEF Grows
<1>3. QED
  BY <1>2 DEF DiskOf, Grows

LEMMA CourseKept ==
    ASSUME NEW n \in Names, Len(store[n]) \in Nat, Len(store'[n]) \in Nat, Grows(n),
           NEW q \in Seq(Frames), NEW st, Course(q, st, n)
    PROVE  Course(q, st, n)'
<1>1. Len(q) \in Nat /\ st \in [0 .. Len(q) -> States]
  BY LenProperties DEF Course
<1>2. ASSUME NEW i \in 1 .. Len(q) PROVE Advances(q[i], n, st[i - 1], st[i])'
  <2>1. st[i - 1] \in States
    BY <1>1
  <2>2. PICK f, s, t : f = q[i] /\ s = st[i - 1] /\ t = st[i]
    OBVIOUS
  <2>3. Advances(f, n, s, t)
    BY <2>2 DEF Course
  <2>4. Advances(f, n, s, t)'
    BY <2>1, <2>2, <2>3, AdvancesKept
  <2>5. QED
    BY <2>2, <2>4
<1>3. QED
  BY <1>1, <1>2 DEF Course

\* Nothing comes to a client and it takes nothing.
LEMMA StreamKept ==
    ASSUME NEW d \in Clients, NEW n \in Names, Len(store[n]) \in Nat, Len(store'[n]) \in Nat,
           Grows(n), StreamOf(d, n),
           outbox'[d] = outbox[d], disk'[d][n] = disk[d][n],
           (n \in opened'[d]) = (n \in opened[d]),
           \A s \in States : EndsWell(d, n, s) => EndsWell(d, n, s)'
    PROVE  StreamOf(d, n)'
<1>0. PICK q \in Seq(Frames) : \E st :
              /\ q = outbox[d]
              /\ Course(q, st, n)
              /\ st[0] = [len |-> Len(disk[d][n]), open |-> n \in opened[d]]
              /\ EndsWell(d, n, st[Len(q)])
  BY DEF StreamOf
<1>1. PICK st :
          /\ q = outbox[d]
          /\ Course(q, st, n)
          /\ st[0] = [len |-> Len(disk[d][n]), open |-> n \in opened[d]]
          /\ EndsWell(d, n, st[Len(q)])
  BY <1>0
<1>2. Course(q, st, n)'
  BY <1>1, CourseKept
<1>3. st[Len(q)] \in States
  BY <1>1, LenProperties DEF Course
<1>4. EndsWell(d, n, st[Len(q)])'
  BY <1>1, <1>3
<1>5. QED
  BY <1>1, <1>2, <1>4 DEF StreamOf

\* A frame is written to a client, after which the handlers go on from where it leads.
LEMMA StreamAppended ==
    ASSUME NEW d \in Clients, NEW n \in Names, Len(store[n]) \in Nat, Len(store'[n]) \in Nat,
           Grows(n), StreamOf(d, n), NEW f \in Frames,
           outbox'[d] = Append(outbox[d], f), disk'[d][n] = disk[d][n],
           (n \in opened'[d]) = (n \in opened[d]),
           \A s \in States : EndsWell(d, n, s) =>
               \E t \in States : Advances(f, n, s, t)' /\ EndsWell(d, n, t)'
    PROVE  StreamOf(d, n)'
<1>0. PICK q \in Seq(Frames) : \E st :
              /\ q = outbox[d]
              /\ Course(q, st, n)
              /\ st[0] = [len |-> Len(disk[d][n]), open |-> n \in opened[d]]
              /\ EndsWell(d, n, st[Len(q)])
  BY DEF StreamOf
<1>1. PICK st :
          /\ q = outbox[d]
          /\ Course(q, st, n)
          /\ st[0] = [len |-> Len(disk[d][n]), open |-> n \in opened[d]]
          /\ EndsWell(d, n, st[Len(q)])
  BY <1>0
<1>2. /\ Course(q, st, n)' /\ Len(q) \in Nat
      /\ st \in [0 .. Len(q) -> States] /\ st[Len(q)] \in States
  <2>1. Course(q, st, n)' /\ Len(q) \in Nat
    BY <1>1, CourseKept, LenProperties
  <2>2. st \in [0 .. Len(q) -> States]
    BY <1>1 DEF Course
  <2>3. Len(q) \in 0 .. Len(q)
    BY <2>1
  <2>4. QED
    BY <2>1, <2>2, <2>3
<1>3. PICK t \in States : Advances(f, n, st[Len(q)], t)' /\ EndsWell(d, n, t)'
  BY <1>1, <1>2
<1> DEFINE m == Len(q)
           r == Append(q, f)
           su == [i \in 0 .. m + 1 |-> IF i <= m THEN st[i] ELSE t]
<1>4. /\ r \in Seq(Frames) /\ Len(r) = m + 1 /\ r[m + 1] = f
      /\ \A i \in 1 .. m : r[i] = q[i]
  BY AppendProperties
<1>5. /\ su \in [0 .. m + 1 -> States] /\ su[m + 1] = t
      /\ \A i \in 0 .. m : su[i] = st[i]
  BY <1>2
<1>6. r = outbox'[d]
  BY <1>1
<1> HIDE DEF r, su
<1>7. ASSUME NEW i \in 1 .. m + 1 PROVE Advances(r[i], n, su[i - 1], su[i])'
  <2>1. CASE i \in 1 .. m
    <3>1. r[i] = q[i] /\ su[i - 1] = st[i - 1] /\ su[i] = st[i]
      <4>1. i \in 0 .. m /\ i - 1 \in 0 .. m
        BY <1>2, <2>1
      <4>2. QED
        BY <1>4, <1>5, <2>1, <4>1
    <3>2. Advances(q[i], n, st[i - 1], st[i])'
      BY <1>2, <2>1 DEF Course
    <3>3. QED
      BY <3>1, <3>2
  <2>2. CASE i = m + 1
    <3>1. r[i] = f /\ su[i - 1] = st[m] /\ su[i] = t
      BY <1>2, <1>4, <1>5, <2>2
    <3>2. QED
      BY <1>3, <3>1
  <2>3. QED
    BY <1>2, <2>1, <2>2
<1>8. Course(r, su, n)'
  BY <1>4, <1>5, <1>7 DEF Course
<1>9. su[0] = [len |-> Len(disk'[d][n]), open |-> n \in opened'[d]]
  <2>1. su[0] = st[0]
    BY <1>2, <1>5
  <2>2. QED
    BY <1>1, <2>1
<1>10. EndsWell(d, n, su[Len(r)])'
  BY <1>3, <1>4, <1>5
<1>11. QED
  BY <1>4, <1>6, <1>8, <1>9, <1>10 DEF StreamOf

\* A client takes a frame, which has the effect on its disk that it has on the course.
LEMMA StreamTaken ==
    ASSUME NEW d \in Clients, NEW n \in Names, Len(store[n]) \in Nat, Len(store'[n]) \in Nat,
           Grows(n), StreamOf(d, n), outbox[d] # <<>>, outbox'[d] = Tail(outbox[d]),
           NEW f, f = Head(outbox[d]),
           NEW s, s = [len |-> Len(disk[d][n]), open |-> n \in opened[d]],
           \A t \in States : Advances(f, n, s, t) =>
               t = [len |-> Len(disk'[d][n]), open |-> n \in opened'[d]],
           \A e \in States : EndsWell(d, n, e) => EndsWell(d, n, e)'
    PROVE  /\ StreamOf(d, n)'
           /\ f \in Frames /\ s \in States
           /\ \E t \in States : Advances(f, n, s, t)
<1>0. PICK q \in Seq(Frames) : \E st :
              /\ q = outbox[d]
              /\ Course(q, st, n)
              /\ st[0] = s
              /\ EndsWell(d, n, st[Len(q)])
  BY DEF StreamOf
<1>1. PICK st :
          /\ q = outbox[d]
          /\ Course(q, st, n)
          /\ st[0] = s
          /\ EndsWell(d, n, st[Len(q)])
  BY <1>0
<1> DEFINE m == Len(q) - 1
           r == Tail(q)
           su == [i \in 0 .. m |-> st[i + 1]]
<1>2. /\ Len(q) \in Nat \ {0} /\ m \in Nat /\ Len(q) = m + 1
      /\ r \in Seq(Frames) /\ Len(r) = m
      /\ \A i \in 1 .. m : r[i] = q[i + 1]
      /\ q[1] = f /\ f \in Frames
  <2>1. Len(q) \in Nat /\ Len(q) # 0
    BY <1>1, EmptySeq, LenProperties
  <2>2. q # <<>>
    BY <1>1
  <2>3. \A z \in Seq(Frames) : z # <<>> =>
            /\ Tail(z) \in Seq(Frames) /\ Len(Tail(z)) = Len(z) - 1
            /\ \A i \in 1 .. Len(z) - 1 : Tail(z)[i] = z[i + 1]
            /\ Head(z) = z[1] /\ Head(z) \in Frames
    BY HeadTailProperties
  <2>4. QED
    BY <1>1, <2>1, <2>2, <2>3
<1>3. /\ st \in [0 .. m + 1 -> States] /\ st[m + 1] \in States
      /\ s \in States /\ st[1] \in States
  <2>1. st \in [0 .. m + 1 -> States]
    BY <1>1, <1>2 DEF Course
  <2>2. 0 \in 0 .. m + 1 /\ 1 \in 0 .. m + 1 /\ m + 1 \in 0 .. m + 1
    BY <1>2
  <2>3. st[0] \in States /\ st[1] \in States /\ st[m + 1] \in States
    BY ONLY <2>1, <2>2
  <2>4. QED
    BY <1>1, <2>1, <2>3
<1>4. Advances(f, n, s, st[1])
  <2>1. 1 \in 1 .. Len(q) /\ 1 - 1 = 0
    BY <1>2
  <2>2. Advances(q[1], n, st[1 - 1], st[1])
    BY <1>1, <2>1 DEF Course
  <2>3. QED
    BY <1>1, <1>2, <2>1, <2>2
<1>5. su \in [0 .. m -> States] /\ su[m] = st[m + 1]
      /\ \A i \in 0 .. m : su[i] = st[i + 1]
  BY <1>2, <1>3
<1>6. r = outbox'[d]
  BY <1>1
<1>7. Course(q, st, n)'
  BY <1>1, CourseKept
<1> HIDE DEF r, su, m
<1>8. ASSUME NEW i \in 1 .. m PROVE Advances(r[i], n, su[i - 1], su[i])'
  <2>1. r[i] = q[i + 1] /\ su[i - 1] = st[i] /\ su[i] = st[i + 1]
    BY <1>2, <1>5
  <2>2. i + 1 \in 1 .. Len(q) /\ i + 1 - 1 = i
    BY <1>2
  <2>3. Advances(q[i + 1], n, st[i + 1 - 1], st[i + 1])'
    BY <1>7, <2>2 DEF Course
  <2>4. QED
    BY <2>1, <2>2, <2>3
<1>9. Course(r, su, n)'
  BY <1>2, <1>5, <1>8 DEF Course
<1>10. su[0] = [len |-> Len(disk'[d][n]), open |-> n \in opened'[d]]
  <2>1. su[0] = st[1]
    BY <1>2, <1>5
  <2>2. QED
    BY <1>3, <1>4, <2>1
<1>11. EndsWell(d, n, su[Len(r)])'
  BY <1>1, <1>2, <1>3, <1>5
<1>12. StreamOf(d, n)'
  BY <1>2, <1>6, <1>9, <1>10, <1>11 DEF StreamOf
<1>13. QED
  BY <1>2, <1>3, <1>4, <1>12

\* Where the handlers go on, if they have not moved.
LEMMA EndsKept ==
    ASSUME TypeOK, NEW d \in Clients, NEW n \in Names,
           Len(store[n]) \in Nat, Len(store'[n]) \in Nat, Grows(n),
           NEW s \in States, EndsWell(d, n, s),
           \A h \in Clients : Delivers(h, d, n)' =>
               Delivers(h, d, n) /\ phase'[h] = phase[h] /\ goods'[h] = goods[h]
    PROVE  EndsWell(d, n, s)'
<1> SUFFICES ASSUME NEW h \in Clients, Delivers(h, d, n)' PROVE GoesOnFrom(h, n, s)'
  BY DEF EndsWell
<1>1. GoesOnFrom(h, n, s) /\ phase'[h] = phase[h] /\ goods'[h] = goods[h]
  BY DEF EndsWell
<1>2. Len(goods[h]) \in Nat /\ s.len \in Nat
  BY LenProperties DEF TypeOK, States
<1>3. ASSUME /\ s.len + Len(goods[h]) <= Len(store[n])
             /\ \A k \in 1 .. Len(goods[h]) : goods[h][k] = store[n][s.len + k]
      PROVE  /\ s.len + Len(goods[h]) <= Len(store'[n])
             /\ \A k \in 1 .. Len(goods[h]) : goods[h][k] = store'[n][s.len + k]
  <2>1. s.len + Len(goods[h]) <= Len(store'[n])
    BY <1>2, <1>3 DEF Grows
  <2>2. ASSUME NEW k \in 1 .. Len(goods[h]) PROVE goods[h][k] = store'[n][s.len + k]
    <3>1. s.len + k \in 1 .. Len(store[n])
      BY <1>2, <1>3
    <3>2. store'[n][s.len + k] = store[n][s.len + k]
      BY <3>1 DEF Grows
    <3>3. QED
      BY <1>3, <3>2
  <2>3. QED
    BY <2>1, <2>2
<1>4. QED
  BY <1>1, <1>3 DEF GoesOnFrom, Grows

\* The transfer a handler found has the name of its file.
LEMMA MatchKept ==
    ASSUME UploadInv, MatchNamed, NEW c \in Clients,
           ClientStep(c) \/ HandlerStep(c) \/ UNCHANGED vars
    PROVE  MatchNamed'
<1> USE DEF clientVars, userVars, localVars, sharedVars, serviceVars
<1>0. /\ TypeOK /\ phase \in [Clients -> Phases] /\ entry \in [Clients -> Nat]
      /\ match \in [Clients -> Transfers \cup {None}]
      /\ piece \in [Clients -> [x : Transfers \cup {None}, i : Nat]]
  BY DEF UploadInv, TypeOK
<1>1. ASSUME \A h \in Clients : phase'[h] \in Holding =>
                phase[h] \in Holding /\ match'[h] = match[h] /\ piece'[h] = piece[h]
      PROVE  MatchNamed'
  BY <1>1 DEF MatchNamed, File
<1>2. CASE UNCHANGED <<phase, match, piece>>
  BY <1>1, <1>2
<1>3. CASE ClientStep(c)
  <2>1. UNCHANGED <<phase, match, piece>>
    BY <1>3 DEF ClientStep, Connect, SendFile, NextChunk, Timeout, ReceiveFrame, Leave
  <2>2. QED
    BY <1>1, <2>1
<1>4. CASE ReadRequest(c)
  <2>1. UNCHANGED <<phase, match, piece>> \/
        /\ match' = match
        /\ \E p \in {"reading", "lost", "check", "push"} : \E v :
               phase' = [phase EXCEPT ![c] = p] /\ piece' = [piece EXCEPT ![c] = v]
    BY <1>4 DEF ReadRequest, Return, Goto
  <2>2. ASSUME NEW p \in {"reading", "lost", "check", "push"}, NEW v, match' = match,
               phase' = [phase EXCEPT ![c] = p], piece' = [piece EXCEPT ![c] = v]
        PROVE  MatchNamed'
    <3>1. phase'[c] = p /\ \A h \in Clients \ {c} : phase'[h] = phase[h] /\ piece'[h] = piece[h]
      BY <1>0, <2>2
    <3>2. QED
      BY <1>1, <2>2, <3>1 DEF Holding
  <2>3. QED
    BY <1>2, <2>1, <2>2
<1>5. CASE LockPending(c)
  <2>1. CASE match' = match /\ phase' = [phase EXCEPT ![c] = "accept"]
    BY <1>0, <1>1, <1>5, <2>1 DEF LockPending, Holding
  <2>2. CASE /\ Matching(File(c)) # {}
             /\ match' = [match EXCEPT ![c] = pending[FirstMatching(File(c))]]
             /\ phase' = [phase EXCEPT ![c] = "notify"]
    <3>1. File(c) \in Names /\ pending \in Seq(Transfers)
      BY <1>0, <1>5, TransferAssumption
         DEF LockPending, UploadInv, TypeOK, LocalsBound, Handling, Pieces, File
    <3>2. Name[pending[FirstMatching(File(c))]] = File(c)
      BY <2>2, <3>1, FirstMatchingFound
    <3>4. /\ match'[c] = pending[FirstMatching(File(c))] /\ phase'[c] = "notify"
          /\ \A h \in Clients \ {c} : match'[h] = match[h] /\ phase'[h] = phase[h]
      BY <1>0, <2>2
    <3>5. piece' = piece
      BY <1>5 DEF LockPending
    <3>6. QED
      BY <3>2, <3>4, <3>5 DEF MatchNamed, File
  <2>3. QED
    BY <1>5, <2>1, <2>2 DEF LockPending, Goto
<1>6. CASE NotifyReceiver(c)
  <2>1. phase[c] \in Holding /\ piece' = piece
    BY <1>6 DEF NotifyReceiver, Holding
  <2>2. CASE UNCHANGED match /\ phase' = [phase EXCEPT ![c] = "download"]
    BY <1>0, <1>1, <2>1, <2>2 DEF Holding
  <2>3. CASE match' = [match EXCEPT ![c] = None] /\ phase' = [phase EXCEPT ![c] = "accept"]
    BY <1>0, <1>1, <2>1, <2>3 DEF Holding
  <2>4. QED
    BY <1>6, <2>2, <2>3 DEF NotifyReceiver, Unlock, Goto
<1>7. CASE ErasePending(c)
  <2>1. /\ piece' = piece /\ match' = [match EXCEPT ![c] = None]
        /\ phase' = [phase EXCEPT ![c] = "accept"]
    BY <1>7 DEF ErasePending, Unlock, Goto
  <2>2. QED
    BY <1>0, <1>1, <2>1 DEF Holding
<1>8. CASE \/ EndOfStream(c) \/ PushPending(c) \/ ResetUpload(c) \/ CheckOrder(c) \/ UploadChunk(c)
           \/ RecordChunk(c) \/ DownloadChunks(c) \/ ForwardChunk(c) \/ AnswerChunk(c)
  <2>1. match' = match /\ phase[c] # "lock"
    BY <1>8 DEF EndOfStream, PushPending, ResetUpload, CheckOrder, UploadChunk, RecordChunk,
                DownloadChunks, ForwardChunk, AnswerChunk
  <2>2. /\ \A d \in Clients \ {c} : phase'[d] = phase[d] /\ piece'[d] = piece[d]
        /\ phase'[c] \in Busy => piece'[c] = piece[c]
        /\ phase'[c] \in Holding => phase[c] \in Holding \cup {"lock"}
    BY <1>0, <1>8, HandlerGoesOn DEF ChunkStep
  <2>3. QED
    BY <1>1, <2>1, <2>2 DEF Busy, Holding
<1>9. QED
  BY <1>2, <1>3, <1>4, <1>5, <1>6, <1>7, <1>8 DEF HandlerStep, ChunkStep, vars

\* What every step may rely on for a file that is not removed.
LEMMA FileKnown ==
    ASSUME UploadInv, UploadInv', DeliveryInv, NEW c \in Clients,
           ClientStep(c) \/ HandlerStep(c) \/ UNCHANGED vars,
           NEW d \in Clients, NEW n \in Names \ removed'
    PROVE  /\ Grows(n) /\ Len(store[n]) \in Nat /\ Len(store'[n]) \in Nat
           /\ DiskOf(d, n) /\ (conn[d] # "gone" => StreamOf(d, n))
<1>1. Grows(n) /\ n \notin removed
  BY StoreGrows DEF UploadInv
<1>2. store[n] \in Seq(Pieces) /\ store'[n] \in Seq(Pieces)
  BY DEF UploadInv, TypeOK
<1>3. QED
  BY <1>1, <1>2, LenProperties DEF DeliveryInv

\* A step that neither writes to a client nor comes to a delivery.
LEMMA DeliveryKept ==
    ASSUME UploadInv, UploadInv', DeliveryInv, NEW c \in Clients,
           ClientStep(c) \/ HandlerStep(c) \/ UNCHANGED vars,
           UNCHANGED <<disk, opened>>,
           \A d \in Clients : conn'[d] # "gone" => conn[d] # "gone" /\ outbox'[d] = outbox[d],
           \A h \in Clients : phase'[h] \in {"download", "forward"} =>
               /\ phase'[h] = phase[h] /\ goods'[h] = goods[h]
               /\ match'[h] = match[h] /\ piece'[h] = piece[h]
    PROVE  DeliveryInv'
<1>1. MatchNamed'
  BY MatchKept DEF DeliveryInv
<1>2. ASSUME NEW d \in Clients, NEW n \in Names \ removed'
      PROVE  DiskOf(d, n)' /\ (conn'[d] # "gone" => StreamOf(d, n)')
  <2>1. /\ Grows(n) /\ Len(store[n]) \in Nat /\ Len(store'[n]) \in Nat
        /\ DiskOf(d, n) /\ (conn[d] # "gone" => StreamOf(d, n))
    BY FileKnown
  <2>2. TypeOK
    BY DEF UploadInv
  <2>3. DiskOf(d, n)'
    BY <2>1, <2>2, DiskKept
  <2>4. \A h \in Clients : Delivers(h, d, n)' =>
            Delivers(h, d, n) /\ phase'[h] = phase[h] /\ goods'[h] = goods[h]
    BY DEF Delivers, Receiver, File
  <2>5. \A s \in States : EndsWell(d, n, s) => EndsWell(d, n, s)'
    BY <2>1, <2>2, <2>4, EndsKept
  <2>6. ASSUME conn'[d] # "gone" PROVE StreamOf(d, n)'
    BY <2>1, <2>5, <2>6, StreamKept
  <2>7. QED
    BY <2>3, <2>6
<1>3. QED
  BY <1>1, <1>2 DEF DeliveryInv

\* A step that writes f to e, after which the handlers go on from where f leads.
LEMMA DeliveryWritten ==
    ASSUME UploadInv, UploadInv', DeliveryInv, NEW c \in Clients, HandlerStep(c),
           UNCHANGED <<disk, opened, conn>>, NEW e \in Clients, NEW f \in Frames, Write(e, f),
           \A n \in Names \ removed' : \A s \in States : EndsWell(e, n, s) =>
               \E t \in States : Advances(f, n, s, t)' /\ EndsWell(e, n, t)',
           \A h \in Clients : phase'[h] \in {"download", "forward"} =>
               \/ Receiver(h)' = e
               \/ /\ phase'[h] = phase[h] /\ goods'[h] = goods[h]
                  /\ match'[h] = match[h] /\ piece'[h] = piece[h]
    PROVE  DeliveryInv'
<1>1. MatchNamed'
  BY MatchKept DEF DeliveryInv
<1>2. ASSUME NEW d \in Clients, NEW n \in Names \ removed'
      PROVE  DiskOf(d, n)' /\ (conn'[d] # "gone" => StreamOf(d, n)')
  <2>1. /\ Grows(n) /\ Len(store[n]) \in Nat /\ Len(store'[n]) \in Nat
        /\ DiskOf(d, n) /\ (conn[d] # "gone" => StreamOf(d, n))
    BY FileKnown
  <2>2. TypeOK /\ outbox \in [Clients -> Seq(Frames)]
    BY DEF UploadInv, TypeOK
  <2>3. DiskOf(d, n)'
    BY <2>1, <2>2, DiskKept
  <2>4. CASE conn[d] = "gone"
    BY <2>3, <2>4
  <2>5. CASE conn[d] # "gone" /\ d = e
    <3>1. outbox'[d] = Append(outbox[d], f)
      BY <2>2, <2>5 DEF Write
    <3>2. \A s \in States : EndsWell(d, n, s) =>
              \E t \in States : Advances(f, n, s, t)' /\ EndsWell(d, n, t)'
      BY <2>5
    <3>3. StreamOf(d, n)'
      BY <2>1, <2>5, <3>1, <3>2, StreamAppended
    <3>4. QED
      BY <2>3, <3>3
  <2>6. CASE conn[d] # "gone" /\ d # e
    <3>1. outbox'[d] = outbox[d]
      BY <2>2, <2>6 DEF Write
    <3>2. \A h \in Clients : Delivers(h, d, n)' =>
              Delivers(h, d, n) /\ phase'[h] = phase[h] /\ goods'[h] = goods[h]
      BY <2>6 DEF Delivers, Receiver, File
    <3>3. \A s \in States : EndsWell(d, n, s) => EndsWell(d, n, s)'
      BY <2>1, <2>2, <3>2, EndsKept
    <3>4. StreamOf(d, n)'
      BY <2>1, <2>6, <3>1, <3>3, StreamKept
    <3>5. QED
      BY <2>3, <3>4
  <2>7. QED
    BY <2>4, <2>5, <2>6
<1>3. QED
  BY <1>1, <1>2 DEF DeliveryInv

\* An acknowledgement does nothing to a file.
LEMMA AnswerDelivers ==
    ASSUME UploadInv, UploadInv', DeliveryInv, NEW c \in Clients, AnswerChunk(c)
    PROVE  DeliveryInv'
<1>1. PICK f \in Frames : f.kind \in {"acknowledged", "rejected"} /\ Write(c, f)
  <2>1. [kind |-> IF phase[c] = "accept" THEN "acknowledged" ELSE "rejected"] \in Frames
    BY FramesTyped
  <2>2. QED
    BY <2>1 DEF AnswerChunk
<1>2. /\ phase[c] \in {"accept", "reject"} /\ phase' = [phase EXCEPT ![c] = "reading"]
      /\ piece' = [piece EXCEPT ![c] = NoPiece]
      /\ UNCHANGED <<disk, opened, conn, goods, match>>
      /\ phase \in [Clients -> Phases] /\ TypeOK
      /\ piece \in [Clients -> [x : Transfers \cup {None}, i : Nat]]
      /\ HandlerStep(c)
  BY DEF AnswerChunk, Return, Goto, clientVars, userVars, UploadInv, TypeOK, HandlerStep, ChunkStep
<1>3. phase'[c] = "reading" /\ \A h \in Clients \ {c} : phase'[h] = phase[h] /\ piece'[h] = piece[h]
  BY <1>2
<1>4. ASSUME NEW n \in Names \ removed', NEW s \in States, EndsWell(c, n, s)
      PROVE  \E t \in States : Advances(f, n, s, t)' /\ EndsWell(c, n, t)'
  <2>1. Grows(n) /\ Len(store[n]) \in Nat /\ Len(store'[n]) \in Nat
    BY <1>2, FileKnown
  <2>2. \A h \in Clients : Delivers(h, c, n)' =>
            Delivers(h, c, n) /\ phase'[h] = phase[h] /\ goods'[h] = goods[h]
    BY <1>2, <1>3 DEF Delivers, Receiver, File
  <2>3. EndsWell(c, n, s)'
    BY <1>2, <1>4, <2>1, <2>2, EndsKept
  <2>4. Advances(f, n, s, s)'
    BY <1>1 DEF Advances
  <2>5. QED
    BY <2>3, <2>4
<1>5. QED
  BY <1>1, <1>2, <1>3, <1>4, DeliveryWritten

\* Only the handler that holds the lock delivers.
LEMMA OneDelivers ==
    ASSUME UploadInv', NEW c \in Clients, phase'[c] \in Holding
    PROVE  \A h \in Clients : phase'[h] \in {"download", "forward"} => h = c
BY DEF UploadInv, LockHeld, Holding

\* The notification empties and opens the file, and that is where the delivery begins.
LEMMA NotifyDelivers ==
    ASSUME UploadInv, UploadInv', DeliveryInv, NEW c \in Clients, NotifyReceiver(c)
    PROVE  DeliveryInv'
<1>1. /\ phase[c] = "notify" /\ phase[c] \in Holding /\ phase[c] \in Handling
      /\ UNCHANGED <<disk, opened, conn, goods, piece>>
      /\ phase \in [Clients -> Phases] /\ match \in [Clients -> Transfers \cup {None}]
      /\ HandlerStep(c)
  BY DEF NotifyReceiver, Holding, Handling, clientVars, userVars, UploadInv, TypeOK,
         HandlerStep, ChunkStep
<1>2. CASE Unlock(c) /\ UNCHANGED outbox
  <2>1. phase' = [phase EXCEPT ![c] = "accept"] /\ match' = [match EXCEPT ![c] = None]
    BY <1>2 DEF Unlock, Goto
  <2>2. phase'[c] = "accept" /\ \A h \in Clients \ {c} : phase'[h] = phase[h] /\ match'[h] = match[h]
    BY <1>1, <2>1
  <2>3. QED
    BY <1>1, <1>2, <2>2, DeliveryKept
<1>3. CASE /\ Write(Receiver(c), [kind |-> "incoming_file", name |-> File(c)])
           /\ phase' = [phase EXCEPT ![c] = "download"] /\ match' = match
  <2>1. match[c] \in Transfers /\ File(c) \in Names
    BY <1>1, TransferAssumption DEF UploadInv, LocalsBound, Pieces, File
  <2>2. PICK e \in Clients, m \in Names : e = Receiver(c) /\ m = File(c)
    BY <2>1, TransferAssumption DEF Receiver
  <2>3. PICK f \in Frames : f = [kind |-> "incoming_file", name |-> m]
    BY FramesTyped
  <2>4. Write(e, f)
    BY <1>3, <2>2, <2>3
  <2>5. phase'[c] = "download" /\ \A h \in Clients : phase'[h] \in {"download", "forward"} => h = c
    <3>1. phase'[c] = "download"
      BY <1>1, <1>3
    <3>2. phase'[c] \in Holding
      BY <3>1 DEF Holding
    <3>3. QED
      BY <3>1, <3>2, OneDelivers
  <2>6. Receiver(c)' = e /\ File(c)' = m
    BY <1>1, <1>3, <2>2 DEF Receiver, File
  <2>7. ASSUME NEW n \in Names \ removed', NEW s \in States, EndsWell(e, n, s)
        PROVE  \E t \in States : Advances(f, n, s, t)' /\ EndsWell(e, n, t)'
    <3>1. CASE n = m
      <4>1. PICK t \in States : t = [len |-> 0, open |-> TRUE]
        BY DEF States
      <4>2. Advances(f, n, s, t)'
        BY <2>3, <3>1, <4>1 DEF Advances
      <4>3. EndsWell(e, n, t)'
        BY <2>5, <4>1 DEF EndsWell, Delivers, GoesOnFrom
      <4>4. QED
        BY <4>2, <4>3
    <3>2. CASE n # m
      <4>1. Advances(f, n, s, s)'
        BY <2>3, <3>2 DEF Advances
      <4>2. EndsWell(e, n, s)'
        BY <2>5, <2>6, <3>2 DEF EndsWell, Delivers
      <4>3. QED
        BY <4>1, <4>2
    <3>3. QED
      BY <3>1, <3>2
  <2>8. \A h \in Clients : phase'[h] \in {"download", "forward"} => Receiver(h)' = e
    BY <2>5, <2>6
  <2>9. QED
    BY <1>1, <2>4, <2>7, <2>8, DeliveryWritten
<1>4. QED
  BY <1>2, <1>3 DEF NotifyReceiver, Goto

\* What was downloaded is a beginning of what is stored, and all of a file whose name is
\* its own, if nothing failed.
LEMMA DownloadDelivers ==
    ASSUME UploadInv, UploadInv', FiledInv, StoredInv, DeliveryInv, NEW c \in Clients,
           DownloadChunks(c)
    PROVE  DeliveryInv'
<1>1. /\ phase[c] = "download" /\ phase[c] \in Holding /\ phase[c] \in Handling
      /\ phase[c] \in Busy
      /\ UNCHANGED <<disk, opened, conn, outbox, piece, match, store, removed>>
      /\ phase \in [Clients -> Phases]
      /\ goods \in [Clients -> Seq(Contents)]
      /\ store \in [Names -> Seq(Pieces)]
      /\ faults \in Nat
      /\ HandlerStep(c)
  <2>1. phase[c] = "download"
    BY DEF DownloadChunks
  <2>2. phase[c] \in Holding /\ phase[c] \in Handling /\ phase[c] \in Busy
    BY <2>1 DEF Holding, Handling, Busy
  <2>3. UNCHANGED <<disk, opened, conn, outbox, piece, match, store, removed>>
    BY DEF DownloadChunks, clientVars, userVars
  <2>4. /\ phase \in [Clients -> Phases] /\ goods \in [Clients -> Seq(Contents)]
        /\ store \in [Names -> Seq(Pieces)] /\ faults \in 0 .. MaxFaults
    BY DEF UploadInv, TypeOK
  <2>5. HandlerStep(c)
    BY DEF HandlerStep, ChunkStep
  <2>6. faults \in Nat
    BY <2>4, TransferAssumption
  <2>7. QED
    BY <2>1, <2>2, <2>3, <2>4, <2>5, <2>6
<1>2. PICK g, k : /\ goods' = [goods EXCEPT ![c] = g]
                  /\ \/ g = <<ErrorPage>> /\ (faults' # 0 \/ store[File(c)] = <<>>)
                     \/ k \in 0 .. Len(store[File(c)]) /\ g = SubSeq(store[File(c)], 1, k)
                        /\ (faults' # 0 \/ k = Len(store[File(c)]))
  <2> DEFINE s == store[File(c)]
  <2>1. File(c) \in Names
    BY <1>1, TransferAssumption DEF UploadInv, LocalsBound, Pieces, File
  <2>2. s \in Seq(Pieces)
    BY <1>1, <2>1
  <2>3. Len(s) \in 0 .. Len(s) /\ s = SubSeq(s, 1, Len(s))
    <3>1. \A z \in Seq(Pieces) : Len(z) \in 0 .. Len(z) /\ z = SubSeq(z, 1, Len(z))
      OBVIOUS
    <3>2. QED
      BY <2>2, <3>1
  <2> HIDE DEF s
  <2>4. CASE goods' = [goods EXCEPT ![c] = IF s = <<>> THEN <<ErrorPage>> ELSE s]
    <3>1. CASE s = <<>>
      BY <2>4, <3>1 DEF s
    <3>2. CASE s # <<>>
      BY <2>3, <2>4, <3>2 DEF s
    <3>3. QED
      BY <3>1, <3>2
  <2>5. CASE /\ faults' = faults + 1
             /\ \E g \in {SubSeq(s, 1, k) : k \in 0 .. Len(s)} \cup {<<ErrorPage>>} :
                    goods' = [goods EXCEPT ![c] = g]
    <3>1. faults' # 0
      BY <1>1, <2>5
    <3>2. PICK g : /\ goods' = [goods EXCEPT ![c] = g]
                   /\ g = <<ErrorPage>> \/ \E k \in 0 .. Len(s) : g = SubSeq(s, 1, k)
      BY <2>5
    <3>3. QED
      BY <3>1, <3>2 DEF s
  <2>6. QED
    BY <2>4, <2>5 DEF DownloadChunks, s
<1>3. goods'[c] = g /\ phase'[c] \in {"erase", "forward"}
  BY <1>1, <1>2 DEF DownloadChunks, Goto
<1>4. \A h \in Clients : phase'[h] \in {"download", "forward"} => h = c
  <2>1. phase'[c] \in Holding
    BY <1>3 DEF Holding
  <2>2. QED
    BY <2>1, OneDelivers
<1>5. ASSUME NEW d \in Clients, NEW n \in Names \ removed'
      PROVE  DiskOf(d, n)' /\ (conn'[d] # "gone" => StreamOf(d, n)')
  <2>1. /\ Grows(n) /\ Len(store[n]) \in Nat /\ Len(store'[n]) \in Nat
        /\ DiskOf(d, n) /\ (conn[d] # "gone" => StreamOf(d, n))
    BY <1>1, FileKnown
  <2>2. DiskOf(d, n)'
    BY <1>1, <2>1, DiskKept DEF UploadInv
  <2>3. ASSUME NEW s \in States, EndsWell(d, n, s), Delivers(c, d, n)', phase'[c] = "forward"
        PROVE  GoesOnFrom(c, n, s)'
    <3>1. Delivers(c, d, n) /\ File(c) = n
      BY <1>1, <2>3 DEF Delivers, Receiver, File
    <3>2. s.len = 0 /\ s.open
      BY <1>1, <2>3, <3>1 DEF EndsWell, GoesOnFrom
    <3>3. \/ g = <<ErrorPage>>
          \/ /\ Len(g) <= Len(store[n])
             /\ \A i \in 1 .. Len(g) : g[i] = store[n][i]
      <4>1. CASE k \in 0 .. Len(store[n]) /\ g = SubSeq(store[n], 1, k)
        <5>1. \A z \in Seq(Pieces) : \A j \in 0 .. Len(z) :
                  /\ Len(SubSeq(z, 1, j)) = j /\ j <= Len(z)
                  /\ \A i \in 1 .. j : SubSeq(z, 1, j)[i] = z[i]
          OBVIOUS
        <5>2. QED
          BY <1>1, <4>1, <5>1
      <4>2. QED
        BY <1>2, <3>1, <4>1
    <3>4. ASSUME faults' = 0, NEW x \in Transfers, OwnName(x), Name[x] = n
          PROVE  Len(g) = Chunks[x]
      <4>1. c = From[x] /\ piece[c].x = x
        BY <1>1, <3>1, <3>4, OtherFile
      <4>2. Len(store[n]) = Chunks[x]
        BY <1>1, <3>4, <4>1 DEF StoredInv, StoredOf
      <4>3. store[n] # <<>>
        BY <3>4, <4>2, TransferAssumption, EmptySeq
      <4>4. g = SubSeq(store[n], 1, Len(store[n]))
        BY <1>2, <3>1, <3>4, <4>3
      <4>5. \A z \in Seq(Pieces) : Len(SubSeq(z, 1, Len(z))) = Len(z)
        OBVIOUS
      <4>6. QED
        BY <1>1, <4>2, <4>4, <4>5
    <3>5. g \in Seq(Contents) /\ Len(g) \in Nat
      BY <1>3, LenProperties DEF UploadInv, TypeOK
    <3>6. s.len + Len(g) = Len(g) /\ \A i \in 1 .. Len(g) : s.len + i = i
      BY <3>2, <3>5
    <3>7. \/ g = <<ErrorPage>>
          \/ /\ s.len + Len(g) <= Len(store'[n])
             /\ \A i \in 1 .. Len(g) : g[i] = store'[n][s.len + i]
      BY <1>1, <3>3, <3>6
    <3>8. faults' = 0 => \A x \in Transfers : OwnName(x) /\ Name[x] = n => s.len + Len(g) = Chunks[x]
      BY <3>4, <3>6
    <3>9. QED
      BY <1>3, <2>3, <3>2, <3>7, <3>8 DEF GoesOnFrom
  <2>4. \A s \in States : EndsWell(d, n, s) => EndsWell(d, n, s)'
    BY <1>3, <1>4, <2>3 DEF EndsWell, Delivers
  <2>5. ASSUME conn'[d] # "gone" PROVE StreamOf(d, n)'
    BY <1>1, <2>1, <2>4, <2>5, StreamKept
  <2>6. QED
    BY <2>2, <2>5
<1>6. MatchNamed'
  BY <1>1, MatchKept DEF DeliveryInv
<1>7. QED
  BY <1>5, <1>6 DEF DeliveryInv

\* A chunk on its way is the next of the file it goes on with, and the last one ends it.
LEMMA ForwardDelivers ==
    ASSUME UploadInv, UploadInv', DeliveryInv, NEW c \in Clients, ForwardChunk(c)
    PROVE  DeliveryInv'
<1>1. /\ phase[c] = "forward" /\ phase[c] \in Holding /\ phase[c] \in Handling
      /\ UNCHANGED <<disk, opened, conn, piece, match, store, faults, removed>>
      /\ phase \in [Clients -> Phases]
      /\ goods \in [Clients -> Seq(Contents)]
      /\ HandlerStep(c)
  <2>1. phase[c] = "forward"
    BY DEF ForwardChunk
  <2>2. phase[c] \in Holding /\ phase[c] \in Handling
    BY <2>1 DEF Holding, Handling
  <2>3. UNCHANGED <<disk, opened, conn, piece, match, store, faults, removed>>
    BY DEF ForwardChunk, clientVars, userVars, serviceVars
  <2>4. phase \in [Clients -> Phases] /\ goods \in [Clients -> Seq(Contents)]
    BY DEF UploadInv, TypeOK
  <2>5. HandlerStep(c)
    BY DEF HandlerStep, ChunkStep
  <2>6. QED
    BY <2>1, <2>2, <2>3, <2>4, <2>5
<1>2. CASE outbox' = outbox /\ phase' = [phase EXCEPT ![c] = "erase"]
           /\ goods' = [goods EXCEPT ![c] = <<>>]
  <2>1. /\ phase'[c] = "erase"
        /\ \A h \in Clients \ {c} : phase'[h] = phase[h] /\ goods'[h] = goods[h]
    BY <1>1, <1>2
  <2>2. QED
    BY <1>1, <1>2, <2>1, DeliveryKept
<1>3. CASE /\ Write(Receiver(c), [kind |-> "file_chunk", name |-> File(c),
                                  p |-> Head(goods[c]), last |-> Len(goods[c]) = 1])
           /\ goods' = [goods EXCEPT ![c] = Tail(@)]
           /\ phase' = [phase EXCEPT ![c] = IF Len(goods[c]) = 1 THEN "erase" ELSE "forward"]
  <2>1. match[c] \in Transfers /\ File(c) \in Names /\ goods[c] # <<>>
    BY <1>1, TransferAssumption DEF UploadInv, LocalsBound, Pieces, File
  <2>2. PICK e \in Clients, m \in Names : e = Receiver(c) /\ m = File(c)
    BY <2>1, TransferAssumption DEF Receiver
  <2>3. PICK g \in Seq(Contents) : g = goods[c] /\ g # <<>>
    BY <1>1, <2>1
  <2>4. /\ Len(g) \in Nat \ {0} /\ Head(g) = g[1] /\ Head(g) \in Contents
        /\ Len(Tail(g)) = Len(g) - 1
        /\ \A k \in 1 .. Len(Tail(g)) : Tail(g)[k] = g[k + 1] /\ k + 1 \in 1 .. Len(g)
    BY <2>3
  <2>5. PICK f \in Frames : f = [kind |-> "file_chunk", name |-> m, p |-> g[1], last |-> Len(g) = 1]
    BY <2>4, FramesTyped
  <2>6. Write(e, f)
    BY <1>3, <2>2, <2>3, <2>4, <2>5
  <2>7. goods'[c] = Tail(g) /\ phase'[c] = IF Len(g) = 1 THEN "erase" ELSE "forward"
    BY <1>1, <1>3, <2>3
  <2>8. \A h \in Clients : phase'[h] \in {"download", "forward"} => h = c
    <3>1. phase'[c] \in Holding
      BY <2>7 DEF Holding
    <3>2. QED
      BY <3>1, OneDelivers
  <2>9. Receiver(c)' = e /\ File(c)' = m
    BY <1>1, <2>2 DEF Receiver, File
  <2>10. ASSUME NEW n \in Names \ removed', NEW s \in States, EndsWell(e, n, s)
         PROVE  \E t \in States : Advances(f, n, s, t)' /\ EndsWell(e, n, t)'
    <3>1. CASE n = m
      <4>1. /\ s.open /\ s.len \in Nat
            /\ \/ g = <<ErrorPage>> /\ s.len = 0
               \/ /\ s.len + Len(g) <= Len(store[n])
                  /\ \A k \in 1 .. Len(g) : g[k] = store[n][s.len + k]
            /\ faults = 0 =>
                  \A x \in Transfers : OwnName(x) /\ Name[x] = n => s.len + Len(g) = Chunks[x]
        <5>1. GoesOnFrom(c, n, s)
          BY <1>1, <2>2, <2>10, <3>1 DEF EndsWell, Delivers
        <5>2. QED
          BY <1>1, <2>3, <5>1 DEF GoesOnFrom, States
      <4>2. PICK t \in States : t = [len |-> s.len + 1, open |-> ~f.last]
        <5>1. s.len + 1 \in Nat
          BY <4>1
        <5>2. (~f.last) \in BOOLEAN
          OBVIOUS
        <5>3. QED
          BY <5>1, <5>2 DEF States
      <4>3. Advances(f, n, s, t)'
        <5>1. Len(store[n]) \in Nat
          BY <1>1, FileKnown
        <5>2. \/ f.p = ErrorPage /\ s.len = 0 /\ f.last
              \/ s.len + 1 <= Len(store[n]) /\ f.p = store[n][s.len + 1]
          <6>1. CASE g = <<ErrorPage>> /\ s.len = 0
            BY <2>5, <6>1
          <6>2. CASE /\ s.len + Len(g) <= Len(store[n])
                     /\ \A k \in 1 .. Len(g) : g[k] = store[n][s.len + k]
            <7>1. 1 \in 1 .. Len(g) /\ s.len + 1 <= Len(store[n])
              BY <2>4, <4>1, <5>1, <6>2
            <7>2. QED
              BY <2>5, <6>2, <7>1
          <6>3. QED
            BY <4>1, <6>1, <6>2
        <5>3. f.last /\ faults = 0 =>
                  \A x \in Transfers : OwnName(x) /\ Name[x] = n => s.len + 1 = Chunks[x]
          BY <2>5, <4>1
        <5>4. f.kind = "file_chunk" /\ f.name = n /\ s.open
          BY <2>5, <3>1, <4>1
        <5>5. QED
          BY <1>1, <4>2, <5>2, <5>3, <5>4 DEF Advances
      <4>4. EndsWell(e, n, t)'
        <5> SUFFICES ASSUME phase'[c] = "forward" PROVE GoesOnFrom(c, n, t)'
          BY <2>8, <2>7 DEF EndsWell, Delivers, GoesOnFrom
        <5>1. Len(g) # 1 /\ t.open /\ t.len = s.len + 1
          BY <2>5, <2>7, <4>2
        <5>2. /\ s.len + Len(g) <= Len(store[n])
              /\ \A k \in 1 .. Len(g) : g[k] = store[n][s.len + k]
          <6>1. Len(<<ErrorPage>>) = 1
            OBVIOUS
          <6>2. QED
            BY <4>1, <5>1, <6>1
        <5>3. t.len + Len(Tail(g)) = s.len + Len(g)
          BY <2>4, <4>1, <5>1
        <5>4. ASSUME NEW k \in 1 .. Len(Tail(g)) PROVE Tail(g)[k] = store[n][t.len + k]
          <6>1. Tail(g)[k] = g[k + 1] /\ k + 1 \in 1 .. Len(g)
            BY <2>4
          <6>2. s.len \in Nat /\ t.len = s.len + 1 /\ k \in Nat
            BY <2>4, <4>1, <5>1
          <6>4. s.len + (k + 1) = t.len + k
            BY <6>2
          <6>3. QED
            BY <5>2, <6>1, <6>4
        <5>5. QED
          BY <1>1, <2>7, <4>1, <5>1, <5>2, <5>3, <5>4 DEF GoesOnFrom
      <4>5. QED
        BY <4>3, <4>4
    <3>2. CASE n # m
      <4>1. Advances(f, n, s, s)'
        BY <2>5, <3>2 DEF Advances
      <4>2. EndsWell(e, n, s)'
        BY <2>8, <2>9, <3>2 DEF EndsWell, Delivers
      <4>3. QED
        BY <4>1, <4>2
    <3>3. QED
      BY <3>1, <3>2
  <2>11. \A h \in Clients : phase'[h] \in {"download", "forward"} => Receiver(h)' = e
    BY <2>8, <2>9
  <2>12. QED
    BY <1>1, <2>6, <2>10, <2>11, DeliveryWritten
<1>4. QED
  BY <1>2, <1>3 DEF ForwardChunk, Goto

\* A receiver takes a frame: its file goes to where the frame leads.
LEMMA ReceiveDelivers ==
    ASSUME UploadInv, UploadInv', DeliveryInv, NEW c \in Clients, ReceiveFrame(c)
    PROVE  DeliveryInv'
<1>1. /\ ClientStep(c) /\ TypeOK
      /\ UNCHANGED <<conn, phase, goods, match, piece, store, faults, removed>>
      /\ conn[c] # "gone" /\ outbox[c] # <<>>
      /\ outbox \in [Clients -> Seq(Frames)]
      /\ opened \in [Clients -> SUBSET Names]
      /\ disk \in [Clients -> [Names -> Seq(Contents)]]
  <2>1. UNCHANGED <<conn, phase, goods, match, piece, store, faults, removed>>
    BY DEF ReceiveFrame, localVars, serviceVars
  <2>2. conn[c] # "gone" /\ outbox[c] # <<>>
    BY DEF ReceiveFrame
  <2>3. QED
    BY <2>1, <2>2 DEF ClientStep, UploadInv, TypeOK
<1>2. PICK f \in Frames : f = Head(outbox[c])
  BY <1>1, HeadTailProperties
<1>3. /\ outbox'[c] = Tail(outbox[c])
      /\ \A d \in Clients \ {c} : /\ outbox'[d] = outbox[d] /\ disk'[d] = disk[d]
                                  /\ opened'[d] = opened[d]
  <2>1. \/ UNCHANGED <<opened, disk>>
        \/ \E v, w : opened' = [opened EXCEPT ![c] = v] /\ disk' = [disk EXCEPT ![c] = w]
    BY DEF ReceiveFrame
  <2>2. outbox' = [outbox EXCEPT ![c] = Tail(@)]
    BY DEF ReceiveFrame
  <2>3. QED
    BY <1>1, <2>1, <2>2
<1>4. \/ /\ f.kind \in {"acknowledged", "rejected"}
         /\ opened'[c] = opened[c] /\ disk'[c] = disk[c]
      \/ /\ f.kind = "incoming_file"
         /\ opened'[c] = opened[c] \cup {f.name}
         /\ disk'[c] = [disk[c] EXCEPT ![f.name] = <<>>]
      \/ /\ f.kind = "file_chunk" /\ f.name \in opened[c]
         /\ opened'[c] = IF f.last THEN opened[c] \ {f.name} ELSE opened[c]
         /\ disk'[c] = [disk[c] EXCEPT ![f.name] = Append(@, f.p)]
      \/ /\ f.kind = "file_chunk" /\ f.name \notin opened[c]
         /\ opened'[c] = opened[c] /\ disk'[c] = disk[c]
  BY <1>1, <1>2 DEF ReceiveFrame
<1>5. MatchNamed'
  BY <1>1, MatchKept DEF DeliveryInv
<1>6. ASSUME NEW d \in Clients, NEW n \in Names \ removed'
      PROVE  DiskOf(d, n)' /\ (conn'[d] # "gone" => StreamOf(d, n)')
  <2>1. /\ Grows(n) /\ Len(store[n]) \in Nat /\ Len(store'[n]) \in Nat
        /\ DiskOf(d, n) /\ (conn[d] # "gone" => StreamOf(d, n))
    BY <1>1, FileKnown
  <2>2. \A s \in States : EndsWell(d, n, s) => EndsWell(d, n, s)'
    BY <1>1, <2>1, EndsKept DEF Delivers, Receiver, File
  <2>3. CASE d # c
    BY <1>1, <1>3, <2>1, <2>2, <2>3, DiskKept, StreamKept
  <2>4. CASE d = c
    <3>1. PICK s : s = [len |-> Len(disk[c][n]), open |-> n \in opened[c]]
      OBVIOUS
    <3>2. disk[c][n] \in Seq(Contents) /\ s.len \in Nat /\ disk[c] \in [Names -> Seq(Contents)]
      BY <1>1, <3>1, LenProperties
    <3>8. /\ s.open = (n \in opened[c])
          /\ f.kind = "file_chunk" => f.last \in BOOLEAN
          /\ f.kind \in {"incoming_file", "file_chunk"} => f.name \in Names
      BY <1>2, <3>1 DEF Frames
    <3>3. ASSUME NEW t \in States, Advances(f, n, s, t)
          PROVE  t = [len |-> Len(disk'[c][n]), open |-> n \in opened'[c]]
      <4>1. CASE f.kind = "incoming_file" /\ f.name = n
        <5>1. disk'[c][n] = <<>> /\ n \in opened'[c]
          BY <1>4, <3>2, <4>1
        <5>2. t = [len |-> 0, open |-> TRUE]
          BY <3>3, <4>1 DEF Advances
        <5>3. QED
          BY <5>1, <5>2, EmptySeq
      <4>2. CASE f.kind = "file_chunk" /\ f.name = n /\ s.open
        <5>0. n \in opened[c]
          BY <3>8, <4>2
        <5>1. disk'[c][n] = Append(disk[c][n], f.p) /\ (n \in opened'[c]) = ~f.last
          <6>1. /\ opened'[c] = IF f.last THEN opened[c] \ {f.name} ELSE opened[c]
                /\ disk'[c] = [disk[c] EXCEPT ![f.name] = Append(@, f.p)]
            BY <1>4, <4>2, <5>0
          <6>2. (n \in opened'[c]) <=> ~f.last
            BY <4>2, <5>0, <6>1
          <6>3. disk'[c][n] = Append(disk[c][n], f.p)
            BY <3>2, <4>2, <6>1
          <6>4. QED
            BY <6>2, <6>3
        <5>2. Len(disk'[c][n]) = s.len + 1
          BY <3>1, <3>2, <5>1, <1>2, <4>2, FramesTyped, AppendProperties
        <5>3. t = [len |-> s.len + 1, open |-> ~f.last]
          BY <3>3, <4>2 DEF Advances
        <5>4. QED
          BY <5>1, <5>2, <5>3
      <4>3. CASE \/ f.kind \in {"acknowledged", "rejected"}
                 \/ f.kind \in {"incoming_file", "file_chunk"} /\ f.name # n
                 \/ f.kind = "file_chunk" /\ ~s.open
        <5>1. disk'[c][n] = disk[c][n] /\ (n \in opened'[c]) = (n \in opened[c])
          <6>1. CASE f.kind \in {"incoming_file", "file_chunk"} /\ f.name # n
            <7>1. n \in opened'[c] <=> n \in opened[c]
              BY <1>4, <3>2, <6>1
            <7>2. disk'[c][n] = disk[c][n]
              BY <1>4, <3>2, <3>8, <6>1
            <7>3. QED
              BY <7>1, <7>2
          <6>2. CASE \/ f.kind \in {"acknowledged", "rejected"}
                     \/ f.kind = "file_chunk" /\ f.name = n /\ ~s.open
            BY <1>4, <3>8, <6>2
          <6>3. QED
            BY <4>3, <6>1, <6>2
        <5>2. t = s
          BY <3>3, <4>3 DEF Advances
        <5>3. QED
          BY <3>1, <5>1, <5>2
      <4>4. QED
        BY <3>3, <4>1, <4>2, <4>3 DEF Advances
    <3>4. /\ StreamOf(c, n)' /\ \E t \in States : Advances(f, n, s, t)
      BY <1>1, <1>2, <1>3, <2>1, <2>2, <2>4, <3>1, <3>3, StreamTaken
    <3>5. PICK t \in States : Advances(f, n, s, t)
      BY <3>4
    <3>6. DiskOf(c, n)'
      <4>1. CASE f.kind = "incoming_file" /\ f.name = n
        <5>1. disk'[c][n] = <<>> /\ n \in opened'[c]
          BY <1>4, <3>2, <4>1
        <5>2. QED
          BY <1>1, <2>1, <5>1, EmptySeq DEF DiskOf
      <4>2. CASE f.kind = "file_chunk" /\ f.name = n /\ s.open
        <5>0. n \in opened[c]
          BY <3>8, <4>2
        <5>1. disk'[c][n] = Append(disk[c][n], f.p) /\ (n \in opened'[c]) = ~f.last
          <6>1. /\ opened'[c] = IF f.last THEN opened[c] \ {f.name} ELSE opened[c]
                /\ disk'[c] = [disk[c] EXCEPT ![f.name] = Append(@, f.p)]
            BY <1>4, <4>2, <5>0
          <6>2. (n \in opened'[c]) <=> ~f.last
            BY <4>2, <5>0, <6>1
          <6>3. disk'[c][n] = Append(disk[c][n], f.p)
            BY <3>2, <4>2, <6>1
          <6>4. QED
            BY <6>2, <6>3
        <5>2. f.p \in Contents
          BY <1>2, <4>2, FramesTyped
        <5>3. /\ Len(disk'[c][n]) = s.len + 1
              /\ disk'[c][n][s.len + 1] = f.p
              /\ \A i \in 1 .. s.len : disk'[c][n][i] = disk[c][n][i]
          BY <3>1, <3>2, <5>1, <5>2, AppendProperties
        <5>4. /\ \/ f.p = ErrorPage /\ s.len = 0 /\ f.last
                 \/ s.len + 1 <= Len(store[n]) /\ f.p = store[n][s.len + 1]
              /\ f.last /\ faults = 0 =>
                    \A x \in Transfers : OwnName(x) /\ Name[x] = n => s.len + 1 = Chunks[x]
          BY <3>5, <4>2 DEF Advances
        <5>5. \/ disk'[c][n] = <<ErrorPage>> /\ n \notin opened'[c]
              \/ /\ Len(disk'[c][n]) <= Len(store[n])
                 /\ \A i \in 1 .. Len(disk'[c][n]) : disk'[c][n][i] = store[n][i]
          <6>1. CASE f.p = ErrorPage /\ s.len = 0 /\ f.last
            <7>1. disk[c][n] = <<>>
              BY <3>1, <3>2, <6>1, EmptySeq
            <7>2. QED
              BY <5>1, <6>1, <7>1
          <6>2. CASE s.len + 1 <= Len(store[n]) /\ f.p = store[n][s.len + 1]
            <7>1. \A i \in 1 .. s.len : disk[c][n][i] = store[n][i]
              BY <2>1, <2>4, <3>1, <4>2 DEF DiskOf
            <7>2. Len(disk'[c][n]) <= Len(store[n])
              BY <5>3, <6>2
            <7>3. ASSUME NEW i \in 1 .. Len(disk'[c][n]) PROVE disk'[c][n][i] = store[n][i]
              <8>1. i \in 1 .. s.len \/ i = s.len + 1
                BY <3>2, <5>3
              <8>2. QED
                BY <5>3, <6>2, <7>1, <8>1
            <7>4. QED
              BY <7>2, <7>3
          <6>3. QED
            BY <5>4, <6>1, <6>2
        <5>6. faults = 0 /\ n \notin opened'[c] =>
                  \A x \in Transfers : OwnName(x) /\ Name[x] = n => Len(disk'[c][n]) = Chunks[x]
          BY <5>1, <5>3, <5>4
        <5>7. QED
          BY <1>1, <5>5, <5>6 DEF DiskOf
      <4>3. CASE \/ f.kind \in {"acknowledged", "rejected"}
                 \/ f.kind \in {"incoming_file", "file_chunk"} /\ f.name # n
                 \/ f.kind = "file_chunk" /\ ~s.open
        <5>1. disk'[c][n] = disk[c][n] /\ (n \in opened'[c]) = (n \in opened[c])
          <6>1. CASE f.kind \in {"incoming_file", "file_chunk"} /\ f.name # n
            <7>1. n \in opened'[c] <=> n \in opened[c]
              BY <1>4, <3>2, <6>1
            <7>2. disk'[c][n] = disk[c][n]
              BY <1>4, <3>2, <3>8, <6>1
            <7>3. QED
              BY <7>1, <7>2
          <6>2. CASE \/ f.kind \in {"acknowledged", "rejected"}
                     \/ f.kind = "file_chunk" /\ f.name = n /\ ~s.open
            BY <1>4, <3>8, <6>2
          <6>3. QED
            BY <4>3, <6>1, <6>2
        <5>2. QED
          BY <1>1, <2>1, <2>4, <5>1, DiskKept
      <4>4. QED
        BY <3>5, <4>1, <4>2, <4>3 DEF Advances
    <3>7. QED
      BY <2>4, <3>4, <3>6
  <2>5. QED
    BY <2>3, <2>4
<1>7. QED
  BY <1>5, <1>6 DEF DeliveryInv

\* The steps that neither write to a client, nor take what it was sent, nor come to a
\* delivery.
LEMMA StepsDeliver ==
    ASSUME UploadInv, UploadInv', FiledInv, StoredInv, DeliveryInv, NEW c \in Clients,
           ClientStep(c) \/ HandlerStep(c) \/ UNCHANGED vars
    PROVE  DeliveryInv'
<1> USE DEF clientVars, userVars, localVars, sharedVars, serviceVars
<1>0. /\ phase \in [Clients -> Phases]
      /\ piece \in [Clients -> [x : Transfers \cup {None}, i : Nat]]
      /\ match \in [Clients -> Transfers \cup {None}]
      /\ conn \in [Clients -> {"off", "on", "gone"}]
      /\ outbox \in [Clients -> Seq(Frames)]
  BY DEF UploadInv, TypeOK
<1>1. CASE UNCHANGED vars
  BY <1>1, DeliveryKept DEF vars
<1>2. CASE ClientStep(c)
  <2>1. CASE Connect(c) \/ (\E x \in Transfers : SendFile(c, x)) \/ NextChunk(c) \/ Timeout(c)
    <3>1. UNCHANGED <<disk, opened, outbox, phase, goods, match, piece>>
      BY <2>1 DEF Connect, SendFile, NextChunk, Timeout
    <3>2. \A d \in Clients : conn'[d] # "gone" => conn[d] # "gone"
      BY <1>0, <2>1 DEF Connect, SendFile, NextChunk, Timeout
    <3>3. QED
      BY <1>2, <3>1, <3>2, DeliveryKept
  <2>2. CASE Leave(c)
    <3>1. UNCHANGED <<disk, opened, phase, goods, match, piece>>
      BY <2>2 DEF Leave
    <3>2. /\ conn'[c] = "gone"
          /\ \A d \in Clients \ {c} : conn'[d] = conn[d] /\ outbox'[d] = outbox[d]
      BY <1>0, <2>2 DEF Leave
    <3>3. QED
      BY <1>2, <3>1, <3>2, DeliveryKept
  <2>3. QED
    BY <1>2, <2>1, <2>2, ReceiveDelivers DEF ClientStep
<1>3. ASSUME HandlerStep(c), UNCHANGED <<disk, opened, conn, outbox, goods>>,
             \A h \in Clients \ {c} :
                 phase'[h] = phase[h] /\ piece'[h] = piece[h] /\ match'[h] = match[h],
             phase'[c] \in {"download", "forward"} => UNCHANGED <<phase, piece, match>>
      PROVE  DeliveryInv'
  BY <1>3, DeliveryKept
<1>4. CASE ReadRequest(c)
  <2>1. /\ HandlerStep(c) /\ UNCHANGED <<disk, opened, conn, outbox, goods, match>>
        /\ \/ UNCHANGED <<phase, piece>>
           \/ \E p \in {"reading", "lost", "check", "push"} : \E v :
                  phase' = [phase EXCEPT ![c] = p] /\ piece' = [piece EXCEPT ![c] = v]
    BY <1>4 DEF ReadRequest, Return, Goto, HandlerStep
  <2>2. CASE UNCHANGED <<phase, piece>>
    BY <1>3, <2>1, <2>2
  <2>3. ASSUME NEW p \in {"reading", "lost", "check", "push"}, NEW v,
               phase' = [phase EXCEPT ![c] = p], piece' = [piece EXCEPT ![c] = v]
        PROVE  DeliveryInv'
    <3>1. phase'[c] = p /\ \A h \in Clients \ {c} : phase'[h] = phase[h] /\ piece'[h] = piece[h]
      BY <1>0, <2>3
    <3>2. QED
      BY <1>3, <2>1, <3>1
  <2>4. QED
    BY <2>1, <2>2, <2>3
<1>5. CASE \/ EndOfStream(c) \/ PushPending(c) \/ ResetUpload(c) \/ CheckOrder(c) \/ UploadChunk(c)
           \/ RecordChunk(c)
  <2>1. /\ UNCHANGED <<disk, opened, conn, outbox, goods, match>>
        /\ \E p \in {"ended", "reset", "reading", "lost", "upload", "reject", "record", "lock",
                     "accept"} : phase' = [phase EXCEPT ![c] = p]
    BY <1>5 DEF EndOfStream, PushPending, ResetUpload, CheckOrder, UploadChunk, RecordChunk,
                Return, Goto
  <2>2. /\ phase'[c] \notin {"download", "forward"}
        /\ \A h \in Clients \ {c} : phase'[h] = phase[h]
    BY <1>0, <2>1
  <2>3. \A h \in Clients \ {c} : piece'[h] = piece[h]
    BY <1>0, <1>5 DEF EndOfStream, PushPending, ResetUpload, CheckOrder, UploadChunk,
                      RecordChunk, Return
  <2>4. HandlerStep(c)
    BY <1>5 DEF HandlerStep, ChunkStep
  <2>5. QED
    BY <1>3, <2>1, <2>2, <2>3, <2>4
<1>6. CASE LockPending(c) \/ ErasePending(c)
  <2>1. /\ UNCHANGED <<disk, opened, conn, outbox, goods, piece>>
        /\ \E p \in {"notify", "accept"} : phase' = [phase EXCEPT ![c] = p]
        /\ match' = match \/ \E x : match' = [match EXCEPT ![c] = x]
    BY <1>6 DEF LockPending, ErasePending, Unlock, Goto
  <2>2. /\ phase'[c] \notin {"download", "forward"}
        /\ \A h \in Clients \ {c} : phase'[h] = phase[h] /\ match'[h] = match[h]
    BY <1>0, <2>1
  <2>3. HandlerStep(c)
    BY <1>6 DEF HandlerStep, ChunkStep
  <2>4. QED
    BY <1>3, <2>1, <2>2, <2>3
<1>7. QED
  BY <1>1, <1>2, <1>4, <1>5, <1>6, NotifyDelivers, DownloadDelivers, ForwardDelivers,
     AnswerDelivers DEF HandlerStep, ChunkStep

\* At every moment, what is on its way to a client continues what it has written of a
\* file, and what a handler is yet to deliver continues that.
THEOREM DeliveryInvariant == Spec => []DeliveryInv
<1>1. Init => DeliveryInv
  <2> SUFFICES ASSUME Init PROVE DeliveryInv
    OBVIOUS
  <2>1. MatchNamed
    BY DEF Init, MatchNamed, Holding
  <2>2. ASSUME NEW d \in Clients, NEW n \in Names PROVE DiskOf(d, n) /\ StreamOf(d, n)
    <3>1. /\ disk[d][n] = <<>> /\ n \notin opened[d] /\ outbox[d] = <<>>
          /\ store[n] = <<>> /\ \A h \in Clients : phase[h] = "reading"
      BY <2>2 DEF Init
    <3>2. DiskOf(d, n)
      BY <3>1, EmptySeq DEF DiskOf
    <3>3. PICK q \in Seq(Frames) : q = <<>> /\ q = outbox[d] /\ Len(q) = 0
      BY <3>1, EmptySeq
    <3>4. PICK st : st = [i \in 0 .. 0 |-> [len |-> 0, open |-> FALSE]]
      OBVIOUS
    <3>5. st \in [0 .. 0 -> States] /\ st[0] = [len |-> 0, open |-> FALSE]
      BY <3>4 DEF States
    <3>6. Course(q, st, n)
      BY <3>3, <3>5 DEF Course
    <3>7. st[0] = [len |-> Len(disk[d][n]), open |-> n \in opened[d]]
      <4>1. Len(disk[d][n]) = 0 /\ (n \in opened[d]) = FALSE
        BY <3>1, EmptySeq
      <4>2. QED
        BY <3>5, <4>1
    <3>8. EndsWell(d, n, st[Len(q)])
      BY <3>1 DEF EndsWell, Delivers
    <3>9. QED
      BY <3>2, <3>3, <3>6, <3>7, <3>8 DEF StreamOf
  <2>3. QED
    BY <2>1, <2>2 DEF DeliveryInv
<1>2. UploadInv /\ UploadInv' /\ FiledInv /\ StoredInv /\ DeliveryInv /\ [Next]_vars => DeliveryInv'
  <2> SUFFICES ASSUME UploadInv, UploadInv', FiledInv, StoredInv, DeliveryInv, [Next]_vars
               PROVE  DeliveryInv'
    OBVIOUS
  <2>1. CASE Clients = {}
    <3>1. MatchNamed' /\ DeliveryInv'
      BY <2>1 DEF MatchNamed, DeliveryInv
    <3>2. QED
      BY <3>1
  <2>2. CASE Clients # {}
    BY <2>2, StepsDeliver DEF Next
  <2>3. QED
    BY <2>1, <2>2
<1>3. QED
  BY <1>1, <1>2, UploadInvariant, FiledInvariant, StoredInvariant, PTL DEF Spec

\* What a client has of a file is a beginning of what the file server holds under that
\* name, or the error message of the file server, unless the file server removed the file.
THEOREM ReceivedAlwaysPrefix == Spec => []ReceivedIsPrefix
<1>1. TypeOK /\ DeliveryInv => ReceivedIsPrefix
  <2> SUFFICES ASSUME TypeOK, DeliveryInv, NEW c \in Clients, NEW n \in Names \ removed,
                      disk[c][n] # <<ErrorPage>>
               PROVE  /\ Len(disk[c][n]) <= Len(store[n])
                      /\ disk[c][n] = SubSeq(store[n], 1, Len(disk[c][n]))
    BY DEF ReceivedIsPrefix
  <2>1. /\ Len(disk[c][n]) <= Len(store[n])
        /\ \A i \in 1 .. Len(disk[c][n]) : disk[c][n][i] = store[n][i]
    BY DEF DeliveryInv, DiskOf
  <2>2. disk[c][n] \in Seq(Contents) /\ store[n] \in Seq(Pieces)
    BY DEF TypeOK
  <2>3. \A d \in Seq(Contents) : \A s \in Seq(Pieces) :
            Len(d) <= Len(s) /\ (\A i \in 1 .. Len(d) : d[i] = s[i]) => d = SubSeq(s, 1, Len(d))
    OBVIOUS
  <2>4. QED
    BY <2>1, <2>2, <2>3
<1>2. QED
  BY <1>1, TransferTypeCorrect, DeliveryInvariant, PTL

\* The file server removes a file only when it fails.
NoneRemoved == faults = 0 => removed = {}

LEMMA RemovedByFailure == Spec => []NoneRemoved
<1> USE DEF clientVars, userVars, localVars, sharedVars, serviceVars
<1>1. Init => NoneRemoved
  BY DEF Init, NoneRemoved
<1>2. TypeOK /\ NoneRemoved /\ [Next]_vars => NoneRemoved'
  <2> SUFFICES ASSUME TypeOK, NoneRemoved, [Next]_vars PROVE NoneRemoved'
    OBVIOUS
  <2>1. faults \in Nat
    <3>1. faults \in 0 .. MaxFaults
      BY DEF TypeOK
    <3>2. QED
      BY <3>1, TransferAssumption
  <2>2. CASE UNCHANGED <<faults, removed>>
    BY <2>2 DEF NoneRemoved
  <2>3. ASSUME NEW c \in Clients, UploadChunk(c) \/ DownloadChunks(c) PROVE NoneRemoved'
    <3>1. UNCHANGED <<faults, removed>> \/ faults' = faults + 1
      BY <2>3 DEF UploadChunk, FailUpload, DownloadChunks
    <3>2. QED
      BY <2>1, <3>1 DEF NoneRemoved
  <2>4. ASSUME NEW c \in Clients, ClientStep(c) PROVE NoneRemoved'
    BY <2>2, <2>4 DEF ClientStep, Connect, SendFile, NextChunk, Timeout, ReceiveFrame, Leave
  <2>5. ASSUME NEW c \in Clients,
               \/ ReadRequest(c) \/ EndOfStream(c) \/ PushPending(c) \/ ResetUpload(c)
               \/ CheckOrder(c) \/ RecordChunk(c) \/ LockPending(c) \/ NotifyReceiver(c)
               \/ ForwardChunk(c) \/ ErasePending(c) \/ AnswerChunk(c)
        PROVE  NoneRemoved'
    BY <2>2, <2>5 DEF ReadRequest, EndOfStream, PushPending, ResetUpload, CheckOrder,
       RecordChunk, LockPending, NotifyReceiver, ForwardChunk, ErasePending, AnswerChunk
  <2>6. CASE UNCHANGED vars
    BY <2>2, <2>6 DEF vars
  <2>7. QED
    BY <2>3, <2>4, <2>5, <2>6 DEF Next, HandlerStep, ChunkStep
<1>3. QED
  BY <1>1, <1>2, TransferTypeCorrect, PTL DEF Spec

\* If nobody else uses the name and the file server did not fail, a file its receiver has
\* closed is the whole file.
THEOREM ClosedAlwaysWhole == Spec => []ClosedIsWhole
<1>1. DeliveryInv /\ NoneRemoved => ClosedIsWhole
  <2> SUFFICES ASSUME DeliveryInv, NoneRemoved, NEW x \in Transfers, OwnName(x), faults = 0,
                      disk[To[x]][Name[x]] # <<>>, Name[x] \notin opened[To[x]]
               PROVE  Len(disk[To[x]][Name[x]]) = Chunks[x]
    BY DEF ClosedIsWhole
  <2>1. To[x] \in Clients /\ Name[x] \in Names \ removed
    BY TransferAssumption DEF NoneRemoved
  <2>2. DiskOf(To[x], Name[x])
    BY <2>1 DEF DeliveryInv
  <2>3. QED
    BY <2>2 DEF DiskOf
<1>2. QED
  BY <1>1, DeliveryInvariant, RemovedByFailure, PTL
=============================================================================
