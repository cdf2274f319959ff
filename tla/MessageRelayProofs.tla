-------------------------- MODULE MessageRelayProofs --------------------------
(***************************************************************************)
(* Theorems about MessageRelay, for every set of users, connections and    *)
(* threads.  The safety invariants are not inductive by themselves: that a *)
(* copy reaches a connection of the receiver depends on what the handler   *)
(* found in the map, what it found there on who filed which socket, and    *)
(* what it says to the sender on the stream it read the request from.      *)
(* RelayInv states these dependencies.                                     *)
(***************************************************************************)
EXTENDS MessageRelay, SequenceTheorems, FiniteSetTheorems, TLAPS

\* What may be in the request stream of connection c.
RequestsOf(c) ==
    [kind : {"authorize", "garbage"}, msg : {NoMsg}]
        \cup [kind : {"send_message"}, msg : {m \in Messages : m.from = c}]

Told    == {"ack1", "lookup", "push1", "ack2", "push2"}
Sending == Told \cup {"resolve", "refuse"}

\* A request stream carries its own client's messages.
InboxSound == \A c \in Conns : inbox[c] \in Seq(RequestsOf(c))

\* A connection that is not open has no handler.
UnopenedIdle == \A c \in Conns : client[c] = "off" => phase[c] = "none"

\* The locals of handle_send_message: the message came from this connection and,
\* once the sender is told, is stored; a receiver_socket was looked up.
LocalsSound ==
    \A c \in Conns :
        /\ phase[c] \in Sending => current[c] \in Messages /\ current[c].from = c
        /\ phase[c] \in Told => current[c] \in stored
        /\ phase[c] \in {"push1", "push2"} => target[c] \in Conns
        /\ target[c] # NoConn => /\ phase[c] \in {"push1", "ack2", "push2"}
                                 /\ Owner[target[c]] = current[c].to

RelayInv ==
    /\ TypeOK
    /\ InboxSound
    /\ UnopenedIdle
    /\ LocalsSound
    /\ RegistrationSound
-----------------------------------------------------------------------------
(* Facts about frames and about the steps every handler is built from.     *)

LEMMA FramesTyped ==
    /\ \A m \in Carried :
         /\ Frame("auth_ok", m) \in Replies
         /\ Frame("auth_error", m) \in Replies
         /\ Frame("ok", m) \in Replies
         /\ Frame("error", m) \in Replies
         /\ Frame("receive_msg", m) \in Replies
    /\ NoMsg \in Carried
    /\ \A c \in Conns : RequestsOf(c) \subseteq Requests
BY DEF Frame, Replies, Requests, RequestsOf, Carried

\* What is left of a stream after one pass of the loop holds only frames that were
\* in it, and the garbage a cut one turns into.
LEMMA LeftoversTyped ==
    ASSUME NEW c \in Conns, NEW s \in Seq(RequestsOf(c)), NEW k \in 1 .. Len(s),
           NEW rest \in Leftovers(s, k)
    PROVE  rest \in Seq(RequestsOf(c))
<1> DEFINE r == SubSeq(s, k + 1, Len(s))
<1>1. r \in Seq(RequestsOf(c))
  BY SubSeqProperties
<1>2. Garbage \in RequestsOf(c)
  BY DEF Garbage, Frame, RequestsOf
<1>3. r # <<>> => [r EXCEPT ![1] = Garbage] \in Seq(RequestsOf(c))
  <2>1. r # <<>> => 1 \in 1 .. Len(r)
    BY <1>1, EmptySeq, LenProperties
  <2>2. QED
    BY <1>1, <1>2, <2>1, ExceptSeq
<1>4. QED
  BY <1>1, <1>3 DEF Leftovers

\* When the process terminates, the invariant holds of what is left.
LEMMA TerminateSound ==
    ASSUME RelayInv, Terminate, UNCHANGED <<clientVars, inbox, stored>>,
           outbox' \in [Conns -> Seq(Replies)]
    PROVE  RelayInv'
<1> USE RelayAssumption DEF RelayInv, Terminate, clientVars
<1>1. TypeOK'
  BY DEF TypeOK, Threads, Phases, Carried
<1>2. InboxSound' /\ UnopenedIdle'
  BY DEF InboxSound, UnopenedIdle
<1>3. LocalsSound'
  BY DEF LocalsSound, Sending, Told
<1>4. RegistrationSound'
  BY DEF RegistrationSound
<1>5. QED
  BY <1>1, <1>2, <1>3, <1>4

\* A handler that returns to the loop, or is given up by the main thread, drops
\* its locals and stays a handler the map may point to.
LEMMA FinishSound ==
    ASSUME RelayInv, NEW c \in Conns, NEW p \in {"reading", "abandoned"},
           NEW t \in Threads \cup {NoThread},
           phase[c] \in Busy, Finish(c, p, t),
           UNCHANGED <<clientVars, inbox, registry, alive, stored>>,
           outbox' \in [Conns -> Seq(Replies)]
    PROVE  RelayInv'
<1> USE RelayAssumption DEF RelayInv, Finish, clientVars
<1>1. TypeOK'
  BY DEF TypeOK, Phases, Busy, Carried
<1>2. InboxSound'
  BY DEF InboxSound
<1>3. UnopenedIdle'
  BY DEF UnopenedIdle, TypeOK, Busy
<1>4. LocalsSound'
  BY DEF LocalsSound, Sending, Told, TypeOK
<1>5. RegistrationSound'
  BY DEF RegistrationSound, TypeOK, Busy
<1>6. QED
  BY <1>1, <1>2, <1>3, <1>4, <1>5

\* So does one that goes on inside handle_send_message, if the locals are what
\* the next phase needs.
LEMMA GotoSound ==
    ASSUME RelayInv, NEW c \in Conns, NEW p \in Busy,
           phase[c] \in Busy, Goto(c, p),
           UNCHANGED <<clientVars, inbox, registry, alive>>,
           stored \subseteq stored', stored' \subseteq Messages,
           outbox' \in [Conns -> Seq(Replies)],
           p \in Sending => phase[c] \in Sending,
           p \in Told => current[c] \in stored',
           p \in {"push1", "push2"} => target[c] \in Conns,
           target[c] # NoConn => p \in {"push1", "ack2", "push2"}
    PROVE  RelayInv'
<1> USE RelayAssumption DEF RelayInv, Goto, clientVars
<1>1. TypeOK'
  BY DEF TypeOK, Phases
<1>2. InboxSound'
  BY DEF InboxSound
<1>3. UnopenedIdle'
  BY DEF UnopenedIdle, TypeOK, Busy
<1>4. LocalsSound'
  BY DEF LocalsSound, TypeOK
<1>5. RegistrationSound'
  BY DEF RegistrationSound, TypeOK
<1>6. QED
  BY <1>1, <1>2, <1>3, <1>4, <1>5

\* A write keeps the invariant, whichever way it ends.
LEMMA WriteSound ==
    ASSUME RelayInv, NEW c \in Conns, NEW d \in Conns, NEW f \in Replies,
           NEW p \in {"reading", "lookup", "ack2", "push2"},
           phase[c] \in Busy, Write(c, d, f, p),
           p # "reading" => phase[c] \in Told,
           p = "push2" => target[c] \in Conns,
           p = "lookup" => target[c] = NoConn
    PROVE  RelayInv'
<1>1. UNCHANGED <<clientVars, inbox, stored>> /\ outbox' \in [Conns -> Seq(Replies)]
  <2>1. outbox \in [Conns -> Seq(Replies)]
    BY DEF RelayInv, TypeOK
  <2>2. Append(outbox[d], f) \in Seq(Replies)
    BY <2>1, AppendProperties
  <2>3. QED
    BY <2>1, <2>2 DEF Write
<1>2. CASE p = "reading" /\ Return(c) /\ UNCHANGED <<registry, alive>>
  <2>1. thread[c] \in Threads \cup {NoThread}
    BY DEF RelayInv, TypeOK
  <2>2. QED
    BY <1>1, <1>2, <2>1, FinishSound DEF Return, clientVars
<1>3. CASE p # "reading" /\ Goto(c, p) /\ UNCHANGED <<registry, alive>>
  <2>1. current[c] \in stored /\ phase[c] \in Sending
    BY <1>3 DEF RelayInv, LocalsSound, Sending
  <2>2. target[c] # NoConn => p \in {"push1", "ack2", "push2"}
    BY <1>3
  <2>3. stored \subseteq stored' /\ stored' \subseteq Messages /\ p \in Busy
    BY <1>1 DEF RelayInv, TypeOK, Busy
  <2>4. p \in {"push1", "push2"} => target[c] \in Conns
    OBVIOUS
  <2>5. QED
    BY <1>1, <1>3, <2>1, <2>2, <2>3, <2>4, GotoSound DEF clientVars
<1>4. CASE Escape(c)
  <2>1. CASE Terminate
    BY <1>1, <2>1, TerminateSound
  <2>2. CASE Finish(c, "abandoned", NoThread) /\ UNCHANGED <<registry, alive>>
    BY <1>1, <2>2, FinishSound DEF clientVars
  <2>3. QED
    BY <1>4, <2>1, <2>2 DEF Escape
<1>5. QED
  BY <1>2, <1>3, <1>4 DEF Write

-----------------------------------------------------------------------------
(* The client's steps only add to a request stream or change its mind.     *)

LEMMA ConnectSound ==
    ASSUME RelayInv, NEW c \in Conns, Connect(c)
    PROVE  RelayInv'
<1> USE RelayAssumption DEF RelayInv, Connect
<1>1. phase[c] = "none" /\ client \in [Conns -> ClientStates] /\ phase \in [Conns -> Phases]
  BY DEF UnopenedIdle, TypeOK
<1>2. TypeOK'
  BY <1>1 DEF TypeOK, ClientStates, Phases
<1>3. InboxSound' /\ UnopenedIdle'
  BY <1>1 DEF InboxSound, UnopenedIdle
<1>4. LocalsSound'
  BY <1>1 DEF LocalsSound, Sending, Told
<1>5. RegistrationSound'
  BY <1>1 DEF RegistrationSound, Busy
<1>6. QED
  BY <1>2, <1>3, <1>4, <1>5

\* Any step of an open client that leaves the server alone, and adds at most a
\* request of its own to its stream, keeps the invariant.
LEMMA OpenClientSound ==
    ASSUME RelayInv, UNCHANGED <<outbox, serverVars, stored>>,
           client' \in [Conns -> ClientStates], seen' \in [Conns -> Nat],
           nsent' \in 0 .. MaxMsgs, nauth' \in 0 .. MaxAuths,
           \A c \in Conns : client'[c] = "off" => client[c] = "off",
           inbox' \in [Conns -> Seq(Requests)], InboxSound'
    PROVE  RelayInv'
<1> USE RelayAssumption DEF RelayInv, serverVars, handlerVars
<1>1. TypeOK'
  BY DEF TypeOK
<1>2. UnopenedIdle'
  BY DEF UnopenedIdle
<1>3. LocalsSound' /\ RegistrationSound'
  BY DEF LocalsSound, RegistrationSound
<1>4. QED
  BY <1>1, <1>2, <1>3

\* Appending a request of c's own to c's stream.
LEMMA OwnRequestSound ==
    ASSUME RelayInv, NEW c \in Conns, NEW r \in RequestsOf(c),
           inbox' = [inbox EXCEPT ![c] = Append(@, r)]
    PROVE  inbox' \in [Conns -> Seq(Requests)] /\ InboxSound'
<1>1. Append(inbox[c], r) \in Seq(RequestsOf(c))
  BY AppendProperties DEF RelayInv, InboxSound
<1>2. Append(inbox[c], r) \in Seq(Requests)
  BY <1>1, FramesTyped, SeqMonotonic
<1>3. inbox' \in [Conns -> Seq(Requests)]
  BY <1>2 DEF RelayInv, TypeOK
<1>4. InboxSound'
  BY <1>1 DEF RelayInv, TypeOK, InboxSound
<1>5. QED
  BY <1>3, <1>4

LEMMA ClientStepSound ==
    ASSUME RelayInv, NEW c \in Conns, ClientStep(c)
    PROVE  RelayInv'
<1> USE RelayAssumption
<1>0. /\ client \in [Conns -> ClientStates] /\ seen \in [Conns -> Nat]
      /\ inbox \in [Conns -> Seq(Requests)] /\ nsent \in 0 .. MaxMsgs
      /\ nauth \in 0 .. MaxAuths
  BY DEF RelayInv, TypeOK
<1>1. CASE Connect(c)
  BY <1>1, ConnectSound
<1>2. CASE SendAuthorize(c)
  <2>1. Frame("authorize", NoMsg) \in RequestsOf(c)
    BY DEF Frame, RequestsOf
  <2>2. inbox' \in [Conns -> Seq(Requests)] /\ InboxSound'
    BY <1>2, <2>1, OwnRequestSound DEF SendAuthorize
  <2>3. /\ client' \in [Conns -> ClientStates] /\ nauth' \in 0 .. MaxAuths
        /\ \A d \in Conns : client'[d] = "off" => client[d] = "off"
    BY <1>0, <1>2 DEF SendAuthorize, ClientStates
  <2>4. QED
    BY <1>0, <1>2, <2>2, <2>3, OpenClientSound DEF SendAuthorize
<1>3. CASE ReadAuthReply(c)
  <2>1. PICK k \in 1 .. Len(outbox[c]) - seen[c] :
              /\ seen' = [seen EXCEPT ![c] = @ + k]
              /\ client' = [client EXCEPT ![c] =
                     IF k = 1 /\ outbox[c][seen[c] + 1].kind = "auth_ok"
                     THEN "chatting" ELSE "prompt"]
    BY <1>3 DEF ReadAuthReply
  <2>2. seen' \in [Conns -> Nat]
    BY <1>0, <2>1
  <2>3. /\ client' \in [Conns -> ClientStates]
        /\ \A d \in Conns : client'[d] = "off" => client[d] = "off"
    BY <1>0, <2>1 DEF ClientStates
  <2>4. InboxSound'
    BY <1>3 DEF ReadAuthReply, RelayInv, InboxSound
  <2>5. QED
    BY <1>0, <1>3, <2>2, <2>3, <2>4, OpenClientSound DEF ReadAuthReply
<1>4. CASE \E u \in Users : TypeMessage(c, u)
  <2>1. PICK u \in Users : TypeMessage(c, u)
    BY <1>4
  <2> DEFINE m == [id |-> nsent + 1, from |-> c, to |-> u]
  <2>2. nsent' \in 0 .. MaxMsgs /\ nsent + 1 \in 1 .. MaxMsgs
    BY <1>0, <2>1 DEF TypeMessage
  <2>3. m \in Messages /\ m.from = c
    BY <2>2 DEF Messages
  <2>4. Frame("send_message", m) \in RequestsOf(c)
    BY <2>3 DEF Frame, RequestsOf
  <2>5. inbox' \in [Conns -> Seq(Requests)] /\ InboxSound'
    BY <2>1, <2>4, OwnRequestSound DEF TypeMessage
  <2>6. QED
    BY <1>0, <2>1, <2>2, <2>5, OpenClientSound DEF TypeMessage
<1>5. CASE Leave(c)
  <2>1. /\ client' \in [Conns -> ClientStates]
        /\ \A d \in Conns : client'[d] = "off" => client[d] = "off"
    BY <1>0, <1>5 DEF Leave, ClientStates
  <2>2. InboxSound'
    BY <1>5 DEF Leave, RelayInv, InboxSound
  <2>3. QED
    BY <1>0, <1>5, <2>1, <2>2, OpenClientSound DEF Leave
<1>6. QED
  BY <1>1, <1>2, <1>3, <1>4, <1>5 DEF ClientStep
-----------------------------------------------------------------------------
(* The server's steps.                                                     *)

LEMMA StartHandlerSound ==
    ASSUME RelayInv, NEW c \in Conns, StartHandler(c)
    PROVE  RelayInv'
<1> USE RelayAssumption DEF RelayInv
<1>1. PICK t \in IdleThreads : thread' = [thread EXCEPT ![c] = t]
  BY DEF StartHandler
<1>2. TypeOK'
  BY <1>1 DEF StartHandler, TypeOK, Phases, Busy, IdleThreads, clientVars
<1>3. InboxSound'
  BY DEF StartHandler, InboxSound
<1>4. UnopenedIdle'
  BY DEF StartHandler, UnopenedIdle, clientVars, TypeOK
<1>5. LocalsSound'
  BY DEF StartHandler, LocalsSound, Sending, Told, TypeOK
<1>6. RegistrationSound'
  BY DEF StartHandler, RegistrationSound, Busy, TypeOK
<1>7. QED
  BY <1>2, <1>3, <1>4, <1>5, <1>6

\* The request the handler takes off its stream is its own client's.
LEMMA ReadRequestSound ==
    ASSUME RelayInv, NEW c \in Conns, ReadRequest(c)
    PROVE  RelayInv'
<1> USE RelayAssumption
<1> DEFINE h == Head(inbox[c])
<1>1. inbox[c] \in Seq(RequestsOf(c)) /\ inbox[c] # <<>>
  BY DEF RelayInv, InboxSound, ReadRequest
<1>2. h \in RequestsOf(c)
  BY <1>1, HeadTailProperties
<1>3. PICK k \in 1 .. Len(inbox[c]) : \E rest \in Leftovers(inbox[c], k) :
            inbox' = [inbox EXCEPT ![c] = rest]
  BY DEF ReadRequest
<1>4. PICK rest \in Leftovers(inbox[c], k) : inbox' = [inbox EXCEPT ![c] = rest]
  BY <1>3
<1>5. rest \in Seq(RequestsOf(c))
  BY <1>1, <1>4, LeftoversTyped
<1>6. rest \in Seq(Requests)
  BY <1>5, FramesTyped, SeqMonotonic
<1>7. PICK p \in FirstPhases(h.kind) : phase' = [phase EXCEPT ![c] = p]
  BY DEF ReadRequest
<1>8. /\ h.msg \in Carried
      /\ p \in {"insert", "auth_error", "invalid", "resolve"}
      /\ p = "resolve" => h.msg \in Messages /\ h.msg.from = c
  BY <1>2, <1>7 DEF RequestsOf, FirstPhases, Carried
<1>9. /\ current' = [current EXCEPT ![c] = h.msg]
      /\ UNCHANGED <<clientVars, outbox, thread, target, registry, alive, stored>>
      /\ phase[c] = "reading"
  BY DEF ReadRequest
<1>10. TypeOK'
  BY <1>4, <1>6, <1>7, <1>8, <1>9 DEF RelayInv, TypeOK, Phases, Busy, clientVars
<1>11. InboxSound'
  BY <1>4, <1>5 DEF RelayInv, TypeOK, InboxSound
<1>12. UnopenedIdle'
  BY <1>7, <1>9 DEF RelayInv, TypeOK, UnopenedIdle, clientVars
<1>13. LocalsSound'
  <2>1. target[c] = NoConn
    BY <1>9 DEF RelayInv, LocalsSound
  <2>2. QED
    BY <1>7, <1>8, <1>9, <2>1 DEF RelayInv, TypeOK, LocalsSound, Sending, Told
<1>14. RegistrationSound'
  BY <1>7, <1>8, <1>9 DEF RelayInv, TypeOK, RegistrationSound, Busy
<1>15. QED
  BY <1>10, <1>11, <1>12, <1>13, <1>14 DEF RelayInv

LEMMA LoopStepSound ==
    ASSUME RelayInv, NEW c \in Conns, LoopStep(c)
    PROVE  RelayInv'
<1> USE RelayAssumption
<1>1. CASE ReadRequest(c)
  BY <1>1, ReadRequestSound
<1>2. CASE ReplyInvalid(c)
  <2>1. outbox \in [Conns -> Seq(Replies)] /\ thread[c] \in Threads \cup {NoThread}
    BY DEF RelayInv, TypeOK
  <2>2. Append(outbox[c], Frame("error", NoMsg)) \in Seq(Replies)
    BY <2>1, FramesTyped, AppendProperties
  <2>3. outbox' \in [Conns -> Seq(Replies)]
    BY <1>2, <2>1, <2>2 DEF ReplyInvalid
  <2>4. phase[c] \in Busy
    BY <1>2 DEF ReplyInvalid, Busy
  <2>5. QED
    BY <1>2, <2>1, <2>3, <2>4, FinishSound DEF ReplyInvalid, Return
<1>3. CASE ReadEof(c)
  <2>1. target[c] = NoConn /\ phase[c] \in Busy /\ "erase" \in Busy
    BY <1>3 DEF RelayInv, LocalsSound, ReadEof, Busy
  <2>2. stored \subseteq Messages /\ outbox \in [Conns -> Seq(Replies)]
    BY DEF RelayInv, TypeOK
  <2>3. "erase" \notin Sending /\ "erase" \notin Told
    BY DEF Sending, Told
  <2>4. QED
    BY <1>3, <2>1, <2>2, <2>3, GotoSound DEF ReadEof
<1>4. CASE EraseClient(c)
  <2> USE DEF RelayInv, EraseClient, Finish
  <2>1. TypeOK'
    BY <1>4 DEF TypeOK, Phases, Carried, clientVars
  <2>2. InboxSound' /\ UnopenedIdle'
    BY <1>4 DEF TypeOK, InboxSound, UnopenedIdle, clientVars
  <2>3. LocalsSound'
    BY <1>4 DEF TypeOK, LocalsSound, Sending, Told
  <2>4. RegistrationSound'
    BY <1>4 DEF TypeOK, RegistrationSound
  <2>5. QED
    BY <2>1, <2>2, <2>3, <2>4
<1>5. QED
  BY <1>1, <1>2, <1>3, <1>4 DEF LoopStep

LEMMA AuthorizeStepSound ==
    ASSUME RelayInv, NEW c \in Conns, AuthorizeStep(c)
    PROVE  RelayInv'
<1> USE RelayAssumption
<1>1. CASE AddClient(c)
  <2> USE DEF RelayInv, AddClient, Goto
  <2>1. TypeOK'
    BY <1>1 DEF TypeOK, Phases, Busy, clientVars
  <2>2. InboxSound' /\ UnopenedIdle'
    BY <1>1 DEF TypeOK, InboxSound, UnopenedIdle, clientVars
  <2>3. LocalsSound'
    BY <1>1 DEF TypeOK, LocalsSound, Sending, Told
  <2>4. RegistrationSound'
    BY <1>1 DEF TypeOK, RegistrationSound, Busy
  <2>5. QED
    BY <2>1, <2>2, <2>3, <2>4
<1>2. CASE ReplyAuthorize(c)
  <2>1. Frame(phase[c], NoMsg) \in Replies /\ phase[c] \in Busy
    BY <1>2, FramesTyped DEF ReplyAuthorize, Busy
  <2>2. QED
    BY <1>2, <2>1, WriteSound DEF ReplyAuthorize
<1>3. QED
  BY <1>1, <1>2 DEF AuthorizeStep

LEMMA SendStepSound ==
    ASSUME RelayInv, NEW c \in Conns, SendStep(c)
    PROVE  RelayInv'
<1> USE RelayAssumption
<1>0. /\ current[c] \in Carried /\ target[c] \in Conns \cup {NoConn}
      /\ stored \subseteq Messages /\ outbox \in [Conns -> Seq(Replies)]
      /\ phase[c] \in {"push1", "push2"} => target[c] \in Conns
  BY DEF RelayInv, TypeOK, LocalsSound
<1>1. CASE StoreMessage(c)
  <2>1. current[c] \in Messages /\ target[c] = NoConn /\ phase[c] \in Sending
    BY <1>1 DEF RelayInv, LocalsSound, Sending, StoreMessage
  <2>2. CASE stored' = stored \cup {current[c]} /\ Goto(c, "ack1")
    BY <1>0, <1>1, <2>1, <2>2, GotoSound DEF StoreMessage, Busy
  <2>3. CASE UNCHANGED stored /\ Goto(c, "refuse")
    BY <1>0, <1>1, <2>1, <2>3, GotoSound DEF StoreMessage, Busy, Told
  <2>4. QED
    BY <1>1, <2>2, <2>3 DEF StoreMessage
<1>2. CASE RefuseMessage(c)
  BY <1>0, <1>2, FramesTyped, WriteSound DEF RefuseMessage, Busy
<1>3. CASE AckSender(c)
  <2>1. target[c] = NoConn /\ phase[c] \in Busy /\ phase[c] \in Told
    BY <1>3 DEF AckSender, RelayInv, LocalsSound, Busy, Told
  <2>2. QED
    BY <1>0, <1>3, <2>1, FramesTyped, WriteSound DEF AckSender
<1>4. CASE LookupReceiver(c)
  <2> DEFINE r == registry[current[c].to]
  <2>1. current[c] \in Messages /\ current[c].from = c /\ current[c] \in stored
    BY <1>4 DEF RelayInv, LocalsSound, LookupReceiver, Sending, Told
  <2>2. current[c].to \in Users
    BY <2>1 DEF Messages
  <2>3. r \in Conns \cup {NoConn} /\ (r # NoConn => Owner[r] = current[c].to)
    BY <2>2 DEF RelayInv, TypeOK, RegistrationSound
  <2> HIDE DEF r
  <2>4. /\ target' = [target EXCEPT ![c] = r]
        /\ phase' = [phase EXCEPT ![c] = IF r = NoConn THEN "ack2" ELSE "push1"]
        /\ phase[c] = "lookup"
        /\ UNCHANGED <<clientVars, inbox, outbox, thread, current, registry, alive,
                       stored>>
    BY <1>4 DEF LookupReceiver, r
  <2>5. TypeOK'
    BY <2>3, <2>4 DEF RelayInv, TypeOK, Phases, Busy, clientVars
  <2>6. InboxSound' /\ UnopenedIdle'
    BY <2>4 DEF RelayInv, TypeOK, InboxSound, UnopenedIdle, clientVars
  <2>7. LocalsSound'
    BY <2>1, <2>3, <2>4 DEF RelayInv, TypeOK, LocalsSound, Sending, Told
  <2>8. RegistrationSound'
    BY <2>4 DEF RelayInv, TypeOK, RegistrationSound, Busy
  <2>9. QED
    BY <2>5, <2>6, <2>7, <2>8 DEF RelayInv
<1>5. CASE PushToReceiver(c)
  BY <1>0, <1>5, FramesTyped, WriteSound DEF PushToReceiver, Busy, Told
<1>6. CASE AckSenderAgain(c)
  BY <1>0, <1>6, FramesTyped, WriteSound DEF AckSenderAgain, Busy, Told
<1>7. CASE PushToReceiverAgain(c)
  BY <1>0, <1>7, FramesTyped, WriteSound DEF PushToReceiverAgain, Busy, Told
<1>8. QED
  BY <1>1, <1>2, <1>3, <1>4, <1>5, <1>6, <1>7 DEF SendStep

\* The outcomes of a data race on the map that are represented.
LEMMA RaceStepSound ==
    ASSUME RelayInv, NEW c \in Conns, RaceStep(c)
    PROVE  RelayInv'
<1> USE RelayAssumption
<1>0. stored \subseteq Messages /\ outbox \in [Conns -> Seq(Replies)]
  BY DEF RelayInv, TypeOK
<1>1. CASE RaceCrash(c)
  BY <1>0, <1>1, TerminateSound DEF RaceCrash
<1>2. CASE RaceLosesInsert(c)
  <2>1. target[c] = NoConn
    BY <1>2 DEF RelayInv, LocalsSound, RaceLosesInsert
  <2>2. QED
    BY <1>0, <1>2, <2>1, GotoSound DEF RaceLosesInsert, Busy, Sending, Told
<1>3. CASE RaceMissesEntry(c)
  <2>1. target[c] = NoConn /\ current[c] \in stored
    BY <1>3 DEF RelayInv, LocalsSound, RaceMissesEntry, Told
  <2>2. QED
    BY <1>0, <1>3, <2>1, GotoSound DEF RaceMissesEntry, Busy, Sending, Told
<1>4. QED
  BY <1>1, <1>2, <1>3 DEF RaceStep

-----------------------------------------------------------------------------
\* RelayInv is an inductive invariant of the relay: handle_request, its handlers,
\* the pool and the clients keep it, for any users, connections and threads.
THEOREM RelayInvariant == Spec => []RelayInv
<1>1. Init => RelayInv
  <2> SUFFICES ASSUME Init PROVE RelayInv
    OBVIOUS
  <2> USE RelayAssumption DEF Init
  <2>1. TypeOK
    BY EmptySeq DEF TypeOK, ClientStates, Phases, Carried
  <2>2. InboxSound
    BY EmptySeq DEF InboxSound
  <2>3. UnopenedIdle /\ LocalsSound /\ RegistrationSound
    BY DEF UnopenedIdle, LocalsSound, RegistrationSound, Sending, Told
  <2>4. QED
    BY <2>1, <2>2, <2>3 DEF RelayInv
<1>2. RelayInv /\ [Next]_vars => RelayInv'
  <2> SUFFICES ASSUME RelayInv, [Next]_vars PROVE RelayInv'
    OBVIOUS
  <2>1. ASSUME NEW c \in Conns, ClientStep(c) PROVE RelayInv'
    BY <2>1, ClientStepSound
  <2>2. ASSUME NEW c \in Conns, StartHandler(c) PROVE RelayInv'
    BY <2>2, StartHandlerSound
  <2>3. ASSUME NEW c \in Conns, HandlerStep(c) PROVE RelayInv'
    BY <2>3, LoopStepSound, AuthorizeStepSound, SendStepSound DEF HandlerStep
  <2>4. ASSUME NEW c \in Conns, RaceStep(c) PROVE RelayInv'
    BY <2>4, RaceStepSound
  <2>5. CASE UNCHANGED vars
    BY <2>5 DEF RelayInv, vars, clientVars, serverVars, handlerVars, TypeOK,
            InboxSound, UnopenedIdle, LocalsSound, RegistrationSound
  <2>6. QED
    BY <2>1, <2>2, <2>3, <2>4, <2>5 DEF Next
<1>3. QED
  BY <1>1, <1>2, PTL DEF Spec

\* Every variable keeps its type; in particular a message is always one that was
\* typed, and a handler's thread is a thread of the server.
THEOREM RelayTypeCorrect == Spec => []TypeOK
<1>1. RelayInv => TypeOK
  BY DEF RelayInv
<1>2. QED
  BY <1>1, RelayInvariant, PTL

\* The map of connected clients never holds a socket under another user's id, nor
\* one whose handler saw the end of the stream.
THEOREM RegistrationAlwaysSound == Spec => []RegistrationSound
<1>1. RelayInv => RegistrationSound
  BY DEF RelayInv
<1>2. QED
  BY <1>1, RelayInvariant, PTL

-----------------------------------------------------------------------------
(* What is written is true and in order. The handler needs to remember, as *)
(* an invariant of its phases, that it told the sender.                    *)

Acked == {"lookup", "push1", "ack2", "push2"}

SenderKnows(c, m) == Frame("ok", m) \in Written(c) \/ client[c] = "gone"

HandlerTold == \A c \in Conns : phase[c] \in Acked => SenderKnows(c, current[c])

TruthInv == RelayTruthful /\ HandlerTold /\ SenderToldFirst

\* Two ways to say what SenderToldFirst says of a frame to d.
LEMMA ToldFirstDef ==
    SenderToldFirst <=>
        \A d \in Conns : \A f \in Written(d) :
            f.kind = "receive_msg" => SenderKnows(f.msg.from, f.msg)
BY DEF SenderToldFirst, SenderKnows

\* A write adds its frame to the receiver's stream and nothing else.
LEMMA WrittenByWrite ==
    ASSUME outbox \in [Conns -> Seq(Replies)], NEW d \in Conns, NEW f \in Replies,
           IF client[d] = "gone" THEN UNCHANGED outbox
           ELSE outbox' = [outbox EXCEPT ![d] = Append(@, f)]
    PROVE  /\ \A e \in Conns : Written(e) \subseteq Written(e)'
           /\ \A e \in Conns : \A g \in Written(e)' :
                 g \in Written(e) \/ (e = d /\ g = f)
           /\ client[d] # "gone" => f \in Written(d)'
<1>1. CASE client[d] = "gone"
  BY <1>1 DEF Written
<1>2. CASE client[d] # "gone"
  <2> DEFINE s == Append(outbox[d], f)
  <2>1. /\ Len(outbox[d]) \in Nat /\ DOMAIN outbox[d] = 1 .. Len(outbox[d])
        /\ DOMAIN s = 1 .. Len(outbox[d]) + 1
        /\ \A i \in 1 .. Len(outbox[d]) : s[i] = outbox[d][i]
        /\ s[Len(outbox[d]) + 1] = f
    BY AppendProperties, LenProperties
  <2>2. Written(d)' = {s[i] : i \in DOMAIN s}
    BY <1>2 DEF Written
  <2> HIDE DEF s
  <2>3. Written(d)' = Written(d) \cup {f}
    <3>1. \A g \in Written(d) : g \in Written(d)'
      BY <2>1, <2>2 DEF Written
    <3>2. f \in Written(d)'
      BY <2>1, <2>2
    <3>3. \A g \in Written(d)' : g \in Written(d) \cup {f}
      <4>1. SUFFICES ASSUME NEW i \in 1 .. Len(outbox[d]) + 1
                     PROVE  s[i] \in Written(d) \cup {f}
        BY <2>1, <2>2
      <4>2. CASE i \in 1 .. Len(outbox[d])
        BY <2>1, <4>2 DEF Written
      <4>3. CASE i = Len(outbox[d]) + 1
        BY <2>1, <4>3
      <4>4. QED
        BY <2>1, <4>2, <4>3
    <3>4. QED
      BY <3>1, <3>2, <3>3
  <2>4. \A e \in Conns \ {d} : Written(e)' = Written(e)
    BY <1>2 DEF Written
  <2>5. QED
    BY <2>3, <2>4
<1>3. QED
  BY <1>1, <1>2

\* A step that writes nothing and forgets neither a message nor a departure keeps
\* the truth, if no handler claims to have told a sender it had not told.
LEMMA QuietStep ==
    ASSUME RelayInv, TruthInv, UNCHANGED outbox, stored \subseteq stored',
           \A c \in Conns : client[c] = "gone" => client'[c] = "gone",
           \A c \in Conns : phase'[c] \in Acked =>
               phase[c] \in Acked /\ current'[c] = current[c]
    PROVE  TruthInv'
<1>1. \A e \in Conns : Written(e)' = Written(e)
  BY DEF Written
<1>2. RelayTruthful'
  BY <1>1 DEF TruthInv, RelayTruthful
<1>3. \A c \in Conns : \A m \in Carried : SenderKnows(c, m) => SenderKnows(c, m)'
  BY <1>1 DEF SenderKnows, Frame
<1>4. HandlerTold'
  BY <1>3 DEF TruthInv, HandlerTold, RelayInv, TypeOK
<1>5. SenderToldFirst'
  <2>1. SUFFICES ASSUME NEW d \in Conns, NEW f \in Written(d)', f.kind = "receive_msg"
                 PROVE  SenderKnows(f.msg.from, f.msg)'
    BY DEF SenderToldFirst, SenderKnows
  <2>2. f.msg \in Messages /\ f \in Written(d)
    BY <1>1, <2>1 DEF TruthInv, RelayTruthful, RelayInv, TypeOK
  <2>3. SenderKnows(f.msg.from, f.msg)
    BY <2>1, <2>2, ToldFirstDef DEF TruthInv
  <2>4. QED
    BY <1>3, <2>2, <2>3 DEF Messages, Carried
<1>6. QED
  BY <1>2, <1>4, <1>5 DEF TruthInv

\* A write keeps the truth if what it writes is true.
LEMMA WriteTruthful ==
    ASSUME RelayInv, TruthInv,
           NEW c \in Conns, NEW d \in Conns, NEW f \in Replies,
           NEW p \in {"reading", "lookup", "ack2", "push2"}, Write(c, d, f, p),
           f.kind = "ok" => f.msg \in stored /\ f.msg.from = d,
           f.kind = "receive_msg" => /\ f.msg \in stored /\ f.msg.to = Owner[d]
                                     /\ SenderKnows(f.msg.from, f.msg),
           p # "reading" => \/ phase[c] \in Acked
                            \/ f = Frame("ok", current[c]) /\ d = c
    PROVE  TruthInv'
<1> USE DEF RelayInv, TypeOK
<1>1. /\ \A e \in Conns : Written(e) \subseteq Written(e)'
      /\ \A e \in Conns : \A g \in Written(e)' : g \in Written(e) \/ (e = d /\ g = f)
      /\ client[d] # "gone" => f \in Written(d)'
  BY WrittenByWrite DEF Write
<1>2. UNCHANGED <<client, stored>>
  BY DEF Write, clientVars
<1>3. RelayTruthful'
  BY <1>1, <1>2 DEF TruthInv, RelayTruthful
<1>4. \A e \in Conns : \A m \in Carried : SenderKnows(e, m) => SenderKnows(e, m)'
  BY <1>1, <1>2 DEF SenderKnows, Frame
<1>5. HandlerTold'
  <2>1. SUFFICES ASSUME NEW e \in Conns, phase'[e] \in Acked
                 PROVE  SenderKnows(e, current[e])'
    BY DEF HandlerTold, SenderKnows
  <2>2. CASE e # c
    <3>1. phase[e] \in Acked /\ current'[e] = current[e]
      BY <2>1, <2>2 DEF Write, Return, Finish, Goto, Escape, Terminate, Acked
    <3>2. QED
      BY <1>4, <3>1 DEF TruthInv, HandlerTold
  <2>3. CASE e = c
    <3>1. p # "reading" /\ current'[c] = current[c]
      BY <2>1, <2>3 DEF Write, Return, Finish, Goto, Escape, Terminate, Acked
    <3>2. CASE phase[c] \in Acked
      BY <1>4, <2>3, <3>1, <3>2 DEF TruthInv, HandlerTold
    <3>3. CASE f = Frame("ok", current[c]) /\ d = c
      BY <1>1, <1>2, <2>3, <3>1, <3>3 DEF SenderKnows
    <3>4. QED
      BY <3>1, <3>2, <3>3
  <2>4. QED
    BY <2>2, <2>3
<1>6. SenderToldFirst'
  <2>1. SUFFICES ASSUME NEW e \in Conns, NEW g \in Written(e)', g.kind = "receive_msg"
                 PROVE  SenderKnows(g.msg.from, g.msg)'
    BY DEF SenderToldFirst, SenderKnows
  <2>2. g \in Written(e) \/ (e = d /\ g = f)
    BY <1>1
  <2>3. g.msg \in Messages /\ SenderKnows(g.msg.from, g.msg)
    BY <2>1, <2>2, ToldFirstDef DEF TruthInv, RelayTruthful
  <2>4. QED
    BY <1>4, <2>3 DEF Messages, Carried
<1>7. QED
  BY <1>3, <1>5, <1>6 DEF TruthInv

LEMMA SendStepTruthful ==
    ASSUME RelayInv, TruthInv, NEW c \in Conns, SendStep(c)
    PROVE  TruthInv'
<1> USE RelayAssumption
<1>0. /\ current[c] \in Carried
      /\ phase[c] \in Sending => current[c] \in Messages /\ current[c].from = c
      /\ phase[c] \in Told => current[c] \in stored
      /\ phase[c] \in {"push1", "push2"} =>
             target[c] \in Conns /\ Owner[target[c]] = current[c].to
      /\ phase[c] \in Acked => SenderKnows(c, current[c])
      /\ phase \in [Conns -> Phases]
  BY DEF RelayInv, TypeOK, LocalsSound, TruthInv, HandlerTold
<1>1. CASE StoreMessage(c)
  BY <1>0, <1>1, QuietStep DEF StoreMessage, Goto, Acked, clientVars
<1>2. CASE RefuseMessage(c)
  BY <1>0, <1>2, FramesTyped, WriteTruthful DEF RefuseMessage, Frame
<1>3. CASE AckSender(c)
  BY <1>0, <1>3, FramesTyped, WriteTruthful DEF AckSender, Frame, Told, Sending
<1>4. CASE LookupReceiver(c)
  BY <1>0, <1>4, QuietStep DEF LookupReceiver, Acked, clientVars
<1>5. CASE PushToReceiver(c)
  BY <1>0, <1>5, FramesTyped, WriteTruthful
     DEF PushToReceiver, Frame, Told, Sending, Acked
<1>6. CASE AckSenderAgain(c)
  BY <1>0, <1>6, FramesTyped, WriteTruthful
     DEF AckSenderAgain, Frame, Told, Sending, Acked
<1>7. CASE PushToReceiverAgain(c)
  BY <1>0, <1>7, FramesTyped, WriteTruthful
     DEF PushToReceiverAgain, Frame, Told, Sending, Acked
<1>8. QED
  BY <1>1, <1>2, <1>3, <1>4, <1>5, <1>6, <1>7 DEF SendStep

\* The answers that carry no message say nothing about one.
LEMMA OtherStepTruthful ==
    ASSUME RelayInv, TruthInv, NEW c \in Conns,
           ClientStep(c) \/ StartHandler(c) \/ LoopStep(c) \/ AuthorizeStep(c)
    PROVE  TruthInv'
<1> USE RelayAssumption
<1>0. /\ phase \in [Conns -> Phases] /\ client \in [Conns -> ClientStates]
      /\ outbox \in [Conns -> Seq(Replies)] /\ current \in [Conns -> Carried]
      /\ client[c] = "off" => phase[c] = "none"
  BY DEF RelayInv, TypeOK, UnopenedIdle
<1>1. CASE ClientStep(c)
  <2> USE DEF Acked, clientVars, serverVars, handlerVars
  <2>1. CASE Connect(c)
    BY <1>0, <2>1, QuietStep DEF Connect
  <2>2. CASE SendAuthorize(c)
    BY <1>0, <2>2, QuietStep DEF SendAuthorize
  <2>3. CASE ReadAuthReply(c)
    BY <1>0, <2>3, QuietStep DEF ReadAuthReply
  <2>4. CASE \E u \in Users : TypeMessage(c, u)
    BY <1>0, <2>4, QuietStep DEF TypeMessage
  <2>5. CASE Leave(c)
    BY <1>0, <2>5, QuietStep DEF Leave
  <2>6. QED
    BY <1>1, <2>1, <2>2, <2>3, <2>4, <2>5 DEF ClientStep
<1>2. CASE StartHandler(c)
  BY <1>0, <1>2, QuietStep DEF StartHandler, Acked, clientVars
<1>3. CASE LoopStep(c)
  <2> USE DEF Acked, clientVars, Goto, Finish, Return
  <2>1. CASE ReadRequest(c)
    <3>1. PICK p \in FirstPhases(Head(inbox[c]).kind) : phase' = [phase EXCEPT ![c] = p]
      BY <2>1 DEF ReadRequest
    <3>2. Head(inbox[c]) \in RequestsOf(c)
      BY <2>1, HeadTailProperties DEF ReadRequest, RelayInv, InboxSound
    <3>3. p \notin Acked
      BY <3>1, <3>2 DEF RequestsOf, FirstPhases
    <3>4. QED
      BY <1>0, <2>1, <3>1, <3>3, QuietStep DEF ReadRequest
  <2>2. CASE ReplyInvalid(c)
    <3>1. Frame("error", NoMsg) \in Replies
      BY FramesTyped
    <3>2. /\ \A e \in Conns : Written(e) \subseteq Written(e)'
          /\ \A e \in Conns : \A g \in Written(e)' :
                g \in Written(e) \/ g = Frame("error", NoMsg)
      BY <1>0, <2>2, <3>1, WrittenByWrite DEF ReplyInvalid
    <3>3. RelayTruthful'
      BY <2>2, <3>2 DEF TruthInv, RelayTruthful, ReplyInvalid, Frame
    <3>4. HandlerTold'
      BY <1>0, <2>2, <3>2 DEF TruthInv, HandlerTold, SenderKnows, ReplyInvalid
    <3>5. SenderToldFirst'
      <4>1. SUFFICES ASSUME NEW e \in Conns, NEW g \in Written(e)',
                            g.kind = "receive_msg"
                     PROVE  SenderKnows(g.msg.from, g.msg)'
        BY DEF SenderToldFirst, SenderKnows
      <4>2. g \in Written(e)
        BY <3>2, <4>1 DEF Frame
      <4>3. g.msg \in Messages /\ SenderKnows(g.msg.from, g.msg)
        BY <4>1, <4>2, ToldFirstDef DEF TruthInv, RelayTruthful, RelayInv, TypeOK
      <4>4. QED
        BY <2>2, <3>2, <4>3 DEF SenderKnows, ReplyInvalid, Messages
    <3>6. QED
      BY <3>3, <3>4, <3>5 DEF TruthInv
  <2>3. CASE ReadEof(c)
    BY <1>0, <2>3, QuietStep DEF ReadEof
  <2>4. CASE EraseClient(c)
    BY <1>0, <2>4, QuietStep DEF EraseClient
  <2>5. QED
    BY <1>3, <2>1, <2>2, <2>3, <2>4 DEF LoopStep
<1>4. CASE AuthorizeStep(c)
  <2>1. CASE AddClient(c)
    BY <1>0, <2>1, QuietStep DEF AddClient, Goto, Acked, clientVars
  <2>2. CASE ReplyAuthorize(c)
    BY <2>2, FramesTyped, WriteTruthful DEF ReplyAuthorize, Frame
  <2>3. QED
    BY <1>4, <2>1, <2>2 DEF AuthorizeStep
<1>5. QED
  BY <1>1, <1>2, <1>3, <1>4

\* A lookup that misses an entry leads the handler where it told the sender too.
LEMMA RaceStepTruthful ==
    ASSUME RelayInv, TruthInv, NEW c \in Conns, RaceStep(c)
    PROVE  TruthInv'
<1> USE RelayAssumption DEF Acked, clientVars, Goto
<1>0. phase \in [Conns -> Phases]
  BY DEF RelayInv, TypeOK
<1>1. CASE RaceCrash(c)
  BY <1>1, QuietStep DEF RaceCrash, Terminate
<1>2. CASE RaceLosesInsert(c)
  BY <1>0, <1>2, QuietStep DEF RaceLosesInsert
<1>3. CASE RaceMissesEntry(c)
  BY <1>0, <1>3, QuietStep DEF RaceMissesEntry
<1>4. QED
  BY <1>1, <1>2, <1>3 DEF RaceStep

\* What the handlers write about a message, and the order they write it in, as an
\* invariant relative to RelayInv.
THEOREM TruthInvariant == Spec => []TruthInv
<1>1. Init => TruthInv
  <2> SUFFICES ASSUME Init PROVE TruthInv
    OBVIOUS
  <2>1. \A d \in Conns : Written(d) = {}
    BY DEF Init, Written
  <2>2. QED
    BY <2>1 DEF Init, TruthInv, RelayTruthful, HandlerTold, SenderToldFirst, Acked
<1>2. RelayInv /\ TruthInv /\ [Next]_vars => TruthInv'
  <2> SUFFICES ASSUME RelayInv, TruthInv, [Next]_vars PROVE TruthInv'
    OBVIOUS
  <2>1. CASE Next
    <3>1. PICK c \in Conns :
              ClientStep(c) \/ StartHandler(c) \/ HandlerStep(c) \/ RaceStep(c)
      BY <2>1 DEF Next
    <3>2. QED
      BY <3>1, OtherStepTruthful, SendStepTruthful, RaceStepTruthful DEF HandlerStep
  <2>2. CASE UNCHANGED vars
    BY <2>2, QuietStep DEF vars, clientVars, serverVars, handlerVars
  <2>3. QED
    BY <2>1, <2>2
<1>3. QED
  BY <1>1, <1>2, RelayInvariant, PTL DEF Spec

\* Success is only reported for a message the database holds, to its sender; a
\* copy only goes to a connection of its receiver.
THEOREM RelayAlwaysTruthful == Spec => []RelayTruthful
<1>1. TruthInv => RelayTruthful
  BY DEF TruthInv
<1>2. QED
  BY <1>1, TruthInvariant, PTL

\* A receiver never learns of a message before its sender was told, or was gone.
THEOREM SenderAlwaysToldFirst == Spec => []SenderToldFirst
<1>1. TruthInv => SenderToldFirst
  BY DEF TruthInv
<1>2. QED
  BY <1>1, TruthInvariant, PTL

\* Nothing but the end of the registered stream takes a user out of the map.
THEOREM OnlyOwnEndEverForgets == Spec => OnlyOwnEndForgets
<1> DEFINE Kept == \A u \in Users :
                     alive' /\ registry[u] # NoConn /\ registry'[u] = NoConn =>
                         phase[registry[u]] = "erase" /\ phase'[registry[u]] = "done"
<1>1. RelayInv /\ [Next]_vars => [Kept]_vars
  <2> SUFFICES ASSUME RelayInv, [Next]_vars, NEW u \in Users, alive',
                      registry[u] # NoConn, registry'[u] = NoConn
               PROVE  phase[registry[u]] = "erase" /\ phase'[registry[u]] = "done"
    OBVIOUS
  <2> USE RelayAssumption
  <2>0. registry \in [Users -> Conns \cup {NoConn}] /\ phase \in [Conns -> Phases]
    BY DEF RelayInv, TypeOK
  <2>1. PICK c \in Conns :
            ClientStep(c) \/ StartHandler(c) \/ HandlerStep(c) \/ RaceStep(c)
    BY DEF Next, vars, serverVars
  <2>2. CASE EraseClient(c)
    BY <2>0, <2>2 DEF EraseClient, Finish
  <2>3. CASE AddClient(c)
    BY <2>0, <2>3 DEF AddClient
  <2>4. ~Terminate
    BY DEF Terminate
  <2>5. ASSUME NEW d, NEW f, NEW p, Write(c, d, f, p) PROVE FALSE
    BY <2>4, <2>5 DEF Write, Escape
  <2>6. CASE ClientStep(c)
    BY <2>6 DEF ClientStep, Connect, SendAuthorize, ReadAuthReply, TypeMessage,
            Leave, serverVars
  <2>7. CASE StartHandler(c)
    BY <2>7 DEF StartHandler
  <2>8. CASE LoopStep(c) \/ AuthorizeStep(c)
    BY <2>2, <2>3, <2>5, <2>8 DEF LoopStep, AuthorizeStep, ReadRequest, ReplyInvalid,
            ReadEof, ReplyAuthorize
  <2>9. CASE SendStep(c)
    BY <2>5, <2>9 DEF SendStep, StoreMessage, RefuseMessage, AckSender,
            LookupReceiver, PushToReceiver, AckSenderAgain, PushToReceiverAgain
  <2>10. CASE RaceStep(c)
    BY <2>4, <2>10 DEF RaceStep, RaceCrash, RaceLosesInsert, RaceMissesEntry
  <2>11. QED
    BY <2>1, <2>6, <2>7, <2>8, <2>9, <2>10 DEF HandlerStep
<1>2. QED
  BY <1>1, RelayInvariant, PTL DEF Spec, OnlyOwnEndForgets

-----------------------------------------------------------------------------
(* How often a message is written. A handler cannot count what it wrote:   *)
(* the invariant follows each message from its sender through the stream   *)
(* of requests into the handler and on from phase to phase, and says how   *)
(* many answers and copies there may be by then.                           *)

\* No connection has two copies of one request on their way, and none of the request
\* that is being handled; later messages have later ids.
ReadOnce ==
    \A c \in Conns :
        /\ \A k \in DOMAIN inbox[c] : inbox[c][k].msg # NoMsg =>
              /\ inbox[c][k].msg.id <= nsent
              /\ phase[c] \in Sending => inbox[c][k].msg # current[c]
        /\ \A k, l \in DOMAIN inbox[c] :
              k < l /\ inbox[c][k].msg # NoMsg => inbox[c][k].msg # inbox[c][l].msg
        /\ phase[c] \in Sending => current[c].id <= nsent

HandledIn(m, P) == phase[m.from] \in P /\ current[m.from] = m

\* m is not typed yet, on its way to its handler, or there and its sender not yet told.
Waiting(m) ==
    \/ nsent < m.id
    \/ \E k \in DOMAIN inbox[m.from] : inbox[m.from][k].msg = m
    \/ HandledIn(m, {"resolve", "refuse", "ack1"})

Uncopied(m) == \A d \in Conns : Frame("receive_msg", m) \notin Written(d)

CopiesBounded(m) ==
    /\ Waiting(m) => Uncopied(m) /\ \A d \in Conns : Frame("ok", m) \notin Written(d)
    /\ HandledIn(m, {"lookup", "push1"}) => Uncopied(m)
    /\ HandledIn(m, {"lookup", "push1", "ack2"}) => Copies(m.from, Frame("ok", m)) <= 1
    /\ HandledIn(m, {"ack2", "push2"}) =>
          \A d \in Conns : Frame("receive_msg", m) \in Written(d) =>
              d = target[m.from] /\ Copies(d, Frame("receive_msg", m)) <= 1
    /\ \A d \in Conns : /\ Copies(d, Frame("ok", m)) <= 2
                        /\ Copies(d, Frame("receive_msg", m)) <= 2
    /\ \A d, e \in Conns : /\ Frame("receive_msg", m) \in Written(d)
                           /\ Frame("receive_msg", m) \in Written(e)
                           => d = e

OnceInv == ReadOnce /\ \A m \in Messages : CopiesBounded(m)

\* The id of a message counts, and its sender is a connection.
LEMMA MessageFields ==
    ASSUME RelayInv, NEW m \in Messages
    PROVE  m.id \in Nat /\ m.from \in Conns /\ m # NoMsg /\ nsent \in Nat
<1>1. nsent \in 0 .. MaxMsgs
  BY DEF RelayInv, TypeOK
<1>2. QED
  BY <1>1, RelayAssumption DEF Messages

LEMMA CopiesCounted ==
    ASSUME outbox \in [Conns -> Seq(Replies)], NEW e \in Conns, NEW g
    PROVE  /\ Copies(e, g) \in Nat
           /\ g \notin Written(e) => Copies(e, g) = 0
<1> DEFINE I == {i \in DOMAIN outbox[e] : outbox[e][i] = g}
<1>1. Len(outbox[e]) \in Nat /\ DOMAIN outbox[e] = 1 .. Len(outbox[e])
  BY LenProperties
<1>2. IsFiniteSet(1 .. Len(outbox[e]))
  BY <1>1, FS_Interval
<1>3. IsFiniteSet(I)
  BY <1>1, <1>2, FS_Subset
<1>4. Cardinality(I) \in Nat
  BY <1>3, FS_CardinalityType
<1>5. g \notin Written(e) => I = {}
  BY DEF Written
<1>6. QED
  BY <1>4, <1>5, FS_EmptySet DEF Copies

\* A write makes at most one more of its frame at the connection it goes to.
LEMMA CopiesByWrite ==
    ASSUME outbox \in [Conns -> Seq(Replies)], NEW d \in Conns, NEW f \in Replies,
           IF client[d] = "gone" THEN UNCHANGED outbox
           ELSE outbox' = [outbox EXCEPT ![d] = Append(@, f)],
           NEW e \in Conns, NEW g
    PROVE  /\ Copies(e, g)' <= Copies(e, g) + 1
           /\ e # d \/ g # f => Copies(e, g)' = Copies(e, g)
<1>0. Copies(e, g) \in Nat
  BY CopiesCounted
<1>1. CASE outbox'[e] = outbox[e]
  BY <1>0, <1>1 DEF Copies
<1>2. CASE e = d /\ outbox'[d] = Append(outbox[d], f)
  <2> DEFINE s == outbox[d]
             r == Append(s, f)
             I == {i \in DOMAIN s : s[i] = g}
  <2>1. /\ Len(s) \in Nat /\ DOMAIN s = 1 .. Len(s) /\ DOMAIN r = 1 .. Len(s) + 1
        /\ \A i \in 1 .. Len(s) : r[i] = s[i]
        /\ r[Len(s) + 1] = f
    BY AppendProperties, LenProperties
  <2>2. Copies(e, g) = Cardinality(I) /\ Copies(e, g)' = Cardinality({i \in DOMAIN r : r[i] = g})
    BY <1>2 DEF Copies
  <2>3. IsFiniteSet(I)
    <3>1. IsFiniteSet(1 .. Len(s))
      BY <2>1, FS_Interval
    <3>2. QED
      BY <2>1, <3>1, FS_Subset
  <2>4. CASE g = f
    <3>1. {i \in DOMAIN r : r[i] = g} = I \cup {Len(s) + 1}
      <4> HIDE DEF s, r
      <4>1. QED
        BY <2>1, <2>4
    <3>2. Cardinality(I \cup {Len(s) + 1}) <= Cardinality(I) + 1
      <4>1. Cardinality(I) \in Nat
        BY <2>3, FS_CardinalityType
      <4>2. Cardinality(I \cup {Len(s) + 1}) \in {Cardinality(I), Cardinality(I) + 1}
        BY <2>3, FS_AddElement
      <4>3. QED
        BY <4>1, <4>2
    <3>3. QED
      BY <1>2, <2>2, <2>4, <3>1, <3>2
  <2>5. CASE g # f
    <3>1. {i \in DOMAIN r : r[i] = g} = I
      <4> HIDE DEF s, r
      <4>1. QED
        BY <2>1, <2>5
    <3>2. Copies(e, g)' = Copies(e, g)
      BY <2>2, <3>1
    <3>3. QED
      BY <1>0, <3>2
  <2>6. QED
    BY <2>4, <2>5
<1>3. QED
  BY <1>1, <1>2

\* A step that writes nothing about m, if m does not come back and is not counted anew.
LEMMA CopiesKept ==
    ASSUME RelayInv, NEW m \in Messages, CopiesBounded(m),
           \A d \in Conns : \A k \in {"ok", "receive_msg"} :
               /\ Copies(d, Frame(k, m))' = Copies(d, Frame(k, m))
               /\ Frame(k, m) \in Written(d)' => Frame(k, m) \in Written(d),
           Waiting(m)' => Waiting(m),
           HandledIn(m, Acked)' =>
               /\ HandledIn(m, Acked)
               /\ \/ phase'[m.from] = phase[m.from] /\ target'[m.from] = target[m.from]
                  \/ phase[m.from] = "lookup" /\ phase'[m.from] \in {"push1", "ack2"}
    PROVE  CopiesBounded(m)'
<1>1. /\ m.from \in Conns
      /\ \A d \in Conns : /\ Copies(d, Frame("ok", m))' = Copies(d, Frame("ok", m))
                          /\ Copies(d, Frame("receive_msg", m))' = Copies(d, Frame("receive_msg", m))
                          /\ Frame("ok", m) \in Written(d)' => Frame("ok", m) \in Written(d)
                          /\ Frame("receive_msg", m) \in Written(d)' => Frame("receive_msg", m) \in Written(d)
  BY MessageFields
<1>2. Uncopied(m) => Uncopied(m)'
  BY <1>1 DEF Uncopied
<1>3. Waiting(m)' => Uncopied(m)' /\ \A d \in Conns : Frame("ok", m) \notin Written(d)'
  BY <1>1, <1>2 DEF CopiesBounded
<1>4. HandledIn(m, {"lookup", "push1"})' => Uncopied(m)'
  BY <1>2 DEF CopiesBounded, HandledIn, Acked
<1>5. HandledIn(m, {"lookup", "push1", "ack2"})' => Copies(m.from, Frame("ok", m))' <= 1
  BY <1>1 DEF CopiesBounded, HandledIn, Acked
<1>6. ASSUME HandledIn(m, {"ack2", "push2"})', NEW d \in Conns, Frame("receive_msg", m) \in Written(d)'
      PROVE  d = target'[m.from] /\ Copies(d, Frame("receive_msg", m))' <= 1
  <2>1. Frame("receive_msg", m) \in Written(d) /\ ~Uncopied(m)
    BY <1>1, <1>6 DEF Uncopied
  <2>2. HandledIn(m, Acked)'
    BY <1>6 DEF HandledIn, Acked
  <2>3. ~HandledIn(m, {"lookup", "push1"})
    BY <2>1 DEF CopiesBounded
  <2>4. HandledIn(m, {"ack2", "push2"}) /\ target'[m.from] = target[m.from]
    BY <2>2, <2>3 DEF HandledIn, Acked
  <2>5. QED
    BY <1>1, <2>1, <2>4 DEF CopiesBounded
<1>7. \A d \in Conns : /\ Copies(d, Frame("ok", m))' <= 2
                       /\ Copies(d, Frame("receive_msg", m))' <= 2
  BY <1>1 DEF CopiesBounded
<1>8. \A d, e \in Conns : /\ Frame("receive_msg", m) \in Written(d)'
                          /\ Frame("receive_msg", m) \in Written(e)'
                          => d = e
  BY <1>1 DEF CopiesBounded
<1>9. QED
  BY <1>3, <1>4, <1>5, <1>6, <1>7, <1>8 DEF CopiesBounded

\* A step that neither sends nor reads a request.
LEMMA ReadOnceKept ==
    ASSUME ReadOnce, UNCHANGED <<inbox, nsent>>,
           \A c \in Conns : phase'[c] \in Sending => phase[c] \in Sending /\ current'[c] = current[c]
    PROVE  ReadOnce'
BY DEF ReadOnce

\* One that does not write either: each handler stays, looks up, or is done.
LEMMA QuietOnce ==
    ASSUME RelayInv, OnceInv, UNCHANGED <<inbox, nsent, outbox>>,
           \A c \in Conns : phase'[c] \in Sending =>
               /\ phase[c] \in Sending /\ current'[c] = current[c]
               /\ \/ phase'[c] = phase[c] /\ target'[c] = target[c]
                  \/ phase[c] = "lookup" /\ phase'[c] \in {"push1", "ack2"}
                  \/ phase[c] = "resolve" /\ phase'[c] \in {"refuse", "ack1"}
    PROVE  OnceInv'
<1>1. ReadOnce'
  BY ReadOnceKept DEF OnceInv
<1>2. ASSUME NEW m \in Messages PROVE CopiesBounded(m)'
  <2>1. m.from \in Conns /\ CopiesBounded(m)
    BY <1>2, MessageFields DEF OnceInv
  <2>2. \A d \in Conns : \A k \in {"ok", "receive_msg"} :
               /\ Copies(d, Frame(k, m))' = Copies(d, Frame(k, m))
               /\ Frame(k, m) \in Written(d)' => Frame(k, m) \in Written(d)
    BY DEF Copies, Written, Frame
  <2>3. Waiting(m)' => Waiting(m)
    BY <2>1 DEF Waiting, HandledIn, Sending, Told
  <2>4. HandledIn(m, Acked)' =>
               /\ HandledIn(m, Acked)
               /\ \/ phase'[m.from] = phase[m.from] /\ target'[m.from] = target[m.from]
                  \/ phase[m.from] = "lookup" /\ phase'[m.from] \in {"push1", "ack2"}
    BY <2>1 DEF HandledIn, Acked, Sending, Told
  <2>5. QED
    BY <2>1, <2>2, <2>3, <2>4, CopiesKept
<1>3. QED
  BY <1>1, <1>2 DEF OnceInv

\* What a write may do to the handlers: c's goes on, returns, is given up or ends with
\* all others; the requests are left alone.
LEMMA WriteLeads ==
    ASSUME RelayInv, NEW c \in Conns, NEW d, NEW f, NEW p, Write(c, d, f, p)
    PROVE  /\ UNCHANGED <<inbox, nsent>>
           /\ \A e \in Conns \ {c} :
                 \/ phase'[e] = "none"
                 \/ phase'[e] = phase[e] /\ current'[e] = current[e] /\ target'[e] = target[e]
           /\ \/ phase'[c] \in {"reading", "none", "abandoned"}
              \/ p # "reading" /\ phase'[c] = p /\ current'[c] = current[c] /\ target'[c] = target[c]
<1>1. UNCHANGED <<inbox, nsent>>
  BY DEF Write, clientVars
<1>2. /\ phase \in [Conns -> Phases] /\ current \in [Conns -> Carried]
      /\ target \in [Conns -> Conns \cup {NoConn}]
  BY DEF RelayInv, TypeOK
<1>3. CASE Terminate
  BY <1>1, <1>3 DEF Terminate
<1>4. CASE \E q \in {"reading", "abandoned"} : \E t : Finish(c, q, t)
  BY <1>1, <1>2, <1>4 DEF Finish
<1>5. CASE p # "reading" /\ Goto(c, p)
  BY <1>1, <1>2, <1>5 DEF Goto
<1>6. QED
  BY <1>3, <1>4, <1>5 DEF Write, Escape, Return

\* A message whose sender was told does not come back.
LEMMA NotWaiting ==
    ASSUME RelayInv, ReadOnce, NEW m \in Messages, HandledIn(m, Sending), UNCHANGED <<inbox, nsent>>,
           phase'[m.from] \notin {"resolve", "refuse", "ack1"}
    PROVE  ~Waiting(m)'
<1>1. m.id <= nsent /\ m.id \in Nat /\ nsent \in Nat /\ m.from \in Conns /\ m # NoMsg
  BY MessageFields DEF ReadOnce, HandledIn
<1>2. ASSUME NEW k \in DOMAIN inbox[m.from], inbox[m.from][k].msg = m PROVE FALSE
  BY <1>1, <1>2 DEF ReadOnce, HandledIn
<1>3. QED
  BY <1>1, <1>2 DEF Waiting, HandledIn

\* A write leaves the counts of all other messages alone.
LEMMA OthersOnce ==
    ASSUME RelayInv, OnceInv, NEW c \in Conns, NEW d \in Conns, NEW f \in Replies,
           NEW p \in {"reading", "lookup", "ack2", "push2"}, Write(c, d, f, p),
           NEW m \in Messages, HandledIn(m, Sending) => m.from # c,
           f.kind \in {"ok", "receive_msg"} => f.msg # m,
           p # "reading" => phase[c] \in Sending
    PROVE  CopiesBounded(m)'
<1>1. m.from \in Conns /\ CopiesBounded(m) /\ outbox \in [Conns -> Seq(Replies)]
  BY MessageFields DEF OnceInv, RelayInv, TypeOK
<1>2. \A k \in {"ok", "receive_msg"} : Frame(k, m) # f
  BY DEF Frame
<1>3. ASSUME NEW e \in Conns, NEW k \in {"ok", "receive_msg"}
      PROVE  /\ Copies(e, Frame(k, m))' = Copies(e, Frame(k, m))
             /\ Frame(k, m) \in Written(e)' => Frame(k, m) \in Written(e)
  <2>1. Copies(e, Frame(k, m))' = Copies(e, Frame(k, m))
    BY <1>1, <1>2, CopiesByWrite DEF Write
  <2>2. PICK g : g = Frame(k, m)
    OBVIOUS
  <2>3. g \in Written(e)' => g \in Written(e)
    BY <1>1, <1>2, <2>2, WrittenByWrite DEF Write
  <2>4. QED
    BY <2>1, <2>2, <2>3
<1>4. /\ UNCHANGED <<inbox, nsent>>
      /\ \A e \in Conns \ {c} :
            \/ phase'[e] = "none"
            \/ phase'[e] = phase[e] /\ current'[e] = current[e] /\ target'[e] = target[e]
      /\ \/ phase'[c] \in {"reading", "none", "abandoned"}
         \/ p # "reading" /\ phase'[c] = p /\ current'[c] = current[c] /\ target'[c] = target[c]
  BY WriteLeads
<1>5. ASSUME HandledIn(m, Sending)'
      PROVE  /\ HandledIn(m, Sending) /\ phase'[m.from] = phase[m.from]
             /\ target'[m.from] = target[m.from]
  <2>1. CASE m.from # c
    BY <1>1, <1>4, <1>5, <2>1 DEF HandledIn, Sending, Told
  <2>2. CASE m.from = c
    <3>1. phase[c] \in Sending /\ current[c] = m
      BY <1>4, <1>5, <2>2 DEF HandledIn, Sending, Told
    <3>2. QED
      BY <2>2, <3>1 DEF HandledIn
  <2>3. QED
    BY <2>1, <2>2
<1>6. Waiting(m)' => Waiting(m)
  <2>1. HandledIn(m, {"resolve", "refuse", "ack1"})' => HandledIn(m, {"resolve", "refuse", "ack1"})
    BY <1>5 DEF HandledIn, Sending, Told
  <2>2. UNCHANGED <<inbox, nsent>>
    BY <1>4
  <2>3. QED
    BY <2>1, <2>2 DEF Waiting
<1>7. HandledIn(m, Acked)' =>
          /\ HandledIn(m, Acked)
          /\ phase'[m.from] = phase[m.from] /\ target'[m.from] = target[m.from]
  BY <1>5 DEF HandledIn, Sending, Told, Acked
<1>8. QED
  BY <1>1, <1>3, <1>6, <1>7, CopiesKept

\* A write keeps the counts, if it may be counted for the message being handled.
LEMMA WriteOnce ==
    ASSUME RelayInv, OnceInv, NEW c \in Conns, NEW d \in Conns, NEW f \in Replies,
           NEW p \in {"reading", "lookup", "ack2", "push2"}, Write(c, d, f, p),
           f.kind \in {"ok", "receive_msg"} => phase[c] \in Sending /\ f.msg = current[c],
           p # "reading" => phase[c] \in Sending,
           phase[c] \in Sending => \A m \in Messages : m = current[c] => CopiesBounded(m)'
    PROVE  OnceInv'
<1>1. UNCHANGED <<inbox, nsent>> /\ \A e \in Conns : phase'[e] \in Sending =>
          phase[e] \in Sending /\ current'[e] = current[e]
  BY WriteLeads DEF Sending, Told
<1>2. ReadOnce'
  BY <1>1, ReadOnceKept DEF OnceInv
<1>3. ASSUME NEW m \in Messages PROVE CopiesBounded(m)'
  <2>1. CASE phase[c] \in Sending /\ m = current[c]
    BY <2>1
  <2>2. CASE ~(phase[c] \in Sending /\ m = current[c])
    <3>1. HandledIn(m, Sending) => m.from # c
      BY <2>2 DEF HandledIn
    <3>2. f.kind \in {"ok", "receive_msg"} => f.msg # m
      BY <2>2
    <3>3. QED
      BY <3>1, <3>2, OthersOnce
  <2>3. QED
    BY <2>1, <2>2
<1>4. QED
  BY <1>2, <1>3 DEF OnceInv

\* Copies are counted after a step as before it.
LEMMA CopiesCountedNext ==
    ASSUME RelayInv', NEW e \in Conns, NEW g
    PROVE  Copies(e, g)' \in Int
<1>1. outbox' \in [Conns -> Seq(Replies)]
  BY DEF RelayInv, TypeOK
<1> DEFINE s == outbox'[e]
<1>2. Len(s) \in Nat /\ DOMAIN s = 1 .. Len(s)
  BY <1>1, LenProperties
<1>3. IsFiniteSet({i \in DOMAIN s : s[i] = g})
  <2>1. IsFiniteSet(1 .. Len(s))
    BY <1>2, FS_Interval
  <2>2. QED
    BY <1>2, <2>1, FS_Subset
<1>4. Cardinality({i \in DOMAIN s : s[i] = g}) \in Nat
  BY <1>3, FS_CardinalityType
<1>5. QED
  BY <1>4 DEF Copies

\* The handler's writes, in the order of its phases.
LEMMA SendStepOnce ==
    ASSUME RelayInv, RelayInv', OnceInv, NEW c \in Conns, SendStep(c)
    PROVE  OnceInv'
<1>0. /\ phase \in [Conns -> Phases] /\ outbox \in [Conns -> Seq(Replies)]
      /\ target \in [Conns -> Conns \cup {NoConn}]
      /\ phase[c] \in Sending => current[c] \in Messages /\ current[c].from = c
  BY DEF RelayInv, TypeOK, LocalsSound
<1>1. phase[c] \in Sending
  BY DEF SendStep, StoreMessage, RefuseMessage, AckSender, LookupReceiver, PushToReceiver,
         AckSenderAgain, PushToReceiverAgain, Sending, Told
<1>2. PICK m \in Messages : m = current[c] /\ m.from = c
  BY <1>0, <1>1
<1>3. /\ m \in Carried /\ HandledIn(m, Sending) /\ CopiesBounded(m) /\ ReadOnce
      /\ Frame("ok", m) \in Replies /\ Frame("receive_msg", m) \in Replies
      /\ Frame("error", m) \in Replies
  BY <1>1, <1>2, FramesTyped DEF Carried, HandledIn, OnceInv
<1>4. \A e \in Conns : \A g : /\ Copies(e, g) \in Nat
                              /\ g \notin Written(e) => Copies(e, g) = 0
  BY <1>0, CopiesCounted
\* What a write of f to d leaves, from where the handler goes on.
<1>5. ASSUME NEW d \in Conns, NEW f \in Replies, NEW p \in {"reading", "lookup", "ack2", "push2"},
             Write(c, d, f, p)
      PROVE  /\ \A e \in Conns : \A g :
                   /\ Copies(e, g)' <= Copies(e, g) + 1
                   /\ e # d \/ g # f => Copies(e, g)' = Copies(e, g)
             /\ \A e \in Conns : \A g \in Written(e)' : g \in Written(e) \/ (e = d /\ g = f)
             /\ ~Waiting(m)'
             /\ \A P : HandledIn(m, P)' => P \cap {p, "reading", "none", "abandoned"} # {}
             /\ HandledIn(m, {"lookup", "push1", "ack2", "push2"})' => target'[c] = target[c]
  <2>1. /\ \A e \in Conns : \A g :
              /\ Copies(e, g)' <= Copies(e, g) + 1
              /\ e # d \/ g # f => Copies(e, g)' = Copies(e, g)
        /\ \A e \in Conns : \A g \in Written(e)' : g \in Written(e) \/ (e = d /\ g = f)
    BY <1>0, <1>5, CopiesByWrite, WrittenByWrite DEF Write
  <2>2. /\ UNCHANGED <<inbox, nsent>>
        /\ \/ phase'[c] \in {"reading", "none", "abandoned"}
           \/ p # "reading" /\ phase'[c] = p /\ target'[c] = target[c]
    BY <1>5, WriteLeads
  <2>3. ~Waiting(m)'
    BY <1>2, <1>3, <2>2, NotWaiting
  <2>4. QED
    BY <1>2, <2>1, <2>2, <2>3 DEF HandledIn
<1>6. CASE StoreMessage(c)
  <2>1. /\ UNCHANGED <<inbox, nsent, outbox, current, target>>
        /\ \E p \in {"refuse", "ack1"} : phase' = [phase EXCEPT ![c] = p]
        /\ phase[c] = "resolve"
    BY <1>6 DEF StoreMessage, Goto, clientVars
  <2>2. phase'[c] \in {"refuse", "ack1"} /\ \A e \in Conns \ {c} : phase'[e] = phase[e]
    BY <1>0, <2>1
  <2>3. \A e \in Conns : phase'[e] \in Sending =>
               /\ phase[e] \in Sending /\ current'[e] = current[e]
               /\ \/ phase'[e] = phase[e] /\ target'[e] = target[e]
                  \/ phase[e] = "lookup" /\ phase'[e] \in {"push1", "ack2"}
                  \/ phase[e] = "resolve" /\ phase'[e] \in {"refuse", "ack1"}
    BY <1>1, <2>1, <2>2
  <2>4. QED
    BY <2>1, <2>3, QuietOnce
<1>7. CASE LookupReceiver(c)
  <2>1. /\ UNCHANGED <<inbox, nsent, outbox, current>>
        /\ \E p \in {"push1", "ack2"} : phase' = [phase EXCEPT ![c] = p]
        /\ \E t : target' = [target EXCEPT ![c] = t]
        /\ phase[c] = "lookup"
    BY <1>7 DEF LookupReceiver, clientVars
  <2>2. /\ phase'[c] \in {"push1", "ack2"}
        /\ \A e \in Conns \ {c} : phase'[e] = phase[e] /\ target'[e] = target[e]
    BY <1>0, <2>1
  <2>3. \A e \in Conns : phase'[e] \in Sending =>
               /\ phase[e] \in Sending /\ current'[e] = current[e]
               /\ \/ phase'[e] = phase[e] /\ target'[e] = target[e]
                  \/ phase[e] = "lookup" /\ phase'[e] \in {"push1", "ack2"}
                  \/ phase[e] = "resolve" /\ phase'[e] \in {"refuse", "ack1"}
    BY <1>1, <2>1, <2>2
  <2>4. QED
    BY <2>1, <2>3, QuietOnce
<1>8. CASE RefuseMessage(c)
  <2>1. Write(c, c, Frame("error", m), "reading") /\ phase[c] = "refuse"
    BY <1>2, <1>8 DEF RefuseMessage
  <2>2. CopiesBounded(m)'
    <3>1. ~Waiting(m)' /\ \A P : HandledIn(m, P)' => P \cap {"reading", "none", "abandoned"} # {}
      BY <1>3, <1>5, <2>1
    <3>2. \A e \in Conns : /\ Copies(e, Frame("ok", m))' = Copies(e, Frame("ok", m))
                           /\ Copies(e, Frame("receive_msg", m))' = Copies(e, Frame("receive_msg", m))
                           /\ Frame("receive_msg", m) \in Written(e)' => Frame("receive_msg", m) \in Written(e)
      BY <1>3, <1>5, <2>1 DEF Frame
    <3>3. QED
      BY <1>3, <3>1, <3>2 DEF CopiesBounded
  <2>3. QED
    BY <1>2, <1>3, <2>1, <2>2, WriteOnce DEF Frame
<1>9. CASE AckSender(c)
  <2>1. Write(c, c, Frame("ok", m), "lookup") /\ phase[c] = "ack1"
    BY <1>2, <1>9 DEF AckSender
  <2>2. Uncopied(m) /\ \A e \in Conns : Frame("ok", m) \notin Written(e)
    BY <1>2, <2>1 DEF CopiesBounded, Waiting, HandledIn, OnceInv
  <2>3. CopiesBounded(m)'
    <3>1. ~Waiting(m)' /\ ~HandledIn(m, {"ack2", "push2"})'
      BY <1>3, <1>5, <2>1
    <3>2. \A e \in Conns : Copies(e, Frame("ok", m))' <= 1
      BY <1>3, <1>4, <1>5, <2>1, <2>2
    <3>3. Uncopied(m)' /\ \A e \in Conns : Copies(e, Frame("receive_msg", m))' <= 2
      BY <1>3, <1>5, <2>1, <2>2 DEF Frame, Uncopied, CopiesBounded
    <3>4. \A e \in Conns : Copies(e, Frame("ok", m))' <= 2
      <4>1. \A e \in Conns : Copies(e, Frame("ok", m))' \in Int
        BY CopiesCountedNext
      <4>2. QED
        BY <3>2, <4>1
    <3>5. QED
      BY <1>2, <3>1, <3>2, <3>3, <3>4 DEF CopiesBounded, Uncopied
  <2>4. QED
    BY <1>1, <1>2, <1>3, <2>1, <2>3, WriteOnce DEF Frame
<1>10. CASE PushToReceiver(c)
  <2>1. Write(c, target[c], Frame("receive_msg", m), "ack2") /\ phase[c] = "push1"
    BY <1>2, <1>10 DEF PushToReceiver
  <2>2. PICK d \in Conns : d = target[c]
    BY <2>1 DEF RelayInv, LocalsSound
  <2>3. Write(c, d, Frame("receive_msg", m), "ack2")
    BY <2>1, <2>2
  <2>4. Uncopied(m) /\ Copies(c, Frame("ok", m)) <= 1
    BY <1>2, <1>3, <2>1 DEF CopiesBounded, HandledIn
  <2>5. CopiesBounded(m)'
    <3>1. ~Waiting(m)' /\ ~HandledIn(m, {"lookup", "push1"})' /\
          (HandledIn(m, {"ack2", "push2"})' => target'[c] = d)
      <4>1. HandledIn(m, {"ack2", "push2"})' => HandledIn(m, {"lookup", "push1", "ack2", "push2"})'
        BY DEF HandledIn
      <4>2. QED
        BY <1>3, <1>5, <2>2, <2>3, <4>1
    <3>2. \A e \in Conns : Copies(e, Frame("ok", m))' = Copies(e, Frame("ok", m))
      BY <1>3, <1>5, <2>3 DEF Frame
    <3>3. \A e \in Conns : Copies(e, Frame("receive_msg", m))' <= 1
      BY <1>3, <1>4, <1>5, <2>3, <2>4 DEF Uncopied
    <3>4. \A e \in Conns : Frame("receive_msg", m) \in Written(e)' => e = d
      BY <1>3, <1>5, <2>3, <2>4 DEF Uncopied
    <3>5. \A e \in Conns : Copies(e, Frame("ok", m)) <= 2
      BY <1>3 DEF CopiesBounded
    <3>6. \A e \in Conns : Copies(e, Frame("receive_msg", m))' <= 2
      <4>1. \A e \in Conns : Copies(e, Frame("receive_msg", m))' \in Int
        BY <1>3, <1>4, <1>5, <2>3, <2>4, CopiesCountedNext
      <4>2. QED
        BY <3>3, <4>1
    <3>7. QED
      BY <1>2, <2>4, <3>1, <3>2, <3>3, <3>4, <3>5, <3>6 DEF CopiesBounded
  <2>6. QED
    BY <1>1, <1>2, <1>3, <2>3, <2>5, WriteOnce DEF Frame
<1>11. CASE AckSenderAgain(c)
  <2>1. PICK p \in {"reading", "push2"} : Write(c, c, Frame("ok", m), p)
    BY <1>2, <1>11 DEF AckSenderAgain
  <2>2. phase[c] = "ack2"
    BY <1>11 DEF AckSenderAgain
  <2>3. /\ Copies(c, Frame("ok", m)) <= 1
        /\ \A e \in Conns : Frame("receive_msg", m) \in Written(e) =>
              e = target[c] /\ Copies(e, Frame("receive_msg", m)) <= 1
    BY <1>2, <1>3, <2>2 DEF CopiesBounded, HandledIn
  <2>4. CopiesBounded(m)'
    <3>1. ~Waiting(m)' /\ ~HandledIn(m, {"lookup", "push1", "ack2"})' /\ ~HandledIn(m, {"lookup", "push1"})'
          /\ (HandledIn(m, {"ack2", "push2"})' => target'[c] = target[c])
      <4>1. HandledIn(m, {"ack2", "push2"})' => HandledIn(m, {"lookup", "push1", "ack2", "push2"})'
        BY DEF HandledIn
      <4>2. QED
        BY <1>3, <1>5, <2>1, <4>1
    <3>2. \A e \in Conns : Copies(e, Frame("ok", m))' <= 2
      <4>1. \A e \in Conns : Copies(e, Frame("ok", m))' \in Int
        BY CopiesCountedNext
      <4>2. Copies(c, Frame("ok", m))' <= Copies(c, Frame("ok", m)) + 1
        BY <1>3, <1>5, <2>1
      <4>3. \A e \in Conns : e # c => Copies(e, Frame("ok", m))' = Copies(e, Frame("ok", m))
        BY <1>3, <1>5, <2>1
      <4>4. Copies(c, Frame("ok", m))' <= 2
        BY <1>2, <1>4, <2>3, <4>1, <4>2, MessageFields
      <4>5. QED
        BY <1>3, <4>3, <4>4 DEF CopiesBounded
    <3>3. \A e \in Conns : /\ Copies(e, Frame("receive_msg", m))' = Copies(e, Frame("receive_msg", m))
                           /\ Frame("receive_msg", m) \in Written(e)' => Frame("receive_msg", m) \in Written(e)
      BY <1>3, <1>5, <2>1 DEF Frame
    <3>4. QED
      BY <1>2, <1>3, <2>3, <3>1, <3>2, <3>3 DEF CopiesBounded
  <2>5. QED
    BY <1>1, <1>2, <1>3, <2>1, <2>4, WriteOnce DEF Frame
<1>12. CASE PushToReceiverAgain(c)
  <2>1. Write(c, target[c], Frame("receive_msg", m), "reading") /\ phase[c] = "push2"
    BY <1>2, <1>12 DEF PushToReceiverAgain
  <2>2. PICK d \in Conns : d = target[c]
    BY <2>1 DEF RelayInv, LocalsSound
  <2>3. Write(c, d, Frame("receive_msg", m), "reading")
    BY <2>1, <2>2
  <2>4. \A e \in Conns : Frame("receive_msg", m) \in Written(e) =>
              e = d /\ Copies(e, Frame("receive_msg", m)) <= 1
    BY <1>2, <1>3, <2>1, <2>2 DEF CopiesBounded, HandledIn
  <2>5. CopiesBounded(m)'
    <3>1. ~Waiting(m)' /\ \A P : HandledIn(m, P)' => P \cap {"reading", "none", "abandoned"} # {}
      BY <1>3, <1>5, <2>3
    <3>2. \A e \in Conns : Copies(e, Frame("ok", m))' <= 2
      BY <1>3, <1>5, <2>3 DEF Frame, CopiesBounded
    <3>3. \A e \in Conns : Frame("receive_msg", m) \in Written(e)' => e = d
      BY <1>3, <1>5, <2>3, <2>4
    <3>4. \A e \in Conns : Copies(e, Frame("receive_msg", m))' <= 2
      <4>1. ASSUME NEW e \in Conns PROVE Copies(e, Frame("receive_msg", m)) <= 1
        BY <1>4, <2>4
      <4>2. ASSUME NEW e \in Conns PROVE Copies(e, Frame("receive_msg", m))' <= 2
        <5>1. Copies(e, Frame("receive_msg", m))' <= Copies(e, Frame("receive_msg", m)) + 1
          BY <1>3, <1>5, <2>3
        <5>2. Copies(e, Frame("receive_msg", m))' \in Int
          BY CopiesCountedNext
        <5>3. QED
          BY <1>4, <4>1, <5>1, <5>2
      <4>3. QED
        BY <4>2
    <3>5. QED
      BY <3>1, <3>2, <3>3, <3>4 DEF CopiesBounded
  <2>6. QED
    BY <1>1, <1>2, <1>3, <2>3, <2>5, WriteOnce DEF Frame
<1>13. QED
  BY <1>6, <1>7, <1>8, <1>9, <1>10, <1>11, <1>12 DEF SendStep

\* A client sends one request more, with no message or a new one.
LEMMA SentOnce ==
    ASSUME RelayInv, OnceInv, NEW c \in Conns, NEW r \in Requests,
           inbox' = [inbox EXCEPT ![c] = Append(@, r)],
           UNCHANGED <<outbox, phase, current, target>>,
           \/ nsent' = nsent /\ r.msg = NoMsg
           \/ nsent' = nsent + 1 /\ r.msg \in Messages /\ r.msg.id = nsent + 1
    PROVE  OnceInv'
<1>0. /\ inbox \in [Conns -> Seq(Requests)] /\ nsent \in Nat /\ nsent <= nsent'
      /\ ReadOnce
      /\ \A a \in Conns : phase[a] \in Sending => current[a] \in Messages
  <2>1. nsent \in 0 .. MaxMsgs /\ inbox \in [Conns -> Seq(Requests)]
    BY DEF RelayInv, TypeOK
  <2>2. nsent \in Nat
    BY <2>1, RelayAssumption
  <2>3. QED
    BY <2>1, <2>2 DEF RelayInv, LocalsSound, OnceInv
<1>1. /\ Len(inbox[c]) \in Nat /\ DOMAIN inbox[c] = 1 .. Len(inbox[c])
      /\ DOMAIN inbox'[c] = 1 .. Len(inbox[c]) + 1
      /\ \A k \in 1 .. Len(inbox[c]) : inbox'[c][k] = inbox[c][k]
      /\ inbox'[c][Len(inbox[c]) + 1] = r
      /\ \A a \in Conns \ {c} : inbox'[a] = inbox[a]
  <2>1. \A s \in Seq(Requests) :
           /\ Len(s) \in Nat /\ DOMAIN s = 1 .. Len(s)
           /\ DOMAIN Append(s, r) = 1 .. Len(s) + 1
           /\ \A k \in 1 .. Len(s) : Append(s, r)[k] = s[k]
           /\ Append(s, r)[Len(s) + 1] = r
    OBVIOUS
  <2>2. inbox[c] \in Seq(Requests) /\ inbox'[c] = Append(inbox[c], r)
        /\ \A a \in Conns \ {c} : inbox'[a] = inbox[a]
    BY <1>0
  <2>3. QED
    BY <2>1, <2>2
<1>2. \A a \in Conns : \A k \in DOMAIN inbox[a] : inbox[a][k].msg # NoMsg =>
          inbox[a][k].msg \in Messages /\ inbox[a][k].msg.id \in Nat /\ inbox[a][k].msg.id <= nsent
  <2>1. ASSUME NEW a \in Conns, NEW k \in DOMAIN inbox[a], inbox[a][k].msg # NoMsg
        PROVE  inbox[a][k].msg \in Messages
    <3>1. inbox[a] \in Seq(Requests)
      BY <1>0
    <3>2. inbox[a][k] \in Requests
      BY <3>1, <2>1
    <3>3. QED
      BY <2>1, <3>2 DEF Requests, Carried
  <2>2. QED
    BY <1>0, <2>1, MessageFields DEF ReadOnce
<1>3. ASSUME NEW a \in Conns, phase[a] \in Sending
      PROVE  current[a].id \in Nat /\ current[a].id <= nsent
  BY <1>0, <1>3, MessageFields DEF ReadOnce
<1>4. ReadOnce'
  <2>1. ASSUME NEW a \in Conns, NEW k \in DOMAIN inbox'[a], inbox'[a][k].msg # NoMsg
        PROVE  /\ inbox'[a][k].msg.id <= nsent'
               /\ phase[a] \in Sending => inbox'[a][k].msg # current[a]
    <3>1. CASE k \in DOMAIN inbox[a] /\ inbox'[a][k] = inbox[a][k]
      BY <1>0, <1>2, <2>1, <3>1 DEF ReadOnce
    <3>2. CASE inbox'[a][k] = r /\ r.msg \in Messages
      <4>1. r.msg.id = nsent + 1 /\ nsent' = nsent + 1
        BY <3>2, MessageFields
      <4>2. QED
        BY <1>0, <1>3, <3>2, <4>1
    <3>3. QED
      BY <1>1, <2>1, <3>1, <3>2
  <2>2. ASSUME NEW a \in Conns, NEW k \in DOMAIN inbox'[a], NEW l \in DOMAIN inbox'[a],
               k < l, inbox'[a][k].msg # NoMsg
        PROVE  inbox'[a][k].msg # inbox'[a][l].msg
    <3>1. k \in DOMAIN inbox[a] /\ inbox'[a][k] = inbox[a][k]
      BY <1>1, <2>2
    <3>2. CASE l \in DOMAIN inbox[a] /\ inbox'[a][l] = inbox[a][l]
      BY <1>0, <2>2, <3>1, <3>2 DEF ReadOnce
    <3>3. CASE inbox'[a][l] = r /\ r.msg = NoMsg
      BY <2>2, <3>3
    <3>4. CASE inbox'[a][l] = r /\ r.msg \in Messages
      <4>1. r.msg.id = nsent + 1
        BY <3>4, MessageFields
      <4>2. QED
        BY <1>0, <1>2, <2>2, <3>1, <3>4, <4>1
    <3>5. QED
      BY <1>1, <2>2, <3>2, <3>3, <3>4
  <2>3. ASSUME NEW a \in Conns, phase[a] \in Sending PROVE current[a].id <= nsent'
    BY <1>0, <1>3, <2>3
  <2>4. QED
    BY <2>1, <2>2, <2>3 DEF ReadOnce
<1>5. ASSUME NEW m \in Messages PROVE CopiesBounded(m)'
  <2>1. CopiesBounded(m) /\ m.from \in Conns /\ m.id \in Nat /\ m # NoMsg
    BY MessageFields DEF OnceInv
  <2>2. \A d \in Conns : \A k \in {"ok", "receive_msg"} :
               /\ Copies(d, Frame(k, m))' = Copies(d, Frame(k, m))
               /\ Frame(k, m) \in Written(d)' => Frame(k, m) \in Written(d)
    BY DEF Copies, Written, Frame
  <2>3. Waiting(m)' => Waiting(m)
    <3>1. CASE \E k \in DOMAIN inbox'[m.from] : inbox'[m.from][k].msg = m
      <4>1. PICK k \in DOMAIN inbox'[m.from] : inbox'[m.from][k].msg = m
        BY <3>1
      <4>2. CASE k \in DOMAIN inbox[m.from] /\ inbox'[m.from][k] = inbox[m.from][k]
        BY <4>1, <4>2 DEF Waiting
      <4>3. CASE inbox'[m.from][k] = r
        BY <1>0, <2>1, <4>1, <4>3 DEF Waiting
      <4>4. QED
        BY <1>1, <2>1, <4>1, <4>2, <4>3
    <3>2. CASE nsent' < m.id
      BY <1>0, <2>1, <3>2 DEF Waiting
    <3>3. CASE HandledIn(m, {"resolve", "refuse", "ack1"})'
      BY <3>3 DEF Waiting, HandledIn
    <3>4. QED
      BY <3>1, <3>2, <3>3 DEF Waiting
  <2>4. HandledIn(m, Acked)' => HandledIn(m, Acked)
    BY DEF HandledIn
  <2>5. QED
    BY <2>1, <2>2, <2>3, <2>4, CopiesKept
<1>6. QED
  BY <1>4, <1>5 DEF OnceInv

\* What is left of a stream after one pass of the loop was behind its first request.
LEMMA LeftoversBehind ==
    ASSUME NEW s \in Seq(Requests), NEW k \in 1 .. Len(s), NEW rest \in Leftovers(s, k),
           NEW l \in DOMAIN rest
    PROVE  rest[l].msg = NoMsg \/ (l + k \in DOMAIN s /\ 1 < l + k /\ rest[l] = s[l + k])
<1> DEFINE r == SubSeq(s, k + 1, Len(s))
<1>1. /\ DOMAIN r = 1 .. Len(s) - k /\ DOMAIN s = 1 .. Len(s) /\ Len(s) \in Nat
      /\ \A j \in 1 .. Len(s) - k : r[j] = s[j + k]
  OBVIOUS
<1> HIDE DEF r
<1>2. rest = r \/ (r # <<>> /\ rest = [r EXCEPT ![1] = Garbage])
  BY DEF Leftovers, r
<1>3. l \in DOMAIN r /\ (rest[l] = r[l] \/ rest[l] = Garbage)
  BY <1>2
<1>4. Garbage.msg = NoMsg
  BY DEF Garbage, Frame
<1>5. QED
  BY <1>1, <1>3, <1>4

\* The handler takes the first request, and drops what it drops.
LEMMA ReadRequestOnce ==
    ASSUME RelayInv, OnceInv, NEW c \in Conns, ReadRequest(c)
    PROVE  OnceInv'
<1>0. /\ phase \in [Conns -> Phases] /\ current \in [Conns -> Carried]
      /\ inbox \in [Conns -> Seq(Requests)] /\ ReadOnce
      /\ inbox[c] # <<>> /\ inbox[c] \in Seq(RequestsOf(c)) /\ phase[c] = "reading"
      /\ UNCHANGED <<outbox, target, nsent>>
  BY DEF RelayInv, TypeOK, OnceInv, InboxSound, ReadRequest, clientVars
<1>1. PICK k \in 1 .. Len(inbox[c]) : \E rest \in Leftovers(inbox[c], k) :
          inbox' = [inbox EXCEPT ![c] = rest]
  BY DEF ReadRequest
<1>2. PICK rest \in Leftovers(inbox[c], k) : inbox' = [inbox EXCEPT ![c] = rest]
  BY <1>1
<1>3. PICK h \in RequestsOf(c) : h = Head(inbox[c])
  BY <1>0, HeadTailProperties
<1>4. PICK p \in FirstPhases(h.kind) : phase' = [phase EXCEPT ![c] = p]
  BY <1>3 DEF ReadRequest
<1>5. /\ inbox'[c] = rest /\ phase'[c] = p /\ current'[c] = h.msg
      /\ \A a \in Conns \ {c} :
            inbox'[a] = inbox[a] /\ phase'[a] = phase[a] /\ current'[a] = current[a]
  <2>1. current' = [current EXCEPT ![c] = h.msg]
    BY <1>3 DEF ReadRequest
  <2>2. QED
    BY <1>0, <1>2, <1>4, <2>1
<1>6. \A l \in DOMAIN rest :
          rest[l].msg = NoMsg \/ (l + k \in DOMAIN inbox[c] /\ 1 < l + k /\ rest[l] = inbox[c][l + k])
  BY <1>0, LeftoversBehind
<1>7. 1 \in DOMAIN inbox[c] /\ inbox[c][1] = h
  <2>1. \A s \in Seq(RequestsOf(c)) : s # <<>> => 1 \in DOMAIN s /\ s[1] = Head(s)
    OBVIOUS
  <2>2. QED
    BY <1>0, <1>3, <2>1
<1>8. p \notin Acked /\ (p \in Sending => p = "resolve" /\ h.msg \in Messages)
  BY <1>4 DEF RequestsOf, FirstPhases, Acked, Sending, Told
<1>9. \A l \in DOMAIN rest : l \in Int /\ k \in Int
  <2>1. rest \in Seq(RequestsOf(c))
    BY <1>0, LeftoversTyped
  <2>2. DOMAIN rest = 1 .. Len(rest)
    BY <2>1, LenProperties
  <2>3. QED
    BY <2>2
<1>10. NoMsg \notin Messages
  BY RelayAssumption DEF Messages
<1>11. ReadOnce'
  <2>1. ASSUME NEW l \in DOMAIN rest, rest[l].msg # NoMsg
        PROVE  /\ rest[l].msg.id <= nsent
               /\ p \in Sending => rest[l].msg # h.msg
    BY <1>0, <1>6, <1>7, <1>8, <1>10, <2>1 DEF ReadOnce
  <2>2. ASSUME NEW i \in DOMAIN rest, NEW j \in DOMAIN rest, i < j, rest[i].msg # NoMsg
        PROVE  rest[i].msg # rest[j].msg
    <3>1. i + k \in DOMAIN inbox[c] /\ rest[i] = inbox[c][i + k]
      BY <1>6, <2>2
    <3>2. CASE rest[j].msg = NoMsg
      BY <2>2, <3>2
    <3>3. CASE j + k \in DOMAIN inbox[c] /\ rest[j] = inbox[c][j + k]
      <4>1. i + k < j + k
        BY <1>9, <2>2
      <4>2. QED
        BY <1>0, <2>2, <3>1, <3>3, <4>1 DEF ReadOnce
    <3>4. QED
      BY <1>6, <3>2, <3>3
  <2>3. p \in Sending => h.msg.id <= nsent
    BY <1>0, <1>7, <1>8, <1>10 DEF ReadOnce
  <2>4. ASSUME NEW a \in Conns
        PROVE  /\ \A i \in DOMAIN inbox'[a] : inbox'[a][i].msg # NoMsg =>
                      /\ inbox'[a][i].msg.id <= nsent'
                      /\ phase'[a] \in Sending => inbox'[a][i].msg # current'[a]
               /\ \A i, j \in DOMAIN inbox'[a] :
                      i < j /\ inbox'[a][i].msg # NoMsg => inbox'[a][i].msg # inbox'[a][j].msg
               /\ phase'[a] \in Sending => current'[a].id <= nsent'
    <3>1. CASE a = c
      BY <1>0, <1>5, <2>1, <2>2, <2>3, <3>1
    <3>2. CASE a # c
      BY <1>0, <1>5, <3>2 DEF ReadOnce
    <3>3. QED
      BY <3>1, <3>2
  <2>5. QED
    BY <2>4 DEF ReadOnce
<1>12. ASSUME NEW m \in Messages PROVE CopiesBounded(m)'
  <2>1. CopiesBounded(m) /\ m.from \in Conns /\ m # NoMsg
    BY MessageFields DEF OnceInv
  <2>2. \A d \in Conns : \A q \in {"ok", "receive_msg"} :
               /\ Copies(d, Frame(q, m))' = Copies(d, Frame(q, m))
               /\ Frame(q, m) \in Written(d)' => Frame(q, m) \in Written(d)
    BY <1>0 DEF Copies, Written, Frame
  <2>3. Waiting(m)' => Waiting(m)
    <3>1. CASE m.from = c
      <4>1. ASSUME NEW l \in DOMAIN rest, rest[l].msg = m PROVE Waiting(m)
        BY <1>6, <2>1, <3>1, <4>1 DEF Waiting
      <4>2. HandledIn(m, {"resolve", "refuse", "ack1"})' => Waiting(m)
        BY <1>5, <1>7, <3>1 DEF HandledIn, Waiting
      <4>3. QED
        BY <1>0, <1>5, <3>1, <4>1, <4>2 DEF Waiting
    <3>2. CASE m.from # c
      BY <1>0, <1>5, <2>1, <3>2 DEF Waiting, HandledIn
    <3>3. QED
      BY <3>1, <3>2
  <2>4. HandledIn(m, Acked)' => HandledIn(m, Acked) /\ phase'[m.from] = phase[m.from]
                                /\ target'[m.from] = target[m.from]
    <3>1. CASE m.from = c
      BY <1>5, <1>8, <3>1 DEF HandledIn
    <3>2. CASE m.from # c
      BY <1>0, <1>5, <2>1, <3>2 DEF HandledIn
    <3>3. QED
      BY <3>1, <3>2
  <2>5. QED
    BY <2>1, <2>2, <2>3, <2>4, CopiesKept
<1>13. QED
  BY <1>11, <1>12 DEF OnceInv

\* The other steps leave the request that a handler has in hand alone, or end it.
LEMMA OtherStepOnce ==
    ASSUME RelayInv, OnceInv, NEW c \in Conns,
           ClientStep(c) \/ StartHandler(c) \/ LoopStep(c) \/ AuthorizeStep(c) \/ RaceStep(c)
    PROVE  OnceInv'
<1> USE DEF clientVars, serverVars, handlerVars
<1>0. /\ phase \in [Conns -> Phases] /\ current \in [Conns -> Carried]
      /\ target \in [Conns -> Conns \cup {NoConn}] /\ nsent \in 0 .. MaxMsgs
  BY DEF RelayInv, TypeOK
\* A handler goes to a phase outside handle_send_message, or from its lookup to its second
\* answer.
<1>1. ASSUME NEW p, p \notin Sending \/ (phase[c] = "lookup" /\ p = "ack2"),
             phase' = [phase EXCEPT ![c] = p],
             \A a \in Conns \ {c} : current'[a] = current[a] /\ target'[a] = target[a],
             p \in Sending => UNCHANGED <<current, target>>,
             UNCHANGED <<inbox, nsent, outbox>>
      PROVE  OnceInv'
  <2>1. phase'[c] = p /\ \A a \in Conns \ {c} : phase'[a] = phase[a]
    BY <1>0, <1>1
  <2>2. "lookup" \in Sending
    BY DEF Sending, Told
  <2>3. \A a \in Conns : phase'[a] \in Sending =>
               /\ phase[a] \in Sending /\ current'[a] = current[a]
               /\ \/ phase'[a] = phase[a] /\ target'[a] = target[a]
                  \/ phase[a] = "lookup" /\ phase'[a] \in {"push1", "ack2"}
                  \/ phase[a] = "resolve" /\ phase'[a] \in {"refuse", "ack1"}
    BY <1>1, <2>1, <2>2
  <2>4. QED
    BY <1>1, <2>3, QuietOnce
<1>2. CASE ClientStep(c)
  <2>1. CASE Connect(c)
    BY <1>1, <2>1 DEF Connect, Sending, Told
  <2>2. CASE SendAuthorize(c)
    <3>1. Frame("authorize", NoMsg) \in Requests /\ Frame("authorize", NoMsg).msg = NoMsg
      BY DEF Frame, Requests, Carried
    <3>2. QED
      BY <2>2, <3>1, SentOnce DEF SendAuthorize
  <2>3. CASE ReadAuthReply(c) \/ Leave(c)
    BY <2>3, QuietOnce DEF ReadAuthReply, Leave
  <2>4. ASSUME NEW u \in Users, TypeMessage(c, u) PROVE OnceInv'
    <3>1. nsent \in Nat /\ nsent + 1 \in 1 .. MaxMsgs
      BY <1>0, <2>4, RelayAssumption DEF TypeMessage
    <3>2. PICK m \in Messages : m = [id |-> nsent + 1, from |-> c, to |-> u]
      BY <3>1 DEF Messages
    <3>3. Frame("send_message", m) \in Requests /\ Frame("send_message", m).msg = m
      <4>1. m \in Carried
        BY DEF Carried
      <4>2. QED
        BY <4>1 DEF Frame, Requests
    <3>4. PICK r \in Requests : r = Frame("send_message", m) /\ r.msg = m
      BY <3>3
    <3>5. inbox' = [inbox EXCEPT ![c] = Append(@, r)]
      BY <2>4, <3>2, <3>4 DEF TypeMessage
    <3>6. UNCHANGED <<outbox, phase, current, target>> /\ nsent' = nsent + 1
      BY <2>4 DEF TypeMessage
    <3>7. r.msg \in Messages /\ r.msg.id = nsent + 1
      BY <3>2, <3>4
    <3>8. QED
      BY <3>5, <3>6, <3>7, SentOnce
  <2>5. QED
    BY <1>2, <2>1, <2>2, <2>3, <2>4 DEF ClientStep
<1>3. CASE StartHandler(c)
  BY <1>1, <1>3 DEF StartHandler, Sending, Told
<1>4. ASSUME NEW f \in Replies, f.kind \in {"error", "auth_ok", "auth_error"},
             Write(c, c, f, "reading"), phase[c] \notin Sending
      PROVE  OnceInv'
  BY <1>4, WriteOnce
<1>5. CASE LoopStep(c)
  <2>1. CASE ReplyInvalid(c)
    <3>1. Write(c, c, Frame("error", NoMsg), "reading") /\ phase[c] = "invalid"
      BY <2>1 DEF ReplyInvalid, Write
    <3>2. Frame("error", NoMsg) \in Replies /\ Frame("error", NoMsg).kind = "error"
      BY FramesTyped DEF Frame
    <3>3. QED
      BY <1>4, <3>1, <3>2 DEF Sending, Told
  <2>2. CASE ReadEof(c)
    BY <1>1, <2>2 DEF ReadEof, Goto, Sending, Told
  <2>3. CASE EraseClient(c)
    <3>1. \A a \in Conns \ {c} : current'[a] = current[a] /\ target'[a] = target[a]
      BY <1>0, <2>3 DEF EraseClient, Finish
    <3>2. phase' = [phase EXCEPT ![c] = "done"] /\ "done" \notin Sending
          /\ UNCHANGED <<inbox, nsent, outbox>>
      BY <2>3 DEF EraseClient, Finish, Sending, Told
    <3>3. QED
      BY <1>1, <3>1, <3>2
  <2>4. QED
    BY <1>5, <2>1, <2>2, <2>3, ReadRequestOnce DEF LoopStep
<1>6. CASE AuthorizeStep(c)
  <2>1. CASE AddClient(c)
    BY <1>1, <2>1 DEF AddClient, Goto, Sending, Told
  <2>2. CASE ReplyAuthorize(c)
    <3>1. PICK k \in {"auth_ok", "auth_error"} : Write(c, c, Frame(k, NoMsg), "reading") /\ phase[c] = k
      BY <2>2 DEF ReplyAuthorize
    <3>2. Frame(k, NoMsg) \in Replies /\ Frame(k, NoMsg).kind = k
      BY FramesTyped DEF Frame
    <3>3. QED
      BY <1>4, <3>1, <3>2 DEF Sending, Told
  <2>3. QED
    BY <1>6, <2>1, <2>2 DEF AuthorizeStep
<1>7. CASE RaceStep(c)
  <2>1. CASE RaceCrash(c)
    <3>1. \A a \in Conns : phase'[a] = "none" /\ "none" \notin Sending
      BY <2>1 DEF RaceCrash, Terminate, Sending, Told
    <3>2. QED
      BY <2>1, <3>1, QuietOnce DEF RaceCrash
  <2>2. CASE RaceLosesInsert(c)
    BY <1>1, <2>2 DEF RaceLosesInsert, Goto, Sending, Told
  <2>3. CASE RaceMissesEntry(c)
    BY <1>1, <2>3 DEF RaceMissesEntry, Goto
  <2>4. QED
    BY <1>7, <2>1, <2>2, <2>3 DEF RaceStep
<1>8. QED
  BY <1>2, <1>3, <1>5, <1>6, <1>7

\* Each message is read once, and its handler writes no more about it than its phase allows.
THEOREM OnceInvariant == Spec => []OnceInv
<1>1. Init => OnceInv
  <2> SUFFICES ASSUME Init PROVE OnceInv
    OBVIOUS
  <2>1. outbox \in [Conns -> Seq(Replies)] /\ \A d \in Conns : Written(d) = {}
    BY DEF Init, Written
  <2>2. \A d \in Conns : \A g : Copies(d, g) = 0
    BY <2>1, CopiesCounted
  <2>3. ReadOnce
    BY DEF Init, ReadOnce, Sending, Told
  <2>4. ASSUME NEW m \in Messages PROVE CopiesBounded(m)
    <3>1. m.from \in Conns
      BY DEF Messages
    <3>2. phase[m.from] = "none"
      BY <3>1 DEF Init
    <3>3. QED
      BY <2>1, <2>2, <3>2 DEF CopiesBounded, Uncopied, HandledIn
  <2>5. QED
    BY <2>3, <2>4 DEF OnceInv
<1>2. RelayInv /\ RelayInv' /\ OnceInv /\ [Next]_vars => OnceInv'
  <2> SUFFICES ASSUME RelayInv, RelayInv', OnceInv, [Next]_vars PROVE OnceInv'
    OBVIOUS
  <2>1. CASE Next
    BY <2>1, OtherStepOnce, SendStepOnce DEF Next, HandlerStep
  <2>2. CASE UNCHANGED vars
    BY <2>2, QuietOnce DEF vars, clientVars, serverVars, handlerVars
  <2>3. QED
    BY <2>1, <2>2
<1>3. QED
  BY <1>1, <1>2, RelayInvariant, PTL DEF Spec

\* A message gets at most two answers and at most two copies, and both copies go to one
\* connection, however its receiver comes and goes between the two writes.
THEOREM OneReceivingSocketAlways == Spec => []OneReceivingSocket
<1>1. RelayInv /\ RelayTruthful /\ OnceInv => OneReceivingSocket
  <2> SUFFICES ASSUME RelayInv, RelayTruthful, OnceInv, NEW c \in Conns, NEW f \in Written(c),
                      f.kind \in {"ok", "receive_msg"}
               PROVE  /\ Copies(c, f) <= 2
                      /\ f.kind = "receive_msg" => \A d \in Conns \ {c} : f \notin Written(d)
    BY DEF OneReceivingSocket
  <2>1. f.msg \in Messages
    BY DEF RelayTruthful, RelayInv, TypeOK
  <2>2. f \in Replies
    <3>1. outbox[c] \in Seq(Replies)
      BY DEF RelayInv, TypeOK
    <3>2. QED
      BY <3>1 DEF Written
  <2>3. f = Frame(f.kind, f.msg)
    BY <2>2 DEF Replies, Frame
  <2>4. CopiesBounded(f.msg)
    BY <2>1 DEF OnceInv
  <2>5. QED
    BY <2>3, <2>4 DEF CopiesBounded
<1>2. QED
  BY <1>1, RelayInvariant, RelayAlwaysTruthful, OnceInvariant, PTL
=============================================================================
