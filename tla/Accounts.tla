------------------------------ MODULE Accounts ------------------------------
(***************************************************************************)
(* How a user comes to exist and is recognised again: registration,        *)
(* authorization and the lookup of public keys, from Client::register_user *)
(* and authorize_user over the handlers of RequestHandler to the           *)
(* transactions of UserMetadataRepository, and the file in which a client  *)
(* keeps its user between two runs.                                        *)
(*                                                                         *)
(* The server threads share one database connection. A transaction that is *)
(* begun while another one is open throws, and so does everything once the *)
(* connection broke: libpqxx does not reconnect. Every transaction is      *)
(* begun, executed and committed in steps of its own; between any two of   *)
(* them the connection may break, the server die and be started again, or  *)
(* a client end. One action is one access to what two threads share.       *)
(*                                                                         *)
(* A client process generates new keys whenever it starts, so the process  *)
(* stands for its keys. Requests that share a read with an earlier one are *)
(* dropped; that a read may also cut a request in two is left to           *)
(* MessageRelay, and so are the map of connected clients and the pool.     *)
(***************************************************************************)
EXTENDS Naturals, Sequences, FiniteSets

CONSTANTS
    Installs,   \* user directories, each of one nickname on one machine
    Nicks,      \* nicknames
    Nick,       \* the nickname an installation is used with
    Passwords,  \* what users type when asked for a password
    MaxProcs,   \* bound: how many client processes are started
    MaxRegs,    \* bound: how many times a user enters a new password
    MaxAuths,   \* bound: how many times a user enters the password again
    MaxLookups, \* bound: how many times a user asks for somebody's keys
    MaxEnds,    \* bound: how many client processes end
    MaxFaults,  \* bound: how often the database or the server fails
    NoInstall,  \* a process that was not started
    NoFile,     \* the user has no saved data
    Torn,       \* the saved data was truncated and not written again
    NoRequest   \* the handler waits for a request

ASSUME AccountsAssumption ==
    /\ Nick \in [Installs -> Nicks]
    /\ MaxProcs \in Nat /\ MaxRegs \in Nat /\ MaxAuths \in Nat
    /\ MaxLookups \in Nat /\ MaxEnds \in Nat /\ MaxFaults \in Nat
    /\ NoInstall \notin Installs

\* A process is its number; 0 is no process, and the id of no user.
Procs  == 1 .. MaxProcs
NoProc == 0
NoId   == 0
Ids    == Nat \ {NoId}

Requests ==
    [kind : {"register", "authorize"},
     nick : Nicks, pass : Passwords, uid : Ids \cup {NoId}]
    \cup [kind : {"lookup"}, nick : Nicks, pass : {NoId}, uid : Ids \cup {NoId}]
Replies ==
    [kind : {"registered"}, uid : Ids, key : {NoProc}]
    \cup [kind : {"keys"}, uid : Ids, key : Procs]
    \cup [kind : {"not_registered", "authorized", "refused", "no_keys"},
          uid : {NoId}, key : {NoProc}]
Users    == [id : Ids, nick : Nicks, pass : Passwords]
Keys     == [uid : Ids, key : Procs]
Saved    == [id : Ids, pass : Passwords]

Reply(kind, u, k) == [kind |-> kind, uid |-> u, key |-> k]

ASSUME AccountsSentinels ==
    /\ NoRequest \notin Requests
    /\ NoFile \notin Saved /\ Torn \notin Saved /\ NoFile # Torn

-----------------------------------------------------------------------------
VARIABLES
    home,       \* the installation a process was started from
    mode,       \* what the client process is doing
    self,       \* Client::_user, its id and password
    typed,      \* the password its user typed last
    file,       \* the saved user data of an installation
    req,        \* requests on their way to the server, per process
    rep,        \* answers on their way back
    cut,        \* the running processes whose connection the server's end lost
    budget,     \* how much of each bound is used up
    pc,         \* where the handler of a connection is
    cur,        \* the request it handles
    got,        \* its local user_id or receiver_id
    found,      \* the keys it looked up
    users,      \* committed rows of table users
    keys,       \* committed rows of table crypto_keys
    nextId,     \* the sequence behind users.id
    txn,        \* whose transaction is open on the shared connection
    up          \* the shared connection works

clientVars  == <<home, mode, self, typed, file>>
handlerVars == <<pc, cur, got, found>>
dbVars      == <<users, keys, nextId, txn, up>>
vars == <<clientVars, req, rep, cut, budget, handlerVars, dbVars>>

Modes == {"none", "new", "registering", "save_new", "write_new", "known",
          "authorizing", "save_known", "write_known", "chatting", "gone"}
Steps == {"idle", "create", "insert_user", "commit_user",
          "set_keys", "insert_keys", "commit_keys",
          "authorize", "select_user", "get_id", "select_id",
          "get_keys", "select_keys", "reply"}

NoUser   == [id |-> NoId, pass |-> NoId]
Counters == {"procs", "regs", "auths", "lookups", "ends", "faults"}
Limit == [procs |-> MaxProcs, regs |-> MaxRegs, auths |-> MaxAuths,
          lookups |-> MaxLookups, ends |-> MaxEnds, faults |-> MaxFaults]

TypeOK ==
    /\ home \in [Procs -> Installs \cup {NoInstall}]
    /\ mode \in [Procs -> Modes]
    /\ self \in [Procs -> Saved \cup {NoUser}]
    /\ typed \in [Procs -> Passwords \cup {NoId}]
    /\ file \in [Installs -> Saved \cup {NoFile, Torn}]
    /\ req \in [Procs -> Seq(Requests)]
    /\ rep \in [Procs -> Seq(Replies)]
    /\ cut \subseteq Procs
    /\ budget \in [Counters -> Nat]
    /\ \A c \in Counters : budget[c] <= Limit[c]
    /\ pc \in [Procs -> Steps]
    /\ cur \in [Procs -> Requests \cup {NoRequest}]
    /\ got \in [Procs -> Ids \cup {NoId}]
    /\ found \in [Procs -> Procs \cup {NoProc}]
    /\ users \subseteq Users
    /\ keys \subseteq Keys
    /\ nextId \in Ids
    /\ txn \in Procs \cup {NoProc}
    /\ up \in BOOLEAN

Init ==
    /\ home = [p \in Procs |-> NoInstall]
    /\ mode = [p \in Procs |-> "none"]
    /\ self = [p \in Procs |-> NoUser]
    /\ typed = [p \in Procs |-> NoId]
    /\ file = [i \in Installs |-> NoFile]
    /\ req = [p \in Procs |-> <<>>]
    /\ rep = [p \in Procs |-> <<>>]
    /\ cut = {}
    /\ budget = [c \in Counters |-> 0]
    /\ pc = [p \in Procs |-> "idle"]
    /\ cur = [p \in Procs |-> NoRequest]
    /\ got = [p \in Procs |-> NoId]
    /\ found = [p \in Procs |-> NoProc]
    /\ users = {}
    /\ keys = {}
    /\ nextId = 1
    /\ txn = NoProc
    /\ up = TRUE

\* A bounded event of kind c happens.
Spend(c) ==
    /\ budget[c] < Limit[c]
    /\ budget' = [budget EXCEPT ![c] = @ + 1]

-----------------------------------------------------------------------------
(* The client process.                                                     *)

Become(p, m) == mode' = [mode EXCEPT ![p] = m]

\* Client::Client reads the saved data and run connects. A user without an id is
\* asked to register. Data that does not parse throws from the constructor. A
\* user runs one process of an installation at a time.
Start(i) ==
    /\ \A q \in Procs : home[q] = i => mode[q] = "gone"
    /\ Spend("procs")
    /\ LET p == budget["procs"] + 1 IN
         /\ home' = [home EXCEPT ![p] = i]
         /\ self' = [self EXCEPT ![p] =
                IF file[i] \in Saved THEN file[i] ELSE NoUser]
         /\ Become(p, CASE file[i] = Torn   -> "gone"
                        [] file[i] = NoFile -> "new"
                        [] OTHER            -> "known")
    /\ UNCHANGED <<typed, file, req, rep, cut, handlerVars, dbVars>>

\* A request written to the socket of p.
Send(p, kind, n, pass) ==
    req' = [req EXCEPT ![p] = Append(@,
        [kind |-> kind, nick |-> n, pass |-> pass, uid |-> self[p].id])]

\* register_user writes the nickname, the password and the public keys.
SendRegister(p) ==
    /\ mode[p] = "new"
    /\ p \notin cut
    /\ Spend("regs")
    /\ \E pass \in Passwords :
         /\ typed' = [typed EXCEPT ![p] = pass]
         /\ Send(p, "register", Nick[home[p]], pass)
    /\ Become(p, "registering")
    /\ UNCHANGED <<home, self, file, rep, cut, handlerVars, dbVars>>

\* It waits for the answer; with a success the user has an id and a password.
ReadRegisterReply(p) ==
    /\ mode[p] = "registering"
    /\ rep[p] # <<>>
    /\ rep' = [rep EXCEPT ![p] = Tail(@)]
    /\ IF Head(rep[p]).kind = "registered"
       THEN /\ self' = [self EXCEPT ![p] =
                  [id |-> Head(rep[p]).uid, pass |-> typed[p]]]
            /\ Become(p, "save_new")
       ELSE /\ Become(p, "new")
            /\ UNCHANGED self
    /\ UNCHANGED <<home, typed, file, req, cut, budget, handlerVars, dbVars>>

\* save_user_data_to_json opens the file, which empties it, and then writes it;
\* when it cannot open the file it only says so in the log. Between the two the
\* process may end.
AfterSaving(p) == IF mode[p] \in {"save_new", "write_new"} THEN "known" ELSE "chatting"

OpenSaved(p) ==
    /\ mode[p] \in {"save_new", "save_known"}
    /\ \/ /\ file' = [file EXCEPT ![home[p]] = Torn]
          /\ Become(p, IF mode[p] = "save_new" THEN "write_new" ELSE "write_known")
          /\ UNCHANGED budget
       \/ /\ Spend("faults")
          /\ Become(p, AfterSaving(p))
          /\ UNCHANGED file
    /\ UNCHANGED <<home, self, typed, req, rep, cut, handlerVars, dbVars>>

WriteSaved(p) ==
    /\ mode[p] \in {"write_new", "write_known"}
    /\ file' = [file EXCEPT ![home[p]] = self[p]]
    /\ Become(p, AfterSaving(p))
    /\ UNCHANGED <<home, self, typed, req, rep, cut, budget, handlerVars, dbVars>>

\* authorize_user sends the id the client has and the password the user types.
SendAuthorize(p) ==
    /\ mode[p] = "known"
    /\ p \notin cut
    /\ Spend("auths")
    /\ \E pass \in Passwords :
         /\ typed' = [typed EXCEPT ![p] = pass]
         /\ Send(p, "authorize", Nick[home[p]], pass)
    /\ Become(p, "authorizing")
    /\ UNCHANGED <<home, self, file, rep, cut, handlerVars, dbVars>>

\* With a success it saves the user once more.
ReadAuthorizeReply(p) ==
    /\ mode[p] = "authorizing"
    /\ rep[p] # <<>>
    /\ rep' = [rep EXCEPT ![p] = Tail(@)]
    /\ Become(p, IF Head(rep[p]).kind = "authorized" THEN "save_known" ELSE "known")
    /\ UNCHANGED <<home, self, typed, file, req, cut, budget, handlerVars, dbVars>>

\* get_receiver_public_keys writes and does not wait ...
SendLookup(p) ==
    /\ mode[p] = "chatting"
    /\ p \notin cut
    /\ Spend("lookups")
    /\ \E n \in Nicks : Send(p, "lookup", n, NoId)
    /\ UNCHANGED <<clientVars, rep, cut, handlerVars, dbVars>>

\* ... and the answer, which has no type, is read and ignored.
ReadLookupReply(p) ==
    /\ mode[p] = "chatting"
    /\ rep[p] # <<>>
    /\ rep' = [rep EXCEPT ![p] = Tail(@)]
    /\ UNCHANGED <<clientVars, req, cut, budget, handlerVars, dbVars>>

\* The process ends: the user declines to try again or exits, or it crashes, or
\* the server's end of the connection is gone.
Quit(p) ==
    /\ mode[p] \notin {"none", "gone"}
    /\ Spend("ends")
    /\ Become(p, "gone")
    /\ self' = [self EXCEPT ![p] = NoUser]
    /\ typed' = [typed EXCEPT ![p] = NoId]
    /\ rep' = [rep EXCEPT ![p] = <<>>]
    /\ cut' = cut \ {p}
    /\ UNCHANGED <<home, file, req, handlerVars, dbVars>>

-----------------------------------------------------------------------------
(* The handlers of RequestHandler, one per connection, and the transactions *)
(* of UserMetadataRepository they make.                                     *)

Goto(p, s) == pc' = [pc EXCEPT ![p] = s]

\* handle_request takes the first request of those one read brings in, and
\* forgets the others.
TakeRequest(p) ==
    /\ pc[p] = "idle"
    /\ \E k \in 1 .. Len(req[p]) : req' = [req EXCEPT ![p] = SubSeq(@, k + 1, Len(@))]
    /\ cur' = [cur EXCEPT ![p] = Head(req[p])]
    /\ Goto(p, CASE Head(req[p]).kind = "register"  -> "create"
                  [] Head(req[p]).kind = "authorize" -> "authorize"
                  [] Head(req[p]).kind = "lookup"    -> "get_id")
    /\ UNCHANGED <<clientVars, rep, cut, budget, got, found, dbVars>>

\* pqxx::work txn(connection): opens a transaction, or throws when the connection
\* is broken or another transaction is still open; the exception ends the call.
Begin(p, opened, failed) ==
    /\ IF up /\ txn = NoProc
       THEN /\ txn' = p
            /\ Goto(p, opened)
       ELSE /\ Goto(p, failed)
            /\ UNCHANGED txn
    /\ UNCHANGED <<clientVars, req, rep, cut, budget, cur, found, users, keys,
                   nextId, up>>

\* Faulty: a call that ends with an exception leaves its transaction open.
CloseTxnUnlessBroken == txn' = IF up THEN NoProc ELSE txn

\* The transaction of the call that ends here is over: txn goes out of scope.
CloseTxn == txn' = NoProc

\* Faulty: unique is the pair of nickname and password.
TakenWithPassword(r) == \E u \in users : u.nick = r.nick /\ u.pass = r.pass

\* The nickname of request r has a user.
Taken(r) == \E u \in users : u.nick = r.nick

\* UserMetadataRepository::create. The sequence advances even when the nickname is
\* taken; a failure at any step makes it return 0.
BeginCreate(p) ==
    /\ pc[p] = "create"
    /\ Begin(p, "insert_user", "set_keys")
    /\ UNCHANGED got

InsertUser(p) ==
    /\ pc[p] = "insert_user"
    /\ nextId' = IF up THEN nextId + 1 ELSE nextId
    /\ IF up /\ ~Taken(cur[p])
       THEN /\ got' = [got EXCEPT ![p] = nextId]
            /\ Goto(p, "commit_user")
            /\ UNCHANGED txn
       ELSE /\ CloseTxn
            /\ Goto(p, "set_keys")
            /\ UNCHANGED got
    /\ UNCHANGED <<clientVars, req, rep, cut, budget, cur, found, users, keys, up>>

\* commit: done; or thrown back because the connection broke; or done, with the
\* connection breaking before the database could say so (in_doubt_error).
Commit(p, next) ==
    /\ CloseTxn
    /\ Goto(p, next)
    /\ \/ up /\ UNCHANGED <<up, budget>>
       \/ up /\ up' = FALSE /\ Spend("faults")
       \/ ~up /\ UNCHANGED <<up, budget>>
    /\ UNCHANGED <<clientVars, req, rep, cut, cur, found, nextId>>

\* Faulty: the id that was inserted, committed or not.
ReturnedAnyway(p, committed) == got[p]

\* Faulty: -1 stands for an error.
ReturnedMinusOne(p, committed) == IF committed THEN got[p] ELSE 0 - 1

\* What create returns.
Returned(p, committed) == IF committed THEN got[p] ELSE NoId

NewUser(p) == [id |-> got[p], nick |-> cur[p].nick, pass |-> cur[p].pass]

CommitUser(p) ==
    /\ pc[p] = "commit_user"
    /\ Commit(p, "set_keys")
    /\ users' = IF up THEN users \cup {NewUser(p)} ELSE users
    /\ got' = [got EXCEPT ![p] = Returned(p, up')]
    /\ UNCHANGED keys

\* handle_register goes on to set_public_keys with whatever id it got, 0 included,
\* and only logs a failure. The table has one row per user, of an existing user.
BeginSetKeys(p) ==
    /\ pc[p] = "set_keys"
    /\ Begin(p, "insert_keys", "reply")
    /\ UNCHANGED got

InsertKeys(p) ==
    /\ pc[p] = "insert_keys"
    /\ IF /\ up
          /\ \E u \in users : u.id = got[p]
          /\ \A k \in keys : k.uid # got[p]
       THEN /\ Goto(p, "commit_keys")
            /\ UNCHANGED txn
       ELSE /\ CloseTxn
            /\ Goto(p, "reply")
    /\ UNCHANGED <<clientVars, req, rep, cut, budget, cur, got, found, users, keys,
                   nextId, up>>

\* Faulty: the keys of whoever was inserted last.
NewKeysOfLast(p) == [uid |-> nextId - 1, key |-> p]

NewKeys(p) == [uid |-> got[p], key |-> p]

CommitKeys(p) ==
    /\ pc[p] = "commit_keys"
    /\ Commit(p, "reply")
    /\ keys' = IF up THEN keys \cup {NewKeys(p)} ELSE keys
    /\ UNCHANGED <<got, users>>

\* A query that is not committed: its transaction ends with the call.
Query(p, next) ==
    /\ CloseTxn
    /\ Goto(p, next)
    /\ UNCHANGED <<clientVars, req, rep, cut, budget, cur, users, keys, nextId, up>>

\* UserMetadataRepository::authorize: the row of that id and nickname has that
\* password. An exception counts as a mismatch.
BeginAuthorize(p) ==
    /\ pc[p] = "authorize"
    /\ Begin(p, "select_user", "reply")
    /\ UNCHANGED got

\* Faulty: any password will do.
GrantedByName(r) == \E u \in users : u.id = r.uid /\ u.nick = r.nick

Granted(r) == [id |-> r.uid, nick |-> r.nick, pass |-> r.pass] \in users

SelectUser(p) ==
    /\ pc[p] = "select_user"
    /\ Query(p, "reply")
    /\ got' = IF up /\ Granted(cur[p])
              THEN [got EXCEPT ![p] = cur[p].uid] ELSE got
    /\ UNCHANGED found

\* handle_get_user_keys: get_id, and for a known nickname get_public_keys in a
\* second transaction; both return nothing after an exception.
BeginGetId(p) ==
    /\ pc[p] = "get_id"
    /\ Begin(p, "select_id", "reply")
    /\ UNCHANGED got

SelectId(p) ==
    /\ pc[p] = "select_id"
    /\ \/ /\ up
          /\ \E u \in users : /\ u.nick = cur[p].nick
                             /\ got' = [got EXCEPT ![p] = u.id]
          /\ Query(p, "get_keys")
       \/ /\ ~up \/ ~Taken(cur[p])
          /\ Query(p, "reply")
          /\ UNCHANGED got
    /\ UNCHANGED found

BeginGetKeys(p) ==
    /\ pc[p] = "get_keys"
    /\ Begin(p, "select_keys", "reply")
    /\ UNCHANGED got

SelectKeys(p) ==
    /\ pc[p] = "select_keys"
    /\ Query(p, "reply")
    /\ \/ /\ up
          /\ \E k \in keys : /\ k.uid = got[p]
                            /\ found' = [found EXCEPT ![p] = k.key]
       \/ /\ ~up \/ \A k \in keys : k.uid # got[p]
          /\ UNCHANGED found
    /\ UNCHANGED got

\* The answer each handler writes.
Answer(p) ==
    CASE cur[p].kind = "register" ->
           Reply(IF got[p] = NoId THEN "not_registered" ELSE "registered",
                 got[p], NoProc)
      [] cur[p].kind = "authorize" ->
           Reply(IF got[p] = NoId THEN "refused" ELSE "authorized", NoId, NoProc)
      [] cur[p].kind = "lookup" ->
           IF found[p] = NoProc THEN Reply("no_keys", NoId, NoProc)
                                ELSE Reply("keys", got[p], found[p])

\* It is lost when the client ended. The write may throw then, which can end the
\* server; that outcome is RestartServer.
SendReply(p) ==
    /\ pc[p] = "reply"
    /\ rep' = IF mode[p] = "gone" THEN rep
              ELSE [rep EXCEPT ![p] = Append(@, Answer(p))]
    /\ Goto(p, "idle")
    /\ cur' = [cur EXCEPT ![p] = NoRequest]
    /\ got' = [got EXCEPT ![p] = NoId]
    /\ found' = [found EXCEPT ![p] = NoProc]
    /\ UNCHANGED <<clientVars, req, cut, budget, dbVars>>

-----------------------------------------------------------------------------
(* What fails.                                                             *)

\* The connection to the database breaks; whatever was not committed is undone.
BreakConnection ==
    /\ up
    /\ Spend("faults")
    /\ up' = FALSE
    /\ UNCHANGED <<clientVars, req, rep, cut, handlerVars, users, keys, nextId, txn>>

\* The server dies and is started again. The tables and the answers that left the
\* server are all that remains; PostgresDBManager connects anew. A server without a
\* database may be restarted at no further cost.
RestartServer ==
    /\ \/ up /\ Spend("faults")
       \/ ~up /\ UNCHANGED budget
    /\ cut' = {p \in Procs : mode[p] \notin {"none", "gone"}}
    /\ req' = [p \in Procs |-> <<>>]
    /\ pc' = [p \in Procs |-> "idle"]
    /\ cur' = [p \in Procs |-> NoRequest]
    /\ got' = [p \in Procs |-> NoId]
    /\ found' = [p \in Procs |-> NoProc]
    /\ txn' = NoProc
    /\ up' = TRUE
    /\ UNCHANGED <<clientVars, rep, users, keys, nextId>>

-----------------------------------------------------------------------------
HandlerStep(p) ==
    \/ BeginCreate(p)    \/ InsertUser(p) \/ CommitUser(p)
    \/ BeginSetKeys(p)   \/ InsertKeys(p) \/ CommitKeys(p)
    \/ BeginAuthorize(p) \/ SelectUser(p)
    \/ BeginGetId(p)     \/ SelectId(p)
    \/ BeginGetKeys(p)   \/ SelectKeys(p)
    \/ SendReply(p)

ClientStep(p) ==
    \/ SendRegister(p)  \/ ReadRegisterReply(p)
    \/ SendAuthorize(p) \/ ReadAuthorizeReply(p)
    \/ OpenSaved(p)     \/ WriteSaved(p)
    \/ SendLookup(p)    \/ ReadLookupReply(p)
    \/ Quit(p)

Next ==
    \/ \E i \in Installs : Start(i)
    \/ \E p \in Procs : ClientStep(p) \/ TakeRequest(p) \/ HandlerStep(p)
    \/ BreakConnection
    \/ RestartServer

Spec == Init /\ [][Next]_vars

-----------------------------------------------------------------------------
(* Properties.                                                             *)

\* What a client believes or is about to be told about its user.
Told(p) ==
    {r.uid : r \in {q \in {rep[p][n] : n \in DOMAIN rep[p]} : q.kind = "registered"}}
        \cup ({self[p].id} \ {NoId})

Stored(i, s) == [id |-> s.id, nick |-> Nick[i], pass |-> s.pass] \in users

\* A user who was told of the registration, or whose data was saved, is in the
\* table under that id, nickname and password: whatever broke, died or was started
\* again since. handle_register answers only after the commit.
ToldIsStored ==
    /\ \A p \in Procs : \A u \in Told(p) :
         \E row \in users :
            /\ row.id = u
            /\ row.nick = Nick[home[p]]
            /\ row.pass = IF self[p] = NoUser THEN typed[p] ELSE self[p].pass
    /\ \A i \in Installs : file[i] \in Saved => Stored(i, file[i])

\* No two installations that use one nickname are both told that it is theirs:
\* among those who ask at the same time, after a restart, after a commit in doubt.
NicknameOwnedOnce ==
    LET Claims(i) == file[i] \in Saved \/ \E p \in Procs : home[p] = i /\ Told(p) # {}
    IN  \A i, j \in Installs :
            i # j /\ Nick[i] = Nick[j] => ~(Claims(i) /\ Claims(j))

\* The keys in the table under a user, and those a lookup answers with, were
\* generated by a process of an installation with that user's nickname.
KeysOfNickname ==
    LET Fits(u, k) == \E row \in users : row.id = u /\ row.nick = Nick[home[k]]
    IN  /\ \A k \in keys : Fits(k.uid, k.key)
        /\ \A p \in Procs : \A n \in DOMAIN rep[p] :
              rep[p][n].kind = "keys" => Fits(rep[p][n].uid, rep[p][n].key)

\* Whoever gets to chat, or is about to hear it, typed the password under which
\* its user is stored.
AuthorizedKnewPassword ==
    \A p \in Procs :
        \/ mode[p] \in {"save_known", "write_known", "chatting"}
        \/ \E n \in DOMAIN rep[p] : rep[p][n].kind = "authorized"
        => Stored(home[p], [id |-> self[p].id, pass |-> typed[p]])

\* The one transaction the shared connection can have belongs to a call in
\* progress: one that outlived its call would make every later call fail.
TransactionOfACall ==
    txn # NoProc =>
        pc[txn] \in {"insert_user", "commit_user", "insert_keys", "commit_keys",
                     "select_user", "select_id", "select_keys"}
=============================================================================
