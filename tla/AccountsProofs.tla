---------------------------- MODULE AccountsProofs ----------------------------
(***************************************************************************)
(* Theorems about Accounts, for every set of installations, nicknames and  *)
(* passwords and for any bounds.  What the shared connection carries and   *)
(* what the handlers keep in their locals depend on where each of them is: *)
(* AccountInv states how.                                                  *)
(***************************************************************************)
EXTENDS Accounts, SequenceTheorems, TLAPS

Registering == {"create", "insert_user", "commit_user",
                "set_keys", "insert_keys", "commit_keys"}
WithinTxn   == {"insert_user", "commit_user", "insert_keys", "commit_keys",
                "select_user", "select_id", "select_keys"}
HasUser     == {"save_new", "write_new", "known", "authorizing", "save_known",
                "write_known", "chatting"}

\* The locals a step of a handler uses are set, and keys were looked up only by a
\* handler that is about to answer with them.
LocalsSound ==
    \A p \in Procs :
        /\ pc[p] # "idle" => cur[p] \in Requests
        /\ pc[p] \in Registering => cur[p].kind = "register"
        /\ pc[p] \in {"commit_user", "commit_keys"} => got[p] \in Ids
        /\ found[p] # NoProc => pc[p] = "reply" /\ got[p] \in Ids

\* A process that runs has an installation, one that waits for its registration a
\* password, and one that is past it a user.
ClientsSound ==
    \A p \in Procs :
        /\ mode[p] # "none" => home[p] \in Installs
        /\ mode[p] = "registering" => typed[p] \in Passwords
        /\ mode[p] \in HasUser => self[p] \in Saved

\* The handlers inside a transaction are the one whose transaction is open.
OneTransaction ==
    \A p \in Procs : pc[p] \in WithinTxn <=> txn = p

AccountInv ==
    /\ TypeOK
    /\ LocalsSound
    /\ ClientsSound
    /\ OneTransaction

-----------------------------------------------------------------------------
(* Facts about the values, and about the steps the actions are built from. *)

LEMMA Values ==
    /\ NoId \notin Ids /\ NoProc \notin Procs
    /\ \A c \in Counters : Limit[c] \in Nat
    /\ NoUser \notin Saved
BY AccountsAssumption DEF Ids, NoId, Procs, NoProc, Counters, Limit, Saved, NoUser

\* A bounded event stays within its bound.
LEMMA SpendTyped ==
    ASSUME TypeOK, NEW c \in Counters, Spend(c)
    PROVE  budget' \in [Counters -> Nat] /\ \A d \in Counters : budget'[d] <= Limit[d]
BY Values DEF TypeOK, Spend

\* A step that touches no handler and no table leaves their part of the invariant.
LEMMA ClientSide ==
    ASSUME AccountInv, UNCHANGED <<handlerVars, dbVars>>,
           home' \in [Procs -> Installs \cup {NoInstall}],
           mode' \in [Procs -> Modes],
           self' \in [Procs -> Saved \cup {NoUser}],
           typed' \in [Procs -> Passwords \cup {NoId}],
           file' \in [Installs -> Saved \cup {NoFile, Torn}],
           req' \in [Procs -> Seq(Requests)],
           rep' \in [Procs -> Seq(Replies)],
           cut' \subseteq Procs,
           budget' \in [Counters -> Nat],
           \A c \in Counters : budget'[c] <= Limit[c],
           ClientsSound'
    PROVE  AccountInv'
<1>1. TypeOK'
  BY DEF AccountInv, TypeOK, handlerVars, dbVars
<1>2. LocalsSound' /\ OneTransaction'
  BY DEF AccountInv, LocalsSound, OneTransaction, handlerVars, dbVars
<1>3. QED
  BY <1>1, <1>2 DEF AccountInv

THEOREM InitSound == Init => AccountInv
<1> SUFFICES ASSUME Init PROVE AccountInv
  OBVIOUS
<1>1. TypeOK
  <2>1. \A S : <<>> \in Seq(S)
    BY EmptySeq
  <2>2. \A c \in Counters : budget[c] <= Limit[c]
    BY Values DEF Init
  <2>3. QED
    BY <2>1, <2>2, Values DEF Init, TypeOK, Modes, Steps, Ids, NoId
<1>2. LocalsSound /\ ClientsSound
  BY Values DEF Init, LocalsSound, ClientsSound, Registering, HasUser
<1>3. OneTransaction
  BY Values DEF Init, OneTransaction, WithinTxn
<1>4. QED
  BY <1>1, <1>2, <1>3 DEF AccountInv

LEMMA StartSound == ASSUME AccountInv, NEW i \in Installs, Start(i) PROVE AccountInv'
<1> DEFINE p == budget["procs"] + 1
<1>1. p \in Procs
  <2>1. budget["procs"] \in Nat /\ budget["procs"] < Limit["procs"]
    BY DEF AccountInv, TypeOK, Start, Spend, Counters
  <2>2. Limit["procs"] = MaxProcs
    BY DEF Limit
  <2>3. QED
    BY <2>1, <2>2, AccountsAssumption DEF Procs
<1>2. budget' \in [Counters -> Nat] /\ \A d \in Counters : budget'[d] <= Limit[d]
  BY SpendTyped DEF AccountInv, Start, Counters
<1>3. /\ home' = [home EXCEPT ![p] = i]
      /\ self' = [self EXCEPT ![p] = IF file[i] \in Saved THEN file[i] ELSE NoUser]
      /\ mode' = [mode EXCEPT ![p] = CASE file[i] = Torn   -> "gone"
                                       [] file[i] = NoFile -> "new"
                                       [] OTHER            -> "known"]
      /\ UNCHANGED <<typed, file, req, rep, cut, handlerVars, dbVars>>
  BY DEF Start, Become
<1>4. file[i] \in Saved \cup {NoFile, Torn}
  BY DEF AccountInv, TypeOK
<1>5. ClientsSound'
  BY <1>1, <1>3, <1>4, AccountsSentinels
     DEF AccountInv, TypeOK, ClientsSound, HasUser, Modes
<1>6. mode' \in [Procs -> Modes]
  BY <1>1, <1>3 DEF AccountInv, TypeOK, Modes
<1>7. QED
  BY <1>1, <1>2, <1>3, <1>5, <1>6, ClientSide DEF AccountInv, TypeOK

LEMMA SendTyped ==
    ASSUME TypeOK, NEW p \in Procs, NEW kind, NEW n \in Nicks, NEW pass,
           Send(p, kind, n, pass),
           \/ kind \in {"register", "authorize"} /\ pass \in Passwords
           \/ kind = "lookup" /\ pass = NoId
    PROVE  req' \in [Procs -> Seq(Requests)]
<1> DEFINE r == [kind |-> kind, nick |-> n, pass |-> pass, uid |-> self[p].id]
<1>1. self[p].id \in Ids \cup {NoId}
  BY DEF TypeOK, Saved, NoUser
<1>2. r \in Requests
  BY <1>1 DEF Requests
<1>3. Append(req[p], r) \in Seq(Requests)
  BY <1>2, AppendProperties DEF TypeOK
<1>4. QED
  BY <1>3 DEF Send, TypeOK

LEMMA ReadTyped ==
    ASSUME TypeOK, NEW p \in Procs, rep[p] # <<>>, rep' = [rep EXCEPT ![p] = Tail(@)]
    PROVE  Head(rep[p]) \in Replies /\ rep' \in [Procs -> Seq(Replies)]
<1>1. rep[p] \in Seq(Replies)
  BY DEF TypeOK
<1>2. Head(rep[p]) \in Replies /\ Tail(rep[p]) \in Seq(Replies)
  BY <1>1, HeadTailProperties
<1>3. QED
  BY <1>2 DEF TypeOK

LEMMA ClientSound == ASSUME AccountInv, NEW p \in Procs, ClientStep(p) PROVE AccountInv'
<1> USE DEF clientVars, Become
<1>1. CASE SendRegister(p)
  <2>1. PICK pass \in Passwords :
            /\ typed' = [typed EXCEPT ![p] = pass]
            /\ Send(p, "register", Nick[home[p]], pass)
    BY <1>1 DEF SendRegister
  <2>2. Nick[home[p]] \in Nicks
    BY <1>1, AccountsAssumption DEF SendRegister, AccountInv, ClientsSound
  <2>3. req' \in [Procs -> Seq(Requests)]
    BY <2>1, <2>2, SendTyped DEF AccountInv
  <2>4. budget' \in [Counters -> Nat] /\ \A d \in Counters : budget'[d] <= Limit[d]
    BY <1>1, SpendTyped DEF AccountInv, SendRegister, Counters
  <2>5. ClientsSound'
    BY <1>1, <2>1 DEF SendRegister, AccountInv, TypeOK, ClientsSound, HasUser
  <2>6. QED
    BY <1>1, <2>1, <2>3, <2>4, <2>5, ClientSide DEF SendRegister, AccountInv, TypeOK, Modes
<1>2. CASE ReadRegisterReply(p)
  <2>1. Head(rep[p]) \in Replies /\ rep' \in [Procs -> Seq(Replies)]
    BY <1>2, ReadTyped DEF ReadRegisterReply, AccountInv
  <2>2. Head(rep[p]).kind = "registered" => Head(rep[p]).uid \in Ids
    BY <2>1 DEF Replies
  <2>3. typed[p] \in Passwords
    BY <1>2 DEF ReadRegisterReply, AccountInv, ClientsSound
  <2>4. self' \in [Procs -> Saved \cup {NoUser}] /\ mode' \in [Procs -> Modes]
    <3>1. Head(rep[p]).kind = "registered" =>
              [id |-> Head(rep[p]).uid, pass |-> typed[p]] \in Saved
      BY <2>2, <2>3 DEF Saved
    <3>2. self' \in [Procs -> Saved \cup {NoUser}]
      BY <1>2, <3>1 DEF ReadRegisterReply, AccountInv, TypeOK
    <3>3. QED
      BY <1>2, <3>2 DEF ReadRegisterReply, AccountInv, TypeOK, Modes
  <2>5. ClientsSound'
    BY <1>2, <2>2, <2>3
       DEF ReadRegisterReply, AccountInv, TypeOK, ClientsSound, HasUser, Saved
  <2>6. QED
    BY <1>2, <2>1, <2>4, <2>5, ClientSide DEF ReadRegisterReply, AccountInv, TypeOK
<1>3. CASE SendAuthorize(p)
  <2>1. PICK pass \in Passwords :
            /\ typed' = [typed EXCEPT ![p] = pass]
            /\ Send(p, "authorize", Nick[home[p]], pass)
    BY <1>3 DEF SendAuthorize
  <2>2. Nick[home[p]] \in Nicks
    BY <1>3, AccountsAssumption DEF SendAuthorize, AccountInv, ClientsSound
  <2>3. req' \in [Procs -> Seq(Requests)]
    BY <2>1, <2>2, SendTyped DEF AccountInv
  <2>4. budget' \in [Counters -> Nat] /\ \A d \in Counters : budget'[d] <= Limit[d]
    BY <1>3, SpendTyped DEF AccountInv, SendAuthorize, Counters
  <2>5. ClientsSound'
    BY <1>3, <2>1 DEF SendAuthorize, AccountInv, TypeOK, ClientsSound, HasUser
  <2>6. QED
    BY <1>3, <2>1, <2>3, <2>4, <2>5, ClientSide DEF SendAuthorize, AccountInv, TypeOK, Modes
<1>4. CASE ReadAuthorizeReply(p)
  <2>1. rep' \in [Procs -> Seq(Replies)]
    BY <1>4, ReadTyped DEF ReadAuthorizeReply, AccountInv
  <2>2. ClientsSound'
    BY <1>4 DEF ReadAuthorizeReply, AccountInv, TypeOK, ClientsSound, HasUser
  <2>3. QED
    BY <1>4, <2>1, <2>2, ClientSide DEF ReadAuthorizeReply, AccountInv, TypeOK, Modes
<1>5. CASE OpenSaved(p)
  <2>1. budget' \in [Counters -> Nat] /\ \A d \in Counters : budget'[d] <= Limit[d]
    BY <1>5, SpendTyped DEF OpenSaved, AccountInv, TypeOK, Counters
  <2>2. /\ file' \in [Installs -> Saved \cup {NoFile, Torn}]
        /\ mode' \in [Procs -> Modes]
        /\ ClientsSound'
    BY <1>5 DEF OpenSaved, AfterSaving, AccountInv, TypeOK, Modes, ClientsSound, HasUser
  <2>3. QED
    BY <1>5, <2>1, <2>2, ClientSide DEF OpenSaved, AccountInv, TypeOK
<1>6. CASE WriteSaved(p)
  <2>1. self[p] \in Saved
    BY <1>6 DEF WriteSaved, AccountInv, ClientsSound, HasUser
  <2>2. /\ file' \in [Installs -> Saved \cup {NoFile, Torn}]
        /\ mode' \in [Procs -> Modes]
        /\ ClientsSound'
    BY <1>6, <2>1 DEF WriteSaved, AfterSaving, AccountInv, TypeOK, Modes, ClientsSound, HasUser
  <2>3. QED
    BY <1>6, <2>2, ClientSide DEF WriteSaved, AccountInv, TypeOK
<1>7. CASE SendLookup(p)
  <2>1. req' \in [Procs -> Seq(Requests)]
    BY <1>7, SendTyped DEF SendLookup, AccountInv
  <2>2. budget' \in [Counters -> Nat] /\ \A d \in Counters : budget'[d] <= Limit[d]
    BY <1>7, SpendTyped DEF AccountInv, SendLookup, Counters
  <2>3. ClientsSound'
    BY <1>7 DEF SendLookup, AccountInv, ClientsSound
  <2>4. QED
    BY <1>7, <2>1, <2>2, <2>3, ClientSide DEF SendLookup, AccountInv, TypeOK
<1>8. CASE ReadLookupReply(p)
  <2>1. rep' \in [Procs -> Seq(Replies)]
    BY <1>8, ReadTyped DEF ReadLookupReply, AccountInv
  <2>2. ClientsSound'
    BY <1>8 DEF ReadLookupReply, AccountInv, ClientsSound
  <2>3. QED
    BY <1>8, <2>1, <2>2, ClientSide DEF ReadLookupReply, AccountInv, TypeOK
<1>9. CASE Quit(p)
  <2>1. budget' \in [Counters -> Nat] /\ \A d \in Counters : budget'[d] <= Limit[d]
    BY <1>9, SpendTyped DEF Quit, AccountInv, Counters
  <2>2. <<>> \in Seq(Replies)
    BY EmptySeq
  <2>3. ClientsSound'
    BY <1>9 DEF Quit, AccountInv, TypeOK, ClientsSound, HasUser
  <2>4. QED
    BY <1>9, <2>1, <2>2, <2>3, ClientSide DEF Quit, AccountInv, TypeOK, Modes
<1>10. QED
  BY <1>1, <1>2, <1>3, <1>4, <1>5, <1>6, <1>7, <1>8, <1>9 DEF ClientStep

\* A handler that goes on to its next step: the transaction it has is open, closed
\* now, or somebody else's, and the locals are what the next step needs.
LEMMA StepSound ==
    ASSUME AccountInv, NEW p \in Procs, NEW next \in Steps \ {"idle"},
           NEW g \in Ids \cup {NoId}, NEW f \in Procs \cup {NoProc},
           pc[p] # "idle", pc[p] # "reply", Goto(p, next),
           got' = [got EXCEPT ![p] = g], found' = [found EXCEPT ![p] = f],
           UNCHANGED <<clientVars, req, rep, cut, cur>>,
           budget' \in [Counters -> Nat],
           \A c \in Counters : budget'[c] <= Limit[c],
           users' \subseteq Users, keys' \subseteq Keys,
           nextId' \in Ids, up' \in BOOLEAN,
           next \in Registering => pc[p] \in Registering,
           next \in {"commit_user", "commit_keys"} => g \in Ids,
           f # NoProc => next = "reply" /\ g \in Ids,
           \/ next \in WithinTxn /\ txn' = p /\ txn \in {p, NoProc}
           \/ next \notin WithinTxn /\ txn' = NoProc /\ txn = p
           \/ next \notin WithinTxn /\ txn' = txn /\ pc[p] \notin WithinTxn
    PROVE  AccountInv'
<1>1. TypeOK'
  BY DEF AccountInv, TypeOK, clientVars, Goto
<1>2. LocalsSound'
  BY DEF AccountInv, TypeOK, LocalsSound, Goto
<1>3. ClientsSound'
  BY DEF AccountInv, ClientsSound, clientVars
<1>4. OneTransaction'
  BY Values DEF AccountInv, TypeOK, OneTransaction, Goto
<1>5. QED
  BY <1>1, <1>2, <1>3, <1>4 DEF AccountInv

LEMMA BeginSound ==
    ASSUME AccountInv, NEW p \in Procs, NEW opened \in WithinTxn \cap Steps,
           NEW failed \in {"set_keys", "reply"},
           pc[p] # "idle", pc[p] # "reply", pc[p] \notin WithinTxn,
           opened \in Registering => pc[p] \in Registering,
           failed \in Registering => pc[p] \in Registering,
           opened \notin {"commit_user", "commit_keys"},
           Begin(p, opened, failed), UNCHANGED got
    PROVE  AccountInv'
<1>1. /\ got' = [got EXCEPT ![p] = got[p]] /\ got[p] \in Ids \cup {NoId}
      /\ found' = [found EXCEPT ![p] = NoProc]
  BY DEF AccountInv, TypeOK, LocalsSound, Begin
<1>2. PICK next \in {opened, failed} :
        /\ Goto(p, next)
        /\ \/ next = opened /\ txn' = p /\ txn = NoProc
           \/ next = failed /\ txn' = txn
  BY DEF Begin
<1>3. failed \notin WithinTxn /\ next \in Steps \ {"idle"}
  BY DEF WithinTxn, Steps
<1>4. /\ UNCHANGED <<clientVars, req, rep, cut, cur>>
      /\ budget' \in [Counters -> Nat] /\ \A c \in Counters : budget'[c] <= Limit[c]
      /\ users' \subseteq Users /\ keys' \subseteq Keys
      /\ nextId' \in Ids /\ up' \in BOOLEAN
  BY DEF Begin, AccountInv, TypeOK
<1>5. CASE next = opened /\ txn' = p /\ txn = NoProc
  BY <1>1, <1>2, <1>3, <1>4, <1>5, StepSound
<1>6. CASE next = failed /\ txn' = txn
  BY <1>1, <1>2, <1>3, <1>4, <1>6, StepSound
<1>7. QED
  BY <1>2, <1>5, <1>6

LEMMA CommitSound ==
    ASSUME AccountInv, NEW p \in Procs, NEW next \in {"set_keys", "reply"},
           NEW g \in Ids \cup {NoId},
           pc[p] \in {"commit_user", "commit_keys"}, Commit(p, next),
           got' = [got EXCEPT ![p] = g],
           users' \subseteq Users, keys' \subseteq Keys
    PROVE  AccountInv'
<1>1. found' = [found EXCEPT ![p] = NoProc]
  BY DEF AccountInv, TypeOK, LocalsSound, Commit
<1>2. txn = p /\ txn' = NoProc
  BY DEF AccountInv, OneTransaction, WithinTxn, Commit, CloseTxn
<1>3. budget' \in [Counters -> Nat] /\ \A d \in Counters : budget'[d] <= Limit[d]
  BY SpendTyped DEF Commit, AccountInv, TypeOK, Counters
<1>4. up' \in BOOLEAN
  BY DEF Commit, AccountInv, TypeOK
<1>5. /\ next \in Steps \ {"idle"} /\ next \notin WithinTxn
      /\ next \in Registering => pc[p] \in Registering
  BY DEF Steps, WithinTxn, Registering
<1>6. QED
  BY <1>1, <1>2, <1>3, <1>4, <1>5, StepSound DEF Commit, AccountInv, TypeOK

LEMMA QuerySound ==
    ASSUME AccountInv, NEW p \in Procs, NEW next \in {"reply", "get_keys"},
           NEW g \in Ids \cup {NoId}, NEW f \in Procs \cup {NoProc},
           pc[p] \in {"select_user", "select_id", "select_keys"}, Query(p, next),
           got' = [got EXCEPT ![p] = g], found' = [found EXCEPT ![p] = f],
           f # NoProc => next = "reply" /\ g \in Ids
    PROVE  AccountInv'
<1>1. txn = p /\ txn' = NoProc
  BY DEF AccountInv, OneTransaction, WithinTxn, Query, CloseTxn
<1>2. /\ next \in Steps \ {"idle"} /\ next \notin WithinTxn
      /\ next \notin Registering
  BY DEF Steps, WithinTxn, Registering
<1>3. QED
  BY <1>1, <1>2, StepSound DEF Query, AccountInv, TypeOK

LEMMA RegisterSound ==
    ASSUME AccountInv, NEW p \in Procs,
           \/ BeginCreate(p) \/ InsertUser(p) \/ CommitUser(p)
           \/ BeginSetKeys(p) \/ InsertKeys(p) \/ CommitKeys(p)
    PROVE  AccountInv'
<1> USE DEF WithinTxn, Registering, Steps
<1>1. CASE BeginCreate(p)
  BY <1>1, BeginSound DEF BeginCreate
<1>2. CASE InsertUser(p)
  <2>1. txn = p /\ found' = [found EXCEPT ![p] = NoProc]
    BY <1>2 DEF InsertUser, AccountInv, TypeOK, LocalsSound, OneTransaction
  <2>2. nextId' \in Ids
    BY <1>2 DEF InsertUser, AccountInv, TypeOK, Ids, NoId
  <2>3. CASE up /\ ~Taken(cur[p])
    <3>1. /\ got' = [got EXCEPT ![p] = nextId] /\ nextId \in Ids
          /\ Goto(p, "commit_user") /\ txn' = p
      BY <1>2, <2>1, <2>3 DEF InsertUser, AccountInv, TypeOK
    <3>2. QED
      BY <1>2, <2>1, <2>2, <3>1, StepSound DEF InsertUser, AccountInv, TypeOK
  <2>4. CASE ~(up /\ ~Taken(cur[p]))
    <3>1. /\ got' = [got EXCEPT ![p] = got[p]] /\ got[p] \in Ids \cup {NoId}
          /\ Goto(p, "set_keys") /\ txn' = NoProc
      BY <1>2, <2>4 DEF InsertUser, CloseTxn, AccountInv, TypeOK
    <3>2. QED
      BY <1>2, <2>1, <2>2, <3>1, StepSound DEF InsertUser, AccountInv, TypeOK
  <2>5. QED
    BY <2>3, <2>4
<1>3. CASE CommitUser(p)
  <2>1. /\ got[p] \in Ids /\ cur[p] \in Requests /\ cur[p].kind = "register"
    BY <1>3 DEF CommitUser, AccountInv, LocalsSound
  <2>2. NewUser(p) \in Users
    BY <2>1 DEF NewUser, Users, Requests
  <2>3. users' \subseteq Users
    BY <1>3, <2>2 DEF CommitUser, AccountInv, TypeOK
  <2>4. Returned(p, up') \in Ids \cup {NoId}
    BY <2>1 DEF Returned
  <2>5. QED
    BY <1>3, <2>3, <2>4, CommitSound DEF CommitUser, AccountInv, TypeOK
<1>4. CASE BeginSetKeys(p)
  BY <1>4, BeginSound DEF BeginSetKeys
<1>5. CASE InsertKeys(p)
  <2>1. /\ txn = p /\ found' = [found EXCEPT ![p] = NoProc]
        /\ got' = [got EXCEPT ![p] = got[p]] /\ got[p] \in Ids \cup {NoId}
    BY <1>5 DEF InsertKeys, AccountInv, TypeOK, LocalsSound, OneTransaction
  <2>2. CASE Goto(p, "commit_keys") /\ (\E u \in users : u.id = got[p]) /\ txn' = txn
    <3>1. got[p] \in Ids
      BY <2>2 DEF AccountInv, TypeOK, Users
    <3>2. QED
      BY <1>5, <2>1, <2>2, <3>1, StepSound DEF InsertKeys, AccountInv, TypeOK
  <2>3. CASE Goto(p, "reply") /\ txn' = NoProc
    BY <1>5, <2>1, <2>3, StepSound DEF InsertKeys, AccountInv, TypeOK
  <2>4. QED
    BY <1>5, <2>2, <2>3 DEF InsertKeys, CloseTxn
<1>6. CASE CommitKeys(p)
  <2>1. /\ got[p] \in Ids /\ got' = [got EXCEPT ![p] = got[p]]
    BY <1>6 DEF CommitKeys, AccountInv, TypeOK, LocalsSound
  <2>2. NewKeys(p) \in Keys
    BY <2>1 DEF NewKeys, Keys
  <2>3. users' \subseteq Users /\ keys' \subseteq Keys
    BY <1>6, <2>2 DEF CommitKeys, AccountInv, TypeOK
  <2>4. QED
    BY <1>6, <2>1, <2>3, CommitSound DEF CommitKeys
<1>7. QED
  BY <1>1, <1>2, <1>3, <1>4, <1>5, <1>6

LEMMA QueriesSound ==
    ASSUME AccountInv, NEW p \in Procs,
           \/ BeginAuthorize(p) \/ SelectUser(p) \/ BeginGetId(p)
           \/ SelectId(p) \/ BeginGetKeys(p) \/ SelectKeys(p)
    PROVE  AccountInv'
<1> USE DEF WithinTxn, Registering, Steps
<1>1. /\ got = [got EXCEPT ![p] = got[p]] /\ got[p] \in Ids \cup {NoId}
      /\ pc[p] # "reply" => found = [found EXCEPT ![p] = NoProc]
  BY DEF AccountInv, TypeOK, LocalsSound
<1>2. CASE BeginAuthorize(p)
  BY <1>2, BeginSound DEF BeginAuthorize
<1>3. CASE SelectUser(p)
  <2>1. Granted(cur[p]) => cur[p].uid \in Ids
    BY DEF Granted, AccountInv, TypeOK, Users
  <2>2. PICK g \in Ids \cup {NoId} : got' = [got EXCEPT ![p] = g]
    BY <1>1, <1>3, <2>1 DEF SelectUser
  <2>3. QED
    BY <1>1, <1>3, <2>2, QuerySound DEF SelectUser
<1>4. CASE BeginGetId(p)
  BY <1>4, BeginSound DEF BeginGetId
<1>5. CASE SelectId(p)
  <2>1. \A u \in users : u.id \in Ids
    BY DEF AccountInv, TypeOK, Users
  <2>2. PICK g \in Ids \cup {NoId}, next \in {"reply", "get_keys"} :
            got' = [got EXCEPT ![p] = g] /\ Query(p, next)
    BY <1>1, <1>5, <2>1 DEF SelectId
  <2>3. QED
    BY <1>1, <1>5, <2>2, QuerySound DEF SelectId
<1>6. CASE BeginGetKeys(p)
  BY <1>6, BeginSound DEF BeginGetKeys
<1>7. CASE SelectKeys(p)
  <2>1. \A k \in keys : k.uid \in Ids /\ k.key \in Procs
    BY DEF AccountInv, TypeOK, Keys
  <2>2. PICK f \in Procs \cup {NoProc} :
            found' = [found EXCEPT ![p] = f] /\ (f # NoProc => got[p] \in Ids)
    BY <1>1, <1>7, <2>1 DEF SelectKeys
  <2>3. QED
    BY <1>1, <1>7, <2>2, QuerySound DEF SelectKeys
<1>8. QED
  BY <1>2, <1>3, <1>4, <1>5, <1>6, <1>7

\* The answer of a handler is a reply: a success has an id, and keys a user.
LEMMA AnswerTyped ==
    ASSUME AccountInv, NEW p \in Procs, pc[p] = "reply"
    PROVE  Answer(p) \in Replies
<1>1. /\ cur[p] \in Requests
      /\ got[p] \in Ids \cup {NoId} /\ found[p] \in Procs \cup {NoProc}
      /\ found[p] # NoProc => got[p] \in Ids
  BY DEF AccountInv, TypeOK, LocalsSound
<1>2. CASE cur[p].kind = "register"
  BY <1>1, <1>2, Values DEF Answer, Reply, Replies
<1>3. CASE cur[p].kind = "authorize"
  BY <1>1, <1>3, Values DEF Answer, Reply, Replies
<1>4. CASE cur[p].kind = "lookup"
  BY <1>1, <1>4, Values DEF Answer, Reply, Replies
<1>5. QED
  BY <1>1, <1>2, <1>3, <1>4 DEF Requests

LEMMA SendReplySound == ASSUME AccountInv, NEW p \in Procs, SendReply(p) PROVE AccountInv'
<1>1. rep' \in [Procs -> Seq(Replies)]
  <2>1. Append(rep[p], Answer(p)) \in Seq(Replies)
    BY AnswerTyped, AppendProperties DEF SendReply, AccountInv, TypeOK
  <2>2. QED
    BY <2>1 DEF SendReply, AccountInv, TypeOK
<1>2. TypeOK'
  BY <1>1 DEF SendReply, Goto, AccountInv, TypeOK, clientVars, dbVars, Steps
<1>3. LocalsSound'
  BY DEF SendReply, Goto, AccountInv, TypeOK, LocalsSound, Registering
<1>4. ClientsSound'
  BY DEF SendReply, AccountInv, ClientsSound, clientVars
<1>5. OneTransaction'
  BY Values DEF SendReply, Goto, AccountInv, TypeOK, OneTransaction, dbVars, WithinTxn
<1>6. QED
  BY <1>2, <1>3, <1>4, <1>5 DEF AccountInv

LEMMA TakeRequestSound ==
    ASSUME AccountInv, NEW p \in Procs, TakeRequest(p) PROVE AccountInv'
<1>1. PICK k \in 1 .. Len(req[p]) : req' = [req EXCEPT ![p] = SubSeq(@, k + 1, Len(@))]
  BY DEF TakeRequest
<1>2. req[p] \in Seq(Requests)
  BY DEF AccountInv, TypeOK
<1>3. Head(req[p]) \in Requests
  BY <1>1, <1>2, HeadTailProperties, LenProperties, EmptySeq
<1>4. SubSeq(req[p], k + 1, Len(req[p])) \in Seq(Requests)
  BY <1>1, <1>2, SubSeqProperties, LenProperties
<1>5. Head(req[p]).kind \in {"register", "authorize", "lookup"}
  BY <1>3 DEF Requests
<1>6. PICK next \in {"create", "authorize", "get_id"} :
          /\ Goto(p, next)
          /\ next = "create" => Head(req[p]).kind = "register"
  BY <1>5 DEF TakeRequest, Goto
<1>7. TypeOK'
  BY <1>1, <1>3, <1>4, <1>6
     DEF TakeRequest, Goto, AccountInv, TypeOK, clientVars, dbVars, Steps
<1>8. LocalsSound'
  BY <1>3, <1>6 DEF TakeRequest, Goto, AccountInv, TypeOK, LocalsSound, Registering
<1>9. ClientsSound'
  BY DEF TakeRequest, AccountInv, ClientsSound, clientVars
<1>10. OneTransaction'
  BY <1>6, Values
     DEF TakeRequest, Goto, AccountInv, TypeOK, OneTransaction, dbVars, WithinTxn
<1>11. QED
  BY <1>7, <1>8, <1>9, <1>10 DEF AccountInv

LEMMA FaultsSound ==
    ASSUME AccountInv, BreakConnection \/ RestartServer PROVE AccountInv'
<1>1. budget' \in [Counters -> Nat] /\ \A d \in Counters : budget'[d] <= Limit[d]
  BY SpendTyped DEF BreakConnection, RestartServer, AccountInv, TypeOK, Counters
<1>2. \A S : <<>> \in Seq(S)
  BY EmptySeq
<1>3. TypeOK'
  <2>1. CASE BreakConnection
    BY <1>1, <2>1 DEF BreakConnection, AccountInv, TypeOK, clientVars, handlerVars
  <2>2. CASE RestartServer
    <3>1. /\ req' \in [Procs -> Seq(Requests)]
          /\ cut' \subseteq Procs
          /\ pc' \in [Procs -> Steps]
          /\ cur' \in [Procs -> Requests \cup {NoRequest}]
          /\ got' \in [Procs -> Ids \cup {NoId}]
          /\ found' \in [Procs -> Procs \cup {NoProc}]
      BY <1>2, <2>2 DEF RestartServer, Steps
    <3>2. QED
      BY <1>1, <2>2, <3>1 DEF RestartServer, AccountInv, TypeOK, clientVars
  <2>3. QED
    BY <2>1, <2>2
<1>4. LocalsSound' /\ ClientsSound'
  BY DEF BreakConnection, RestartServer, AccountInv, LocalsSound, ClientsSound,
         clientVars, handlerVars, Registering
<1>5. OneTransaction'
  BY Values DEF BreakConnection, RestartServer, AccountInv, OneTransaction, handlerVars,
                WithinTxn
<1>6. QED
  BY <1>3, <1>4, <1>5 DEF AccountInv

-----------------------------------------------------------------------------
(* The theorems.                                                           *)

\* AccountInv is an invariant of the specification.
THEOREM AccountInvariant == Spec => []AccountInv
<1>1. AccountInv /\ [Next]_vars => AccountInv'
  <2> SUFFICES ASSUME AccountInv, [Next]_vars PROVE AccountInv'
    OBVIOUS
  <2>1. CASE UNCHANGED vars
    <3>1. TypeOK'
      BY <2>1 DEF AccountInv, TypeOK, vars, clientVars, handlerVars, dbVars
    <3>2. LocalsSound' /\ ClientsSound' /\ OneTransaction'
      BY <2>1 DEF AccountInv, LocalsSound, ClientsSound, OneTransaction, vars, clientVars,
                  handlerVars, dbVars
    <3>3. QED
      BY <3>1, <3>2 DEF AccountInv
  <2>2. CASE Next
    <3>1. CASE \E i \in Installs : Start(i)
      BY <3>1, StartSound
    <3>2. ASSUME NEW p \in Procs, ClientStep(p) PROVE AccountInv'
      BY <3>2, ClientSound
    <3>3. ASSUME NEW p \in Procs, TakeRequest(p) PROVE AccountInv'
      BY <3>3, TakeRequestSound
    <3>4. ASSUME NEW p \in Procs, HandlerStep(p) PROVE AccountInv'
      BY <3>4, RegisterSound, QueriesSound, SendReplySound DEF HandlerStep
    <3>5. CASE BreakConnection \/ RestartServer
      BY <3>5, FaultsSound
    <3>6. QED
      BY <2>2, <3>1, <3>2, <3>3, <3>4, <3>5 DEF Next
  <2>3. QED
    BY <2>1, <2>2
<1>2. QED
  BY <1>1, InitSound, PTL DEF Spec

\* Type correctness: no id, password or key is taken from where there is none.
THEOREM AccountsTypeCorrect == Spec => []TypeOK
<1>1. AccountInv => TypeOK
  BY DEF AccountInv
<1>2. QED
  BY <1>1, AccountInvariant, PTL

\* The transaction on the shared connection is always that of a call in progress:
\* whichever way a call of UserMetadataRepository ends, it leaves none behind.
THEOREM TransactionsClosed == Spec => []TransactionOfACall
<1>1. AccountInv => TransactionOfACall
  BY DEF AccountInv, TypeOK, OneTransaction, TransactionOfACall, WithinTxn
<1>2. QED
  BY <1>1, AccountInvariant, PTL

-----------------------------------------------------------------------------
(***************************************************************************)
(* What clients are told, what they save and what they look up is in the   *)
(* tables, for every set of installations, nicknames and passwords and for *)
(* any bounds.  TruthInv follows an id from its insertion over the commit  *)
(* and the answer to the client and its file, across every failure in      *)
(* between; it is proved relative to AccountInv.                           *)
(***************************************************************************)

\* The row a registration is about to commit, or has committed.
Row(p) == [id |-> got[p], nick |-> cur[p].nick, pass |-> cur[p].pass]

\* A nickname and an id have one row, and ids come from the sequence.
UsersSound ==
    /\ \A u, v \in users : u.nick = v.nick \/ u.id = v.id => u = v
    /\ \A u \in users : u.id < nextId

\* What a handler found out so far is in the tables; what it is about to commit has
\* not become impossible since it was inserted.
PendingOf(p) ==
    /\ pc[p] \in {"authorize", "select_user"} => cur[p].kind = "authorize"
    /\ pc[p] \in {"get_id", "select_id", "get_keys", "select_keys"} => cur[p].kind = "lookup"
    /\ pc[p] \in {"idle", "create", "insert_user", "authorize", "select_user",
                  "get_id", "select_id"} => got[p] = NoId
    /\ got[p] # NoId => got[p] < nextId
    /\ pc[p] = "commit_user" /\ up => \A u \in users : u.nick # cur[p].nick /\ u.id # got[p]
    /\ /\ pc[p] \in {"set_keys", "insert_keys", "commit_keys", "reply"}
       /\ cur[p].kind = "register"
       /\ got[p] # NoId
       => Row(p) \in users
    /\ pc[p] = "reply" /\ cur[p].kind = "authorize" /\ got[p] # NoId => Granted(cur[p])
    /\ found[p] # NoProc => [uid |-> got[p], key |-> found[p]] \in keys

\* Nothing is under way on the connection of p.
Quiet(p) == req[p] = <<>> /\ pc[p] = "idle" /\ rep[p] = <<>>

\* Processes are numbered in the order they start, and one registers its own nickname.
OwnOf(p) ==
    /\ mode[p] = "none" <=> p > budget["procs"]
    /\ mode[p] = "none" => Quiet(p) /\ self[p] = NoUser
    /\ \A n \in DOMAIN req[p] :
          req[p][n].kind = "register" => req[p][n].nick = Nick[home[p]]
    /\ pc[p] # "idle" /\ cur[p].kind = "register" => cur[p].nick = Nick[home[p]]

\* The keys in the table are those of the user they are filed under, and the keys in an
\* answer are in the table.
OfItsUser(k) ==
    /\ mode[k.key] # "none"
    /\ \E row \in users : row.id = k.uid /\ row.nick = Nick[home[k.key]]
AnswersKeys(p) ==
    \A n \in DOMAIN rep[p] :
        rep[p][n].kind = "keys" => [uid |-> rep[p][n].uid, key |-> rep[p][n].key] \in keys

\* The request of p that asks for kind, and the answers that would be true.
Asked(p, kind) ==
    [kind |-> kind, nick |-> Nick[home[p]], pass |-> typed[p], uid |-> self[p].id]
TrueReply(p, kind, a) ==
    IF kind = "register"
    THEN /\ a.kind \in {"registered", "not_registered"}
         /\ a.kind = "registered" =>
               [id |-> a.uid, nick |-> Nick[home[p]], pass |-> typed[p]] \in users
    ELSE /\ a.kind \in {"authorized", "refused"}
         /\ a.kind = "authorized" => Granted(Asked(p, kind))

\* p waits for the answer to one request, which is somewhere on its way, or lost.
Waits(p, kind) ==
    \/ req[p] = <<Asked(p, kind)>> /\ pc[p] = "idle" /\ rep[p] = <<>>
    \/ req[p] = <<>> /\ pc[p] # "idle" /\ cur[p] = Asked(p, kind) /\ rep[p] = <<>>
    \/ /\ req[p] = <<>> /\ pc[p] = "idle"
       /\ Len(rep[p]) = 1 /\ TrueReply(p, kind, rep[p][1])
    \/ Quiet(p)

\* What is under way on the connection of a process, by what the process does.
ConversationOf(p) ==
    /\ mode[p] \in {"new", "save_new", "write_new", "known", "save_known", "write_known"}
          => Quiet(p)
    /\ mode[p] = "registering" => Waits(p, "register")
    /\ mode[p] = "authorizing" => Waits(p, "authorize")
    /\ mode[p] = "chatting" =>
          /\ \A n \in DOMAIN req[p] : req[p][n].kind = "lookup"
          /\ pc[p] # "idle" => cur[p].kind = "lookup"
          /\ \A n \in DOMAIN rep[p] : rep[p][n].kind \in {"keys", "no_keys"}
    /\ mode[p] = "gone" => rep[p] = <<>>
    /\ mode[p] \notin HasUser => self[p] = NoUser

\* The user a process has is stored, with the password that was accepted.
StoredOf(p) ==
    /\ mode[p] \in HasUser => Stored(home[p], self[p])
    /\ mode[p] \in {"save_known", "write_known", "chatting"} =>
          Stored(home[p], [id |-> self[p].id, pass |-> typed[p]])

\* Process p has id n, or it is on its way to it; installation i has it.
HeldBy(p, n) ==
    \/ self[p].id = n
    \/ pc[p] # "idle" /\ cur[p].kind = "register" /\ got[p] = n
    \/ \E m \in DOMAIN rep[p] : rep[p][m].kind = "registered" /\ rep[p][m].uid = n
Holds(i, n) ==
    \/ file[i] \in Saved /\ file[i].id = n
    \/ \E p \in Procs : mode[p] # "none" /\ home[p] = i /\ HeldBy(p, n)

\* No two installations have one id.
OneHolder ==
    \A n \in Ids : \A i, j \in Installs :
        Holds(i, n) => n < nextId /\ (Holds(j, n) => i = j)

TruthInv ==
    /\ UsersSound
    /\ \A p \in Procs : PendingOf(p) /\ OwnOf(p) /\ ConversationOf(p) /\ StoredOf(p)
    /\ \A k \in keys : OfItsUser(k)
    /\ \A p \in Procs : AnswersKeys(p)
    /\ \A i \in Installs : file[i] \in Saved => Stored(i, file[i])
    /\ OneHolder

-----------------------------------------------------------------------------
(* What a step leaves alone.                                               *)

\* The tables only grow.
TablesGrow ==
    /\ users \subseteq users' /\ keys \subseteq keys'
    /\ nextId' \in {nextId, nextId + 1}

\* A handler that does not move keeps what it knows while the tables grow; while it is
\* about to commit a user, nobody else does.
LEMMA PendingFrame ==
    ASSUME AccountInv, NEW q \in Procs, PendingOf(q), TablesGrow, up' => up,
           pc'[q] = pc[q], cur'[q] = cur[q], got'[q] = got[q], found'[q] = found[q],
           users' = users \/ pc[q] # "commit_user"
    PROVE  PendingOf(q)'
<1>1. got[q] \in Nat /\ nextId \in Nat /\ nextId' \in Nat /\ nextId <= nextId'
  BY DEF AccountInv, TypeOK, TablesGrow, Ids, NoId
<1>2. users \subseteq users' /\ keys \subseteq keys'
  BY DEF TablesGrow
<1>3. QED
  BY <1>1, <1>2 DEF PendingOf, Row, Granted

\* A process and its connection that a step does not touch.
Untouched(q) ==
    /\ home'[q] = home[q] /\ mode'[q] = mode[q] /\ self'[q] = self[q] /\ typed'[q] = typed[q]
    /\ req'[q] = req[q] /\ rep'[q] = rep[q]

LEMMA ProcessFrame ==
    ASSUME NEW q \in Procs, Untouched(q), users \subseteq users', keys \subseteq keys',
           pc[q] = pc'[q], cur[q] = cur'[q]
    PROVE  /\ ConversationOf(q) => ConversationOf(q)'
           /\ StoredOf(q) => StoredOf(q)'
           /\ AnswersKeys(q) => AnswersKeys(q)'
           /\ OwnOf(q) /\ (budget'["procs"] = budget["procs"]
                             \/ (mode'[q] = "none" <=> q > budget'["procs"]))
                 => OwnOf(q)'
           /\ got'[q] = got[q] => \A n : HeldBy(q, n)' => HeldBy(q, n)
<1> USE DEF Untouched, Quiet
<1>1. ASSUME NEW kind, Waits(q, kind) PROVE Waits(q, kind)'
  BY <1>1 DEF Waits, Asked, TrueReply, Granted
<1>2. ConversationOf(q) => ConversationOf(q)'
  BY <1>1 DEF ConversationOf
<1>3. StoredOf(q) => StoredOf(q)'
  BY DEF StoredOf, Stored
<1>4. AnswersKeys(q) => AnswersKeys(q)'
  BY DEF AnswersKeys
<1>5. OwnOf(q) /\ (budget'["procs"] = budget["procs"]
                     \/ (mode'[q] = "none" <=> q > budget'["procs"])) => OwnOf(q)'
  BY DEF OwnOf
<1>6. got'[q] = got[q] => \A n : HeldBy(q, n)' => HeldBy(q, n)
  BY DEF HeldBy
<1>7. QED
  BY <1>2, <1>3, <1>4, <1>5, <1>6

\* Ids that only move between an installation's file, processes and handlers have one
\* holder still.
LEMMA HolderFrame ==
    ASSUME AccountInv, OneHolder, nextId' \in {nextId, nextId + 1},
           \A i \in Installs : \A n \in Ids : Holds(i, n)' => Holds(i, n)
    PROVE  OneHolder'
<1>1. nextId \in Nat /\ Ids \subseteq Nat
  BY DEF AccountInv, TypeOK, Ids
<1>2. QED
  BY <1>1 DEF OneHolder

LEMMA FilesFrame ==
    ASSUME \A i \in Installs : file[i] \in Saved => Stored(i, file[i]),
           users \subseteq users', file' = file
    PROVE  \A i \in Installs : file'[i] \in Saved => Stored(i, file[i])'
BY DEF Stored

LEMMA KeysFrame ==
    ASSUME \A k \in keys : OfItsUser(k), users \subseteq users', keys' = keys, keys \subseteq Keys,
           \A q \in Procs : mode[q] # "none" => mode'[q] # "none" /\ home'[q] = home[q]
    PROVE  \A k \in keys' : OfItsUser(k)'
BY DEF OfItsUser, Keys

-----------------------------------------------------------------------------
(* The steps of a handler.                                                 *)

\* A handler that goes on to its next step keeps the invariant, if what it found out
\* then is in the tables, if it files keys under their user, and if it takes no id but
\* the next of the sequence.
LEMMA HandlerKeeps ==
    ASSUME AccountInv, TruthInv, NEW p \in Procs, NEW next \in Steps \ {"idle"},
           NEW g, NEW f, pc[p] # "idle", Goto(p, next),
           got' = [got EXCEPT ![p] = g], found' = [found EXCEPT ![p] = f],
           UNCHANGED <<clientVars, req, rep, cur>>,
           budget'["procs"] = budget["procs"],
           TablesGrow, up' => up, users' = users \/ pc[p] = "commit_user",
           UsersSound', PendingOf(p)',
           \A k \in keys' \ keys : OfItsUser(k)',
           \/ g \in {got[p], NoId}
           \/ cur[p].kind # "register"
           \/ g = nextId /\ nextId' = nextId + 1
    PROVE  TruthInv'
<1>1. /\ pc \in [Procs -> Steps] /\ got \in [Procs -> Ids \cup {NoId}]
      /\ found \in [Procs -> Procs \cup {NoProc}]
      /\ Ids \subseteq Nat /\ NoId \notin Ids /\ nextId \in Ids
      /\ keys \subseteq Keys
  BY Values DEF AccountInv, TypeOK, Ids
<1>2. users \subseteq users' /\ keys \subseteq keys'
  BY DEF TablesGrow
<1>3. /\ pc'[p] = next /\ got'[p] = g /\ cur' = cur
      /\ \A q \in Procs \ {p} : pc'[q] = pc[q] /\ got'[q] = got[q] /\ found'[q] = found[q]
  BY <1>1 DEF Goto
<1>4. \A q \in Procs : Untouched(q)
  BY DEF Untouched, clientVars
<1>5. \A q \in Procs : PendingOf(q)'
  <2> SUFFICES ASSUME NEW q \in Procs \ {p} PROVE PendingOf(q)'
    OBVIOUS
  <2>1. users' = users \/ pc[q] # "commit_user"
    <3>1. pc[p] = "commit_user" => pc[q] # "commit_user"
      BY DEF AccountInv, OneTransaction, WithinTxn
    <3>2. QED
      BY <3>1
  <2>2. PendingOf(q)
    BY DEF TruthInv
  <2>3. QED
    BY <1>3, <2>1, <2>2, PendingFrame
<1>6. \A q \in Procs : OwnOf(q)' /\ ConversationOf(q)' /\ StoredOf(q)' /\ AnswersKeys(q)'
  <2>1. ASSUME NEW q \in Procs \ {p}
        PROVE  OwnOf(q)' /\ ConversationOf(q)' /\ StoredOf(q)' /\ AnswersKeys(q)'
    BY <1>2, <1>3, <1>4, ProcessFrame DEF TruthInv
  <2>2. OwnOf(p) /\ ConversationOf(p) /\ StoredOf(p) /\ AnswersKeys(p)
    BY DEF TruthInv
  <2>3. OwnOf(p)'
    BY <1>3, <1>4, <2>2 DEF OwnOf, Untouched, Quiet
  <2>4. ASSUME NEW kind, Waits(p, kind) PROVE Waits(p, kind)'
    BY <1>3, <1>4, <2>4 DEF Waits, Asked, Untouched, Quiet
  <2>5. ConversationOf(p)'
    BY <1>3, <1>4, <2>2, <2>4 DEF ConversationOf, Untouched, Quiet
  <2>6. StoredOf(p)' /\ AnswersKeys(p)'
    BY <1>2, <1>4, <2>2 DEF StoredOf, Stored, AnswersKeys, Untouched
  <2>7. QED
    BY <2>1, <2>3, <2>5, <2>6
<1>7. \A k \in keys' : OfItsUser(k)'
  BY <1>1, <1>2, <1>4 DEF TruthInv, OfItsUser, Untouched, Keys
<1>8. \A i \in Installs : file'[i] \in Saved => Stored(i, file[i])'
  BY <1>2, FilesFrame DEF TruthInv, clientVars
<1>9. OneHolder'
  <2>1. \A q \in Procs \ {p} : \A n : HeldBy(q, n)' => HeldBy(q, n)
    BY <1>2, <1>3, <1>4, ProcessFrame
  <2>2. \A n \in Ids : HeldBy(p, n)' =>
            HeldBy(p, n) \/ (cur[p].kind = "register" /\ n = g)
    BY <1>3, <1>4 DEF HeldBy, Untouched
  <2>3. \A i : \A n : Holds(i, n) => (Holds(i, n) <=>
            \/ file'[i] \in Saved /\ file'[i].id = n
            \/ \E q \in Procs : mode'[q] # "none" /\ home'[q] = i /\ HeldBy(q, n))
    BY <1>4 DEF Holds, Untouched, clientVars
  <2>4. CASE g \in {got[p], NoId} \/ cur[p].kind # "register"
    <3>1. \A n \in Ids : HeldBy(p, n)' => HeldBy(p, n)
      BY <1>1, <2>2, <2>4 DEF HeldBy
    <3>2. \A i \in Installs : \A n \in Ids : Holds(i, n)' => Holds(i, n)
      BY <1>4, <2>1, <3>1 DEF Holds, Untouched, clientVars
    <3>3. QED
      BY <3>2, HolderFrame DEF TruthInv, TablesGrow
  <2>5. CASE g = nextId /\ nextId' = nextId + 1
    <3>1. \A n \in Ids \ {g} : \A q \in Procs : HeldBy(q, n)' => HeldBy(q, n)
      BY <2>1, <2>2, <2>5
    <3>2. \A i \in Installs : \A n \in Ids \ {g} : Holds(i, n)' => Holds(i, n)
      BY <1>4, <3>1 DEF Holds, Untouched, clientVars
    <3>3. \A i \in Installs : ~Holds(i, g)
      BY <1>1, <2>5 DEF TruthInv, OneHolder
    <3>4. \A q \in Procs \ {p} : mode[q] # "none" /\ home[q] \in Installs => ~HeldBy(q, g)'
      BY <2>1, <3>3 DEF Holds
    <3>5. \A q \in Procs : mode[q] # "none" => home[q] \in Installs
      BY DEF AccountInv, ClientsSound
    <3>6. \A i \in Installs : Holds(i, g)' => i = home[p]
      BY <1>4, <3>3, <3>4, <3>5 DEF Holds, Untouched, clientVars
    <3>7. \A n \in Ids : \A i, j \in Installs :
              Holds(i, n)' => n < g + 1 /\ (Holds(j, n)' => i = j)
      BY <1>1, <2>5, <3>2, <3>6 DEF TruthInv, OneHolder
    <3>8. QED
      BY <2>5, <3>7 DEF OneHolder
  <2>6. QED
    BY <2>4, <2>5
<1>10. QED
  BY <1>5, <1>6, <1>7, <1>8, <1>9 DEF TruthInv

\* The same for a step that changes no table.
LEMMA LookingKeeps ==
    ASSUME AccountInv, TruthInv, NEW p \in Procs, NEW next \in Steps \ {"idle"},
           NEW g, NEW f, pc[p] # "idle", Goto(p, next),
           got' = [got EXCEPT ![p] = g], found' = [found EXCEPT ![p] = f],
           UNCHANGED <<clientVars, req, rep, cur, budget, users, keys>>,
           nextId' \in {nextId, nextId + 1}, up' => up,
           PendingOf(p)',
           \/ g \in {got[p], NoId}
           \/ cur[p].kind # "register"
           \/ g = nextId /\ nextId' = nextId + 1
    PROVE  TruthInv'
<1>1. TablesGrow
  BY DEF TablesGrow
<1>2. UsersSound'
  <2>1. nextId \in Nat /\ \A u \in users : u.id \in Nat
    BY DEF AccountInv, TypeOK, Users, Ids
  <2>2. QED
    BY <2>1 DEF TruthInv, UsersSound
<1>3. QED
  BY <1>1, <1>2, HandlerKeeps

\* What a handler that is not answering has: no keys, and locals of their types.
LEMMA LocalsHere ==
    ASSUME AccountInv, TruthInv, NEW p \in Procs
    PROVE  /\ pc[p] # "reply" => found[p] = NoProc /\ found = [found EXCEPT ![p] = NoProc]
           /\ got = [got EXCEPT ![p] = got[p]]
           /\ pc \in [Procs -> Steps] /\ got \in [Procs -> Ids \cup {NoId}]
           /\ found \in [Procs -> Procs \cup {NoProc}]
           /\ nextId \in Ids /\ got[p] \in Ids \cup {NoId}
           /\ PendingOf(p)
BY DEF AccountInv, TypeOK, LocalsSound, TruthInv

LEMMA BeginKeeps ==
    ASSUME AccountInv, TruthInv, NEW p \in Procs,
           NEW opened, NEW failed,
           <<pc[p], opened, failed>> \in
               {<<"create", "insert_user", "set_keys">>, <<"set_keys", "insert_keys", "reply">>,
                <<"authorize", "select_user", "reply">>, <<"get_id", "select_id", "reply">>,
                <<"get_keys", "select_keys", "reply">>},
           Begin(p, opened, failed), UNCHANGED got
    PROVE  TruthInv'
<1>1. PICK next \in {opened, failed} : Goto(p, next)
  BY DEF Begin
<1>2. next \in Steps \ {"idle"} /\ pc[p] # "idle" /\ pc[p] # "reply"
  BY DEF Steps
<1>3. pc' = [pc EXCEPT ![p] = next]
  BY <1>1 DEF Goto
<1>4. UNCHANGED <<clientVars, req, rep, cur, budget, users, keys, nextId, up, got, found>>
  BY DEF Begin
<1>5. PendingOf(p)'
  <2>1. pc'[p] = next /\ PendingOf(p) /\ found[p] = NoProc
    BY <1>2, <1>3, LocalsHere
  <2>2. next = opened \/ next = failed
    OBVIOUS
  <2>3. pc[p] \in Registering => cur[p].kind = "register"
    BY DEF AccountInv, LocalsSound
  <2>4. QED
    BY <1>4, <2>1, <2>2, <2>3 DEF PendingOf, Row, Granted, Registering
<1>6. QED
  BY <1>1, <1>2, <1>4, <1>5, LocalsHere, LookingKeeps

LEMMA InsertUserKeeps ==
    ASSUME AccountInv, TruthInv, NEW p \in Procs, InsertUser(p)
    PROVE  TruthInv'
<1>1. /\ pc[p] = "insert_user"
      /\ UNCHANGED <<clientVars, req, rep, cur, budget, users, keys, up, found>>
      /\ nextId' \in {nextId, nextId + 1}
  BY DEF InsertUser
<1>2. /\ PendingOf(p) /\ nextId \in Ids /\ nextId \in Nat /\ found[p] = NoProc
      /\ got[p] = NoId /\ cur[p].kind = "register"
      /\ found' = [found EXCEPT ![p] = NoProc] /\ got = [got EXCEPT ![p] = got[p]]
      /\ pc \in [Procs -> Steps] /\ got \in [Procs -> Ids \cup {NoId}]
  BY <1>1, LocalsHere DEF PendingOf, Ids, AccountInv, LocalsSound, Registering
<1>3. "commit_user" \in Steps \ {"idle"} /\ "set_keys" \in Steps \ {"idle"}
  BY DEF Steps
<1>4. CASE up /\ ~Taken(cur[p])
  <2>1. /\ Goto(p, "commit_user") /\ got' = [got EXCEPT ![p] = nextId]
        /\ nextId' = nextId + 1
    BY <1>4 DEF InsertUser
  <2>2. pc'[p] = "commit_user" /\ got'[p] = nextId
    BY <1>2, <2>1 DEF Goto
  <2>3. \A u \in users : u.nick # cur[p].nick /\ u.id # nextId
    <3>1. \A u \in users : u.id < nextId /\ u.id \in Nat
      BY DEF TruthInv, UsersSound, AccountInv, TypeOK, Users, Ids
    <3>2. QED
      BY <1>2, <1>4, <3>1 DEF Taken
  <2>4. PendingOf(p)'
    BY <1>1, <1>2, <2>1, <2>2, <2>3 DEF PendingOf
  <2>5. QED
    BY <1>1, <1>2, <1>3, <2>1, <2>4, LookingKeeps
<1>5. CASE ~(up /\ ~Taken(cur[p]))
  <2>1. Goto(p, "set_keys") /\ got' = got
    BY <1>5 DEF InsertUser
  <2>2. pc'[p] = "set_keys" /\ got'[p] = NoId
    BY <1>2, <2>1 DEF Goto
  <2>3. PendingOf(p)'
    BY <1>1, <1>2, <2>2 DEF PendingOf
  <2>4. QED
    BY <1>1, <1>2, <1>3, <2>1, <2>3, LookingKeeps
<1>6. QED
  BY <1>4, <1>5

\* A nickname and an id that are not in the table may be added to it.
LEMMA CommitUserKeeps ==
    ASSUME AccountInv, TruthInv, NEW p \in Procs, CommitUser(p)
    PROVE  TruthInv'
<1> DEFINE new == [id |-> got[p], nick |-> cur[p].nick, pass |-> cur[p].pass]
           g == IF up' THEN got[p] ELSE NoId
<1>1. /\ pc[p] = "commit_user" /\ Goto(p, "set_keys")
      /\ UNCHANGED <<clientVars, req, rep, cur, keys, found, nextId>>
      /\ users' = IF up THEN users \cup {new} ELSE users
      /\ got' = [got EXCEPT ![p] = g]
      /\ up' => up
      /\ budget'["procs"] = budget["procs"]
  BY DEF CommitUser, Commit, NewUser, Returned, Spend, AccountInv, TypeOK, Counters
<1>2. /\ PendingOf(p) /\ nextId \in Nat /\ found[p] = NoProc
      /\ got[p] \in Ids /\ cur[p].kind = "register" /\ got[p] \in Nat
      /\ found' = [found EXCEPT ![p] = NoProc]
      /\ pc \in [Procs -> Steps] /\ got \in [Procs -> Ids \cup {NoId}]
      /\ got[p] # NoId
  BY <1>1, LocalsHere, Values DEF Ids, AccountInv, LocalsSound, Registering
<1>3. "set_keys" \in Steps \ {"idle"}
  BY DEF Steps
<1>4. got[p] < nextId /\ (up => \A u \in users : u.nick # cur[p].nick /\ u.id # got[p])
  BY <1>1, <1>2 DEF PendingOf
<1>5. UsersSound'
  BY <1>1, <1>4 DEF TruthInv, UsersSound
<1>6. TablesGrow
  BY <1>1 DEF TablesGrow
<1>7. pc'[p] = "set_keys" /\ got'[p] = g /\ g \in {got[p], NoId}
  BY <1>1, <1>2 DEF Goto
<1>8. PendingOf(p)'
  <2>1. g # NoId => new \in users'
    BY <1>1
  <2>2. g # NoId => g = got[p]
    BY <1>7
  <2> HIDE DEF g
  <2>3. Row(p)' = [id |-> g, nick |-> cur[p].nick, pass |-> cur[p].pass]
    BY <1>1, <1>7 DEF Row
  <2>4. QED
    BY <1>1, <1>2, <1>4, <1>7, <2>1, <2>2, <2>3 DEF PendingOf
<1>9. QED
  <2> HIDE DEF g
  <2>1. QED
    BY <1>1, <1>2, <1>3, <1>5, <1>6, <1>7, <1>8, HandlerKeeps

LEMMA InsertKeysKeeps ==
    ASSUME AccountInv, TruthInv, NEW p \in Procs, InsertKeys(p)
    PROVE  TruthInv'
<1>1. /\ pc[p] = "insert_keys"
      /\ UNCHANGED <<clientVars, req, rep, cur, budget, users, keys, up, got, found, nextId>>
  BY DEF InsertKeys
<1>2. PICK next \in {"commit_keys", "reply"} : Goto(p, next)
  BY DEF InsertKeys
<1>3. /\ PendingOf(p) /\ found[p] = NoProc /\ cur[p].kind = "register"
      /\ found' = [found EXCEPT ![p] = NoProc] /\ got' = [got EXCEPT ![p] = got[p]]
      /\ pc'[p] = next
  BY <1>1, <1>2, LocalsHere DEF AccountInv, LocalsSound, Registering, Goto
<1>4. next \in Steps \ {"idle"}
  BY DEF Steps
<1>5. PendingOf(p)'
  BY <1>1, <1>3 DEF PendingOf, Row
<1>6. QED
  BY <1>1, <1>2, <1>3, <1>4, <1>5, LookingKeeps

\* The keys go under a user with the nickname of the process that generated them.
LEMMA CommitKeysKeeps ==
    ASSUME AccountInv, TruthInv, NEW p \in Procs, CommitKeys(p)
    PROVE  TruthInv'
<1> DEFINE new == [uid |-> got[p], key |-> p]
<1>1. /\ pc[p] = "commit_keys" /\ Goto(p, "reply")
      /\ UNCHANGED <<clientVars, req, rep, cur, users, found, nextId, got>>
      /\ keys' = IF up THEN keys \cup {new} ELSE keys
      /\ up' => up
      /\ budget'["procs"] = budget["procs"]
  BY DEF CommitKeys, Commit, NewKeys, Spend, AccountInv, TypeOK, Counters
<1>2. /\ PendingOf(p) /\ found[p] = NoProc /\ nextId \in Nat
      /\ got[p] # NoId /\ cur[p].kind = "register"
      /\ found' = [found EXCEPT ![p] = NoProc] /\ got' = [got EXCEPT ![p] = got[p]]
      /\ pc \in [Procs -> Steps]
  BY <1>1, LocalsHere, Values DEF Ids, AccountInv, LocalsSound, Registering
<1>3. "reply" \in Steps \ {"idle"} /\ pc'[p] = "reply"
  BY <1>1, <1>2 DEF Steps, Goto
<1>4. Row(p) \in users
  BY <1>1, <1>2 DEF PendingOf
<1>5. mode[p] # "none" /\ cur[p].nick = Nick[home[p]]
  BY <1>1, <1>2 DEF TruthInv, OwnOf, Quiet
<1>6. OfItsUser(new)
  <2>1. new.key = p /\ new.uid = got[p]
    OBVIOUS
  <2>2. Row(p).id = got[p] /\ Row(p).nick = Nick[home[p]]
    BY <1>5 DEF Row
  <2> HIDE DEF new
  <2>3. QED
    BY <1>4, <1>5, <2>1, <2>2 DEF OfItsUser
<1>7. \A k \in keys' \ keys : OfItsUser(k)'
  <2> SUFFICES ASSUME NEW k \in keys' \ keys PROVE OfItsUser(k)'
    OBVIOUS
  <2>1. k = new
    BY <1>1
  <2>2. OfItsUser(k)
    BY <1>6, <2>1
  <2>3. QED
    BY <1>1, <2>2 DEF OfItsUser, clientVars
<1>8. TablesGrow /\ UsersSound'
  BY <1>1 DEF TablesGrow, TruthInv, UsersSound
<1>9. PendingOf(p)'
  BY <1>1, <1>2, <1>3, <1>4 DEF PendingOf, Row
<1>10. QED
  BY <1>1, <1>2, <1>3, <1>7, <1>8, <1>9, HandlerKeeps

LEMMA QueryKeeps ==
    ASSUME AccountInv, TruthInv, NEW p \in Procs,
           SelectUser(p) \/ SelectId(p) \/ SelectKeys(p)
    PROVE  TruthInv'
<1>1. PICK next \in {"reply", "get_keys"} : Query(p, next)
  BY DEF SelectUser, SelectId, SelectKeys
<1>2. /\ next \in Steps \ {"idle"} /\ Goto(p, next)
      /\ UNCHANGED <<clientVars, req, rep, cur, budget, users, keys, nextId, up>>
  BY <1>1 DEF Query, Steps
<1>3. /\ pc[p] \in {"select_user", "select_id", "select_keys"}
      /\ PendingOf(p) /\ found[p] = NoProc /\ nextId \in Nat
      /\ found = [found EXCEPT ![p] = NoProc] /\ got = [got EXCEPT ![p] = got[p]]
      /\ pc'[p] = next /\ got \in [Procs -> Ids \cup {NoId}]
      /\ found \in [Procs -> Procs \cup {NoProc}]
      /\ cur[p] \in Requests
  BY <1>2, LocalsHere
     DEF Goto, Ids, SelectUser, SelectId, SelectKeys, AccountInv, LocalsSound
<1>4. cur[p].kind # "register"
  BY <1>3 DEF PendingOf
<1>5. \A u \in users : u.id < nextId
  BY DEF TruthInv, UsersSound
<1>6. CASE SelectUser(p)
  <2>1. /\ pc[p] = "select_user" /\ found' = found
        /\ got' = IF up /\ Granted(cur[p]) THEN [got EXCEPT ![p] = cur[p].uid] ELSE got
    BY <1>6 DEF SelectUser
  <2>2. next = "reply"
    BY <1>2, <1>3, <1>6 DEF SelectUser, Query, Goto, AccountInv, TypeOK
  <2>3. PICK g : /\ got' = [got EXCEPT ![p] = g]
                 /\ g = NoId \/ (g = cur[p].uid /\ Granted(cur[p]))
    BY <1>3, <2>1 DEF PendingOf
  <2>4. g # NoId => g < nextId
    BY <1>5, <2>3 DEF Granted
  <2>5. PendingOf(p)'
    BY <1>2, <1>3, <2>1, <2>2, <2>3, <2>4 DEF PendingOf, Granted
  <2>6. QED
    BY <1>2, <1>3, <1>4, <2>1, <2>3, <2>5, LookingKeeps
<1>7. CASE SelectId(p)
  <2>1. pc[p] = "select_id" /\ found' = found
    BY <1>7 DEF SelectId
  <2>2. PICK g : /\ got' = [got EXCEPT ![p] = g]
                 /\ g = NoId \/ \E u \in users : g = u.id
    BY <1>3, <1>7, <2>1 DEF SelectId, PendingOf
  <2>3. g # NoId => g < nextId
    BY <1>5, <2>2
  <2>4. PendingOf(p)'
    BY <1>2, <1>3, <2>1, <2>2, <2>3 DEF PendingOf
  <2>5. QED
    BY <1>2, <1>3, <1>4, <2>1, <2>2, <2>4, LookingKeeps
<1>8. CASE SelectKeys(p)
  <2>1. pc[p] = "select_keys" /\ got' = got
    BY <1>8 DEF SelectKeys
  <2>2. PICK f : /\ found' = [found EXCEPT ![p] = f]
                 /\ f = NoProc \/ \E k \in keys : k.uid = got[p] /\ f = k.key
    BY <1>3, <1>8 DEF SelectKeys
  <2>3. f # NoProc => [uid |-> got[p], key |-> f] \in keys
    BY <2>2 DEF AccountInv, TypeOK, Keys
  <2>4. next = "reply"
    BY <1>2, <1>3, <1>8 DEF SelectKeys, Query, Goto, AccountInv, TypeOK
  <2>5. PendingOf(p)'
    BY <1>2, <1>3, <2>1, <2>2, <2>3, <2>4 DEF PendingOf
  <2>6. QED
    BY <1>2, <1>3, <1>4, <2>1, <2>2, <2>5, LookingKeeps
<1>9. QED
  BY <1>6, <1>7, <1>8

-----------------------------------------------------------------------------
(* The steps of a client process and of its connection.                    *)

\* A step of one process and its connection keeps the invariant, if what holds of each
\* process holds of it still, if the ids it has were its installation's, and if it saves
\* only a user that is stored and that it has.
LEMMA OneProcessKeeps ==
    ASSUME AccountInv, TruthInv, NEW p \in Procs, NEW h \in Installs,
           \A q \in Procs \ {p} :
               /\ Untouched(q) /\ pc'[q] = pc[q] /\ cur'[q] = cur[q]
               /\ got'[q] = got[q] /\ found'[q] = found[q]
               /\ mode[q] = "none" <=> q > budget'["procs"],
           UNCHANGED <<users, keys, nextId, up>>,
           OwnOf(p)', ConversationOf(p)', StoredOf(p)', PendingOf(p)', AnswersKeys(p)',
           home'[p] = h, mode'[p] # "none", mode[p] # "none" => home[p] = h,
           \A n \in Ids : HeldBy(p, n)' => Holds(h, n),
           \A i \in Installs : file'[i] \in Saved =>
               \/ file'[i] = file[i]
               \/ i = h /\ Stored(i, file'[i]) /\ Holds(i, file'[i].id)
    PROVE  TruthInv'
<1>1. TablesGrow /\ UsersSound'
  BY DEF TablesGrow, TruthInv, UsersSound
<1>2. \A q \in Procs : PendingOf(q)'
  BY <1>1, PendingFrame DEF TruthInv
<1>3. \A q \in Procs : OwnOf(q)' /\ ConversationOf(q)' /\ StoredOf(q)' /\ AnswersKeys(q)'
  <2> SUFFICES ASSUME NEW q \in Procs \ {p}
               PROVE  OwnOf(q)' /\ ConversationOf(q)' /\ StoredOf(q)' /\ AnswersKeys(q)'
    OBVIOUS
  <2>1. mode'[q] = "none" <=> q > budget'["procs"]
    BY DEF Untouched
  <2>2. QED
    BY <2>1, ProcessFrame DEF TruthInv
<1>4. \A k \in keys' : OfItsUser(k)'
  <2>1. \A q \in Procs : mode[q] # "none" => mode'[q] # "none" /\ home'[q] = home[q]
    BY DEF Untouched
  <2>2. keys \subseteq Keys
    BY DEF AccountInv, TypeOK
  <2>3. QED
    BY <2>1, <2>2, KeysFrame DEF TruthInv
<1>5. \A i \in Installs : file'[i] \in Saved => Stored(i, file[i])'
  BY DEF TruthInv, Stored
<1>6. OneHolder'
  <2>1. \A q \in Procs \ {p} : \A n : HeldBy(q, n)' => HeldBy(q, n)
    BY ProcessFrame
  <2>2. ASSUME NEW i \in Installs, NEW n \in Ids, Holds(i, n)' PROVE Holds(i, n)
    <3>1. CASE file'[i] \in Saved /\ file'[i].id = n
      BY <3>1 DEF Holds
    <3>2. CASE home'[p] = i /\ HeldBy(p, n)'
      BY <3>2
    <3>3. ASSUME NEW q \in Procs \ {p}, mode'[q] # "none", home'[q] = i, HeldBy(q, n)'
          PROVE  Holds(i, n)
      BY <2>1, <3>3 DEF Holds, Untouched
    <3>4. QED
      BY <2>2, <3>1, <3>2, <3>3 DEF Holds
  <2>3. QED
    BY <2>2, HolderFrame DEF TruthInv
<1>7. QED
  BY <1>1, <1>2, <1>3, <1>4, <1>5, <1>6 DEF TruthInv

\* A running process: its installation, its types, and what holds of it.
LEMMA ProcessHere ==
    ASSUME AccountInv, TruthInv, NEW p \in Procs
    PROVE  /\ mode[p] # "none" => home[p] \in Installs
           /\ PendingOf(p) /\ OwnOf(p) /\ ConversationOf(p) /\ StoredOf(p) /\ AnswersKeys(p)
           /\ home \in [Procs -> Installs \cup {NoInstall}] /\ mode \in [Procs -> Modes]
           /\ self \in [Procs -> Saved \cup {NoUser}]
           /\ typed \in [Procs -> Passwords \cup {NoId}]
           /\ req \in [Procs -> Seq(Requests)] /\ rep \in [Procs -> Seq(Replies)]
           /\ pc \in [Procs -> Steps] /\ cur \in [Procs -> Requests \cup {NoRequest}]
           /\ got \in [Procs -> Ids \cup {NoId}] /\ found \in [Procs -> Procs \cup {NoProc}]
           /\ \A q \in Procs : mode[q] = "none" <=> q > budget["procs"]
           /\ mode[p] # "none" => \A n : HeldBy(p, n) => Holds(home[p], n)
BY DEF AccountInv, TypeOK, ClientsSound, TruthInv, OwnOf, Holds

\* A sequence of one element.
LEMMA OneElement ==
    ASSUME NEW S, NEW s \in Seq(S), Len(s) = 1
    PROVE  s # <<>> /\ Head(s) = s[1] /\ Tail(s) = <<>> /\ DOMAIN s = {1} /\ s[1] \in S
<1>0. s # <<>> /\ DOMAIN s = 1 .. 1
  OBVIOUS
<1>1. Head(s) = s[1]
  BY <1>0
<1>2. Tail(s) \in Seq(S) /\ Len(Tail(s)) = 0
  BY <1>0, HeadTailProperties
<1>3. Tail(s) = <<>>
  BY <1>2, EmptySeq
<1>4. QED
  BY <1>0, <1>1, <1>3

LEMMA FirstElement ==
    ASSUME NEW S, NEW e \in S
    PROVE  /\ Append(<<>>, e) \in Seq(S) /\ Append(<<>>, e) = <<e>>
           /\ Len(<<e>>) = 1 /\ <<e>>[1] = e /\ DOMAIN <<e>> = {1}
OBVIOUS

LEMMA SendReplyKeeps ==
    ASSUME AccountInv, TruthInv, NEW p \in Procs, SendReply(p)
    PROVE  TruthInv'
<1> DEFINE a == Answer(p)
<1>1. /\ pc[p] = "reply" /\ pc' = [pc EXCEPT ![p] = "idle"]
      /\ cur' = [cur EXCEPT ![p] = NoRequest] /\ got' = [got EXCEPT ![p] = NoId]
      /\ found' = [found EXCEPT ![p] = NoProc]
      /\ UNCHANGED <<clientVars, req, budget, dbVars>>
      /\ rep' = IF mode[p] = "gone" THEN rep ELSE [rep EXCEPT ![p] = Append(@, a)]
  BY DEF SendReply, Goto
<1>2. /\ mode[p] # "none" /\ home[p] \in Installs
      /\ PendingOf(p) /\ OwnOf(p) /\ ConversationOf(p) /\ StoredOf(p) /\ AnswersKeys(p)
  BY <1>1, ProcessHere DEF OwnOf, Quiet
<1>3. /\ pc'[p] = "idle" /\ cur'[p] = NoRequest /\ got'[p] = NoId /\ found'[p] = NoProc
      /\ \A q \in Procs \ {p} :
            /\ Untouched(q) /\ pc'[q] = pc[q] /\ cur'[q] = cur[q]
            /\ got'[q] = got[q] /\ found'[q] = found[q]
            /\ mode[q] = "none" <=> q > budget'["procs"]
  BY <1>1, ProcessHere DEF Untouched, clientVars
<1>4. UNCHANGED <<home, mode, self, typed, file, req, users, keys, nextId, up, txn>>
  BY <1>1 DEF clientVars, dbVars
<1>5. cur[p] \in Requests /\ a \in Replies /\ rep[p] \in Seq(Replies)
      /\ cur[p].kind \in {"register", "authorize", "lookup"}
  BY <1>1, AnswerTyped, ProcessHere DEF AccountInv, LocalsSound, Requests
<1>6. /\ a.kind = "registered" => cur[p].kind = "register" /\ got[p] # NoId /\ a.uid = got[p]
      /\ a.kind = "keys" => [uid |-> a.uid, key |-> a.key] \in keys
      /\ cur[p].kind = "register" => a.kind \in {"registered", "not_registered"}
      /\ cur[p].kind = "authorize" =>
            /\ a.kind \in {"authorized", "refused"}
            /\ a.kind = "authorized" => got[p] # NoId
      /\ cur[p].kind = "lookup" => a.kind \in {"keys", "no_keys"}
  BY <1>1, <1>2, <1>5 DEF Answer, Reply, PendingOf
<1> HIDE DEF a
<1>7. /\ rep'[p] = IF mode[p] = "gone" THEN rep[p] ELSE Append(rep[p], a)
      /\ rep'[p] \in Seq(Replies)
      /\ \A n \in DOMAIN rep'[p] :
            (n \in DOMAIN rep[p] /\ rep'[p][n] = rep[p][n]) \/ rep'[p][n] = a
      /\ rep[p] = <<>> /\ mode[p] # "gone" => Len(rep'[p]) = 1 /\ rep'[p][1] = a
  <2>1. rep'[p] = IF mode[p] = "gone" THEN rep[p] ELSE Append(rep[p], a)
    BY <1>1, ProcessHere
  <2>2. /\ Append(rep[p], a) \in Seq(Replies)
        /\ \A n \in DOMAIN Append(rep[p], a) :
              \/ n \in DOMAIN rep[p] /\ Append(rep[p], a)[n] = rep[p][n]
              \/ Append(rep[p], a)[n] = a
    BY <1>5, AppendProperties
  <2>3. Len(Append(<<>>, a)) = 1 /\ Append(<<>>, a)[1] = a
    OBVIOUS
  <2>4. QED
    BY <1>5, <2>1, <2>2, <2>3
<1>8. OwnOf(p)' /\ StoredOf(p)' /\ PendingOf(p)'
  BY <1>1, <1>2, <1>3, <1>4 DEF OwnOf, StoredOf, Stored, PendingOf, Quiet
<1>9. AnswersKeys(p)'
  BY <1>2, <1>4, <1>6, <1>7 DEF AnswersKeys
<1>10. ConversationOf(p)'
  <2>1. mode[p] \in {"registering", "authorizing", "chatting", "gone"}
    BY <1>1, <1>2, ProcessHere DEF ConversationOf, Quiet, Modes
  <2>2. ASSUME NEW kind \in {"register", "authorize"}, Waits(p, kind), mode[p] # "gone"
        PROVE  Waits(p, kind)'
    <3>1. req[p] = <<>> /\ cur[p] = Asked(p, kind) /\ rep[p] = <<>>
      BY <1>1, <2>2 DEF Waits, Quiet
    <3>2. Len(rep'[p]) = 1 /\ rep'[p][1] = a
      BY <1>7, <2>2, <3>1
    <3>3. TrueReply(p, kind, a)
      BY <1>1, <1>2, <1>6, <3>1 DEF TrueReply, Asked, PendingOf, Row
    <3>4. TrueReply(p, kind, rep[p][1])'
      BY <1>4, <3>2, <3>3 DEF TrueReply, Granted, Asked
    <3>5. QED
      BY <1>3, <1>4, <3>1, <3>2, <3>4 DEF Waits
  <2>3. CASE mode[p] = "registering"
    BY <1>2, <1>4, <2>2, <2>3 DEF ConversationOf, HasUser
  <2>4. CASE mode[p] = "authorizing"
    BY <1>2, <1>4, <2>2, <2>4 DEF ConversationOf, HasUser
  <2>5. CASE mode[p] = "chatting"
    <3>1. cur[p].kind = "lookup"
      BY <1>1, <1>2, <2>5 DEF ConversationOf
    <3>2. \A n \in DOMAIN rep'[p] : rep'[p][n].kind \in {"keys", "no_keys"}
      BY <1>2, <1>6, <1>7, <2>5, <3>1 DEF ConversationOf
    <3>3. QED
      BY <1>2, <1>3, <1>4, <2>5, <3>2 DEF ConversationOf, HasUser
  <2>6. CASE mode[p] = "gone"
    BY <1>2, <1>4, <1>7, <2>6 DEF ConversationOf, HasUser
  <2>7. QED
    BY <2>1, <2>3, <2>4, <2>5, <2>6
<1>11. \A n \in Ids : HeldBy(p, n)' => Holds(home[p], n)
  <2>1. \A n \in Ids : HeldBy(p, n)' => HeldBy(p, n)
    BY <1>1, <1>3, <1>4, <1>6, <1>7 DEF HeldBy
  <2>2. QED
    BY <1>2, <2>1, ProcessHere
<1>12. QED
  BY <1>2, <1>3, <1>4, <1>8, <1>9, <1>10, <1>11, OneProcessKeeps

\* A step of a running client keeps the invariant, if what it sends and what it now
\* believes fit, if it has only the id it had, and if what it saves is its stored user.
LEMMA ClientKeeps ==
    ASSUME AccountInv, TruthInv, NEW p \in Procs, mode[p] # "none", mode'[p] # "none",
           UNCHANGED <<home, handlerVars, dbVars>>,
           budget'["procs"] = budget["procs"],
           \A q \in Procs \ {p} :
               /\ mode'[q] = mode[q] /\ self'[q] = self[q] /\ typed'[q] = typed[q]
               /\ req'[q] = req[q] /\ rep'[q] = rep[q],
           \A n \in DOMAIN req'[p] :
               req'[p][n].kind = "register" => req'[p][n].nick = Nick[home[p]],
           ConversationOf(p)', StoredOf(p)', AnswersKeys(p)',
           \A n \in Ids : HeldBy(p, n)' => HeldBy(p, n),
           \A i \in Installs : file'[i] \in Saved =>
               \/ file'[i] = file[i]
               \/ i = home[p] /\ Stored(i, file'[i]) /\ file'[i].id = self[p].id
    PROVE  TruthInv'
<1>1. /\ home[p] \in Installs /\ home'[p] = home[p]
      /\ PendingOf(p) /\ OwnOf(p)
      /\ \A q \in Procs : mode[q] = "none" <=> q > budget["procs"]
      /\ \A n : HeldBy(p, n) => Holds(home[p], n)
  BY ProcessHere
<1>2. \A q \in Procs \ {p} :
          /\ Untouched(q) /\ pc'[q] = pc[q] /\ cur'[q] = cur[q]
          /\ got'[q] = got[q] /\ found'[q] = found[q]
          /\ mode[q] = "none" <=> q > budget'["procs"]
  BY <1>1 DEF Untouched, handlerVars
<1>3. UNCHANGED <<users, keys, nextId, up, pc, cur, got, found>>
  BY DEF dbVars, handlerVars
<1>4. OwnOf(p)' /\ PendingOf(p)'
  BY <1>1, <1>3 DEF OwnOf, PendingOf, Row, Granted
<1>5. \A i \in Installs : i = home[p] /\ file'[i].id = self[p].id => Holds(i, file'[i].id)
  BY <1>1 DEF HeldBy
<1>6. QED
  BY <1>1, <1>2, <1>3, <1>4, <1>5, OneProcessKeeps

\* Only Start counts the processes.
LEMMA SpendOther ==
    ASSUME AccountInv, NEW c \in Counters \ {"procs"}, Spend(c)
    PROVE  budget'["procs"] = budget["procs"]
BY DEF AccountInv, TypeOK, Spend, Counters

\* A client that nothing is under way for sends a request and waits for its answer.
LEMMA SendWaits ==
    ASSUME AccountInv, TruthInv, NEW p \in Procs, Quiet(p), mode[p] # "none",
           NEW kind \in {"register", "authorize"}, NEW pass \in Passwords,
           Send(p, kind, Nick[home[p]], pass),
           typed' = [typed EXCEPT ![p] = pass],
           UNCHANGED <<home, self, rep, handlerVars>>
    PROVE  /\ Waits(p, kind)'
           /\ req' \in [Procs -> Seq(Requests)]
           /\ \A q \in Procs \ {p} : req'[q] = req[q] /\ typed'[q] = typed[q]
           /\ \A n \in DOMAIN req'[p] :
                 req'[p][n].kind = "register" => req'[p][n].nick = Nick[home[p]]
<1> DEFINE r == [kind |-> kind, nick |-> Nick[home[p]], pass |-> pass, uid |-> self[p].id]
<1>1. req' = [req EXCEPT ![p] = Append(@, r)]
  BY DEF Send
<1>2. Nick[home[p]] \in Nicks
  BY ProcessHere, AccountsAssumption
<1>3. req' \in [Procs -> Seq(Requests)]
  BY <1>2, SendTyped DEF AccountInv
<1>4. r = Asked(p, kind)'
  BY ProcessHere DEF Asked
<1> HIDE DEF r
<1>5. req'[p] = <<r>>
  BY <1>1, ProcessHere, FirstElement DEF Quiet
<1>6. Waits(p, kind)'
  BY <1>4, <1>5 DEF Waits, Quiet, handlerVars
<1>7. \A n \in DOMAIN <<r>> : <<r>>[n] = r
  OBVIOUS
<1>8. r.nick = Nick[home[p]]
  BY DEF r
<1>9. QED
  BY <1>1, <1>3, <1>5, <1>6, <1>7, <1>8, ProcessHere

LEMMA SendRegisterKeeps ==
    ASSUME AccountInv, TruthInv, NEW p \in Procs, SendRegister(p)
    PROVE  TruthInv'
<1>1. PICK pass \in Passwords :
          /\ typed' = [typed EXCEPT ![p] = pass]
          /\ Send(p, "register", Nick[home[p]], pass)
  BY DEF SendRegister
<1>2. /\ mode[p] = "new" /\ mode' = [mode EXCEPT ![p] = "registering"]
      /\ UNCHANGED <<home, self, file, rep, handlerVars, dbVars>>
      /\ budget'["procs"] = budget["procs"]
  BY SpendOther DEF SendRegister, Become, Counters
<1>3. mode'[p] = "registering" /\ \A q \in Procs \ {p} : mode'[q] = mode[q]
  BY <1>2, ProcessHere
<1>4. Quiet(p) /\ self[p] = NoUser
  BY <1>2, ProcessHere DEF ConversationOf, HasUser
<1>5. /\ Waits(p, "register")'
      /\ \A q \in Procs \ {p} : req'[q] = req[q] /\ typed'[q] = typed[q]
      /\ \A n \in DOMAIN req'[p] :
            req'[p][n].kind = "register" => req'[p][n].nick = Nick[home[p]]
  BY <1>1, <1>2, <1>4, SendWaits
<1>6. ConversationOf(p)' /\ StoredOf(p)' /\ AnswersKeys(p)'
  BY <1>2, <1>3, <1>4, <1>5 DEF ConversationOf, HasUser, StoredOf, AnswersKeys, Quiet
<1>7. \A n : HeldBy(p, n)' => HeldBy(p, n)
  BY <1>2 DEF HeldBy, handlerVars
<1>8. QED
  BY <1>2, <1>3, <1>5, <1>6, <1>7, ClientKeeps

LEMMA SendAuthorizeKeeps ==
    ASSUME AccountInv, TruthInv, NEW p \in Procs, SendAuthorize(p)
    PROVE  TruthInv'
<1>1. PICK pass \in Passwords :
          /\ typed' = [typed EXCEPT ![p] = pass]
          /\ Send(p, "authorize", Nick[home[p]], pass)
  BY DEF SendAuthorize
<1>2. /\ mode[p] = "known" /\ mode' = [mode EXCEPT ![p] = "authorizing"]
      /\ UNCHANGED <<home, self, file, rep, handlerVars, dbVars>>
      /\ budget'["procs"] = budget["procs"]
  BY SpendOther DEF SendAuthorize, Become, Counters
<1>3. mode'[p] = "authorizing" /\ \A q \in Procs \ {p} : mode'[q] = mode[q]
  BY <1>2, ProcessHere
<1>4. Quiet(p) /\ Stored(home[p], self[p])
  BY <1>2, ProcessHere DEF ConversationOf, StoredOf, HasUser
<1>5. /\ Waits(p, "authorize")'
      /\ \A q \in Procs \ {p} : req'[q] = req[q] /\ typed'[q] = typed[q]
      /\ \A n \in DOMAIN req'[p] :
            req'[p][n].kind = "register" => req'[p][n].nick = Nick[home[p]]
  BY <1>1, <1>2, <1>4, SendWaits
<1>6. ConversationOf(p)' /\ StoredOf(p)' /\ AnswersKeys(p)'
  BY <1>2, <1>3, <1>4, <1>5
     DEF ConversationOf, HasUser, StoredOf, Stored, AnswersKeys, Quiet, dbVars
<1>7. \A n : HeldBy(p, n)' => HeldBy(p, n)
  BY <1>2 DEF HeldBy, handlerVars
<1>8. QED
  BY <1>2, <1>3, <1>5, <1>6, <1>7, ClientKeeps

LEMMA SendLookupKeeps ==
    ASSUME AccountInv, TruthInv, NEW p \in Procs, SendLookup(p)
    PROVE  TruthInv'
<1>1. PICK n \in Nicks : Send(p, "lookup", n, NoId)
  BY DEF SendLookup
<1> DEFINE r == [kind |-> "lookup", nick |-> n, pass |-> NoId, uid |-> self[p].id]
<1>2. /\ mode[p] = "chatting" /\ UNCHANGED <<clientVars, rep, handlerVars, dbVars>>
      /\ budget'["procs"] = budget["procs"]
      /\ req' = [req EXCEPT ![p] = Append(@, r)]
  BY <1>1, SpendOther DEF SendLookup, Counters, Send
<1>3. UNCHANGED <<home, mode, self, typed, file>>
  BY <1>2 DEF clientVars
<1>4. r.kind = "lookup"
  OBVIOUS
<1>5. r \in Requests
  BY <1>1, ProcessHere DEF Requests, Saved, NoUser
<1> HIDE DEF r
<1>6. \A m \in DOMAIN Append(req[p], r) :
          \/ m \in DOMAIN req[p] /\ Append(req[p], r)[m] = req[p][m]
          \/ Append(req[p], r)[m] = r
  BY <1>5, AppendProperties, ProcessHere
<1>7. /\ \A q \in Procs \ {p} : req'[q] = req[q]
      /\ req'[p] = Append(req[p], r)
  BY <1>2, ProcessHere
<1>8. \A m \in DOMAIN req'[p] : req'[p][m].kind = "lookup"
  BY <1>2, <1>4, <1>6, <1>7, ProcessHere DEF ConversationOf
<1>9. ConversationOf(p)' /\ StoredOf(p)' /\ AnswersKeys(p)'
  BY <1>2, <1>3, <1>8, ProcessHere
     DEF ConversationOf, HasUser, StoredOf, Stored, AnswersKeys, handlerVars, dbVars
<1>10. \A m : HeldBy(p, m)' => HeldBy(p, m)
  BY <1>2, <1>3 DEF HeldBy, handlerVars
<1>11. QED
  BY <1>2, <1>3, <1>7, <1>8, <1>9, <1>10, ClientKeeps

\* The first answer is taken from the socket: the rest is what was behind it.
LEMMA ReadRest ==
    ASSUME AccountInv, TruthInv, NEW p \in Procs, rep[p] # <<>>,
           rep' = [rep EXCEPT ![p] = Tail(@)], UNCHANGED keys
    PROVE  /\ \A q \in Procs \ {p} : rep'[q] = rep[q]
           /\ \A n \in DOMAIN rep'[p] :
                 \E m \in DOMAIN rep[p] : rep'[p][n] = rep[p][m]
           /\ AnswersKeys(p)'
<1>1. rep[p] \in Seq(Replies) /\ rep'[p] = Tail(rep[p])
      /\ \A q \in Procs \ {p} : rep'[q] = rep[q]
  BY ProcessHere
<1>2. \A n \in DOMAIN rep'[p] : n + 1 \in DOMAIN rep[p] /\ rep'[p][n] = rep[p][n + 1]
  <2>1. ASSUME NEW S, NEW s \in Seq(S), s # <<>>
        PROVE  \A n \in DOMAIN Tail(s) : n + 1 \in DOMAIN s /\ Tail(s)[n] = s[n + 1]
    <3>1. Len(Tail(s)) = Len(s) - 1 /\ DOMAIN Tail(s) = 1 .. Len(Tail(s))
          /\ Len(s) \in Nat /\ DOMAIN s = 1 .. Len(s)
      BY <2>1, HeadTailProperties
    <3>2. \A n \in 1 .. Len(s) - 1 : Tail(s)[n] = s[n + 1]
      BY <2>1, HeadTailProperties
    <3>3. QED
      BY <3>1, <3>2
  <2>2. rep[p] \in Seq(Replies) /\ rep[p] # <<>>
    BY <1>1
  <2>3. \A n \in DOMAIN Tail(rep[p]) :
            n + 1 \in DOMAIN rep[p] /\ Tail(rep[p])[n] = rep[p][n + 1]
    BY ONLY <2>1, <2>2, Zenon
  <2>4. rep'[p] = Tail(rep[p])
    BY <1>1
  <2>5. QED
    BY ONLY <2>3, <2>4, Zenon
<1>3. AnswersKeys(p)'
  BY <1>2, ProcessHere DEF AnswersKeys
<1>4. QED
  BY <1>1, <1>2, <1>3

\* A client that reads an answer it waited for is told the truth.
LEMMA AnsweredTruly ==
    ASSUME AccountInv, TruthInv, NEW p \in Procs, rep[p] # <<>>,
           NEW kind, Waits(p, kind)
    PROVE  /\ req[p] = <<>> /\ pc[p] = "idle"
           /\ Head(rep[p]) = rep[p][1] /\ Tail(rep[p]) = <<>> /\ DOMAIN rep[p] = {1}
           /\ TrueReply(p, kind, Head(rep[p]))
<1>1. req[p] = <<>> /\ pc[p] = "idle" /\ Len(rep[p]) = 1 /\ TrueReply(p, kind, rep[p][1])
  BY DEF Waits, Quiet
<1>2. QED
  BY <1>1, OneElement, ProcessHere

LEMMA ReadRegisterReplyKeeps ==
    ASSUME AccountInv, TruthInv, NEW p \in Procs, ReadRegisterReply(p)
    PROVE  TruthInv'
<1> DEFINE a == Head(rep[p])
           new == [id |-> a.uid, pass |-> typed[p]]
<1>1. /\ mode[p] = "registering" /\ rep[p] # <<>>
      /\ rep' = [rep EXCEPT ![p] = Tail(@)]
      /\ UNCHANGED <<home, typed, file, req, budget, handlerVars, dbVars>>
      /\ \/ /\ a.kind = "registered" /\ self' = [self EXCEPT ![p] = new]
            /\ mode' = [mode EXCEPT ![p] = "save_new"]
         \/ /\ self' = self /\ mode' = [mode EXCEPT ![p] = "new"]
  BY DEF ReadRegisterReply, Become
<1>2. /\ Waits(p, "register") /\ self[p] = NoUser
      /\ home[p] \in Installs
  BY <1>1, ProcessHere DEF ConversationOf, HasUser
<1>3. /\ req[p] = <<>> /\ pc[p] = "idle" /\ a = rep[p][1] /\ Tail(rep[p]) = <<>>
      /\ DOMAIN rep[p] = {1} /\ TrueReply(p, "register", a)
  BY <1>1, <1>2, AnsweredTruly
<1> HIDE DEF a
<1>4. /\ \A q \in Procs \ {p} : rep'[q] = rep[q]
      /\ AnswersKeys(p)' /\ rep'[p] = <<>>
  BY <1>1, <1>3, ReadRest, ProcessHere DEF dbVars
<1>5. UNCHANGED <<users, pc, cur, got>>
  BY <1>1 DEF dbVars, handlerVars
<1>6. /\ \A q \in Procs \ {p} : mode'[q] = mode[q] /\ self'[q] = self[q]
      /\ \/ a.kind = "registered" /\ self'[p] = new /\ mode'[p] = "save_new"
         \/ self'[p] = NoUser /\ mode'[p] = "new"
  BY <1>1, <1>2, ProcessHere
<1>7. a.kind = "registered" => Stored(home[p], new)
  <2>1. a.kind = "registered" =>
            [id |-> a.uid, nick |-> Nick[home[p]], pass |-> typed[p]] \in users
    BY <1>3 DEF TrueReply
  <2>2. new.id = a.uid /\ new.pass = typed[p]
    OBVIOUS
  <2> HIDE DEF new
  <2>3. QED
    BY <2>1, <2>2 DEF Stored
<1>8. ConversationOf(p)' /\ StoredOf(p)'
  <2> HIDE DEF new
  <2>1. QED
    BY <1>1, <1>3, <1>4, <1>5, <1>6, <1>7 DEF ConversationOf, HasUser, StoredOf, Stored, Quiet
<1>9. \A n \in Ids : HeldBy(p, n)' => HeldBy(p, n)
  <2>1. NoUser.id \notin Ids /\ new.id = a.uid
    BY Values DEF NoUser
  <2>2. \A n : a.kind = "registered" /\ a.uid = n => HeldBy(p, n)
    BY <1>3 DEF HeldBy
  <2> HIDE DEF new
  <2>3. QED
    BY <1>3, <1>4, <1>5, <1>6, <2>1, <2>2 DEF HeldBy
<1>10. QED
  <2> HIDE DEF new
  <2>1. QED
    BY <1>1, <1>3, <1>4, <1>6, <1>8, <1>9, ClientKeeps

LEMMA ReadAuthorizeReplyKeeps ==
    ASSUME AccountInv, TruthInv, NEW p \in Procs, ReadAuthorizeReply(p)
    PROVE  TruthInv'
<1> DEFINE a == Head(rep[p])
<1>1. /\ mode[p] = "authorizing" /\ rep[p] # <<>>
      /\ rep' = [rep EXCEPT ![p] = Tail(@)]
      /\ UNCHANGED <<home, self, typed, file, req, budget, handlerVars, dbVars>>
      /\ \/ a.kind = "authorized" /\ mode' = [mode EXCEPT ![p] = "save_known"]
         \/ mode' = [mode EXCEPT ![p] = "known"]
  BY DEF ReadAuthorizeReply, Become
<1>2. Waits(p, "authorize") /\ Stored(home[p], self[p])
  BY <1>1, ProcessHere DEF ConversationOf, StoredOf, HasUser
<1>3. /\ req[p] = <<>> /\ pc[p] = "idle" /\ Tail(rep[p]) = <<>>
      /\ TrueReply(p, "authorize", a)
  BY <1>1, <1>2, AnsweredTruly
<1> HIDE DEF a
<1>4. /\ \A q \in Procs \ {p} : rep'[q] = rep[q]
      /\ AnswersKeys(p)' /\ rep'[p] = <<>>
  BY <1>1, <1>3, ReadRest, ProcessHere DEF dbVars
<1>5. UNCHANGED <<users, pc, cur, got>>
  BY <1>1 DEF dbVars, handlerVars
<1>6. /\ \A q \in Procs \ {p} : mode'[q] = mode[q]
      /\ \/ a.kind = "authorized" /\ mode'[p] = "save_known"
         \/ mode'[p] = "known"
  BY <1>1, ProcessHere
<1>7. a.kind = "authorized" => Stored(home[p], [id |-> self[p].id, pass |-> typed[p]])
  BY <1>3 DEF TrueReply, Granted, Asked, Stored
<1>8. ConversationOf(p)' /\ StoredOf(p)'
  BY <1>1, <1>2, <1>3, <1>4, <1>5, <1>6, <1>7
     DEF ConversationOf, HasUser, StoredOf, Stored, Quiet
<1>9. \A n : HeldBy(p, n)' => HeldBy(p, n)
  BY <1>1, <1>4, <1>5 DEF HeldBy
<1>10. QED
  BY <1>1, <1>3, <1>4, <1>6, <1>8, <1>9, ClientKeeps

LEMMA ReadLookupReplyKeeps ==
    ASSUME AccountInv, TruthInv, NEW p \in Procs, ReadLookupReply(p)
    PROVE  TruthInv'
<1>1. /\ mode[p] = "chatting" /\ rep[p] # <<>>
      /\ rep' = [rep EXCEPT ![p] = Tail(@)]
      /\ UNCHANGED <<home, mode, self, typed, file, req, budget, handlerVars, dbVars>>
  BY DEF ReadLookupReply, clientVars
<1>2. /\ \A q \in Procs \ {p} : rep'[q] = rep[q]
      /\ \A n \in DOMAIN rep'[p] : \E m \in DOMAIN rep[p] : rep'[p][n] = rep[p][m]
      /\ AnswersKeys(p)'
  BY <1>1, ReadRest DEF dbVars
<1>3. UNCHANGED <<users, pc, cur, got>>
  BY <1>1 DEF dbVars, handlerVars
<1>4. ConversationOf(p)' /\ StoredOf(p)'
  BY <1>1, <1>2, <1>3, ProcessHere DEF ConversationOf, HasUser, StoredOf, Stored
<1>5. \A n : HeldBy(p, n)' => HeldBy(p, n)
  BY <1>1, <1>2, <1>3 DEF HeldBy
<1>6. \A n \in DOMAIN req'[p] :
          req'[p][n].kind = "register" => req'[p][n].nick = Nick[home[p]]
  BY <1>1, ProcessHere DEF OwnOf
<1>7. QED
  BY <1>1, <1>2, <1>4, <1>5, <1>6, ClientKeeps

\* What a step on the saved data leaves: the process goes on to its next mode.
LEMMA SavingKeeps ==
    ASSUME AccountInv, TruthInv, NEW p \in Procs, OpenSaved(p) \/ WriteSaved(p)
    PROVE  TruthInv'
<1>1. /\ mode[p] \in {"save_new", "write_new", "save_known", "write_known"}
      /\ UNCHANGED <<home, self, typed, req, rep, handlerVars, dbVars>>
      /\ budget'["procs"] = budget["procs"]
  BY SpendOther DEF OpenSaved, WriteSaved, Counters
<1>2. /\ home[p] \in Installs /\ Stored(home[p], self[p]) /\ self[p] \in Saved
      /\ file \in [Installs -> Saved \cup {NoFile, Torn}]
      /\ Torn \notin Saved
  BY <1>1, ProcessHere, AccountsSentinels
     DEF StoredOf, HasUser, AccountInv, TypeOK, ClientsSound
<1>3. PICK m \in {"write_new", "known", "write_known", "chatting"} :
          /\ mode' = [mode EXCEPT ![p] = m]
          /\ mode[p] \in {"save_new", "write_new"} => m \in {"write_new", "known"}
  BY DEF OpenSaved, WriteSaved, Become, AfterSaving
<1>4. mode'[p] = m /\ \A q \in Procs \ {p} : mode'[q] = mode[q]
  BY <1>3, ProcessHere
<1>5. \A i \in Installs : file'[i] \in Saved =>
          \/ file'[i] = file[i]
          \/ i = home[p] /\ Stored(i, file'[i]) /\ file'[i].id = self[p].id
  BY <1>2 DEF OpenSaved, WriteSaved
<1>6. m = "chatting" \/ m = "write_known" => mode[p] \in {"save_known", "write_known"}
  BY <1>1, <1>3
<1>7. /\ ConversationOf(p)' /\ AnswersKeys(p)'
      /\ \A n \in DOMAIN req'[p] :
            req'[p][n].kind = "register" => req'[p][n].nick = Nick[home[p]]
  <2>1. Quiet(p)
    BY <1>1, ProcessHere DEF ConversationOf
  <2>2. \A n : n \notin DOMAIN <<>>
    OBVIOUS
  <2>3. QED
    BY <1>1, <1>3, <1>4, <2>1, <2>2
       DEF ConversationOf, HasUser, Quiet, AnswersKeys, handlerVars
<1>8. StoredOf(p)'
  BY <1>1, <1>2, <1>3, <1>4, <1>6, ProcessHere DEF StoredOf, Stored, HasUser, dbVars
<1>9. \A n : HeldBy(p, n)' => HeldBy(p, n)
  BY <1>1 DEF HeldBy, handlerVars
<1>10. QED
  BY <1>1, <1>4, <1>5, <1>7, <1>8, <1>9, ClientKeeps

LEMMA QuitKeeps ==
    ASSUME AccountInv, TruthInv, NEW p \in Procs, Quit(p)
    PROVE  TruthInv'
<1>1. /\ mode[p] # "none" /\ mode' = [mode EXCEPT ![p] = "gone"]
      /\ self' = [self EXCEPT ![p] = NoUser] /\ typed' = [typed EXCEPT ![p] = NoId]
      /\ rep' = [rep EXCEPT ![p] = <<>>]
      /\ UNCHANGED <<home, file, req, handlerVars, dbVars>>
      /\ budget'["procs"] = budget["procs"]
  BY SpendOther DEF Quit, Become, Counters
<1>2. /\ mode'[p] = "gone" /\ self'[p] = NoUser /\ rep'[p] = <<>>
      /\ \A q \in Procs \ {p} : /\ mode'[q] = mode[q] /\ self'[q] = self[q]
                                /\ typed'[q] = typed[q] /\ rep'[q] = rep[q]
  BY <1>1, ProcessHere
<1>3. ConversationOf(p)' /\ StoredOf(p)' /\ AnswersKeys(p)'
  BY <1>2 DEF ConversationOf, StoredOf, AnswersKeys, HasUser
<1>4. \A n \in Ids : HeldBy(p, n)' => HeldBy(p, n)
  <2>1. NoUser.id \notin Ids
    BY Values DEF NoUser
  <2>2. QED
    BY <1>1, <1>2, <2>1 DEF HeldBy, handlerVars
<1>5. \A n \in DOMAIN req'[p] :
          req'[p][n].kind = "register" => req'[p][n].nick = Nick[home[p]]
  BY <1>1, ProcessHere DEF OwnOf
<1>6. QED
  BY <1>1, <1>2, <1>3, <1>4, <1>5, ClientKeeps

\* What one read leaves of a sequence is a part of it.
LEMMA RestOf ==
    ASSUME NEW S, NEW s \in Seq(S), NEW k \in 1 .. Len(s)
    PROVE  /\ \A n \in DOMAIN SubSeq(s, k + 1, Len(s)) :
                 n + k \in DOMAIN s /\ SubSeq(s, k + 1, Len(s))[n] = s[n + k]
           /\ Len(s) = 1 => SubSeq(s, k + 1, Len(s)) = <<>>
           /\ s # <<>> /\ 1 \in DOMAIN s /\ Head(s) = s[1] /\ Head(s) \in S
<1>1. Len(s) \in Nat /\ DOMAIN s = 1 .. Len(s) /\ k + 1 \in Int /\ 1 \in DOMAIN s
  OBVIOUS
<1>2. \A n \in (k + 1) .. Len(s) : s[n] \in S
  OBVIOUS
<1>3. /\ SubSeq(s, k + 1, Len(s)) \in Seq(S)
      /\ Len(SubSeq(s, k + 1, Len(s))) = (IF k + 1 <= Len(s) THEN Len(s) - (k + 1) + 1 ELSE 0)
      /\ \A n \in 1 .. (Len(s) - (k + 1) + 1) :
            SubSeq(s, k + 1, Len(s))[n] = s[(k + 1) + n - 1]
  BY <1>1, <1>2, SubSeqProperties
<1>4. \A n \in DOMAIN SubSeq(s, k + 1, Len(s)) :
          n + k \in DOMAIN s /\ SubSeq(s, k + 1, Len(s))[n] = s[n + k]
  <2> DEFINE t == SubSeq(s, k + 1, Len(s))
  <2>1. DOMAIN t = 1 .. Len(t) /\ Len(t) \in Nat /\ Len(t) <= Len(s) - k
    <3>1. t \in Seq(S) /\ Len(t) = (IF k + 1 <= Len(s) THEN Len(s) - (k + 1) + 1 ELSE 0)
      BY <1>3
    <3> HIDE DEF t
    <3>2. DOMAIN t = 1 .. Len(t) /\ Len(t) \in Nat
      BY <3>1
    <3>3. Len(s) \in Nat /\ k \in Nat /\ k <= Len(s)
      BY <1>1
    <3>4. Len(t) <= Len(s) - k
      BY ONLY <3>1, <3>3
    <3>5. QED
      BY <3>2, <3>4
  <2>2. \A n \in 1 .. (Len(s) - k) : t[n] = s[n + k]
    BY <1>1, <1>3
  <2> HIDE DEF t
  <2>3. \A n \in DOMAIN t : n + k \in DOMAIN s /\ t[n] = s[n + k]
    BY <1>1, <2>1, <2>2
  <2>4. QED
    BY <2>3 DEF t
<1>5. Len(s) = 1 => SubSeq(s, k + 1, Len(s)) = <<>>
  BY <1>1, SubSeqEmpty
<1>6. s # <<>> /\ Head(s) = s[1] /\ Head(s) \in S
  BY <1>1, HeadTailProperties
<1>7. QED
  BY <1>1, <1>4, <1>5, <1>6

LEMMA TakeRequestKeeps ==
    ASSUME AccountInv, TruthInv, NEW p \in Procs, TakeRequest(p)
    PROVE  TruthInv'
<1> DEFINE r == Head(req[p])
<1>1. PICK k \in 1 .. Len(req[p]) : req' = [req EXCEPT ![p] = SubSeq(@, k + 1, Len(@))]
  BY DEF TakeRequest
<1>2. /\ pc[p] = "idle" /\ cur' = [cur EXCEPT ![p] = r]
      /\ pc' = [pc EXCEPT ![p] = CASE r.kind = "register"  -> "create"
                                   [] r.kind = "authorize" -> "authorize"
                                   [] r.kind = "lookup"    -> "get_id"]
      /\ UNCHANGED <<home, mode, self, typed, file, rep, budget, got, found,
                     users, keys, nextId, txn, up>>
  BY DEF TakeRequest, Goto, clientVars, dbVars
<1>3. req[p] \in Seq(Requests)
  BY ProcessHere
<1> DEFINE rest == SubSeq(req[p], k + 1, Len(req[p]))
<1>4. /\ \A n \in DOMAIN rest : n + k \in DOMAIN req[p] /\ rest[n] = req[p][n + k]
      /\ Len(req[p]) = 1 => rest = <<>>
      /\ req[p] # <<>> /\ 1 \in DOMAIN req[p] /\ r = req[p][1] /\ r \in Requests
  <2>1. ASSUME NEW s \in Seq(Requests), NEW m \in 1 .. Len(s)
        PROVE  /\ \A n \in DOMAIN SubSeq(s, m + 1, Len(s)) :
                     n + m \in DOMAIN s /\ SubSeq(s, m + 1, Len(s))[n] = s[n + m]
               /\ Len(s) = 1 => SubSeq(s, m + 1, Len(s)) = <<>>
               /\ s # <<>> /\ 1 \in DOMAIN s /\ Head(s) = s[1] /\ Head(s) \in Requests
    BY RestOf
  <2>2. QED
    BY ONLY <1>1, <1>3, <2>1, Zenon
<1>5. req'[p] = rest /\ \A q \in Procs \ {p} : req'[q] = req[q]
  BY ONLY <1>1, ProcessHere, AccountInv, TruthInv, Zenon
<1>6. \A n \in DOMAIN req'[p] : \E m \in DOMAIN req[p] : req'[p][n] = req[p][m]
  BY ONLY <1>4, <1>5, Zenon
<1> HIDE DEF r, rest
<1>7. r.kind \in {"register", "authorize", "lookup"}
  BY <1>4 DEF Requests
<1>8. /\ mode[p] # "none" /\ home[p] \in Installs
      /\ PendingOf(p) /\ OwnOf(p) /\ ConversationOf(p) /\ StoredOf(p) /\ AnswersKeys(p)
  BY <1>4, ProcessHere DEF OwnOf, Quiet
<1>9. /\ pc'[p] = (CASE r.kind = "register"  -> "create"
                     [] r.kind = "authorize" -> "authorize"
                     [] r.kind = "lookup"    -> "get_id")
      /\ cur'[p] = r
      /\ \A q \in Procs \ {p} :
            /\ Untouched(q) /\ pc'[q] = pc[q] /\ cur'[q] = cur[q]
            /\ got'[q] = got[q] /\ found'[q] = found[q]
            /\ mode[q] = "none" <=> q > budget'["procs"]
  BY <1>2, <1>5, ProcessHere DEF Untouched
<1>10. got[p] = NoId /\ found[p] = NoProc
  BY <1>2, <1>8, LocalsHere DEF PendingOf
<1>11. pc'[p] \in {"create", "authorize", "get_id"}
  BY <1>7, <1>9
<1>12. PendingOf(p)'
  BY <1>2, <1>7, <1>9, <1>10, <1>11 DEF PendingOf
<1>13. OwnOf(p)'
  BY <1>2, <1>4, <1>6, <1>8, <1>9, <1>11 DEF OwnOf
<1>14. StoredOf(p)' /\ AnswersKeys(p)'
  BY <1>2, <1>8 DEF StoredOf, Stored, AnswersKeys
<1>15. ConversationOf(p)'
  <2>1. mode[p] \in {"registering", "authorizing", "chatting", "gone"}
    BY <1>4, <1>8, ProcessHere DEF ConversationOf, Quiet, Modes
  <2>2. ASSUME NEW kind, Waits(p, kind) PROVE Waits(p, kind)'
    <3>1. req[p] = <<Asked(p, kind)>> /\ rep[p] = <<>>
      BY <1>2, <1>4, <2>2 DEF Waits, Quiet
    <3>2. Len(req[p]) = 1 /\ r = Asked(p, kind)
      BY <1>4, <3>1
    <3>3. req'[p] = <<>>
      BY <1>4, <1>5, <3>2
    <3>4. QED
      BY <1>2, <1>9, <1>11, <3>1, <3>2, <3>3 DEF Waits, Asked
  <2>3. CASE mode[p] = "registering"
    BY <1>2, <1>8, <2>2, <2>3 DEF ConversationOf, HasUser
  <2>4. CASE mode[p] = "authorizing"
    BY <1>2, <1>8, <2>2, <2>4 DEF ConversationOf, HasUser
  <2>5. CASE mode[p] = "chatting"
    BY <1>2, <1>4, <1>6, <1>8, <1>9, <2>5 DEF ConversationOf, HasUser
  <2>6. CASE mode[p] = "gone"
    BY <1>2, <1>8, <2>6 DEF ConversationOf, HasUser
  <2>7. QED
    BY <2>1, <2>3, <2>4, <2>5, <2>6
<1>16. \A n \in Ids : HeldBy(p, n)' => Holds(home[p], n)
  <2>1. \A n \in Ids : HeldBy(p, n)' => HeldBy(p, n)
    BY <1>2, <1>10, Values DEF HeldBy
  <2>2. QED
    BY <1>8, <2>1, ProcessHere
<1>17. QED
  BY <1>2, <1>8, <1>9, <1>12, <1>13, <1>14, <1>15, <1>16, OneProcessKeeps

\* The process that starts has nothing under way, and the user its file says.
LEMMA StartKeeps ==
    ASSUME AccountInv, TruthInv, NEW i \in Installs, Start(i)
    PROVE  TruthInv'
<1> DEFINE m == CASE file[i] = Torn   -> "gone"
                  [] file[i] = NoFile -> "new"
                  [] OTHER            -> "known"
           u == IF file[i] \in Saved THEN file[i] ELSE NoUser
<1>1. /\ budget["procs"] \in Nat /\ budget'["procs"] = budget["procs"] + 1
      /\ budget["procs"] < MaxProcs
  BY DEF Start, Spend, Limit, AccountInv, TypeOK, Counters
<1>2. PICK p \in Procs : p = budget["procs"] + 1
  BY <1>1, AccountsAssumption DEF Procs
<1>3. /\ home' = [home EXCEPT ![p] = i] /\ self' = [self EXCEPT ![p] = u]
      /\ mode' = [mode EXCEPT ![p] = m]
      /\ UNCHANGED <<typed, file, req, rep, handlerVars, dbVars>>
  BY <1>2 DEF Start, Become
<1>4. file[i] \in Saved \cup {NoFile, Torn} /\ NoFile \notin Saved /\ Torn \notin Saved
  BY AccountsSentinels DEF AccountInv, TypeOK
<1>5. /\ m \in {"gone", "new", "known"}
      /\ m = "known" => u = file[i] /\ u \in Saved
      /\ m # "known" => u = NoUser
      /\ u \in Saved => u = file[i]
  BY <1>4, AccountsSentinels, Values
<1> HIDE DEF m, u
<1>6. UNCHANGED <<typed, file, req, rep, pc, cur, got, found, users, keys, nextId, txn, up>>
  BY <1>3 DEF handlerVars, dbVars
<1>7. /\ home'[p] = i /\ self'[p] = u /\ mode'[p] = m
      /\ \A q \in Procs \ {p} : Untouched(q)
  <2>1. \A q \in Procs \ {p} :
            home'[q] = home[q] /\ self'[q] = self[q] /\ mode'[q] = mode[q]
    BY <1>2, <1>3, ProcessHere
  <2>2. QED
    BY <1>2, <1>3, <1>6, <2>1, ProcessHere DEF Untouched
<1>8. mode[p] = "none" /\ Quiet(p) /\ self[p] = NoUser
  BY <1>1, <1>2, ProcessHere DEF OwnOf
<1>9. \A q \in Procs \ {p} : mode[q] = "none" <=> q > budget'["procs"]
  BY <1>1, <1>2, ProcessHere DEF Procs
<1>10. PendingOf(p)' /\ AnswersKeys(p)'
  BY <1>2, <1>6, ProcessHere DEF PendingOf, Row, Granted, AnswersKeys
<1>11. OwnOf(p)'
  <2>1. \A n : n \notin DOMAIN <<>>
    OBVIOUS
  <2>2. ~(p > budget'["procs"])
    BY <1>1, <1>2
  <2>3. QED
    BY <1>5, <1>6, <1>7, <1>8, <2>1, <2>2 DEF OwnOf, Quiet
<1>12. Stored(i, file[i]) \/ file[i] \notin Saved
  BY DEF TruthInv
<1>13. ConversationOf(p)' /\ StoredOf(p)'
  BY <1>5, <1>6, <1>7, <1>8, <1>12 DEF ConversationOf, StoredOf, Stored, HasUser, Quiet
<1>14. \A n \in Ids : HeldBy(p, n)' => Holds(i, n)
  <2>1. NoUser.id \notin Ids /\ \A n : n \notin DOMAIN <<>>
    BY Values DEF NoUser
  <2>2. \A n \in Ids : HeldBy(p, n)' => u.id = n
    BY <1>6, <1>7, <1>8, <2>1 DEF HeldBy, Quiet
  <2>3. QED
    BY <1>5, <2>1, <2>2 DEF Holds
<1>15. mode'[p] # "none"
  BY <1>5, <1>7
<1>16. QED
  BY <1>2, <1>6, <1>7, <1>8, <1>9, <1>10, <1>11, <1>13, <1>14, <1>15, OneProcessKeeps

-----------------------------------------------------------------------------
(* What fails, and what nobody does.                                       *)

\* A step that leaves the clients, the answers and the tables alone, and whose effect
\* on the requests and handlers keeps what holds of each process.
LEMMA ServerSideKeeps ==
    ASSUME AccountInv, TruthInv,
           UNCHANGED <<clientVars, rep, users, keys, nextId>>,
           budget'["procs"] = budget["procs"],
           \A p \in Procs :
               /\ PendingOf(p)' /\ OwnOf(p)' /\ ConversationOf(p)'
               /\ pc'[p] # "idle" => pc'[p] = pc[p] /\ cur'[p] = cur[p] /\ got'[p] = got[p]
    PROVE  TruthInv'
<1>1. UsersSound' /\ TablesGrow
  BY DEF TruthInv, UsersSound, TablesGrow
<1>2. UNCHANGED <<home, mode, self, typed, file>>
  BY DEF clientVars
<1>3. \A p \in Procs : StoredOf(p)' /\ AnswersKeys(p)'
  BY <1>2 DEF TruthInv, StoredOf, Stored, AnswersKeys
<1>4. \A k \in keys' : OfItsUser(k)'
  BY <1>2 DEF TruthInv, OfItsUser
<1>5. \A i \in Installs : file'[i] \in Saved => Stored(i, file[i])'
  BY <1>2 DEF TruthInv, Stored
<1>6. \A p \in Procs : \A n : HeldBy(p, n)' => HeldBy(p, n)
  BY <1>2 DEF HeldBy
<1>7. \A i \in Installs : \A n \in Ids : Holds(i, n)' => Holds(i, n)
  BY <1>2, <1>6 DEF Holds
<1>8. OneHolder'
  BY <1>7, HolderFrame DEF TruthInv
<1>9. QED
  BY <1>1, <1>3, <1>4, <1>5, <1>8 DEF TruthInv

LEMMA BreakKeeps ==
    ASSUME AccountInv, TruthInv, BreakConnection
    PROVE  TruthInv'
<1>1. /\ ~up'
      /\ UNCHANGED <<clientVars, req, rep, pc, cur, got, found, users, keys, nextId>>
      /\ budget'["procs"] = budget["procs"]
  BY SpendOther DEF BreakConnection, Counters, handlerVars
<1>2. ASSUME NEW p \in Procs PROVE PendingOf(p)' /\ OwnOf(p)' /\ ConversationOf(p)'
  <2>1. PendingOf(p) /\ OwnOf(p) /\ ConversationOf(p)
    BY DEF TruthInv
  <2>2. PendingOf(p)'
    BY <1>1, <2>1 DEF PendingOf, Row, Granted
  <2>3. Untouched(p)
    BY <1>1 DEF Untouched, clientVars
  <2>4. QED
    BY <1>1, <2>1, <2>2, <2>3, ProcessFrame
<1>3. QED
  BY <1>1, <1>2, ServerSideKeeps

\* What was on its way to the server is lost; what had left it is true still.
LEMMA RestartKeeps ==
    ASSUME AccountInv, TruthInv, RestartServer
    PROVE  TruthInv'
<1>1. /\ UNCHANGED <<clientVars, rep, users, keys, nextId>>
      /\ budget'["procs"] = budget["procs"]
      /\ \A p \in Procs : /\ req'[p] = <<>> /\ pc'[p] = "idle" /\ cur'[p] = NoRequest
                          /\ got'[p] = NoId /\ found'[p] = NoProc
  BY SpendOther DEF RestartServer, Counters
<1>2. UNCHANGED <<home, mode, self, typed, file>>
  BY <1>1 DEF clientVars
<1>3. ASSUME NEW p \in Procs PROVE PendingOf(p)' /\ OwnOf(p)' /\ ConversationOf(p)'
  <2>1. PendingOf(p)'
    BY <1>1 DEF PendingOf
  <2>2. OwnOf(p)'
    <3>1. \A n : n \notin DOMAIN <<>>
      OBVIOUS
    <3>2. QED
      BY <1>1, <1>2, <3>1 DEF TruthInv, OwnOf, Quiet
  <2>3. ASSUME NEW kind, Waits(p, kind) PROVE Waits(p, kind)'
    BY <1>1, <1>2, <2>3 DEF Waits, Quiet, TrueReply, Granted, Asked
  <2>4. ConversationOf(p)'
    <3>1. \A n : n \notin DOMAIN <<>>
      OBVIOUS
    <3>2. QED
      BY <1>1, <1>2, <2>3, <3>1 DEF TruthInv, ConversationOf, Quiet
  <2>5. QED
    BY <2>1, <2>2, <2>4
<1>4. QED
  BY <1>1, <1>3, ServerSideKeeps

LEMMA StutterKeeps ==
    ASSUME AccountInv, TruthInv, UNCHANGED vars
    PROVE  TruthInv'
<1>1. /\ UNCHANGED <<clientVars, req, rep, pc, cur, got, found, users, keys, nextId, up>>
      /\ budget'["procs"] = budget["procs"]
  BY DEF vars, handlerVars, dbVars
<1>2. ASSUME NEW p \in Procs PROVE PendingOf(p)' /\ OwnOf(p)' /\ ConversationOf(p)'
  <2>1. PendingOf(p) /\ OwnOf(p) /\ ConversationOf(p)
    BY DEF TruthInv
  <2>2. PendingOf(p)'
    BY <1>1, <2>1 DEF PendingOf, Row, Granted
  <2>3. Untouched(p)
    BY <1>1 DEF Untouched, clientVars
  <2>4. QED
    BY <1>1, <2>1, <2>2, <2>3, ProcessFrame
<1>3. QED
  BY <1>1, <1>2, ServerSideKeeps

-----------------------------------------------------------------------------
(* The invariant.                                                          *)

LEMMA InitTrue == Init => TruthInv
<1> SUFFICES ASSUME Init PROVE TruthInv
  OBVIOUS
<1>0. \A n : n \notin DOMAIN <<>>
  OBVIOUS
<1>1. UsersSound /\ \A k \in keys : OfItsUser(k)
  BY DEF Init, UsersSound
<1>2. ASSUME NEW p \in Procs
      PROVE  PendingOf(p) /\ OwnOf(p) /\ ConversationOf(p) /\ StoredOf(p) /\ AnswersKeys(p)
  <2>1. /\ mode[p] = "none" /\ req[p] = <<>> /\ rep[p] = <<>> /\ pc[p] = "idle"
        /\ got[p] = NoId /\ found[p] = NoProc /\ self[p] = NoUser /\ budget["procs"] = 0
    BY DEF Init, Counters
  <2>2. p > 0
    BY AccountsAssumption DEF Procs
  <2>3. QED
    BY <1>0, <2>1, <2>2
       DEF PendingOf, OwnOf, ConversationOf, StoredOf, AnswersKeys, HasUser, Quiet
<1>3. \A i \in Installs : file[i] \notin Saved
  BY AccountsSentinels DEF Init
<1>4. \A i : \A n : i \in Installs => ~Holds(i, n)
  BY <1>3 DEF Init, Holds
<1>5. OneHolder
  BY <1>4 DEF OneHolder
<1>6. QED
  BY <1>1, <1>2, <1>3, <1>5 DEF TruthInv

LEMMA NextTrue == ASSUME AccountInv, TruthInv, [Next]_vars PROVE TruthInv'
<1>1. ASSUME NEW i \in Installs, Start(i) PROVE TruthInv'
  BY <1>1, StartKeeps
<1>2. ASSUME NEW p \in Procs, ClientStep(p) PROVE TruthInv'
  BY <1>2, SendRegisterKeeps, ReadRegisterReplyKeeps, SendAuthorizeKeeps,
     ReadAuthorizeReplyKeeps, SavingKeeps, SendLookupKeeps, ReadLookupReplyKeeps, QuitKeeps
     DEF ClientStep
<1>3. ASSUME NEW p \in Procs, TakeRequest(p) PROVE TruthInv'
  BY <1>3, TakeRequestKeeps
<1>4. ASSUME NEW p \in Procs, HandlerStep(p) PROVE TruthInv'
  <2>1. CASE BeginCreate(p)
    BY <2>1, BeginKeeps DEF BeginCreate
  <2>2. CASE BeginSetKeys(p)
    BY <2>2, BeginKeeps DEF BeginSetKeys
  <2>3. CASE BeginAuthorize(p)
    BY <2>3, BeginKeeps DEF BeginAuthorize
  <2>4. CASE BeginGetId(p)
    BY <2>4, BeginKeeps DEF BeginGetId
  <2>5. CASE BeginGetKeys(p)
    BY <2>5, BeginKeeps DEF BeginGetKeys
  <2>6. CASE ~(\/ BeginCreate(p) \/ BeginSetKeys(p) \/ BeginAuthorize(p)
               \/ BeginGetId(p) \/ BeginGetKeys(p))
    BY <1>4, <2>6, InsertUserKeeps, CommitUserKeeps, InsertKeysKeeps, CommitKeysKeeps,
       QueryKeeps, SendReplyKeeps DEF HandlerStep
  <2>7. QED
    BY <2>1, <2>2, <2>3, <2>4, <2>5, <2>6
<1>5. QED
  BY <1>1, <1>2, <1>3, <1>4, BreakKeeps, RestartKeeps, StutterKeeps DEF Next

\* What clients were told, have saved and have looked up is in the tables, and no id has
\* two holders.
THEOREM TruthOfAccounts == Spec => []TruthInv
<1>1. AccountInv /\ TruthInv /\ [Next]_vars => TruthInv'
  BY NextTrue
<1>2. QED
  BY InitTrue, AccountInvariant, <1>1, PTL DEF Spec

-----------------------------------------------------------------------------
(* What it means for the users.                                            *)

\* Whatever p is told, it holds, and the table has it.
LEMMA ToldIsTrue ==
    ASSUME AccountInv, TruthInv, NEW p \in Procs, NEW u \in Told(p)
    PROVE  /\ mode[p] # "none" /\ home[p] \in Installs /\ u \in Ids /\ HeldBy(p, u)
           /\ \E row \in users :
                 /\ row.id = u
                 /\ row.nick = Nick[home[p]]
                 /\ row.pass = IF self[p] = NoUser THEN typed[p] ELSE self[p].pass
<1>1. /\ OwnOf(p) /\ ConversationOf(p) /\ StoredOf(p) /\ mode[p] \in Modes
      /\ rep[p] \in Seq(Replies) /\ self[p] \in Saved \cup {NoUser}
      /\ mode[p] # "none" => home[p] \in Installs
  BY ProcessHere
<1>2. CASE \E n \in DOMAIN rep[p] : rep[p][n].kind = "registered" /\ rep[p][n].uid = u
  <2>1. PICK n \in DOMAIN rep[p] : rep[p][n].kind = "registered" /\ rep[p][n].uid = u
    BY <1>2
  <2>2. rep[p] # <<>> /\ rep[p][n] \in Replies
    BY <1>1, <2>1
  <2>3. u \in Ids
    BY <2>1, <2>2 DEF Replies
  <2>4. mode[p] # "authorizing"
    <3>1. SUFFICES ASSUME mode[p] = "authorizing" PROVE FALSE
      OBVIOUS
    <3>2. Waits(p, "authorize")
      BY <1>1, <3>1 DEF ConversationOf
    <3>3. DOMAIN rep[p] = {1} /\ TrueReply(p, "authorize", rep[p][1])
      BY <2>2, <3>2, AnsweredTruly
    <3>4. QED
      BY <2>1, <3>3 DEF TrueReply
  <2>5. mode[p] = "registering"
    BY <1>1, <2>1, <2>2, <2>4 DEF OwnOf, ConversationOf, Quiet, Modes
  <2>6. self[p] = NoUser /\ Waits(p, "register")
    BY <1>1, <2>5 DEF ConversationOf, HasUser
  <2>7. DOMAIN rep[p] = {1} /\ TrueReply(p, "register", rep[p][1])
    BY <2>2, <2>6, AnsweredTruly
  <2>8. [id |-> u, nick |-> Nick[home[p]], pass |-> typed[p]] \in users
    BY <2>1, <2>7 DEF TrueReply
  <2>9. HeldBy(p, u)
    BY <2>1 DEF HeldBy
  <2>10. QED
    BY <1>1, <2>3, <2>5, <2>6, <2>8, <2>9
<1>3. CASE u = self[p].id /\ u # NoId
  <2>1. self[p] \in Saved /\ self[p] # NoUser
    BY <1>1, <1>3 DEF NoUser
  <2>2. mode[p] \in HasUser
    BY <1>1, <2>1 DEF ConversationOf
  <2>3. [id |-> u, nick |-> Nick[home[p]], pass |-> self[p].pass] \in users
    BY <1>1, <1>3, <2>2 DEF StoredOf, Stored
  <2>4. u \in Ids /\ HeldBy(p, u)
    BY <1>3, <2>1 DEF Saved, HeldBy
  <2>5. QED
    BY <1>1, <2>1, <2>2, <2>3, <2>4 DEF HasUser
<1>4. QED
  BY <1>2, <1>3 DEF Told

\* A user who was told of the registration, or whose data was saved, is in the table
\* under that id, nickname and password, whatever failed in between.
THEOREM ToldIsStoredAlways == Spec => []ToldIsStored
<1>1. AccountInv /\ TruthInv => ToldIsStored
  <2> SUFFICES ASSUME AccountInv, TruthInv PROVE ToldIsStored
    OBVIOUS
  <2>1. \A p \in Procs : \A u \in Told(p) :
            \E row \in users :
                /\ row.id = u
                /\ row.nick = Nick[home[p]]
                /\ row.pass = IF self[p] = NoUser THEN typed[p] ELSE self[p].pass
    BY ToldIsTrue
  <2>2. QED
    BY <2>1 DEF ToldIsStored, TruthInv
<1>2. QED
  BY TruthOfAccounts, AccountInvariant, <1>1, PTL

\* No two installations that use one nickname are both told that it is theirs: the
\* nickname has one row, the row one id, and the id one holder.
THEOREM NicknamesOwnedOnce == Spec => []NicknameOwnedOnce
<1> DEFINE Claims(i) == file[i] \in Saved \/ \E p \in Procs : home[p] = i /\ Told(p) # {}
<1>1. ASSUME AccountInv, TruthInv, NEW i \in Installs, Claims(i)
      PROVE  \E row \in users : row.nick = Nick[i] /\ row.id \in Ids /\ Holds(i, row.id)
  <2>1. CASE file[i] \in Saved
    <3>1. Stored(i, file[i]) /\ file[i].id \in Ids
      BY <1>1, <2>1 DEF TruthInv, Saved
    <3>2. Holds(i, file[i].id)
      BY <2>1 DEF Holds
    <3>3. QED
      BY <3>1, <3>2 DEF Stored
  <2>2. ASSUME NEW p \in Procs, home[p] = i, Told(p) # {}
        PROVE  \E row \in users : row.nick = Nick[i] /\ row.id \in Ids /\ Holds(i, row.id)
    <3>1. PICK u : u \in Told(p)
      BY <2>2
    <3>2. /\ u \in Ids /\ HeldBy(p, u) /\ mode[p] # "none"
          /\ \E row \in users : row.id = u /\ row.nick = Nick[i]
      BY <1>1, <2>2, <3>1, ToldIsTrue
    <3>3. Holds(i, u)
      BY <2>2, <3>2 DEF Holds
    <3>4. QED
      BY <3>2, <3>3
  <2>3. QED
    BY <1>1, <2>1, <2>2
<1> HIDE DEF Claims
<1>2. ASSUME AccountInv, TruthInv, NEW i \in Installs, NEW j \in Installs,
             Nick[i] = Nick[j], Claims(i), Claims(j)
      PROVE  i = j
  <2>1. PICK r \in users : r.nick = Nick[i] /\ r.id \in Ids /\ Holds(i, r.id)
    BY <1>1, <1>2
  <2>2. PICK s \in users : s.nick = Nick[j] /\ s.id \in Ids /\ Holds(j, s.id)
    BY <1>1, <1>2
  <2>3. r = s
    BY <1>2, <2>1, <2>2 DEF TruthInv, UsersSound
  <2>4. QED
    BY <1>2, <2>1, <2>2, <2>3 DEF TruthInv, OneHolder
<1>3. AccountInv /\ TruthInv => NicknameOwnedOnce
  <2> SUFFICES ASSUME AccountInv, TruthInv, NEW i \in Installs, NEW j \in Installs,
                      i # j, Nick[i] = Nick[j]
               PROVE  ~(Claims(i) /\ Claims(j))
    BY DEF NicknameOwnedOnce, Claims
  <2>1. QED
    BY <1>2
<1>4. QED
  BY TruthOfAccounts, AccountInvariant, <1>3, PTL

\* The keys filed under a user, and those a lookup answers with, were generated by a
\* process of an installation with that user's nickname.
THEOREM KeysOfNicknameAlways == Spec => []KeysOfNickname
<1>1. TruthInv => KeysOfNickname
  <2> SUFFICES ASSUME TruthInv PROVE KeysOfNickname
    OBVIOUS
  <2>1. \A k \in keys : \E row \in users : row.id = k.uid /\ row.nick = Nick[home[k.key]]
    BY DEF TruthInv, OfItsUser
  <2>2. ASSUME NEW p \in Procs, NEW n \in DOMAIN rep[p], rep[p][n].kind = "keys"
        PROVE  \E row \in users : row.id = rep[p][n].uid /\ row.nick = Nick[home[rep[p][n].key]]
    <3>1. [uid |-> rep[p][n].uid, key |-> rep[p][n].key] \in keys
      BY <2>2 DEF TruthInv, AnswersKeys
    <3>2. QED
      BY <2>1, <3>1
  <2>3. QED
    BY <2>1, <2>2 DEF KeysOfNickname
<1>2. QED
  BY TruthOfAccounts, <1>1, PTL

\* Whoever gets to chat, or is about to hear it, typed the password under which its
\* user is stored.
THEOREM AuthorizedKnewPasswordAlways == Spec => []AuthorizedKnewPassword
<1>1. AccountInv /\ TruthInv => AuthorizedKnewPassword
  <2> SUFFICES ASSUME AccountInv, TruthInv, NEW p \in Procs,
                      \/ mode[p] \in {"save_known", "write_known", "chatting"}
                      \/ \E n \in DOMAIN rep[p] : rep[p][n].kind = "authorized"
               PROVE  Stored(home[p], [id |-> self[p].id, pass |-> typed[p]])
    BY DEF AuthorizedKnewPassword
  <2>1. /\ OwnOf(p) /\ ConversationOf(p) /\ StoredOf(p) /\ mode[p] \in Modes
        /\ rep[p] \in Seq(Replies)
    BY ProcessHere
  <2>2. CASE mode[p] \in {"save_known", "write_known", "chatting"}
    BY <2>1, <2>2 DEF StoredOf
  <2>3. ASSUME NEW n \in DOMAIN rep[p], rep[p][n].kind = "authorized"
        PROVE  Stored(home[p], [id |-> self[p].id, pass |-> typed[p]])
    <3>1. rep[p] # <<>>
      BY <2>1, <2>3
    <3>2. mode[p] # "registering"
      <4>1. SUFFICES ASSUME mode[p] = "registering" PROVE FALSE
        OBVIOUS
      <4>2. Waits(p, "register")
        BY <2>1, <4>1 DEF ConversationOf
      <4>3. DOMAIN rep[p] = {1} /\ TrueReply(p, "register", rep[p][1])
        BY <3>1, <4>2, AnsweredTruly
      <4>4. QED
        BY <2>3, <4>3 DEF TrueReply
    <3>3. mode[p] = "authorizing"
      BY <2>1, <2>3, <3>1, <3>2 DEF OwnOf, ConversationOf, Quiet, Modes
    <3>4. DOMAIN rep[p] = {1} /\ TrueReply(p, "authorize", rep[p][1])
      BY <2>1, <3>1, <3>3, AnsweredTruly DEF ConversationOf
    <3>5. Granted(Asked(p, "authorize"))
      BY <2>3, <3>4 DEF TrueReply
    <3>6. QED
      BY <3>5 DEF Granted, Asked, Stored
  <2>4. QED
    BY <2>2, <2>3
<1>2. QED
  BY TruthOfAccounts, AccountInvariant, <1>1, PTL
=============================================================================
