------------------------------ MODULE FileStore ------------------------------
(***************************************************************************)
(* What the file server promises to those who call it: every request takes *)
(* effect at once and is answered by what it did.  An upload appends its   *)
(* body, is refused, or is refused and costs the file; a download gets the *)
(* whole file or none of it; a delete removes it or does not find it.      *)
(***************************************************************************)
EXTENDS Naturals, Sequences

CONSTANTS
    Calls,  \* the requests
    Names,  \* file names
    Kind,   \* what a request asks for
    Target, \* of which file
    Body(_) \* and the bytes it brings

VARIABLES
    store,  \* the files; <<>> if there is none
    answer, \* the answers to the requests
    got     \* what the downloads got

vars == <<store, answer, got>>

Init ==
    /\ store = [n \in Names |-> <<>>]
    /\ answer = [c \in Calls |-> "none"]
    /\ got = [c \in Calls |-> <<>>]

Answer(c, a) ==
    /\ answer[c] = "none"
    /\ answer' = [answer EXCEPT ![c] = a]

Store(c) ==
    /\ Kind[c] = "upload"
    /\ Answer(c, "stored")
    /\ store' = [store EXCEPT ![Target[c]] = @ \o Body(c)]
    /\ UNCHANGED got

Refuse(c) ==
    /\ Kind[c] = "upload"
    /\ Answer(c, "refused")
    /\ store' \in {store, [store EXCEPT ![Target[c]] = <<>>]}
    /\ UNCHANGED got

Read(c) ==
    /\ Kind[c] = "download"
    /\ store[Target[c]] # <<>>
    /\ Answer(c, "content")
    /\ got' = [got EXCEPT ![c] = store[Target[c]]]
    /\ UNCHANGED store

Miss(c) ==
    /\ Kind[c] = "download"
    /\ \/ Answer(c, "not found") /\ store[Target[c]] = <<>>
       \/ Answer(c, "error")
    /\ UNCHANGED <<store, got>>

\* A delete does what it says, or not.
Delete(c) ==
    /\ Kind[c] = "delete"
    /\ \/ Answer(c, "deleted") /\ store' = [store EXCEPT ![Target[c]] = <<>>]
       \/ Answer(c, "not found") /\ UNCHANGED store
    /\ UNCHANGED got

Next == \E c \in Calls : Store(c) \/ Refuse(c) \/ Read(c) \/ Miss(c) \/ Delete(c)

Spec == Init /\ [][Next]_vars
=============================================================================
