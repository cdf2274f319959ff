---------------------------- MODULE SharedStream ----------------------------
(***************************************************************************)
(* The one _stream of FileServerClient, which all threads of the chat      *)
(* server use for their calls: each connects it, writes a request, reads   *)
(* the answer and shuts it down, and nothing keeps two calls apart. The    *)
(* model interleaves these four operations. That two of them race inside   *)
(* the library as well is undefined behaviour, of which it represents only *)
(* the outcomes in which each takes place as a whole.                      *)
(*                                                                         *)
(* A call connects once, so a connection is named by the call that made    *)
(* it. The file server answers the requests of a connection in their order *)
(* and ends it when it was idle for some time.                             *)
(***************************************************************************)
EXTENDS Sequences

CONSTANTS
    Uploads,    \* calls of upload_chunk, each with a chunk of its own
    Downloads,  \* other calls, of download_file_chunks, each of a file of its own
    NoCall      \* no call: the stream is not connected

Calls == Uploads \cup Downloads

VARIABLES
    pc,         \* where a call is
    stream,     \* the connection the stream has now
    shut,       \* connections the client closed or shut down
    ended,      \* connections the file server ended
    requests,   \* what was written to a connection and is not answered yet
    answers,    \* what was answered and is not read yet
    chunks,     \* what a download took for chunks of its file
    result      \* what an upload returned

vars == <<pc, stream, shut, ended, requests, answers, chunks, result>>

Init ==
    /\ pc = [c \in Calls |-> "connect"]
    /\ stream = NoCall
    /\ shut = {} /\ ended = {}
    /\ requests = [c \in Calls |-> <<>>]
    /\ answers = [c \in Calls |-> <<>>]
    /\ chunks = [d \in Downloads |-> <<>>]
    /\ result = [u \in Uploads |-> FALSE]

Goto(c, s) == pc' = [pc EXCEPT ![c] = s]

\* connect closes what the stream was connected to, and connects it anew; when it
\* throws the call is over.
Connect(c) ==
    /\ pc[c] = "connect"
    /\ shut' = shut \cup ({stream} \ {NoCall})
    /\ \/ stream' = c /\ Goto(c, "write")
       \/ stream' = NoCall /\ Goto(c, "done")
    /\ UNCHANGED <<ended, requests, answers, chunks, result>>

\* The stream can still carry something.
Usable == stream # NoCall /\ stream \notin shut

\* http::write, to whatever the stream is connected to.
Write(c) ==
    /\ pc[c] = "write"
    /\ IF Usable
       THEN /\ requests' = [requests EXCEPT ![stream] = Append(@, c)]
            /\ Goto(c, "read")
       ELSE /\ Goto(c, "done")
            /\ UNCHANGED requests
    /\ UNCHANGED <<stream, shut, ended, answers, chunks, result>>

\* http::read of the next answer on the connection the stream has now. A download
\* reads on until the end of the connection, and whatever it reads is a chunk.
Read(c) ==
    /\ pc[c] = "read"
    /\ Usable /\ answers[stream] # <<>>
    /\ answers' = [answers EXCEPT ![stream] = Tail(@)]
    /\ LET answer == Head(answers[stream]) IN
         IF c \in Uploads
         THEN /\ result' = [result EXCEPT ![c] = answer.kind = "stored"]
              /\ Goto(c, "shutdown")
              /\ UNCHANGED chunks
         ELSE /\ chunks' = [chunks EXCEPT ![c] = Append(@, answer)]
              /\ UNCHANGED <<pc, result>>
    /\ UNCHANGED <<stream, shut, ended, requests>>

\* Nothing more will come: for a download the end, for an upload an exception.
ReadEnd(c) ==
    /\ pc[c] = "read"
    /\ ~Usable \/ (stream \in ended /\ answers[stream] = <<>>)
    /\ Goto(c, IF c \in Downloads THEN "shutdown" ELSE "done")
    /\ UNCHANGED <<stream, shut, ended, requests, answers, chunks, result>>

\* The connection the stream has now is shut down, whoever reads from it.
Shutdown(c) ==
    /\ pc[c] = "shutdown"
    /\ shut' = shut \cup ({stream} \ {NoCall})
    /\ Goto(c, "done")
    /\ UNCHANGED <<stream, ended, requests, answers, chunks, result>>

-----------------------------------------------------------------------------
(* The file server.                                                        *)

\* It answers the first request of a connection: the chunk of that call is stored,
\* its file is sent, or it failed. On a connection that
\* was shut down meanwhile nobody hears of it.
Serve(k) ==
    /\ requests[k] # <<>>
    /\ k \notin ended
    /\ requests' = [requests EXCEPT ![k] = Tail(@)]
    /\ LET c == Head(requests[k]) IN
         \E kind \in {IF c \in Uploads THEN "stored" ELSE "content", "failed"} :
            answers' = [answers EXCEPT ![k] = Append(@, [of |-> c, kind |-> kind])]
    /\ UNCHANGED <<pc, stream, shut, ended, chunks, result>>

\* It ends a connection on which it has nothing to do.
EndIdle(k) ==
    /\ pc[k] \notin {"connect", "write"}
    /\ k \notin ended
    /\ requests[k] = <<>>
    /\ ended' = ended \cup {k}
    /\ UNCHANGED <<pc, stream, shut, requests, answers, chunks, result>>

Next ==
    \/ \E c \in Calls :
          Connect(c) \/ Write(c) \/ Read(c) \/ ReadEnd(c) \/ Shutdown(c)
    \/ \E k \in Calls : Serve(k) \/ EndIdle(k)

Spec == Init /\ [][Next]_vars

-----------------------------------------------------------------------------
\* What a download returns and the chat server sends to the receiver came from the
\* file server in answer to the request for that file.
DownloadIsOfFile ==
    \A d \in Downloads : \A n \in DOMAIN chunks[d] : chunks[d][n].of = d
=============================================================================
