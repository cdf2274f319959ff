----------------------------- MODULE MCFileServer -----------------------------
(***************************************************************************)
(* A small instance of FileServerProcess: uploads of a whole and a short   *)
(* chunk, another that the file may have no room for, one to a name that   *)
(* is not valid, two downloads and a delete; a call of start and one of    *)
(* stop.                                                                   *)
(***************************************************************************)
EXTENDS FileServerProcess, TLC

CONSTANTS full, short, more, bad, down1, down2, del, doc, pic

Uploads == {full, short, more, bad}
FewCalls == Uploads \cup {down1, down2, del}
FewKinds == (del :> "delete") @@ [c \in {down1, down2} |-> "download"]
               @@ [c \in Uploads |-> "upload"]
FewTargets == (bad :> pic) @@ [c \in FewCalls \ {bad} |-> doc]
FewSizes == (short :> 1) @@ [c \in FewCalls \ {short} |-> 2]
=============================================================================
