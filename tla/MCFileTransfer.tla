---------------------------- MODULE MCFileTransfer ----------------------------
(***************************************************************************)
(* Small instances of FileTransfer: two senders that use one name, and one *)
(* sender with files of different names.                                   *)
(***************************************************************************)
EXTENDS FileTransfer, TLC

CONSTANTS ann, bob, ray, one, two, doc, pic

\* Two users send a file called doc to one receiver.
SharedClients   == {ann, bob, ray}
SharedTransfers == {one, two}
SharedFrom      == (one :> ann) @@ (two :> bob)
SharedTo        == (one :> ray) @@ (two :> ray)
SharedName      == (one :> doc) @@ (two :> doc)
SharedChunks    == (one :> 1) @@ (two :> 1)

\* One user sends two files of different names to another, one after the other.
OwnClients   == {ann, ray}
OwnTransfers == {one, two}
OwnFrom      == (one :> ann) @@ (two :> ann)
OwnTo        == (one :> ray) @@ (two :> ray)
OwnNames     == (one :> doc) @@ (two :> pic)
OwnChunks    == (one :> 2) @@ (two :> 2)

\* One file that fills its only chunk.
OneTransfer == {one}
OneFrom     == one :> ann
OneTo       == one :> ray
OneName     == one :> doc
OneChunks   == one :> 1
=============================================================================
