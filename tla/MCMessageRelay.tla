---------------------------- MODULE MCMessageRelay ----------------------------
(***************************************************************************)
(* Instances of MessageRelay. In the first alice runs one client and bob   *)
(* runs one and then another, so that his second connection may be         *)
(* authorized before the server notices the end of the first; in the pair, *)
(* each user runs one client.                                              *)
(***************************************************************************)
EXTENDS MessageRelay, TLC

CONSTANTS alice, bob, a1, b1, b2, p1

MCUsers == {alice, bob}
MCConns == {a1, b1, b2}
MCOwner == (a1 :> alice) @@ (b1 :> bob) @@ (b2 :> bob)

PairConns == {a1, b1}
PairOwner == (a1 :> alice) @@ (b1 :> bob)

Interchangeable == Permutations({b1, b2})
=============================================================================
