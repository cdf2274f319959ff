----------------------------- MODULE MCWriteQueue -----------------------------
(***************************************************************************)
(* A small instance of WriteQueue.                                         *)
(***************************************************************************)
EXTENDS WriteQueue

CONSTANTS r1, r2, r3

\* The requests are interchangeable, and so it is enough that they are posted in one order.
InOneOrder == \E k \in 0 .. 3 : posted = SubSeq(<<r1, r2, r3>>, 1, k)
=============================================================================
