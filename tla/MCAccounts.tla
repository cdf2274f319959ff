----------------------------- MODULE MCAccounts -----------------------------
(* Two machines on which ann registers, and one of bob. *)
EXTENDS Accounts, TLC

CONSTANTS ann1, ann2, bob1, ann, bob, right, wrong

MCNick == ann1 :> ann @@ ann2 :> ann @@ bob1 :> bob

\* The two machines of ann are alike, and so are the passwords.
MCSymmetry == Permutations({ann1, ann2}) \cup Permutations({right, wrong})
=============================================================================
