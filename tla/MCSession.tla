----------------------------- MODULE MCSession -----------------------------
(* Session with two users. *)
EXTENDS Session, TLC

CONSTANTS alice, bob

TwoUsers == {alice, bob}
UserSymmetry == Permutations(TwoUsers)
=============================================================================
