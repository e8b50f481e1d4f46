---------------------------- MODULE MCLoginLimiter ----------------------------
(* A small instance of LoginLimiter for TLC: one email from two addresses.    *)
EXTENDS LoginLimiter, TLC

CONSTANTS k1, k2, e1

MCKeys == {k1, k2}
MCEmails == {e1}
MCEmailOf == k1 :> e1 @@ k2 :> e1
=============================================================================
