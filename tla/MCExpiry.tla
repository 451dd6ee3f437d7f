------------------------------- MODULE MCExpiry -------------------------------
(***************************************************************************)
(* An instance of Expiry for TLC; the constants are in the .cfg file.       *)
(***************************************************************************)
EXTENDS Expiry

MCUnit == [i \in 0 .. Width |-> Base ^ (Width - i)]
=============================================================================
