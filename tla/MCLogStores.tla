---------------------------- MODULE MCLogStores -----------------------------
(* An instance of LogStores for TLC: short keys with few digits.           *)
EXTENDS LogStores
=============================================================================
