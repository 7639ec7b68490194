------------------------------ MODULE MCServe ------------------------------
(* A small instance of Serve for TLC.                                      *)
EXTENDS Serve

CONSTANT s1

(* Each boot starts from nothing but the record, so one of them is loaded. *)
MCMaxRequests == [b \in 1..MaxBoots |-> IF b = 1 THEN 1 ELSE 0]

===========================================================================
