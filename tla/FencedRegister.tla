-------------------------- MODULE FencedRegister --------------------------
(***************************************************************************)
(* What a fenced lease promises, independently of locks, time-outs and     *)
(* tokens: at any moment at most one lease may write the guarded rows, and *)
(* a lease that lost that right never writes again.                        *)
(*                                                                         *)
(* Lease.tla implements this module (rahi-store/src/lock.rs).              *)
(***************************************************************************)
CONSTANTS Holder,     \* the callers that may take the lease
          Row,        \* the rows the lease key guards
          Nobody      \* not a holder

VARIABLES writer,     \* the holder that may write, or Nobody
          lastWriter  \* lastWriter[r]: the holder whose write row r shows

fvars == <<writer, lastWriter>>

FInit ==
    /\ writer = Nobody
    /\ lastWriter = [r \in Row |-> Nobody]

(* A holder is given the right to write, after the previous one lost it.  *)
Take(h) ==
    /\ writer = Nobody
    /\ writer' = h
    /\ UNCHANGED lastWriter

(* The right ends.                                                        *)
Lose ==
    /\ writer # Nobody
    /\ writer' = Nobody
    /\ UNCHANGED lastWriter

(* One atomic batch of the current writer.                                *)
Write(h, rs) ==
    /\ writer = h
    /\ lastWriter' = [r \in Row |-> IF r \in rs THEN h ELSE lastWriter[r]]
    /\ UNCHANGED writer

FNext ==
    \/ Lose
    \/ \E h \in Holder : Take(h) \/ \E rs \in SUBSET Row : Write(h, rs)

FSpec == FInit /\ [][FNext]_fvars
===========================================================================
