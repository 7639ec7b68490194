-------------------------- MODULE AppendOnlyChain --------------------------
(***************************************************************************)
(* What the ledger promises its callers, independently of tables, heads,   *)
(* retries and archives: one hash chain that only grows at its end, in     *)
(* which an id names one decision for good, and answers that are true.     *)
(*                                                                         *)
(* Ledger.tla implements this module (rahi-ledger).                        *)
(***************************************************************************)
CONSTANTS Call,      \* calls of append
          Wants,     \* Wants[c]: the decision call c offers, [id, content]
          GenesisParent,    \* the parent of the first record
          GenesisDecision   \* the decision of the first record

VARIABLES chain,     \* the records: [id, content, prev]
          told       \* told[c]: "pending" or the answer c was given

cvars == <<chain, told>>

CInit ==
    /\ chain = {[id |-> GenesisDecision.id, content |-> GenesisDecision.content,
                 prev |-> GenesisParent]}
    /\ told = [c \in Call |-> "pending"]

(* The only place a record may be added: after a record of the chain that  *)
(* has no successor.                                                       *)
End(prev) ==
    /\ \E m \in chain : m.id = prev
    /\ \A m \in chain : m.prev # prev

(* A decision whose id is not spent enters the chain.                      *)
Extend(c, new) ==
    /\ new = [id |-> Wants[c].id, content |-> Wants[c].content, prev |-> new.prev]
    /\ chain' = chain \cup {new}
    /\ End(new.prev)
    /\ \A m \in chain : m.id # new.id

(* An answer is true of the chain at the moment it is given.               *)
Answer(c) ==
    /\ told[c] = "pending"
    /\ told'[c] \in {"landed", "reused", "error"}
    /\ told' = [told EXCEPT ![c] = told'[c]]
    /\ told'[c] = "landed" =>
          \E m \in chain' : m.id = Wants[c].id /\ m.content = Wants[c].content
    /\ told'[c] = "reused" =>
          \E m \in chain' : m.id = Wants[c].id /\ m.content # Wants[c].content

(* A call is answered, or a record enters with its answer given or not.   *)
CNext ==
    \/ chain' = chain /\ \E c \in Call : Answer(c)
    \/ \E new \in chain' \ chain, c \in Call :
          Extend(c, new) /\ (Answer(c) \/ told' = told)

CSpec == CInit /\ [][CNext]_cvars
===========================================================================
