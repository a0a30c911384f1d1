--------------------------- MODULE ObjectRegistry ---------------------------
(***************************************************************************)
(* What GOLFS and its bucket promise together, with no HEAD requests, no   *)
(* presigned URLs and no retries: a register of objects, each created at   *)
(* most once, by a client allowed to, and never changed or removed; and    *)
(* the clients that were told that their object is in it, which it is.     *)
(***************************************************************************)
CONSTANTS Client, Key, Nobody

VARIABLES
  target,   \* target[c]: the key client c works on
  mayWrite, \* the clients allowed to create their target
  owner,    \* owner[k]: the client whose upload created k, or Nobody
  told      \* the clients told that their target is stored

vars == <<target, mayWrite, owner, told>>

Init ==
  /\ target \in [Client -> Key]
  /\ mayWrite \in SUBSET Client
  /\ owner = [k \in Key |-> Nobody]
  /\ told = {}

Create(c) ==
  /\ c \in mayWrite
  /\ owner[target[c]] = Nobody
  /\ owner' = [owner EXCEPT ![target[c]] = c]
  /\ UNCHANGED <<target, mayWrite, told>>

Tell(c) ==
  /\ owner[target[c]] # Nobody
  /\ told' = told \cup {c}
  /\ UNCHANGED <<target, mayWrite, owner>>

Next == \E c \in Client : Create(c) \/ Tell(c)

Spec == Init /\ [][Next]_vars
=============================================================================
