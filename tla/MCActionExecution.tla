-------------------------- MODULE MCActionExecution --------------------------
(***************************************************************************)
(* Finite instances of ActionExecution for TLC.  A budget says how many    *)
(* requests of each operation the clients send.                            *)
(***************************************************************************)
EXTENDS ActionExecution

Requests(n) == [o \in Ops |-> IF o \in DOMAIN n THEN n[o] ELSE 0]

EveryOperation == Requests([approve |-> 2, reject |-> 1, cancel |-> 1,
                            execute |-> 1, resolve |-> 1, legacy |-> 1])
RetriesOnly    == Requests([execute |-> 3, resolve |-> 2])
TwoApprovals   == Requests([approve |-> 2])
=============================================================================
