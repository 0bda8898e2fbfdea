------------------------------- MODULE Mutex -------------------------------
(* What a lease promises its callers, with acquisition and release each one *)
(* atomic step: "Exactly one write-capable process may hold a given lease   *)
(* at a time" (pipeline_core/lease.py).  FileLease implements it with a     *)
(* lock file and several file-system calls per operation.                   *)
CONSTANTS Proc,     \* the contending process slots
          Nobody    \* the value of owner while the lease is free

VARIABLE owner

Init == owner = Nobody

Grant(p) == owner = Nobody /\ owner' = p

(* The holder lets go, or dies: a dead process no longer writes.            *)
Free(p) == owner = p /\ owner' = Nobody

Next == \E p \in Proc : Grant(p) \/ Free(p)

Spec == Init /\ [][Next]_owner
=============================================================================
