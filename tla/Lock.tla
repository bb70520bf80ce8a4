-------------------------------- MODULE Lock --------------------------------
(***************************************************************************)
(* What the master lock of the run-time system promises: at most one       *)
(* thread owns it, only its owner gives it up, and a thread takes it only  *)
(* when it is free.  MasterLock implements this specification.             *)
(***************************************************************************)
CONSTANTS Thread, Main

VARIABLE owner      \* the set of owners: empty or a singleton

Init == owner = {Main}

Take(p) == owner = {} /\ owner' = {p}

Give(p) == owner = {p} /\ owner' = {}

Next == \E p \in Thread : Take(p) \/ Give(p)

Spec == Init /\ [][Next]_owner

=============================================================================
