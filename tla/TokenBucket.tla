---------------------------- MODULE TokenBucket ----------------------------
(* What the rate limiter of src/security.rs promises: every client has a   *)
(* bucket from the start, full, that is topped up as time passes and never *)
(* forgotten.                                                              *)
EXTENDS Integers

CONSTANTS Clients, Rate, Capacity, Costs

VARIABLE level

Filled(n) == IF n < Capacity THEN n ELSE Capacity

Init == level = [c \in Clients |-> Capacity]

Refill == level' = [c \in Clients |-> Filled(level[c] + Rate)]

Take(c, cost) == level[c] >= cost /\ level' = [level EXCEPT ![c] = @ - cost]

Spec == Init /\ [][Refill \/ \E c \in Clients, cost \in Costs : Take(c, cost)]_level

=============================================================================
