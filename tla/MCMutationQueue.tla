--------------------------- MODULE MCMutationQueue ---------------------------
(* Instances of MutationQueue for TLC: two accounts, account 1 visited first. *)
EXTENDS MutationQueue
CONSTANTS m1, m2, m3

MCAccountOf == [m \in Mutations |-> IF m = m3 THEN 2 ELSE 1]
=============================================================================
