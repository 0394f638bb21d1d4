--------------------------- MODULE MutationLedger ---------------------------
(***************************************************************************)
(* What the mutation queue promises to a client whose command it accepted: *)
(* the mutation is settled only after the upstream server carried it out,  *)
(* and once settled it is neither reopened nor sent again.                 *)
(***************************************************************************)
CONSTANT Mutations

VARIABLES
    phase,      \* none, queued, done or cancelled
    delivered   \* whether the upstream server has carried it out

lvars == <<phase, delivered>>

Init ==
    /\ phase = [m \in Mutations |-> "none"]
    /\ delivered = [m \in Mutations |-> FALSE]

Accept(m) ==
    /\ phase[m] = "none"
    /\ phase' = [phase EXCEPT ![m] = "queued"]
    /\ UNCHANGED delivered

(* The server may also carry out a mutation whose mailbox is gone locally. *)
Deliver(m) ==
    /\ phase[m] \in {"queued", "cancelled"}
    /\ delivered' = [delivered EXCEPT ![m] = TRUE]
    /\ UNCHANGED phase

Settle(m) ==
    /\ phase[m] = "queued" /\ delivered[m]
    /\ phase' = [phase EXCEPT ![m] = "done"]
    /\ UNCHANGED delivered

(* Mailboxes or accounts are deleted, with all of their mutations. *)
Cancel(S) ==
    /\ \A m \in S : phase[m] # "none"
    /\ phase' = [m \in Mutations |-> IF m \in S THEN "cancelled" ELSE phase[m]]
    /\ UNCHANGED delivered

Next ==
    \/ \E m \in Mutations : Accept(m) \/ Deliver(m) \/ Settle(m)
    \/ \E S \in SUBSET Mutations : Cancel(S)

Spec == Init /\ [][Next]_lvars
=============================================================================
