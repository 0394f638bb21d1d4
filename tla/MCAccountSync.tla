---------------------------- MODULE MCAccountSync ---------------------------
EXTENDS AccountSync, TLC

MCNames == {"Inbox", "Work", "WORK"}
MCSymmetry == Permutations(Syncs)
MCCanonical == [n \in MCNames |-> IF n = "Inbox" THEN 1 ELSE 2]
MCValidity == [n \in MCNames |-> IF n = "WORK" THEN 2 ELSE 1]
=============================================================================
