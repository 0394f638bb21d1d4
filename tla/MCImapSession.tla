---------------------------- MODULE MCImapSession ----------------------------
EXTENDS ImapSession, TLC

(* Connections, accounts and names are interchangeable. *)
Symmetry == Permutations(Conns) \cup Permutations(Accounts) \cup Permutations(Names)
=============================================================================
