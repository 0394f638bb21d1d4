---------------------------- MODULE MailboxTables ----------------------------
(***************************************************************************)
(* The tables mailbox_messages and uid_mappings of one mailbox, as sets of *)
(* records that have at least the fields uid (local_uid) and up            *)
(* (upstream_uid).                                                         *)
(***************************************************************************)
EXTENDS Integers, FiniteSets, FiniteSetsExt

Null == 0           \* uids and UIDVALIDITY values are positive

UidsOf(S) == {r.uid : r \in S}
WithUp(S, up) == {r \in S : r.up = up}

(* assign_mailbox_local_uid: one more than the largest uid there is. *)
NextLocalUid(rows) == IF rows = {} THEN 1 ELSE Max(UidsOf(rows)) + 1

(* INSERT ... ON CONFLICT (mailbox_id, local_uid) DO UPDATE. *)
Put(table, r) == {s \in table : s.uid # r.uid} \cup {r}

(* The UNIQUE (mailbox_id, upstream_uid) of either table refuses r. *)
Refused(table, r) == \E s \in table : s.up = r.up /\ s.uid # r.uid

(* Both UNIQUE constraints of a table. *)
Keyed(table) ==
    \A r, s \in table : (r.uid = s.uid \/ (r.up = s.up /\ r.up # Null)) => r = s
=============================================================================
