----------------------------- MODULE MailboxSync -----------------------------
(***************************************************************************)
(* The mirror of one upstream mailbox: the rows of mailbox_messages, the   *)
(* sync engine that copies the upstream mailbox into them (the caller      *)
(* holds the account's lock, so one sync runs at a time), the sessions     *)
(* that change them, and the worker that replays appended messages.        *)
(*                                                                         *)
(* Every statement of the sync that another process can observe is a step. *)
(* A message is its content; of its flags only \Seen is kept.              *)
(***************************************************************************)
EXTENDS MailboxTables

CONSTANTS
    Messages,       \* contents that arrive upstream
    Appended,       \* contents that clients append to the mirror
    MaxUid,         \* bound on uids
    Workloads       \* what may happen in a behaviour: a set of records of

(* the contents that may be delivered and appended, those delivered that   *)
(* do not parse, the messages the account's quota has room for (Null: it   *)
(* has none), and bounds on changes of the upstream UIDVALIDITY, on flag   *)
(* changes, upstream and local, and on syncs that are cut short.           *)
ASSUME SyncAssumption ==
    /\ Messages \cap Appended = {}
    /\ MaxUid \in Nat
    /\ \A w \in Workloads :
          w \in [deliver : SUBSET Messages, append : SUBSET Appended,
                 unfit : SUBSET Messages, quota : Nat,
                 resets : Nat, stores : Nat, failures : Nat]

VARIABLES
    upstream,       \* the upstream mailbox: records [uid, msg, seen]
    upNext,         \* its UIDNEXT
    upValidity,     \* its UIDVALIDITY
    rows,           \* mailbox_messages: records [uid, msg, up, seen]
    mappings,       \* uid_mappings: records [uid, up]
    mailbox,        \* the row of mailboxes: [validity, exists]
    checkpoint,     \* sync_state: [validity, last]
    pending,        \* append mutations not yet replayed: [uid, msg]
    replaying,      \* the append replayed but not recorded, or {}
    pc,             \* where the sync is
    selection,      \* what SELECT said: [validity, exists]
    last,           \* uids up to this one are not fetched
    found,          \* the uids SEARCH found
    todo,           \* those the loop has still to visit
    fetched,        \* the uid and flags the loop is at: [uid, seen], or {}
    snapshot,       \* the rows the sync read before the loop
    newest,         \* last uid ingested, or Null
    doomed,         \* local uids the sync is about to delete
    hidden,         \* history: upstream uids whose row a client expunged
    owed,           \* history: contents whose APPEND succeeded, not removed since
    dirty,          \* history: did the data change since the sync began?
    workload,       \* the workload of this behaviour, and what was used of it
    resets, stores, failures,
    used            \* used_bytes of the quota, in messages

server == <<upstream, upNext, upValidity>>
store == <<rows, mappings, mailbox, checkpoint>>
flush == <<pending, replaying>>
locals == <<selection, last, found, todo, fetched, snapshot, newest, doomed>>
history == <<hidden, owed, dirty>>
budget == <<workload, resets, stores, failures>>
vars == <<server, store, flush, pc, locals, history, budget, used>>

Uids == 1..MaxUid
Contents == Messages \cup Appended
Online == {"clear", "search", "loop", "flags", "body"}
Points == Online \cup {"idle", "select", "save", "metadata", "reconcile", "delete", "refresh",
                      "done"}

(* The state has the shape of the tables and of the sync's variables; no   *)
(* two rows share a uid or an upstream uid.                                *)
TypeOK ==
    /\ upstream \subseteq [uid : Uids, msg : Contents, seen : BOOLEAN]
    /\ upNext \in 1..(MaxUid + 1) /\ upValidity \in 1..(workload.resets + 1)
    /\ rows \subseteq [uid : Uids, msg : Contents, up : Uids \cup {Null}, seen : BOOLEAN]
    /\ mappings \subseteq [uid : Uids, up : Uids]
    /\ Keyed(rows) /\ Keyed(mappings)
    /\ mailbox \in [validity : 0..(workload.resets + 1), exists : Nat]
    /\ checkpoint \in [validity : 0..(workload.resets + 1), last : 0..MaxUid]
    /\ pending \subseteq [uid : Uids, msg : Appended]
    /\ replaying \subseteq [uid : Uids, msg : Appended, up : Uids]
    /\ pc \in Points
    /\ selection \in [validity : 0..(workload.resets + 1), exists : Nat]
    /\ last \in 0..MaxUid /\ newest \in 0..MaxUid
    /\ found \subseteq Uids /\ todo \subseteq found
    /\ fetched \subseteq [uid : todo, seen : BOOLEAN]
    /\ snapshot \subseteq [uid : Uids, msg : Contents, up : Uids \cup {Null}, seen : BOOLEAN]
    /\ doomed \subseteq Uids
    /\ hidden \subseteq Uids /\ owed \subseteq Appended /\ dirty \in BOOLEAN
    /\ workload \in Workloads /\ resets \in Nat /\ stores \in Nat /\ failures \in Nat
    /\ used \in 0..workload.quota

-----------------------------------------------------------------------------
(* The quota is asked before an ingest, and charged after it; nothing      *)
(* gives back what was charged.                                            *)
Full == workload.quota # Null /\ used >= workload.quota
Charged == IF workload.quota = Null THEN used ELSE used + 1

(* refresh_mailbox_counts *)
Count(S) == [mailbox EXCEPT !.exists = Cardinality(S)]

NoSelection == [validity |-> Null, exists |-> 0]

Init ==
    /\ upstream = {} /\ upNext = 1 /\ upValidity = 1
    /\ rows = {} /\ mappings = {}
    /\ mailbox = [validity |-> Null, exists |-> 0]
    /\ checkpoint = [validity |-> Null, last |-> 0]
    /\ pending = {} /\ replaying = {}
    /\ pc = "idle"
    /\ selection = NoSelection /\ last = 0 /\ newest = Null
    /\ found = {} /\ todo = {} /\ fetched = {} /\ snapshot = {} /\ doomed = {}
    /\ hidden = {} /\ owed = {} /\ dirty = FALSE
    /\ workload \in Workloads /\ resets = 0 /\ stores = 0 /\ failures = 0 /\ used = 0

-----------------------------------------------------------------------------
(* The upstream mailbox changes. *)
Deliver(m) ==
    /\ upNext <= MaxUid /\ m \notin {x.msg : x \in upstream}
    /\ upstream' = upstream \cup {[uid |-> upNext, msg |-> m, seen |-> FALSE]}
    /\ upNext' = upNext + 1
    /\ dirty' = TRUE
    /\ UNCHANGED <<upValidity, store, flush, pc, locals, hidden, owed, budget, used>>

Remove(x) ==
    /\ upstream' = upstream \ {x}
    /\ owed' = owed \ {x.msg}
    /\ dirty' = TRUE
    /\ UNCHANGED <<upNext, upValidity, store, flush, pc, locals, hidden, budget, used>>

Mark(x) ==
    /\ stores < workload.stores
    /\ stores' = stores + 1
    /\ upstream' = (upstream \ {x}) \cup {[x EXCEPT !.seen = ~x.seen]}
    /\ dirty' = TRUE
    /\ UNCHANGED <<upNext, upValidity, store, flush, pc, locals, hidden, owed, workload, resets,
                   failures, used>>

(* The sync gives up: an error leaves sync_mailbox_inner, or the process   *)
(* dies.  What was written stays.                                          *)
Forget ==
    /\ pc' = "idle"
    /\ selection' = NoSelection /\ last' = 0 /\ newest' = Null
    /\ found' = {} /\ todo' = {} /\ fetched' = {} /\ snapshot' = {} /\ doomed' = {}

(* The mailbox is made anew, its messages to be numbered again.  A session *)
(* that had it selected is disconnected.                                   *)
Reset ==
    /\ resets < workload.resets /\ replaying = {}
    /\ resets' = resets + 1
    /\ upstream' = {} /\ upNext' = 1 /\ upValidity' = upValidity + 1
    /\ owed' = owed \ {x.msg : x \in upstream}
    /\ dirty' = TRUE
    /\ IF pc \in Online THEN Forget ELSE UNCHANGED <<pc, locals>>
    /\ UNCHANGED <<store, flush, hidden, workload, stores, failures, used>>

-----------------------------------------------------------------------------
(* Sessions.  STORE changes the row; its mutation is modelled in           *)
(* MutationReplay.                                                         *)
ClientStore(r) ==
    /\ stores < workload.stores
    /\ stores' = stores + 1
    /\ rows' = Put(rows, [r EXCEPT !.seen = ~r.seen])
    /\ dirty' = TRUE
    /\ mailbox' = Count(rows')
    /\ UNCHANGED <<server, mappings, checkpoint, flush, pc, locals, hidden, owed, workload, resets,
                   failures, used>>

(* EXPUNGE deletes the row, here only: nothing is queued for upstream. *)
ClientExpunge(r) ==
    /\ rows' = rows \ {r}
    /\ mailbox' = Count(rows')
    /\ hidden' = IF r.up = Null THEN hidden ELSE hidden \cup {r.up}
    /\ dirty' = TRUE
    /\ UNCHANGED <<server, mappings, checkpoint, flush, pc, locals, owed, budget, used>>

StoreAppended(m) ==
    /\ m \notin {r.msg : r \in rows \cup pending \cup upstream} /\ NextLocalUid(rows) <= MaxUid
    /\ ~Full
    /\ rows' = rows \cup {[uid |-> NextLocalUid(rows), msg |-> m, up |-> Null, seen |-> FALSE]}
    /\ dirty' = TRUE
    /\ UNCHANGED <<server, mappings, checkpoint, replaying, pc, locals, hidden, workload, resets,
                   stores>>

(* Mutation of ClientAppend: the message is not queued. *)
AppendUnqueued(m) ==
    /\ StoreAppended(m)
    /\ owed' = owed \cup {m}
    /\ mailbox' = Count(rows')
    /\ used' = Charged
    /\ UNCHANGED <<pending, failures>>

(* APPEND stores the message under the next local uid and queues it. *)
ClientAppend(m) ==
    /\ StoreAppended(m)
    /\ pending' = pending \cup {[uid |-> NextLocalUid(rows), msg |-> m]}
    /\ owed' = owed \cup {m}
    /\ mailbox' = Count(rows')
    /\ used' = Charged
    /\ UNCHANGED failures

(* An error after the row was written: the client is told NO, the row      *)
(* stays and nothing is queued.                                            *)
ClientAppendFails(m) ==
    /\ failures < workload.failures
    /\ failures' = failures + 1
    /\ StoreAppended(m)
    /\ used' \in {used, Charged}
    /\ UNCHANGED <<pending, owed, mailbox>>

(* apply_append: the server stores the message and says under which uid; if *)
(* it does not, the row keeps none ...                                      *)
ReplayAppend(p) ==
    /\ replaying = {} /\ upNext <= MaxUid
    /\ upstream' = upstream \cup {[uid |-> upNext, msg |-> p.msg, seen |-> FALSE]}
    /\ upNext' = upNext + 1
    /\ \/ replaying' = {[uid |-> p.uid, msg |-> p.msg, up |-> upNext]} /\ UNCHANGED pending
       \/ pending' = pending \ {p} /\ UNCHANGED replaying
    /\ dirty' = TRUE
    /\ UNCHANGED <<upValidity, store, pc, locals, hidden, owed, budget, used>>

(* ... and set_mailbox_message_upstream_uid records it in the row, if there *)
(* is one, and in the mapping.  When a UNIQUE column refuses, the mutation  *)
(* is tried again later.                                                    *)
RecordUid(p) ==
    /\ replaying' = {}
    /\ dirty' = TRUE
    /\ LET mine == {r \in rows : r.uid = p.uid}
           set == {[r EXCEPT !.up = p.up] : r \in mine}
           done == pending \ {[uid |-> p.uid, msg |-> p.msg]}
           link == [uid |-> p.uid, up |-> p.up]
       IN  CASE mine = {} -> pending' = done /\ UNCHANGED <<rows, mappings>>
             [] mine # {} /\ Refused(rows, link) -> UNCHANGED <<pending, rows, mappings>>
             [] OTHER ->
                    /\ rows' = (rows \ mine) \cup set
                    /\ IF Refused(mappings, link)
                       THEN UNCHANGED <<pending, mappings>>
                       ELSE pending' = done /\ mappings' = Put(mappings, link)
    /\ UNCHANGED <<server, mailbox, checkpoint, pc, locals, hidden, owed, budget, used>>

-----------------------------------------------------------------------------
(* sync_account begins with the mailbox's row, whose UIDVALIDITY and       *)
(* counts it clears.                                                       *)
SyncStart ==
    /\ pc \in {"idle", "done"}
    /\ mailbox' = [validity |-> Null, exists |-> 0]
    /\ pc' = "select"
    /\ dirty' = FALSE
    /\ UNCHANGED <<server, rows, mappings, checkpoint, flush, locals, hidden, owed, budget, used>>

(* Mutation of SyncSelect: the UIDVALIDITY is not compared. *)
SelectUnchecked ==
    /\ pc = "select"
    /\ selection' = [validity |-> upValidity, exists |-> Cardinality(upstream)]
    /\ last' = checkpoint.last
    /\ pc' = "search"
    /\ UNCHANGED <<server, store, flush, found, todo, fetched, snapshot, newest, doomed,
                   history, budget, used>>

(* SELECT, and the checkpoint.  When it is of another UIDVALIDITY the rows *)
(* that came from upstream are to be cleared and everything fetched again. *)
SyncSelect ==
    /\ pc = "select"
    /\ selection' = [validity |-> upValidity, exists |-> Cardinality(upstream)]
    /\ IF checkpoint.validity # upValidity
       THEN /\ last' = 0
            /\ doomed' = UidsOf({r \in rows : r.up # Null})
            /\ hidden' = {}
            /\ pc' = "clear"
       ELSE /\ last' = checkpoint.last
            /\ pc' = "search"
            /\ UNCHANGED <<doomed, hidden>>
    /\ UNCHANGED <<server, store, flush, found, todo, fetched, snapshot, newest, owed,
                   dirty, budget, used>>

(* delete_mailbox_message for the rows listed, one after the other.  Its   *)
(* mapping stays.                                                          *)
DeleteDoomed(after) ==
    IF doomed = {}
    THEN pc' = after /\ UNCHANGED <<rows, doomed>>
    ELSE /\ LET u == Min(doomed)
            IN  rows' = {r \in rows : r.uid # u} /\ doomed' = doomed \ {u}
         /\ UNCHANGED pc

SyncClear ==
    /\ pc = "clear"
    /\ DeleteDoomed("search")
    /\ UNCHANGED <<server, mappings, mailbox, checkpoint, flush, selection, last, found, todo,
                   fetched, snapshot, newest, history, budget, used>>

(* UID SEARCH ALL, and the local rows. *)
SyncSearch ==
    /\ pc = "search"
    /\ found' = UidsOf(upstream) /\ todo' = UidsOf(upstream)
    /\ snapshot' = {r \in rows : r.up # Null}
    /\ pc' = "loop"
    /\ UNCHANGED <<server, store, flush, selection, last, fetched, newest, doomed, history,
                   budget, used>>

(* A round of the loop, in whatever order the server lists the uids, asks  *)
(* for the flags of a message.  One that is gone has none: an error.       *)
FetchFlags(u) ==
    /\ pc = "loop"
    /\ LET hits == {x \in upstream : x.uid = u}
       IN  IF hits = {}
           THEN Forget
           ELSE /\ fetched' = {[uid |-> u, seen |-> x.seen] : x \in hits}
                /\ pc' = "flags"
                /\ UNCHANGED <<selection, last, found, todo, snapshot, newest, doomed>>
    /\ UNCHANGED <<server, store, flush, history, budget, used>>

(* The row the snapshot has for the uid, if its flags differ from f's. *)
Stale(f) == UidsOf({s \in WithUp(snapshot, f.uid) : s.seen # f.seen})

(* The flags replace the row's, and a message the checkpoint covers is     *)
(* done with.                                                              *)
ApplyFlags(f) ==
    /\ pc = "flags"
    /\ rows' = {IF r.uid \in Stale(f) THEN [r EXCEPT !.seen = f.seen] ELSE r : r \in rows}
    /\ IF f.uid <= last
       THEN pc' = "loop" /\ todo' = todo \ {f.uid} /\ fetched' = {}
       ELSE pc' = "body" /\ UNCHANGED <<todo, fetched>>
    /\ UNCHANGED <<server, mappings, mailbox, checkpoint, flush, selection, last, found,
                   snapshot, newest, doomed, history, budget, used>>

(* Mutation of Upsert: INSERT without ON CONFLICT. *)
InsertNew(row) ==
    IF row.uid \in UidsOf(rows)
    THEN Forget /\ UNCHANGED <<rows, mappings, hidden>>
    ELSE /\ rows' = rows \cup {row}
         /\ mappings' = Put(mappings, [uid |-> row.uid, up |-> row.up])
         /\ hidden' = hidden \ {row.up}
         /\ newest' = row.up /\ todo' = todo \ {row.up} /\ fetched' = {} /\ pc' = "loop"
         /\ UNCHANGED <<selection, last, found, snapshot, doomed>>

(* upsert_mailbox_message: the row may be refused, and, once it is         *)
(* committed, its mapping; either error ends the sync.                     *)
Upsert(row) ==
    LET link == [uid |-> row.uid, up |-> row.up]
    IN  IF Refused(rows, row)
        THEN Forget /\ UNCHANGED <<rows, mappings, hidden>>
        ELSE /\ rows' = Put(rows, row)
             /\ hidden' = hidden \ {row.up}
             /\ IF Refused(mappings, link)
                THEN Forget /\ UNCHANGED mappings
                ELSE /\ mappings' = Put(mappings, link)
                     /\ newest' = row.up /\ todo' = todo \ {row.up} /\ fetched' = {}
                     /\ pc' = "loop"
                     /\ UNCHANGED <<selection, last, found, snapshot, doomed>>

(* parse_message, or the quota, refuses the message. *)
Unfit(m) == m \in workload.unfit \/ Full

(* The body is fetched, unless it is gone by now, and ingest_raw_message   *)
(* files the message under its upstream uid.                               *)
IngestMessage(f) ==
    /\ pc = "body"
    /\ LET hits == {x \in upstream : x.uid = f.uid}
       IN  IF hits = {}
           THEN Forget /\ UNCHANGED <<rows, mappings, hidden>>
           ELSE \E x \in hits :
                  IF Unfit(x.msg)
                  THEN Forget /\ UNCHANGED <<rows, mappings, hidden>>
                  ELSE Upsert([uid |-> f.uid, msg |-> x.msg, up |-> f.uid, seen |-> f.seen])
    /\ used' = IF pc' = "loop" THEN Charged ELSE used
    /\ UNCHANGED <<server, mailbox, checkpoint, flush, owed, dirty, budget>>

SyncLoopEnds ==
    /\ pc = "loop" /\ todo = {}
    /\ pc' = "save"
    /\ UNCHANGED <<server, store, flush, locals, history, budget, used>>

(* Mutation of SyncSave: everything up to UIDNEXT counts as fetched. *)
SaveUidNext ==
    /\ pc = "save"
    /\ checkpoint' = [validity |-> selection.validity, last |-> upNext - 1]
    /\ pc' = "metadata"
    /\ UNCHANGED <<server, rows, mappings, mailbox, flush, locals, history, budget, used>>

(* put_sync_state *)
SyncSave ==
    /\ pc = "save"
    /\ checkpoint' = [validity |-> selection.validity,
                      last |-> IF newest # Null THEN newest ELSE last]
    /\ pc' = "metadata"
    /\ UNCHANGED <<server, rows, mappings, mailbox, flush, locals, history, budget, used>>

(* update_mailbox_sync_metadata *)
SyncMetadata ==
    /\ pc = "metadata"
    /\ mailbox' = selection
    /\ pc' = "reconcile"
    /\ UNCHANGED <<server, rows, mappings, checkpoint, flush, locals, history, budget, used>>

(* Mutation of SyncReconcile: the set is that of the messages ingested. *)
ReconcileNewOnly ==
    /\ pc = "reconcile"
    /\ doomed' = UidsOf({r \in rows : r.up # Null /\ r.up \notin {u \in found : u > last}})
    /\ pc' = "delete"
    /\ UNCHANGED <<server, store, flush, selection, last, found, todo, fetched, snapshot, newest,
                   history, budget, used>>

(* reconcile_missing_upstream_messages_with_set lists the rows again.      *)
SyncReconcile ==
    /\ pc = "reconcile"
    /\ doomed' = UidsOf({r \in rows : r.up # Null /\ r.up \notin found})
    /\ pc' = "delete"
    /\ UNCHANGED <<server, store, flush, selection, last, found, todo, fetched, snapshot, newest,
                   history, budget, used>>

SyncDelete ==
    /\ pc = "delete"
    /\ DeleteDoomed("refresh")
    /\ UNCHANGED <<server, mappings, mailbox, checkpoint, flush, selection, last, found, todo,
                   fetched, snapshot, newest, history, budget, used>>

(* refresh_mailbox_counts, and the sync is over. *)
SyncRefresh ==
    /\ pc = "refresh"
    /\ mailbox' = Count(rows)
    /\ pc' = "done"
    /\ selection' = NoSelection /\ last' = 0 /\ newest' = Null
    /\ found' = {} /\ todo' = {} /\ fetched' = {} /\ snapshot' = {} /\ doomed' = {}
    /\ UNCHANGED <<server, rows, mappings, checkpoint, flush, history, budget, used>>

(* The upstream server, the object store or the database fails, or the     *)
(* process dies.                                                           *)
SyncFails ==
    /\ pc \notin {"idle", "done"} /\ failures < workload.failures
    /\ failures' = failures + 1
    /\ Forget
    /\ UNCHANGED <<server, store, flush, history, workload, resets, stores, used>>

-----------------------------------------------------------------------------
SyncStep ==
    \/ SyncStart \/ SyncSelect \/ SyncClear \/ SyncSearch \/ SyncLoopEnds \/ SyncSave
    \/ SyncMetadata \/ SyncReconcile \/ SyncDelete \/ SyncRefresh
    \/ \E u \in todo : FetchFlags(u)
    \/ \E f \in fetched : ApplyFlags(f) \/ IngestMessage(f)

Flush ==
    \/ \E p \in pending : ReplayAppend(p)
    \/ \E p \in replaying : RecordUid(p)

Environment ==
    \/ \E m \in workload.deliver : Deliver(m)
    \/ \E x \in upstream : Remove(x) \/ Mark(x)
    \/ Reset
    \/ \E r \in rows : ClientStore(r) \/ ClientExpunge(r)
    \/ \E m \in workload.append : ClientAppend(m) \/ ClientAppendFails(m)

Next == SyncStep \/ Flush \/ Environment \/ SyncFails

Spec == Init /\ [][Next]_vars

(* The operator keeps running force-sync, which keeps taking its steps,    *)
(* and the mutation worker its own.                                        *)
FairSpec == Spec /\ WF_vars(SyncStep) /\ WF_vars(Flush)

-----------------------------------------------------------------------------
(* The properties of the mirror are those of a mailbox to which no client  *)
(* appends: an append takes a local uid that an upstream message may have. *)
Mirrored == workload.append = {}

(* A sync that ran to its end while nothing changed leaves a mirror: the   *)
(* rows that came from upstream are the messages there, flags included,    *)
(* and a message without a row was expunged by a client.                   *)
CleanSyncMirrors ==
    (Mirrored /\ pc = "done" /\ ~dirty) =>
        /\ \A r \in rows : r.up # Null =>
               \E x \in upstream : x.uid = r.up /\ x.msg = r.msg /\ x.seen = r.seen
        /\ \A x \in upstream : x.uid \in hidden \/ WithUp(rows, x.uid) # {}
        /\ mailbox = [validity |-> upValidity, exists |-> Cardinality(rows)]

(* A message upstream that the next sync would fetch and cannot ingest. *)
Stuck ==
    \E x \in upstream : /\ Unfit(x.msg)
                        /\ x.uid > checkpoint.last \/ checkpoint.validity # upValidity

(* A message that cannot be ingested ends every sync of the mailbox, and   *)
(* nothing else does for good: no sequence of changes, failures and        *)
(* retries leads to a state in which every further sync fails while the    *)
(* messages to be fetched parse and fit the quota, and syncs end well      *)
(* again once the one that did not is gone upstream.                       *)
SyncNeverWedged == Mirrored => []<>(pc = "done" \/ Stuck)

(* A row that has an upstream uid is the message with that uid: a flag     *)
(* change, a copy or a move of the row reaches the right message.          *)
RowsMatchUpstream ==
    Mirrored /\ checkpoint.validity = upValidity =>
        \A r \in rows, x \in upstream : r.up = x.uid => r.msg = x.msg

(* Reconciling compares rows listed now with a SEARCH answered before the  *)
(* loop, so it also deletes the row of an append that was replayed in      *)
(* between.  Whatever arrives, is appended, replayed or expunged           *)
(* meanwhile: the message of a row it deletes is gone upstream, or is one  *)
(* the checkpoint does not cover, which the next sync fetches again.       *)
DeletedGoneOrFetchedAgain ==
    [][(SyncDelete /\ checkpoint.validity = upValidity) => \A r \in rows \ rows' :
           \A x \in upstream : (x.uid = r.up /\ x.msg = r.msg) => x.uid > checkpoint.last]_vars

(* A message whose APPEND was answered OK is never lost altogether: until  *)
(* it is removed upstream it is in the upstream mailbox or waits in the    *)
(* queue, whatever syncs, expunges and refused recordings do to its row.   *)
AppendNeverLost == owed \subseteq {x.msg : x \in upstream \cup pending}

(* A message a client appended is kept until the client itself expunges it *)
(* or, once it was replayed, until it is gone upstream.                    *)
AppendedKept ==
    [][\A r \in rows : (r.up = Null /\ \A s \in rows' : s.msg # r.msg) => ClientExpunge(r)]_vars
=============================================================================
