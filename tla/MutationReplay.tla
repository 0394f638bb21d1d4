---------------------------- MODULE MutationReplay ----------------------------
(***************************************************************************)
(* What replaying the queued COPY, MOVE and STORE commands of one account  *)
(* does to its upstream mailboxes: the apply_* functions of the mutation   *)
(* engine, command by command on the connection, while clients go on       *)
(* changing the local mailboxes.  The queue's own protocol (status,        *)
(* attempts, backoff) is MutationQueue's; here a failed mutation is one    *)
(* that a later pass may or may not find due.                              *)
(*                                                                         *)
(* Of the flags only \Deleted is kept.                                     *)
(***************************************************************************)
EXTENDS MailboxTables

CONSTANTS
    Mailboxes,
    Messages,       \* contents, all of them in Home at first
    Home,           \* the mailbox that holds them
    Validity,       \* the upstream UIDVALIDITY of every mailbox
    Verbs,          \* the commands clients give
    Synced,         \* the mailboxes that are synced meanwhile
    MaxCommands,    \* bound on those commands
    MaxUid,         \* bound on upstream uids
    MaxFailures     \* bound on lost connections

ASSUME ReplayAssumption ==
    /\ Home \in Mailboxes /\ Synced \subseteq Mailboxes /\ IsFiniteSet(Messages)
    /\ Validity \in Nat \ {0}
    /\ Verbs \subseteq {"copy", "move", "store", "expunge"}
    /\ {MaxCommands, MaxUid, MaxFailures} \subseteq Nat

VARIABLES
    mail,           \* upstream: mail[b] holds records [uid, msg, deleted]
    upNext,         \* UIDNEXT of each upstream mailbox
    rows,           \* mailbox_messages: rows[b] holds [uid, msg, up, deleted]
    mappings,       \* uid_mappings: mappings[b] holds [uid, up, validity]
    validity,       \* mailboxes.uidvalidity: Null while a sync is under way
    queue,          \* mutations not yet replayed
    pc,             \* where the worker is
    batch,          \* ids of the mutations the pass has still to replay
    selected,       \* what the connection has selected: a mailbox or {}
    source,         \* upstream uid the mutation is about, or Null
    copied,         \* uid COPYUID gave the copy, or Null
    commands, failures,
    refused,        \* history: how many recordings were refused
    struck,         \* history: contents a replayed STORE marked \Deleted
    asked           \* history: contents whose row a client marked \Deleted

worker == <<pc, batch, selected, source, copied>>
history == <<refused, struck, asked>>
vars == <<mail, upNext, rows, mappings, validity, queue, worker, commands, failures, history>>

Ids == 1..MaxCommands
Mutations ==
    [id : Ids, verb : {"copy", "move", "store"}, box : Mailboxes, uid : Nat \ {0},
     dest : Mailboxes, to : Nat, failed : BOOLEAN]
Points == {"idle", "next", "select", "copy", "record", "mark", "expunge", "store", "finish"}

TypeOK ==
    /\ \A b \in Mailboxes :
         /\ upNext[b] \in Nat \ {0}
         /\ mail[b] \subseteq [uid : 1..(upNext[b] - 1), msg : Messages, deleted : BOOLEAN]
         /\ rows[b] \subseteq [uid : Nat \ {0}, msg : Messages, up : Nat, deleted : BOOLEAN]
         /\ mappings[b] \subseteq [uid : Nat \ {0}, up : Nat \ {0}, validity : {1, Validity}]
         /\ validity[b] \in {Null, Validity}
         /\ Keyed(rows[b]) /\ Keyed(mappings[b])
    /\ queue \subseteq Mutations
    /\ \A m, n \in queue : m.id = n.id => m = n
    /\ pc \in Points
    /\ batch \subseteq {m.id : m \in queue}
    /\ selected \subseteq Mailboxes /\ Cardinality(selected) <= 1
    /\ source \in Nat /\ copied \in Nat
    /\ commands \in 0..MaxCommands /\ failures \in 0..MaxFailures
    /\ refused \in Nat /\ struck \subseteq Messages /\ asked \subseteq Messages

-----------------------------------------------------------------------------
(* mailbox_uidvalidity *)
MailboxValidity(b) == IF validity[b] = Null THEN 1 ELSE validity[b]

(* A first sync has copied Home: its rows carry the upstream uids, and,    *)
(* since mailboxes.uidvalidity was still NULL then, its mappings carry     *)
(* UIDVALIDITY 1.                                                          *)
Init ==
    /\ \E order \in [Messages -> 1..Cardinality(Messages)] :
         /\ \A m, n \in Messages : order[m] = order[n] => m = n
         /\ mail = [b \in Mailboxes |-> IF b # Home THEN {} ELSE
                       {[uid |-> order[m], msg |-> m, deleted |-> FALSE] : m \in Messages}]
         /\ rows = [b \in Mailboxes |-> IF b # Home THEN {} ELSE
                       {[uid |-> order[m], msg |-> m, up |-> order[m], deleted |-> FALSE] :
                            m \in Messages}]
         /\ mappings = [b \in Mailboxes |-> IF b # Home THEN {} ELSE
                       {[uid |-> order[m], up |-> order[m], validity |-> 1] : m \in Messages}]
    /\ upNext = [b \in Mailboxes |-> IF b # Home THEN 1 ELSE Cardinality(Messages) + 1]
    /\ validity = [b \in Mailboxes |-> Validity]
    /\ queue = {}
    /\ pc = "idle" /\ batch = {} /\ selected = {} /\ source = Null /\ copied = Null
    /\ commands = 0 /\ failures = 0
    /\ refused = 0 /\ struck = {} /\ asked = {}

-----------------------------------------------------------------------------
(* Clients.  The commands change the local rows and queue a mutation. *)
Command(verb) ==
    /\ verb \in Verbs /\ commands < MaxCommands
    /\ commands' = commands + 1
    /\ UNCHANGED <<mail, upNext, mappings, validity, worker, failures, refused, struck>>

Enqueue(verb, b, r, d, to) ==
    queue' = queue \cup {[id |-> commands + 1, verb |-> verb, box |-> b, uid |-> r.uid,
                          dest |-> d, to |-> to, failed |-> FALSE]}

(* copy_mailbox_message: the copy's upstream uid is not yet known. *)
CopyRow(r, d) ==
    rows[d] \cup {[uid |-> NextLocalUid(rows[d]), msg |-> r.msg, up |-> Null,
                   deleted |-> r.deleted]}

ClientCopy(b, r, d) ==
    /\ Command("copy")
    /\ rows' = [rows EXCEPT ![d] = CopyRow(r, d)]
    /\ Enqueue("copy", b, r, d, NextLocalUid(rows[d]))
    /\ UNCHANGED asked

(* MOVE also deletes the source row; its mapping stays. *)
ClientMove(b, r, d) ==
    /\ Command("move")
    /\ rows' = [[rows EXCEPT ![d] = CopyRow(r, d)] EXCEPT ![b] = @ \ {r}]
    /\ Enqueue("move", b, r, d, NextLocalUid(rows[d]))
    /\ UNCHANGED asked

ClientStore(b, r) ==
    /\ Command("store") /\ ~r.deleted
    /\ rows' = [rows EXCEPT ![b] = Put(@, [r EXCEPT !.deleted = TRUE])]
    /\ Enqueue("store", b, r, b, Null)
    /\ asked' = asked \cup {r.msg}

(* EXPUNGE is not queued. *)
ClientExpunge(b, r) ==
    /\ Command("expunge") /\ r.deleted
    /\ rows' = [rows EXCEPT ![b] = @ \ {r}]
    /\ UNCHANGED <<queue, asked>>

(* While a sync of b is under way its uidvalidity is NULL. *)
SyncWindow(b) ==
    /\ validity' = [validity EXCEPT ![b] = IF @ = Null THEN Validity ELSE Null]
    /\ UNCHANGED <<mail, upNext, rows, mappings, queue, worker, commands, failures, history>>

(* The sync files a message it has not met before under its upstream uid   *)
(* (see MailboxSync).                                                      *)
SyncIngest(b, x) ==
    /\ validity[b] = Null
    /\ WithUp(mappings[b], x.uid) = {} /\ ~Refused(rows[b], [uid |-> x.uid, up |-> x.uid])
    /\ rows' = [rows EXCEPT ![b] = Put(@, [uid |-> x.uid, msg |-> x.msg, up |-> x.uid,
                                           deleted |-> x.deleted])]
    /\ mappings' = [mappings EXCEPT ![b] = Put(@, [uid |-> x.uid, up |-> x.uid,
                                                   validity |-> MailboxValidity(b)])]
    /\ UNCHANGED <<mail, upNext, validity, queue, worker, commands, failures, history>>

-----------------------------------------------------------------------------
(* The worker.  A pass opens a connection and lists the due mutations;     *)
(* those that failed before may still be backing off.                      *)
BeginPass ==
    /\ pc = "idle"
    /\ \E due \in SUBSET queue :
         /\ due # {} /\ \A m \in queue : m.failed \/ m \in due
         /\ batch' = {m.id : m \in due}
    /\ pc' = "next"
    /\ UNCHANGED <<mail, upNext, rows, mappings, validity, queue, selected, source, copied, commands,
                   failures, history>>

Current(m) == m \in queue /\ batch # {} /\ m.id = Min(batch)

EndPass == pc' = "idle" /\ batch' = {} /\ selected' = {} /\ source' = Null /\ copied' = Null

(* The error leaves flush_pending_mutations, and with it the connection.   *)
Fail(m) ==
    /\ EndPass
    /\ queue' = (queue \ {m}) \cup {[m EXCEPT !.failed = TRUE]}

(* upstream_uid_for_mailbox_message: the row's upstream uid, or, when the  *)
(* row is gone, that of a mapping of the mailbox's UIDVALIDITY.            *)
Lookup(b, uid) ==
    IF uid \in UidsOf(rows[b])
    THEN {r.up : r \in {r \in rows[b] : r.uid = uid}}
    ELSE {r.up : r \in {r \in mappings[b] : r.uid = uid /\ r.validity = MailboxValidity(b)}}

(* The next mutation: for COPY and MOVE the source is looked up.           *)
Take(m) ==
    /\ pc = "next" /\ Current(m)
    /\ IF m.verb = "store"
       THEN pc' = "store" /\ UNCHANGED <<queue, batch, selected, source, copied>>
       ELSE IF Lookup(m.box, m.uid) \in {{}, {Null}}
            THEN Fail(m)
            ELSE /\ source' \in Lookup(m.box, m.uid)
                 /\ pc' = "select"
                 /\ UNCHANGED <<queue, batch, selected, copied>>
    /\ UNCHANGED <<mail, upNext, rows, mappings, validity, commands, failures, history>>

(* Mutation of AfterSelect: MOVE deletes before it copies. *)
DeleteFirst(m) == IF m.verb = "move" THEN "mark" ELSE "copy"

AfterSelect(m) == "copy"

Select(m) ==
    /\ pc = "select" /\ Current(m)
    /\ selected' = {m.box}
    /\ pc' = AfterSelect(m)
    /\ UNCHANGED <<mail, upNext, rows, mappings, validity, queue, batch, source, copied, commands,
                   failures, history>>

(* UID COPY.  Of a message that is gone there is no COPYUID: an error. *)
Copy(m) ==
    /\ pc = "copy" /\ Current(m) /\ upNext[m.dest] <= MaxUid
    /\ LET hits == {x \in mail[m.box] : x.uid = source}
       IN  IF hits = {}
           THEN Fail(m) /\ UNCHANGED <<mail, upNext>>
           ELSE /\ mail' = [mail EXCEPT ![m.dest] =
                              @ \cup {[x EXCEPT !.uid = upNext[m.dest]] : x \in hits}]
                /\ upNext' = [upNext EXCEPT ![m.dest] = @ + 1]
                /\ copied' = upNext[m.dest]
                /\ pc' = "record"
                /\ UNCHANGED <<queue, batch, selected, source>>
    /\ UNCHANGED <<rows, mappings, validity, commands, failures, history>>

Recorded(m) ==
    /\ pc' = IF m.verb = "move" THEN "mark" ELSE "finish"
    /\ UNCHANGED <<queue, batch, selected, source, copied, refused>>

NotRecorded(m) == Fail(m) /\ refused' = refused + 1

(* set_mailbox_message_upstream_uid: the row, if it is still there, and    *)
(* then the mapping; a UNIQUE column may refuse either.                    *)
Record(m) ==
    /\ pc = "record" /\ Current(m)
    /\ LET b == m.dest
           mine == {r \in rows[b] : r.uid = m.to}
           link == [uid |-> m.to, up |-> copied, validity |-> MailboxValidity(b)]
       IN  CASE mine = {} -> Recorded(m) /\ UNCHANGED <<rows, mappings>>
             [] mine # {} /\ Refused(rows[b], link) -> NotRecorded(m) /\ UNCHANGED <<rows, mappings>>
             [] OTHER ->
                    /\ rows' = [rows EXCEPT ![b] =
                                  (@ \ mine) \cup {[r EXCEPT !.up = copied] : r \in mine}]
                    /\ IF Refused(mappings[b], link)
                       THEN NotRecorded(m) /\ UNCHANGED mappings
                       ELSE Recorded(m) /\ mappings' = [mappings EXCEPT ![b] = Put(@, link)]
    /\ UNCHANGED <<mail, upNext, validity, commands, failures, struck, asked>>

Marked(b, uid) ==
    [mail EXCEPT ![b] = {IF x.uid = uid THEN [x EXCEPT !.deleted = TRUE] ELSE x : x \in @}]

(* MOVE's UID STORE of \Deleted, and its EXPUNGE, which removes every      *)
(* message of the mailbox that is marked.                                  *)
Mark(m) ==
    /\ pc = "mark" /\ Current(m)
    /\ mail' = Marked(m.box, source)
    /\ pc' = "expunge"
    /\ UNCHANGED <<upNext, rows, mappings, validity, queue, batch, selected, source, copied, commands,
                   failures, history>>

Expunge(m) ==
    /\ pc = "expunge" /\ Current(m)
    /\ mail' = [mail EXCEPT ![m.box] = {x \in @ : ~x.deleted}]
    /\ pc' = "finish"
    /\ UNCHANGED <<upNext, rows, mappings, validity, queue, batch, selected, source, copied, commands,
                   failures, history>>

(* apply_flag_update: UID STORE with the local uid, in whatever mailbox    *)
(* the connection has selected.  With none selected the server refuses.    *)
Store(m) ==
    /\ pc = "store" /\ Current(m)
    /\ IF selected = {}
       THEN Fail(m) /\ UNCHANGED <<mail, upNext, struck>>
       ELSE \E b \in selected :
              /\ mail' = Marked(b, m.uid)
              /\ struck' = struck \cup {x.msg : x \in {x \in mail[b] : x.uid = m.uid}}
              /\ pc' = "finish"
              /\ UNCHANGED <<upNext, queue, batch, selected, source, copied>>
    /\ UNCHANGED <<rows, mappings, validity, commands, failures, refused, asked>>

(* Mutation of Finish: the mutation stays in the queue. *)
FinishUnmarked(m) ==
    /\ pc = "finish" /\ Current(m)
    /\ EndPass
    /\ UNCHANGED <<mail, upNext, rows, mappings, validity, queue, commands, failures, history>>

(* The mutation succeeded; the pass goes on with the next or ends. *)
Finish(m) ==
    /\ pc = "finish" /\ Current(m)
    /\ queue' = queue \ {m}
    /\ IF batch = {m.id}
       THEN EndPass
       ELSE /\ batch' = batch \ {m.id} /\ pc' = "next"
            /\ source' = Null /\ copied' = Null
            /\ UNCHANGED selected
    /\ UNCHANGED <<mail, upNext, rows, mappings, validity, commands, failures, history>>

(* The connection is lost, before the server gets the command or before    *)
(* its answer arrives.                                                     *)
Disconnect(m) ==
    /\ Current(m) /\ failures < MaxFailures
    /\ \/ pc \in {"select", "copy", "record", "mark", "expunge", "store"}
       \/ pc = "finish" /\ m.verb # "copy"
    /\ failures' = failures + 1
    /\ Fail(m)
    /\ UNCHANGED <<mail, upNext, rows, mappings, validity, commands, history>>

-----------------------------------------------------------------------------
Client ==
    \E b \in Mailboxes : \E r \in rows[b] :
        \/ \E d \in Mailboxes : ClientCopy(b, r, d) \/ ClientMove(b, r, d)
        \/ ClientStore(b, r) \/ ClientExpunge(b, r)

Work ==
    \/ BeginPass
    \/ \E m \in queue :
         \/ Take(m) \/ Select(m) \/ Copy(m) \/ Record(m) \/ Mark(m) \/ Expunge(m)
         \/ Store(m) \/ Finish(m)

Loss == \E m \in queue : Disconnect(m)

Sync == \E b \in Synced : SyncWindow(b) \/ \E x \in mail[b] : SyncIngest(b, x)

Next == Client \/ Work \/ Loss \/ Sync

Spec == Init /\ [][Next]_vars

(* The worker's timer fires again and again, and backoff ends: a mutation  *)
(* that keeps waiting is listed again.                                     *)
Listed(i) == BeginPass /\ i \in batch'

FairSpec == Spec /\ WF_vars(Work) /\ \A i \in Ids : SF_vars(Listed(i))

-----------------------------------------------------------------------------
(* Replaying MOVE as COPY, UID STORE and EXPUNGE never loses a message,    *)
(* wherever the connection breaks: each content is still in some upstream  *)
(* mailbox, unless a replayed STORE had marked it \Deleted.                *)
MoveNeverLoses ==
    \A c \in Messages : c \in struck \/ \E b \in Mailboxes : \E x \in mail[b] : x.msg = c

(* Only a lost connection or a refused recording duplicates a message      *)
(* upstream: there are no more copies than the clients asked for, and one  *)
(* for each such failure of a replay that had already copied.              *)
CopiesBounded ==
    MapThenSumSet(LAMBDA b : Cardinality(mail[b]), Mailboxes)
        <= Cardinality(Messages) + commands + failures + refused

(* A replayed STORE marks only messages that a client marked. *)
StruckAsAsked == struck \subseteq asked

(* Every mutation is replayed in the end. *)
QueueDrains == []<>(queue = {})
=============================================================================
