--------------------------- MODULE MailboxCommands ---------------------------
(***************************************************************************)
(* The commands of several sessions that change the messages of an         *)
(* account: STORE, EXPUNGE, COPY, MOVE and their UID forms, CLOSE and      *)
(* APPEND, transaction by transaction.                                     *)
(*                                                                         *)
(* A command lists its messages once and then handles them one by one, in  *)
(* transactions of their own.  The transactions lock rows of PostgreSQL    *)
(* tables: an update or an insert locks the mailbox first (FOR UPDATE),    *)
(* the deletion of a message locks the message first and the mailbox then. *)
(* A statement reads what is committed when it starts.  An error, among    *)
(* them that of a deadlock's victim, ends the command and its connection.  *)
(*                                                                         *)
(* Beside them a sync of the account writes the rows of the mailboxes:     *)
(* highestmodseq and exists_count, which the commands rely on.  What it    *)
(* does to their messages is in MailboxSync.                               *)
(***************************************************************************)
EXTENDS Integers, Sequences, FiniteSetsExt

CONSTANTS
    Sessions,
    Boxes,          \* mailboxes of the account, none of them read-only
    Messages,       \* contents
    Workloads,      \* which session gives which command, what a sync finds due, and
                    \* how many statements may fail for other reasons
    FirstRows,      \* the messages to begin with
    Reported        \* what the upstream server may say of a mailbox: numbers

Flags == {"Seen", "Deleted"}
Storing == {"STORE", "UID STORE"}
Copying == {"COPY", "MOVE"}
Expunging == {"EXPUNGE", "EXPUNGE set", "UID EXPUNGE", "CLOSE"}

Commands ==
    [verb : Storing, box : Boxes, op : {"+", "-"}, flag : Flags]
        \cup [verb : Copying, box : Boxes, to : Boxes]
        \cup [verb : Expunging, box : Boxes]
        \cup [verb : {"APPEND"}, box : Boxes, msg : Messages]

(* A row of mailbox_messages, and what a command keeps of it. *)
Row == [box : Boxes, uid : Nat \ {0}, msg : Messages, flags : SUBSET Flags,
        base : SUBSET Flags, wanted : SUBSET Flags]
Item == [uid : Nat \ {0}, msg : Messages, flags : SUBSET Flags]

ASSUME CommandsAssumption ==
    /\ Workloads \subseteq [cmd : [Sessions -> Commands], due : SUBSET Boxes, breaks : Nat]
    /\ Reported \subseteq Nat
    /\ FirstRows \subseteq Row /\ IsFiniteSet(FirstRows)
    /\ \A r \in FirstRows : r.flags = r.base /\ r.flags = r.wanted
    /\ \A r, q \in FirstRows : r.box = q.box /\ r.uid = q.uid => r = q

VARIABLES
    rows,       \* table mailbox_messages, with the flags a message had at
                \* first (base) and those its STOREs asked for (wanted)
    highest,    \* mailboxes.highestmodseq
    stored,     \* mailboxes.exists_count
    queue,      \* the idempotency keys in pending_mutations
    sent,       \* those of them that are the last for their message
    cmd,        \* the command of each session
    me,         \* where each session is in it, and its local variables
    sync,       \* where the sync of each mailbox is, and what it counted
    due,        \* the mailboxes it has still to sync
    breaks,     \* failures that may still happen
    struck,     \* history: messages an EXPUNGE or a CLOSE listed
    reused,     \* history: <<mailbox, uid>> given to a second message
    misled,     \* history: <<session, uid>> that the session had listed by then
    mistaken,   \* history: messages deleted in place of another
    top,        \* history: the largest uid ever given, by mailbox
    mixed,      \* history: <<mailbox, uid>> of overlapping STOREs
    stale       \* history: mailboxes whose stored count was overtaken

boxes == <<highest, stored>>
queued == <<queue, sent>>
syncing == <<sync, due>>
history == <<struck, reused, misled, mistaken, top, mixed, stale>>
vars == <<rows, boxes, queued, cmd, me, syncing, breaks, history>>

Points == {"idle", "each", "update", "queue", "lock", "insert", "copied", "find", "delete",
           "refresh", "write", "rest", "done", "failed"}

(* A row on its way into a table, with less or more of it decided. *)
Drafts ==
    [modseq : Nat]
        \cup [box : Boxes, msg : Messages, flags : SUBSET Flags]
        \cup [box : Boxes, msg : Messages, flags : SUBSET Flags, uid : Nat \ {0}, modseq : Nat]

Locals == [pc : Points, listed : Seq(Item), todo : Seq(Item), new : Drafts,
           fresh : Seq(Boxes), count : Nat]

(* The tables and the variables of a session have the shape of the code's, *)
(* and (mailbox_id, local_uid) is UNIQUE.                                  *)
TypeOK ==
    /\ rows \subseteq Row /\ IsFiniteSet(rows)
    /\ \A r, q \in rows : r.box = q.box /\ r.uid = q.uid => r = q
    /\ highest \in [Boxes -> Nat] /\ stored \in [Boxes -> Nat] /\ top \in [Boxes -> Nat]
    /\ cmd \in [Sessions -> Commands]
    /\ me \in [Sessions -> Locals]

-----------------------------------------------------------------------------
In(b) == {r \in rows : r.box = b}
Has(b, u) == \E r \in In(b) : r.uid = u
RowAt(b, u) == CHOOSE r \in In(b) : r.uid = u

Target(s) == Head(me[s].todo)
Box(s) == cmd[s].box
Verb(s) == cmd[s].verb
At(s, point) == me[s].pc = point
Active(s) == me[s].pc \notin {"idle", "done", "failed"}

Unset == [modseq |-> 0]

(* A session outside its command has no local variables. *)
Outside(point) == [pc |-> point, listed |-> <<>>, todo |-> <<>>, new |-> Unset,
                   fresh |-> <<>>, count |-> 0]
Become(s, m) == me' = [me EXCEPT ![s] = m]
Goto(s, point) == Become(s, [me[s] EXCEPT !.pc = point])
End(s, point) == Become(s, Outside(point))

(* No sync of the mailbox is under way. *)
Resting == [pc |-> "rest", count |-> 0]

(* The loop over the targets goes on with the next one, or is over. *)
NextTarget(s) ==
    LET todo == Tail(me[s].todo)
    IN  Become(s, [me[s] EXCEPT !.todo = todo, !.new = Unset,
                                !.pc = IF todo = <<>> THEN "refresh" ELSE "each"])

(* Mutation of BoxFree: the mailbox is read without FOR UPDATE. *)
BoxReadable(b) == TRUE

(* SELECT ... FROM mailboxes FOR UPDATE does not wait: no transaction      *)
(* between its statements holds the mailbox.                               *)
BoxFree(b) ==
    \A t \in Sessions : /\ At(t, "update") => Box(t) # b
                        /\ At(t, "insert") => me[t].new.box # b

(* The message is not locked by a deletion that waits for the mailbox. *)
RowFree(b, u) ==
    \A t \in Sessions : At(t, "delete") => <<Box(t), Target(t).uid>> # <<b, u>>

(* assign_mailbox_modseq without a requested value: one more than the      *)
(* mailbox has.                                                            *)
AssignModseq(b) == highest[b] + 1

(* Mutation of NextUid: COUNT for MAX. *)
NextUidCounted(b) == Cardinality(In(b)) + 1

(* assign_mailbox_local_uid: one more than the largest uid that is left. *)
NextUid(b) == Max({r.uid : r \in In(b)} \cup {0}) + 1

(* apply_store_flags for a request of one flag. *)
Apply(flags, c) == IF c.op = "+" THEN flags \cup {c.flag} ELSE flags \ {c.flag}

Deleted(S) == {r \in S : "Deleted" \in r.flags}

(* Mutation of Listed: the messages as they were when the mailbox was      *)
(* selected.                                                               *)
ListedCached(c) ==
    CASE c.verb \in {"EXPUNGE", "CLOSE"} -> {Deleted(In(c.box))}
      [] c.verb = "UID EXPUNGE" -> SUBSET Deleted(In(c.box))
      [] c.verb = "APPEND" -> {{}}
      [] OTHER -> SUBSET {r \in FirstRows : r.box = c.box}

(* What a command may find: parse_number_set turns its set into any part   *)
(* of the mailbox, EXPUNGE and CLOSE take the messages marked \Deleted,    *)
(* and EXPUNGE with a set takes the set.                                   *)
Listed(c) ==
    CASE c.verb \in {"EXPUNGE", "CLOSE"} -> {Deleted(In(c.box))}
      [] c.verb = "UID EXPUNGE" -> SUBSET Deleted(In(c.box))
      [] c.verb = "APPEND" -> {{}}
      [] OTHER -> SUBSET In(c.box)

(* The messages a command keeps of what it read, by uid; EXPUNGE goes from *)
(* the last to the first.  There is one such sequence.                     *)
Turns(c, S) ==
    LET read == {[uid |-> r.uid, msg |-> r.msg, flags |-> r.flags] : r \in S}
        down == c.verb \in Expunging \ {"CLOSE"}
    IN  {q \in [1..Cardinality(S) -> read] : \A i, j \in 1..Cardinality(S) :
            i < j => IF down THEN q[i].uid > q[j].uid ELSE q[i].uid < q[j].uid}

(* Mutation of Refreshed: COPY and MOVE refresh only the mailbox they read. *)
RefreshedSource(c) == <<c.box>>

(* The mailboxes whose counts a command refreshes at its end. *)
Refreshed(c) == IF c.verb \in Copying THEN <<c.box, c.to>> ELSE <<c.box>>

Init ==
    /\ rows = FirstRows
    /\ highest = [b \in Boxes |-> Cardinality(In(b))]
    /\ stored = [b \in Boxes |-> Cardinality(In(b))]
    /\ queue = {} /\ sent = {}
    /\ \E w \in Workloads : cmd = w.cmd /\ due = w.due /\ breaks = w.breaks
    /\ me = [s \in Sessions |-> Outside("idle")]
    /\ sync = [b \in Boxes |-> Resting]
    /\ struck = {} /\ reused = {} /\ misled = {} /\ mistaken = {} /\ mixed = {} /\ stale = {}
    /\ top = [b \in Boxes |-> Max({r.uid : r \in In(b)} \cup {0})]

-----------------------------------------------------------------------------
(* The uids of S that another STORE, still under way, has listed as well. *)
Overlaps(s, S) ==
    {<<Box(s), r.uid>> : r \in {q \in S : \E t \in Sessions \ {s} :
        /\ Active(t) /\ Verb(t) \in Storing /\ Box(t) = Box(s)
        /\ \E x \in Range(me[t].listed) : x.uid = q.uid}}

(* What a transaction knows of a row before it has its uid and modseq. *)
NewRow(b, msg, flags) == [box |-> b, msg |-> msg, flags |-> flags]

(* The command finds its mailboxes and lists its messages in one           *)
(* statement.  APPEND has a message and no uid for it.                     *)
Begin(s) ==
    /\ At(s, "idle")
    /\ LET c == cmd[s] IN \E S \in Listed(c) : \E turns \in Turns(c, S) :
        /\ struck' = IF c.verb \in Expunging THEN struck \cup {r.msg : r \in S} ELSE struck
        /\ mixed' = IF c.verb \in Storing THEN mixed \cup Overlaps(s, S) ELSE mixed
        /\ Become(s, [me[s] EXCEPT
              !.pc = IF c.verb = "APPEND" THEN "lock"
                    ELSE IF turns = <<>> THEN "refresh" ELSE "each",
              !.listed = IF c.verb \in Storing THEN turns ELSE <<>>,
              !.todo = turns,
              !.new = IF c.verb = "APPEND" THEN NewRow(c.box, c.msg, {}) ELSE @,
              !.fresh = Refreshed(c)])
    /\ UNCHANGED <<rows, boxes, queued, cmd, syncing, breaks, reused, misled, mistaken, top, stale>>

(* update_mailbox_message_flags: the mailbox is locked and the modseq      *)
(* chosen.                                                                 *)
UpdateLock(s) ==
    /\ At(s, "each") /\ Verb(s) \in Storing /\ BoxFree(Box(s))
    /\ Become(s, [me[s] EXCEPT !.pc = "update", !.new = [modseq |-> AssignModseq(Box(s))]])
    /\ UNCHANGED <<rows, boxes, queued, cmd, syncing, breaks, history>>

(* Mutation of UpdateRow: the update waits for a message to update. *)
UpdateRowPresent(s) ==
    /\ At(s, "update") /\ RowFree(Box(s), Target(s).uid)
    /\ \E r \in In(Box(s)) :
          /\ r.uid = Target(s).uid
          /\ rows' = (rows \ {r}) \cup {[r EXCEPT !.flags = Apply(Target(s).flags, cmd[s]),
                                                !.wanted = Apply(@, cmd[s])]}
    /\ highest' = [highest EXCEPT ![Box(s)] = me[s].new.modseq]
    /\ IF Verb(s) = "STORE" THEN Goto(s, "queue") ELSE NextTarget(s)
    /\ UNCHANGED <<stored, queued, cmd, syncing, breaks, history>>

(* The message is updated, if it is there, and all is committed.  STORE    *)
(* queues the update at once.                                              *)
UpdateRow(s) ==
    /\ At(s, "update") /\ RowFree(Box(s), Target(s).uid)
    /\ rows' = {IF <<r.box, r.uid>> = <<Box(s), Target(s).uid>>
                THEN [r EXCEPT !.flags = Apply(Target(s).flags, cmd[s]),
                               !.wanted = Apply(@, cmd[s])]
                ELSE r : r \in rows}
    /\ highest' = [highest EXCEPT ![Box(s)] = me[s].new.modseq]
    /\ IF Verb(s) = "STORE" THEN Goto(s, "queue") ELSE NextTarget(s)
    /\ UNCHANGED <<stored, queued, cmd, syncing, breaks, history>>

(* enqueue_mutation: a key that is in the table already is an error. *)
Enqueue(s, key, next) ==
    IF key \in queue
    THEN End(s, "failed") /\ UNCHANGED queued
    ELSE /\ queue' = queue \cup {key}
         /\ sent' = {k \in sent : <<k.verb, k.box, k.uid>> # <<key.verb, key.box, key.uid>>} \cup {key}
         /\ next

(* The payload of a flag update: the uid and the flags it was given. *)
FlagKey(s) == [verb |-> "flags", box |-> Box(s), uid |-> Target(s).uid,
               flags |-> Apply(Target(s).flags, cmd[s])]

(* Mutation of QueueFlags: the flags that were listed are queued. *)
QueueFlagsListed(s) ==
    /\ At(s, "queue")
    /\ Enqueue(s, [FlagKey(s) EXCEPT !.flags = Target(s).flags], NextTarget(s))
    /\ UNCHANGED <<rows, boxes, cmd, syncing, breaks, history>>

QueueFlags(s) ==
    /\ At(s, "queue")
    /\ Enqueue(s, FlagKey(s), NextTarget(s))
    /\ UNCHANGED <<rows, boxes, cmd, syncing, breaks, history>>

-----------------------------------------------------------------------------
(* What follows the copy of a message: MOVE deletes the message. *)
AfterCopy(s) == IF Verb(s) = "MOVE" THEN Goto(s, "find") ELSE NextTarget(s)

(* copy_mailbox_message reads its source without a lock.  A message that   *)
(* is gone is not copied; MOVE deletes its uid all the same.               *)
CopyRead(s) ==
    /\ At(s, "each") /\ Verb(s) \in Copying
    /\ IF Has(Box(s), Target(s).uid)
       THEN LET r == RowAt(Box(s), Target(s).uid)
            IN  Become(s, [me[s] EXCEPT !.pc = "lock", !.new = NewRow(cmd[s].to, r.msg, r.flags)])
       ELSE AfterCopy(s)
    /\ UNCHANGED <<rows, boxes, queued, cmd, syncing, breaks, history>>

(* The destination, or the mailbox of an APPEND, is locked; uid and modseq *)
(* are chosen.                                                             *)
Lock(s) ==
    LET n == me[s].new IN
    /\ At(s, "lock") /\ BoxFree(n.box)
    /\ Become(s, [me[s] EXCEPT !.pc = "insert",
                               !.new = [box |-> n.box, msg |-> n.msg, flags |-> n.flags,
                                        uid |-> NextUid(n.box), modseq |-> AssignModseq(n.box)]])
    /\ UNCHANGED <<rows, boxes, queued, cmd, syncing, breaks, history>>

(* The sessions that have still to handle the uid of the new row n, which  *)
(* was another message's when they listed it.                              *)
Surprised(n) ==
    {<<t, n.uid>> : t \in {t \in Sessions : /\ Box(t) = n.box
                                           /\ \E x \in Range(me[t].todo) : x.uid = n.uid}}

(* Mutation of Insert: the transaction is dropped without its commit. *)
InsertUncommitted(s) ==
    /\ At(s, "insert")
    /\ Goto(s, IF Verb(s) = "APPEND" THEN "refresh" ELSE "copied")
    /\ UNCHANGED <<rows, boxes, queued, cmd, syncing, breaks, history>>

(* The row is inserted, and all is committed.  A row with the same uid     *)
(* would be replaced by an APPEND and refuse a COPY: see NothingVanishes.  *)
Insert(s) ==
    LET n == me[s].new IN
    /\ At(s, "insert")
    /\ rows' = {r \in rows : <<r.box, r.uid>> # <<n.box, n.uid>>}
                  \cup {[box |-> n.box, uid |-> n.uid, msg |-> n.msg, flags |-> n.flags,
                         base |-> n.flags, wanted |-> n.flags]}
    /\ highest' = [highest EXCEPT ![n.box] = n.modseq]
    /\ reused' = IF n.uid <= top[n.box] THEN reused \cup {<<n.box, n.uid>>} ELSE reused
    /\ misled' = misled \cup Surprised(n)
    /\ top' = [top EXCEPT ![n.box] = Max({@, n.uid})]
    /\ Goto(s, IF Verb(s) = "APPEND" THEN "refresh" ELSE "copied")
    /\ UNCHANGED <<stored, queued, cmd, syncing, breaks, struck, mistaken, mixed, stale>>

(* COPY and MOVE queue the copy under both uids, with the flags listed. *)
QueueCopy(s) ==
    /\ At(s, "copied")
    /\ Enqueue(s, [verb |-> Verb(s), box |-> Box(s), uid |-> Target(s).uid,
                   to |-> me[s].new.box, copy |-> me[s].new.uid, flags |-> Target(s).flags],
               AfterCopy(s))
    /\ UNCHANGED <<rows, boxes, cmd, syncing, breaks, history>>

(* delete_mailbox_message: the message is locked (FOR UPDATE), or gone.    *)
DeleteFind(s) ==
    /\ At(s, "find") \/ (At(s, "each") /\ Verb(s) \in Expunging)
    /\ IF Has(Box(s), Target(s).uid)
       THEN RowFree(Box(s), Target(s).uid) /\ Goto(s, "delete")
       ELSE NextTarget(s)
    /\ UNCHANGED <<rows, boxes, queued, cmd, syncing, breaks, history>>

(* Then the mailbox is locked for its modseq, and the message deleted. *)
DeleteRow(s) ==
    LET r == RowAt(Box(s), Target(s).uid) IN
    /\ At(s, "delete") /\ BoxFree(Box(s))
    /\ rows' = rows \ {r}
    /\ mistaken' = IF <<s, r.uid>> \in misled THEN mistaken \cup {r.msg} ELSE mistaken
    /\ highest' = [highest EXCEPT ![Box(s)] = AssignModseq(Box(s))]
    /\ NextTarget(s)
    /\ UNCHANGED <<stored, queued, cmd, syncing, breaks, struck, reused, misled, top, mixed, stale>>

-----------------------------------------------------------------------------
(* The mailbox gets n as its exists_count, which may not be its number of  *)
(* messages.                                                               *)
Store(b, n) ==
    /\ stored' = [stored EXCEPT ![b] = n]
    /\ stale' = IF n = Cardinality(In(b)) THEN stale \ {b} ELSE stale \cup {b}

(* refresh_mailbox_counts is one UPDATE whose subselects read what was     *)
(* committed when it started, although it may then wait for the mailbox.   *)
RefreshCount(s) ==
    /\ At(s, "refresh")
    /\ Become(s, [me[s] EXCEPT !.pc = "write", !.count = Cardinality(In(Head(me[s].fresh)))])
    /\ UNCHANGED <<rows, boxes, queued, cmd, syncing, breaks, history>>

(* A command is done with its last refresh, except for a UID STORE and an  *)
(* APPEND, which queue what they did then.                                 *)
RefreshWrite(s) ==
    LET b == Head(me[s].fresh)
        left == Tail(me[s].fresh)
    IN
    /\ At(s, "write") /\ BoxFree(b)
    /\ Store(b, me[s].count)
    /\ IF left = <<>> /\ ~(Verb(s) = "APPEND" \/ (Verb(s) = "UID STORE" /\ me[s].listed # <<>>))
       THEN End(s, "done")
       ELSE Become(s, [me[s] EXCEPT !.pc = IF left = <<>> THEN "rest" ELSE "refresh",
                                    !.fresh = left, !.count = 0, !.todo = me[s].listed])
    /\ UNCHANGED <<rows, highest, queued, cmd, syncing, breaks, struck, reused, misled, mistaken, top,
                   mixed>>

(* UID STORE queues its updates, and APPEND its message, at the end. *)
QueueRest(s) ==
    /\ At(s, "rest")
    /\ IF Verb(s) = "APPEND"
       THEN Enqueue(s, [verb |-> "APPEND", box |-> Box(s), uid |-> me[s].new.uid,
                        msg |-> me[s].new.msg], End(s, "done"))
       ELSE Enqueue(s, FlagKey(s), IF Tail(me[s].todo) = <<>> THEN End(s, "done")
                                   ELSE Become(s, [me[s] EXCEPT !.todo = Tail(@)]))
    /\ UNCHANGED <<rows, boxes, cmd, syncing, breaks, history>>

(* PostgreSQL finds that s, which has the mailbox, waits for the message   *)
(* that t has, and t for the mailbox, and rolls one of them back.          *)
Deadlock(s, t) ==
    /\ At(s, "update") /\ At(t, "delete")
    /\ Box(s) = Box(t) /\ Target(s).uid = Target(t).uid
    /\ \E victim \in {s, t} : End(victim, "failed")
    /\ UNCHANGED <<rows, boxes, queued, cmd, syncing, breaks, history>>

(* A statement fails: its transaction is rolled back and the command ends. *)
Break(s) ==
    /\ Active(s) /\ breaks > 0
    /\ breaks' = breaks - 1
    /\ End(s, "failed")
    /\ UNCHANGED <<rows, boxes, queued, cmd, syncing, history>>

-----------------------------------------------------------------------------
(* The sync of mailbox b goes on to a point. *)
SyncAt(b, point) == sync[b].pc = point
SyncGoto(b, point, n) == sync' = [sync EXCEPT ![b] = [pc |-> point, count |-> n]]

(* What no step of the sync touches. *)
others == <<rows, queued, cmd, me, breaks, struck, reused, misled, mistaken, top, mixed>>

(* sync_account takes its mailboxes one by one.  It upserts the row        *)
(* without a HIGHESTMODSEQ and with no messages, whatever the row says: a  *)
(* NULL counts as 0.                                                       *)
SyncUpsert(b) ==
    /\ b \in due /\ \A c \in Boxes : SyncAt(c, "rest")
    /\ BoxFree(b)
    /\ due' = due \ {b}
    /\ highest' = [highest EXCEPT ![b] = 0]
    /\ Store(b, 0)
    /\ SyncGoto(b, "upserted", 0)
    /\ UNCHANGED others

(* update_mailbox_sync_metadata: the row says what upstream reported, and  *)
(* what it said before where upstream reported nothing.                    *)
SyncDescribe(b) ==
    /\ SyncAt(b, "upserted") /\ BoxFree(b)
    /\ \E m \in Reported \cup {highest[b]}, n \in Reported \cup {stored[b]} :
          highest' = [highest EXCEPT ![b] = m] /\ Store(b, n)
    /\ SyncGoto(b, "described", 0)
    /\ UNCHANGED <<others, due>>

(* The sync ends with refresh_mailbox_counts. *)
SyncCount(b) ==
    /\ SyncAt(b, "described")
    /\ SyncGoto(b, "counted", Cardinality(In(b)))
    /\ UNCHANGED <<others, boxes, stale, due>>

SyncWrite(b) ==
    /\ SyncAt(b, "counted") /\ BoxFree(b)
    /\ Store(b, sync[b].count)
    /\ SyncGoto(b, "rest", 0)
    /\ UNCHANGED <<others, highest, due>>

(* The upstream server or a statement fails, and the sync is over. *)
SyncFail(b) ==
    /\ ~SyncAt(b, "rest")
    /\ SyncGoto(b, "rest", 0)
    /\ due' = {}
    /\ UNCHANGED <<others, boxes, stale>>

Sync(b) == SyncUpsert(b) \/ SyncDescribe(b) \/ SyncCount(b) \/ SyncWrite(b) \/ SyncFail(b)

-----------------------------------------------------------------------------
Act(s) ==
    \/ Begin(s) \/ UpdateLock(s) \/ UpdateRow(s) \/ QueueFlags(s)
    \/ CopyRead(s) \/ Lock(s) \/ Insert(s) \/ QueueCopy(s)
    \/ DeleteFind(s) \/ DeleteRow(s)
    \/ RefreshCount(s) \/ RefreshWrite(s) \/ QueueRest(s)

Progress ==
    \/ \E s \in Sessions : Act(s)
    \/ \E s, t \in Sessions : Deadlock(s, t)

Next ==
    \/ Progress
    \/ \E s \in Sessions : Break(s)
    \/ \E b \in Boxes : Sync(b)

Spec == Init /\ [][Next]_vars

Quiet == \A s \in Sessions : ~Active(s)
Failed == \E s \in Sessions : At(s, "failed")
-----------------------------------------------------------------------------
(* Whatever adds, changes or removes a message of a mailbox raises         *)
(* highestmodseq in the same commit, and nothing but a sync of that        *)
(* mailbox lowers it: between two syncs no two changes have the same       *)
(* value.  Across a sync they may, which writes 0 and then what upstream   *)
(* says over the value: a client that remembers HIGHESTMODSEQ may miss     *)
(* changes then.                                                           *)
ModseqRises ==
    [][\A b \in Boxes : /\ In(b)' # In(b) => highest'[b] > highest[b]
                        /\ highest'[b] < highest[b] => sync'[b] # sync[b]]_vars

(* A message disappears from all mailboxes only if an EXPUNGE or a CLOSE   *)
(* listed it, or if it was given a uid that another command had listed for *)
(* an older message: MOVE has its copy committed before it deletes, in     *)
(* every interleaving and whatever fails.  And no new row takes the place  *)
(* of another: the mailbox is locked from the choice of a uid to the       *)
(* commit.                                                                 *)
NothingVanishes ==
    [][\A r \in rows : /\ \/ \E q \in rows' : q.msg = r.msg
                          \/ r.msg \in struck' \cup mistaken'
                       /\ \A q \in rows' : <<q.box, q.uid>> = <<r.box, r.uid>> => q.msg = r.msg]_vars

(* Flags are lost only by STOREs that overlap: otherwise a message has the *)
(* flags that its STOREs, one after the other, asked for, although each    *)
(* writes a whole list that it computed from what it read before.          *)
StoresSerial ==
    \A r \in rows : <<r.box, r.uid>> \notin mixed \cup reused => r.flags = r.wanted

(* What is queued for the upstream server ends with the flags the message  *)
(* has, unless STOREs of it overlapped or a command failed half-way.       *)
FlagsQueued ==
    Quiet /\ ~Failed =>
        \A r \in rows : <<r.box, r.uid>> \notin mixed \cup reused =>
            LET last == {k \in sent : k.verb = "flags" /\ k.box = r.box /\ k.uid = r.uid}
            IN  IF last = {} THEN r.flags = r.base ELSE \A k \in last : k.flags = r.flags

(* When the commands are over, exists_count is the number of messages,     *)
(* unless a command failed before its refresh, the last refresh counted    *)
(* before, and wrote after, a change of another session, or a sync wrote   *)
(* the count last that was not over yet or failed.                         *)
CountsFollow ==
    Quiet /\ ~Failed => \A b \in Boxes \ stale : stored[b] = Cardinality(In(b))

(* No sessions wait for each other for ever: while a command is not over,  *)
(* some session can go on or the deadlock detector finds a pair to break.  *)
(* A command takes boundedly many steps, so every command ends.            *)
CommandsGoOn == Quiet \/ ENABLED Progress
=============================================================================
