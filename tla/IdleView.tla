------------------------------- MODULE IdleView -------------------------------
(***************************************************************************)
(* A client that watches a mailbox with IDLE while sessions of this and of *)
(* other server processes append to it, expunge from it and change flags.  *)
(*                                                                         *)
(* A writer changes the table, publishes an event, and ends its command    *)
(* with refresh_mailbox_counts and a second event.  Events reach the       *)
(* watcher through the hub of its process: at once from a writer of the    *)
(* same process, and through Redis, whose relay feeds the hub, from every  *)
(* writer.  The watcher answers an event from the event and from the table *)
(* as it is by then.                                                       *)
(***************************************************************************)
EXTENDS Naturals, Sequences, SequencesExt

CONSTANTS
    Local,          \* writers in the process of the watcher
    Remote,         \* writers in other processes
    Capacity,       \* events the hub keeps for a receiver
    MaxTransit,     \* bound on what Redis holds undelivered
    MaxMessages,    \* bound on the messages ever in the mailbox
    MaxFlags        \* bound on flag changes

ASSUME IdleAssumption ==
    /\ Local \cap Remote = {}
    /\ Capacity \in Nat \ {0} /\ MaxTransit \in Nat \ {0}
    /\ MaxMessages \in Nat /\ MaxFlags \in Nat

VARIABLES
    redis,          \* is Redis configured?  never changes
    box,            \* the rows of the mailbox, by local_uid
    stored,         \* its exists_count
    newest,         \* the last message that was added
    flagged,        \* number of flag changes
    pc,             \* where each writer is
    outgoing,       \* the event it will publish
    channel,        \* what Redis has not yet delivered
    phase,          \* of the watcher: "selected", "announced" or "idle"
    backlog,        \* its receiver
    snapshot,       \* selected_mailbox_snapshot.exists_count
    view,           \* the messages the client believes in the mailbox, in order
    burst,          \* ghost: the kind of the orderly changes under way
    orderly,        \* ghost: see ViewFollows
    heard           \* ghost: has an event come in since the last change?

mailbox == <<box, stored, newest, flagged>>
ghosts == <<burst, orderly, heard>>
watcher == <<phase, backlog, snapshot, view>>
vars == <<redis, mailbox, pc, outgoing, channel, watcher, ghosts>>

Writers == Local \cup Remote
Messages == 1..MaxMessages
Kinds == {"append", "delete", "flags"}
Other == [kind |-> "other"]
Events == {Other} \cup [kind : {"flags"}, message : Messages]
                  \cup [kind : {"delete"}, message : Messages, number : Messages]

(* The state has its shape, and the hub keeps no more than its capacity. *)
TypeOK ==
    /\ redis \in BOOLEAN
    /\ box \in Seq(Messages) /\ view \in Seq(Messages)
    /\ stored \in Nat /\ snapshot \in Nat /\ newest \in 0..MaxMessages /\ flagged \in 0..MaxFlags
    /\ pc \in [Writers -> {"rest", "numbered", "committed", "published", "deleted"}]
    /\ outgoing \in [Writers -> Events]
    /\ channel \in Seq(Events) /\ backlog \in Seq(Events) /\ Len(backlog) <= Capacity
    /\ phase \in {"selected", "announced", "idle"}
    /\ burst \subseteq Kinds /\ orderly \in BOOLEAN /\ heard \in BOOLEAN

(* The client has just selected a mailbox of one message. *)
Init ==
    /\ redis \in BOOLEAN
    /\ box = <<1>> /\ stored = 1 /\ newest = 1 /\ flagged = 0
    /\ pc = [w \in Writers |-> "rest"] /\ outgoing = [w \in Writers |-> Other]
    /\ channel = <<>>
    /\ phase = "selected" /\ backlog = <<>> /\ snapshot = 1 /\ view = <<1>>
    /\ burst = {} /\ orderly = TRUE /\ heard = TRUE

-----------------------------------------------------------------------------
(* Nothing is under way but w. *)
QuietBut(w) ==
    /\ channel = <<>> /\ backlog = <<>>
    /\ \A v \in Writers \ {w} : pc[v] = "rest"

Quiet == channel = <<>> /\ backlog = <<>> /\ \A v \in Writers : pc[v] = "rest"

(* The ghosts at the commit of a change of kind k by w.  Changes are       *)
(* orderly one at a time, if they are all additions, and if they are the   *)
(* deletions of one command whose events come in once.                     *)
Witness(w, k) ==
    /\ orderly' = (/\ orderly /\ phase = "idle"
                   /\ \/ QuietBut(w) /\ heard
                      \/ k = "append" /\ burst = {"append"}
                      \/ /\ k = "delete" /\ burst = {"delete"}
                         /\ \A e \in ToSet(channel \o backlog) : e.kind = "delete"
                         /\ \A v \in Writers \ {w} : pc[v] = "rest"
                   /\ k = "delete" => ~(redis /\ w \in Local))
    /\ burst' = IF orderly' THEN {k} ELSE {}
    /\ heard' = FALSE

(* upsert_mailbox_message and copy_mailbox_message: a row after all others. *)
Add(w) ==
    /\ pc[w] = "rest" /\ newest < MaxMessages
    /\ newest' = newest + 1
    /\ box' = Append(box, newest')
    /\ pc' = [pc EXCEPT ![w] = "committed"]
    /\ outgoing' = [outgoing EXCEPT ![w] = Other]
    /\ Witness(w, "append")
    /\ UNCHANGED <<redis, stored, flagged, channel, watcher>>

(* update_mailbox_message_flags. *)
StoreFlags(w, m) ==
    /\ pc[w] = "rest" /\ m \in ToSet(box) /\ flagged < MaxFlags
    /\ flagged' = flagged + 1
    /\ pc' = [pc EXCEPT ![w] = "committed"]
    /\ outgoing' = [outgoing EXCEPT ![w] = [kind |-> "flags", message |-> m]]
    /\ Witness(w, "flags")
    /\ UNCHANGED <<redis, box, stored, newest, channel, watcher>>

(* delete_mailbox_message locks the row and counts the rows before it; the *)
(* mailbox is locked only after that.  A command may delete several.       *)
Number(w, i) ==
    /\ pc[w] \in {"rest", "deleted"}
    /\ \A v \in Writers : pc[v] = "numbered" => outgoing[v].message # box[i]
    /\ pc' = [pc EXCEPT ![w] = "numbered"]
    /\ outgoing' = [outgoing EXCEPT ![w] = [kind |-> "delete", message |-> box[i], number |-> i]]
    /\ UNCHANGED <<redis, mailbox, channel, watcher, ghosts>>

Delete(w) ==
    /\ pc[w] = "numbered"
    /\ box' = SelectSeq(box, LAMBDA m : m # outgoing[w].message)
    /\ pc' = [pc EXCEPT ![w] = "committed"]
    /\ Witness(w, "delete")
    /\ UNCHANGED <<redis, stored, newest, flagged, outgoing, channel, watcher>>

(* The receiver of the watcher, if it has one: a full one loses its oldest *)
(* event, which recv reports as Lagged and the watcher skips.              *)
Deliver(e) ==
    /\ backlog' = IF phase # "idle" THEN backlog
                  ELSE IF Len(backlog) = Capacity THEN Append(Tail(backlog), e)
                  ELSE Append(backlog, e)
    /\ orderly' = (orderly /\ (phase = "idle" => Len(backlog) < Capacity))
    /\ heard' = (heard \/ phase = "idle")

(* CompositeMutationEventSink: the hub of the writer's process, and Redis. *)
(* publish_event logs the error of a publication and goes on.              *)
Send(w, e) ==
    /\ Len(channel) < MaxTransit
    /\ channel' \in IF redis THEN {Append(channel, e), channel} ELSE {channel}
    /\ IF w \in Local THEN Deliver(e)
       ELSE /\ orderly' = (orderly /\ (e.kind = "delete" => channel' # channel))
            /\ UNCHANGED <<backlog, heard>>

(* publish_event. *)
Publish(w) ==
    /\ pc[w] = "committed"
    /\ pc' = [pc EXCEPT ![w] = IF outgoing[w].kind = "delete" THEN "deleted" ELSE "published"]
    /\ outgoing' = [outgoing EXCEPT ![w] = Other]
    /\ Send(w, outgoing[w])
    /\ UNCHANGED <<redis, mailbox, phase, snapshot, view, burst>>

(* refresh_mailbox_counts, at the end of the command. *)
Refresh(w) ==
    /\ pc[w] \in {"published", "deleted"}
    /\ stored' = Len(box)
    /\ pc' = [pc EXCEPT ![w] = "rest"]
    /\ Send(w, Other)
    /\ UNCHANGED <<redis, outgoing, box, newest, flagged, phase, snapshot, view, burst>>

(* An error after the commit, of the look-up of the account or of the cache *)
(* objects, or of the refresh: the command ends without the events it owes. *)
Abandon(w) ==
    /\ pc[w] \in {"committed", "published", "deleted"}
    /\ pc' = [pc EXCEPT ![w] = "rest"]
    /\ outgoing' = [outgoing EXCEPT ![w] = Other]
    /\ orderly' = (orderly /\ ~(pc[w] = "committed" /\ outgoing[w].kind = "delete"))
    /\ UNCHANGED <<redis, mailbox, channel, watcher, burst, heard>>

(* RedisMutationEventRelay, of the watcher's process. *)
Relay ==
    /\ channel # <<>>
    /\ Deliver(Head(channel))
    /\ channel' = Tail(channel)
    /\ UNCHANGED <<redis, mailbox, pc, outgoing, phase, snapshot, view, burst>>

-----------------------------------------------------------------------------
(* SELECT tells the client the stored count. *)
Select ==
    /\ phase = "selected"
    /\ snapshot' = stored
    /\ view' = SubSeq(box, 1, IF stored <= Len(box) THEN stored ELSE Len(box))
    /\ burst' = {}
    /\ orderly' = (Quiet /\ stored = Len(box))
    /\ heard' = (stored = Len(box))
    /\ UNCHANGED <<redis, mailbox, pc, outgoing, channel, phase, backlog>>

(* IDLE: "+ idling" is sent first, then the receiver is made. *)
Announce ==
    /\ phase = "selected"
    /\ phase' = "announced"
    /\ UNCHANGED <<redis, mailbox, pc, outgoing, channel, backlog, snapshot, view, ghosts>>

Subscribe ==
    /\ phase = "announced"
    /\ phase' = "idle"
    /\ UNCHANGED <<redis, mailbox, pc, outgoing, channel, backlog, snapshot, view, ghosts>>

(* DONE, or the timeout, whose BYE does not close the connection: the      *)
(* receiver is dropped with what it holds.                                 *)
Done ==
    /\ phase = "idle"
    /\ phase' = "selected"
    /\ backlog' = <<>>
    /\ orderly' = (orderly /\ Quiet)
    /\ heard' = (heard /\ backlog = <<>>)
    /\ UNCHANGED <<redis, mailbox, pc, outgoing, channel, snapshot, view, burst>>

(* What the client makes of the answers. *)
TakeExists(n) == view' = view \o SubSeq(box, Len(view) + 1, n)
TakeExpunge(k) == view' = IF k \in DOMAIN view THEN RemoveAt(view, k) ELSE view

(* Mutation of Notify: an event of a deletion leaves the count alone. *)
NotifyUncounted(e) ==
    CASE e.kind = "delete" -> TakeExpunge(e.number) /\ UNCHANGED snapshot
      [] e.kind = "flags" /\ e.message \in ToSet(box) -> snapshot' = Len(box) /\ UNCHANGED view
      [] OTHER -> /\ snapshot' = Len(box)
                  /\ CASE Len(box) > snapshot -> TakeExists(Len(box))
                       [] Len(box) < snapshot -> TakeExpunge(snapshot - Len(box))
                       [] OTHER -> UNCHANGED view

(* Mutation of Notify: only a higher count is noticed. *)
NotifyGrowth(e) ==
    CASE e.kind = "delete" -> TakeExpunge(e.number) /\ snapshot' = Len(box)
      [] e.kind = "flags" /\ e.message \in ToSet(box) -> snapshot' = Len(box) /\ UNCHANGED view
      [] OTHER -> IF Len(box) > snapshot
                  THEN snapshot' = Len(box) /\ TakeExists(Len(box))
                  ELSE UNCHANGED <<snapshot, view>>

(* idle_notification_for_event.  The flags of a message that is gone fall  *)
(* through to the comparison of the counts.                                *)
Notify(e) ==
    CASE e.kind = "delete" -> TakeExpunge(e.number) /\ snapshot' = Len(box)
      [] e.kind = "flags" /\ e.message \in ToSet(box) -> snapshot' = Len(box) /\ UNCHANGED view
      [] OTHER -> /\ snapshot' = Len(box)
                  /\ CASE Len(box) > snapshot -> TakeExists(Len(box))
                       [] Len(box) < snapshot -> TakeExpunge(snapshot - Len(box))
                       [] OTHER -> UNCHANGED view

Receive ==
    /\ phase = "idle" /\ backlog # <<>>
    /\ Notify(Head(backlog))
    /\ backlog' = Tail(backlog)
    /\ UNCHANGED <<redis, mailbox, pc, outgoing, channel, phase, ghosts>>

-----------------------------------------------------------------------------
Next ==
    \/ \E w \in Writers :
          \/ Add(w) \/ Delete(w) \/ Publish(w) \/ Refresh(w) \/ Abandon(w)
          \/ \E m \in Messages : StoreFlags(w, m)
          \/ \E i \in 1..Len(box) : Number(w, i)
    \/ Relay
    \/ Select \/ Announce \/ Subscribe \/ Done \/ Receive

Spec == Init /\ [][Next]_vars

-----------------------------------------------------------------------------
(* The answers of IDLE keep the client's sequence numbers right: whenever  *)
(* nothing is under way and an event came in after the last change, the    *)
(* client has the messages of the mailbox, in order.  It needs that changes *)
(* are made while the receiver exists, one at a time, or all additions, or *)
(* the deletions of one command; that none overflows the receiver; and,    *)
(* only for a deletion, that its event comes in, and once.  Additions and  *)
(* flag changes may be announced twice, and of an addition one event may   *)
(* be lost.                                                                *)
ViewFollows == phase = "idle" /\ Quiet /\ orderly /\ heard => view = box

(* Whatever overlaps, fails, comes in twice or is lost to a full receiver  *)
(* or to Redis: if any event came in after the last change, the session's  *)
(* count is the number of messages once its receiver is empty.             *)
CountCatchesUp == phase = "idle" /\ backlog = <<>> /\ heard => snapshot = Len(box)
=============================================================================
