----------------------------- MODULE AccountSync ----------------------------
(***************************************************************************)
(* The mailboxes of one account.  force-sync processes list the upstream   *)
(* mailboxes, file and sync each of them and remove the rows of those that *)
(* are missing, while clients create, delete and rename mailboxes locally, *)
(* the upstream mailboxes change, and the account is paused, resumed or    *)
(* deleted.  What the sync of one mailbox does to its messages is the      *)
(* subject of MailboxSync; here it is one step, and what matters is whose  *)
(* messages the row holds and whose checkpoint it has: the checkpoint is   *)
(* kept by the id of the row, and only a UIDVALIDITY other than the        *)
(* checkpoint's makes a sync clear the row and fetch from the first uid.   *)
(***************************************************************************)
EXTENDS Naturals, FiniteSets

CONSTANTS
    Syncs,          \* force-sync processes, each run once
    Names,          \* mailbox names
    Inbox,          \* the mailbox every upstream account has
    Canonical,      \* their lower-case forms, as ranks in the order of the alphabet
    Validity,       \* the UIDVALIDITY of each upstream mailbox
    None,           \* no process, no mailbox
    Mixed,          \* messages that are not those of one upstream mailbox
    MaxEvents       \* bound on what clients, admins, the upstream server and faults do

ASSUME AccountAssumption ==
    /\ Canonical \in [Names -> Nat] /\ Inbox \in Names
    /\ Validity \in [Names -> Nat]
    /\ None \notin Syncs \cup Names /\ Mixed \notin Names \cup {None}
    /\ MaxEvents \in Nat

VARIABLES
    account,        \* "enabled", "disabled" or "missing"
    status,         \* what last_sync_error says: "never", "ok" or "error"
    upstream,       \* the names of the upstream mailboxes
    rows,           \* the account's rows of the table mailboxes
    nextId,         \* the sequence of row ids
    owner,          \* the process that holds the account's sync lock
    pc,             \* where each sync is
    result,         \* the outcome of each sync: "none", "ok", "skipped" or "error"
    todo,           \* listed mailboxes not yet synced
    seen,           \* upstream_mailboxes: canonical names listed and filed
    current,        \* [name, id] of the mailbox being synced
    victims,        \* rows that remove_missing_mailboxes still has to remove
    steady,         \* history: names upstream ever since the sync's LIST
    quiet,          \* history: syncs that nothing disturbed since they began
    cut,            \* history: rows whose sync was broken off
    reused,         \* history: rows with messages that their checkpoint does not tell of
    events          \* how many of the bounded events happened

mailboxes == <<upstream, rows, nextId>>
progress == <<todo, seen, current, victims>>
history == <<steady, quiet, cut, reused>>
vars == <<account, status, mailboxes, owner, pc, result, progress, history, events>>

Ids == 1..(MaxEvents + Cardinality(Syncs) * Cardinality(Names))
Points == {"start", "find", "lock", "list", "upsert", "mailbox",
           "missing", "empty", "remove", "release", "report", "done", "dead"}
Row == [id : Ids, name : Names, holds : Names \cup {None, Mixed},
        saved : Names \cup {None}, counted : BOOLEAN]

(* The rows are a table with the unique key (account, canonical name), and *)
(* the syncs have the shape of the engine's locals.                        *)
TypeOK ==
    /\ account \in {"enabled", "disabled", "missing"}
    /\ status \in {"never", "ok", "error"}
    /\ upstream \subseteq Names
    /\ rows \subseteq Row
    /\ \A r, q \in rows : r.id = q.id \/ Canonical[r.name] = Canonical[q.name] => r = q
    /\ nextId \in Nat \ {0} /\ \A r \in rows : r.id < nextId
    /\ owner \in Syncs \cup {None}
    /\ pc \in [Syncs -> Points]
    /\ result \in [Syncs -> {"none", "ok", "skipped", "error"}]
    /\ todo \in [Syncs -> SUBSET Names] /\ steady \in [Syncs -> SUBSET Names]
    /\ \A s \in Syncs : victims[s] \subseteq Row
    /\ quiet \subseteq Syncs /\ cut \subseteq Ids /\ reused \subseteq Ids
    /\ events \in 0..MaxEvents

Init ==
    /\ account = "enabled" /\ status = "never"
    /\ upstream \in {u \in SUBSET Names : Inbox \in u}
    /\ rows = {} /\ nextId = 1 /\ owner = None
    /\ pc = [s \in Syncs |-> "start"] /\ result = [s \in Syncs |-> "none"]
    /\ todo = [s \in Syncs |-> {}] /\ seen = [s \in Syncs |-> {}]
    /\ current = [s \in Syncs |-> [name |-> None, id |-> 0]]
    /\ victims = [s \in Syncs |-> {}] /\ steady = [s \in Syncs |-> {}]
    /\ quiet = {} /\ cut = {} /\ reused = {}
    /\ events = 0

Goto(s, point) == pc' = [pc EXCEPT ![s] = point]
Event == events < MaxEvents /\ events' = events + 1
(* The sync's process ends, and its locals with it. *)
End(s, point) ==
    /\ Goto(s, point)
    /\ result' = [result EXCEPT ![s] = "none"]
    /\ todo' = [todo EXCEPT ![s] = {}] /\ seen' = [seen EXCEPT ![s] = {}]
    /\ current' = [current EXCEPT ![s] = [name |-> None, id |-> 0]]
    /\ victims' = [victims EXCEPT ![s] = {}] /\ steady' = [steady EXCEPT ![s] = {}]
    /\ quiet' = quiet \ {s}
(* name = $2 OR canonical_name = lower($2) *)
Named(n) == {r \in rows : Canonical[r.name] = Canonical[n]}
(* A row inserted: it has no messages and no checkpoint. *)
NewRow(n, counted) ==
    [id |-> nextId, name |-> n, holds |-> None, saved |-> None, counted |-> counted]

-----------------------------------------------------------------------------
(* run_force_sync_command: the account is looked up by its address; then   *)
(* connect, take a permit, authenticate.                                   *)
Start(s) ==
    /\ pc[s] = "start"
    /\ Goto(s, IF account = "enabled" THEN "find" ELSE "done")
    /\ UNCHANGED <<account, status, mailboxes, owner, result, progress, history, events>>

(* A failure before sync_account is not recorded in the account's row. *)
ConnectFails(s) ==
    /\ pc[s] = "start" /\ account = "enabled"
    /\ Event
    /\ Goto(s, "done")
    /\ UNCHANGED <<account, status, mailboxes, owner, result, progress, history>>

(* sync_account looks the account up again: gone, it reports nothing;      *)
(* disabled, it reports success.                                           *)
Find(s) ==
    /\ pc[s] = "find"
    /\ CASE account = "missing" -> Goto(s, "done") /\ UNCHANGED result
         [] account = "disabled" -> Goto(s, "report") /\ result' = [result EXCEPT ![s] = "skipped"]
         [] OTHER -> Goto(s, "lock") /\ UNCHANGED result
    /\ UNCHANGED <<account, status, mailboxes, owner, progress, history, events>>

(* History: a sync is undisturbed until something else touches the mailboxes. *)
Undisturbed(s) ==
    {s} \ {q \in Syncs : \E o \in Syncs \ {q} :
              pc[o] \in {"list", "upsert", "mailbox", "missing", "empty", "remove"}}

(* A busy lock ends the sync, and it reports success. *)
Lock(s) ==
    /\ pc[s] = "lock"
    /\ IF owner = None
       THEN /\ owner' = s /\ Goto(s, "list") /\ quiet' = Undisturbed(s)
            /\ UNCHANGED result
       ELSE /\ Goto(s, "report") /\ result' = [result EXCEPT ![s] = "skipped"]
            /\ UNCHANGED <<owner, quiet>>
    /\ UNCHANGED <<account, status, mailboxes, progress, steady, cut, reused, events>>

(* LIST "" "*" *)
List(s) ==
    /\ pc[s] = "list"
    /\ todo' = [todo EXCEPT ![s] = upstream]
    /\ steady' = [steady EXCEPT ![s] = upstream]
    /\ Goto(s, "upsert")
    /\ UNCHANGED <<account, status, mailboxes, owner, result, seen, current, victims,
                   quiet, cut, reused, events>>

(* upsert_mailbox: the row with the canonical name takes the listed name   *)
(* and loses its counts, or a row is inserted.                             *)
Upsert(s) ==
    /\ pc[s] = "upsert" /\ account # "missing"
    /\ \E n \in todo[s] :
          /\ todo' = [todo EXCEPT ![s] = @ \ {n}]
          /\ seen' = [seen EXCEPT ![s] = @ \cup {Canonical[n]}]
          /\ IF Named(n) # {}
             THEN \E r \in Named(n) :
                     /\ rows' = (rows \ {r}) \cup {[r EXCEPT !.name = n, !.counted = FALSE]}
                     /\ current' = [current EXCEPT ![s] = [name |-> n, id |-> r.id]]
                     /\ UNCHANGED nextId
             ELSE /\ rows' = rows \cup {NewRow(n, FALSE)}
                  /\ current' = [current EXCEPT ![s] = [name |-> n, id |-> nextId]]
                  /\ nextId' = nextId + 1
    /\ Goto(s, "mailbox")
    /\ UNCHANGED <<account, status, upstream, owner, result, victims, history, events>>

(* uidvalidity_changed: the row is cleared and everything fetched again. *)
Clears(r, n) == r.saved = None \/ Validity[r.saved] # Validity[n]

(* What a row holds when mailbox n was fetched into it.  If the row is not *)
(* cleared, its messages stay and the uids up to last_uid are skipped: it  *)
(* is mailbox n's mail only if it was before, or if the uids allow it.     *)
Fetched(r, n) ==
    IF Clears(r, n) \/ (r.saved = n /\ r.holds = n) THEN {n} ELSE {n, Mixed}

(* History: a row not cleared for another mailbox than its checkpoint's. *)
Reuses(r, n) ==
    IF Clears(r, n) THEN reused \ {r.id}
    ELSE IF r.saved # n THEN reused \cup {r.id} ELSE reused

(* Mutation of SyncMailbox: the counts are left as upsert_mailbox left them. *)
SyncMailboxUncounted(r, n) ==
    /\ \E h \in Fetched(r, n) :
          rows' = (rows \ {r}) \cup {[r EXCEPT !.holds = h, !.saved = n]}
    /\ reused' = Reuses(r, n)
    /\ cut' = cut \ {r.id}

(* The messages of the row become those of the upstream mailbox, the       *)
(* checkpoint is saved and the counts are refreshed.                       *)
SyncMailbox(r, n) ==
    /\ \E h \in Fetched(r, n) :
          rows' = (rows \ {r}) \cup {[r EXCEPT !.holds = h, !.saved = n, !.counted = TRUE]}
    /\ reused' = Reuses(r, n)
    /\ cut' = cut \ {r.id}

(* sync_mailbox_inner: the upstream mailbox is selected and synced. *)
Mailbox(s) ==
    /\ pc[s] = "mailbox" /\ current[s].name \in upstream
    /\ \E r \in rows : r.id = current[s].id /\ SyncMailbox(r, current[s].name)
    /\ Goto(s, IF todo[s] = {} THEN "missing" ELSE "upsert")
    /\ UNCHANGED <<account, status, upstream, nextId, owner, result, progress, steady, quiet, events>>

(* Mutation of MissingRows: a row without upstream mail is taken for missing. *)
MissingOrEmpty(s) == {r \in rows : Canonical[r.name] \notin seen[s] \/ r.holds = None}

(* The rows whose canonical name was not listed. *)
MissingRows(s) == {r \in rows : Canonical[r.name] \notin seen[s]}

(* Mutation of ListRows: nothing is removed. *)
ListNoRows(s) ==
    /\ pc[s] = "missing"
    /\ victims' = [victims EXCEPT ![s] = {}]
    /\ Goto(s, "release") /\ result' = [result EXCEPT ![s] = "ok"]
    /\ UNCHANGED <<account, status, mailboxes, owner, todo, seen, current, history, events>>

(* remove_missing_mailboxes lists the rows once. *)
ListRows(s) ==
    /\ pc[s] = "missing"
    /\ victims' = [victims EXCEPT ![s] = MissingRows(s)]
    /\ IF MissingRows(s) = {}
       THEN Goto(s, "release") /\ result' = [result EXCEPT ![s] = "ok"]
       ELSE Goto(s, "empty") /\ UNCHANGED result
    /\ UNCHANGED <<account, status, mailboxes, owner, todo, seen, current, history, events>>

(* ORDER BY canonical_name ASC *)
FirstVictim(s) ==
    {r \in victims[s] : \A q \in victims[s] : Canonical[r.name] <= Canonical[q.name]}

(* The messages of the row are deleted by its id, its checkpoint stays ... *)
EmptyRow(s) ==
    /\ pc[s] = "empty"
    /\ \E v \in FirstVictim(s) :
          /\ rows' = {IF r.id = v.id THEN [r EXCEPT !.holds = None] ELSE r : r \in rows}
          /\ reused' = reused \cup {v.id}
    /\ Goto(s, "remove")
    /\ UNCHANGED <<account, status, upstream, nextId, owner, result, progress,
                   steady, quiet, cut, events>>

(* ... and then the row by its name. *)
RemoveRow(s) ==
    /\ pc[s] = "remove"
    /\ \E v \in FirstVictim(s) :
          /\ rows' = rows \ Named(v.name)
          /\ victims' = [victims EXCEPT ![s] = @ \ {v}]
    /\ IF victims'[s] = {}
       THEN Goto(s, "release") /\ result' = [result EXCEPT ![s] = "ok"]
       ELSE Goto(s, "empty") /\ UNCHANGED result
    /\ UNCHANGED <<account, status, upstream, nextId, owner, todo, seen, current, history, events>>

(* What makes a request of the sync fail for certain: the mailbox is no    *)
(* longer upstream, or its row or the account is gone.                     *)
Doomed(s) ==
    \/ pc[s] = "upsert" /\ account = "missing"
    \/ /\ pc[s] = "mailbox"
       /\ current[s].name \notin upstream \/ current[s].id \notin {r.id : r \in rows}

(* A sync that breaks off in row r has not begun; has cleared it or fetched *)
(* a part of mailbox n; or has saved the checkpoint and not yet counted.    *)
PartlySynced(r, n) ==
    \/ UNCHANGED <<rows, reused>>
    \/ /\ r.saved # n
       /\ rows' = (rows \ {r}) \cup {[r EXCEPT !.holds = Mixed]}
       /\ reused' = reused \cup {r.id}
    \/ /\ \E h \in Fetched(r, n) :
             rows' = (rows \ {r}) \cup {[r EXCEPT !.holds = h, !.saved = n]}
       /\ reused' = Reuses(r, n)

BreakOff(s) ==
    IF pc[s] = "mailbox"
    THEN /\ cut' = cut \cup {current[s].id}
         /\ IF Doomed(s)
            THEN UNCHANGED <<rows, reused>>
            ELSE \E r \in rows : r.id = current[s].id /\ PartlySynced(r, current[s].name)
    ELSE UNCHANGED <<rows, cut, reused>>

(* The first error ends the sync with its mailboxes left as they are. *)
Fail(s) ==
    /\ pc[s] \in {"lock", "list", "upsert", "mailbox", "missing", "empty", "remove"}
    /\ IF Doomed(s) THEN UNCHANGED events ELSE Event
    /\ BreakOff(s)
    /\ Goto(s, IF pc[s] = "lock" THEN "report" ELSE "release")
    /\ result' = [result EXCEPT ![s] = "error"]
    /\ UNCHANGED <<account, status, upstream, nextId, owner, progress, steady, quiet>>

(* The lock guard is dropped at the end of the async block ... *)
Release(s) ==
    /\ pc[s] = "release"
    /\ owner' = IF owner = s THEN None ELSE owner
    /\ Goto(s, "report")
    /\ UNCHANGED <<account, status, mailboxes, result, progress, history, events>>

(* ... before the outcome is written to the account's row. *)
Report(s) ==
    /\ pc[s] = "report"
    /\ status' = IF account = "missing" THEN status
                 ELSE IF result[s] = "error" THEN "error" ELSE "ok"
    /\ End(s, "done")
    /\ UNCHANGED <<account, mailboxes, owner, cut, reused, events>>

(* The process is killed; its lock stays until it expires. *)
Crash(s) ==
    /\ pc[s] \notin {"start", "done", "dead"}
    /\ Event
    /\ BreakOff(s)
    /\ End(s, "dead")
    /\ UNCHANGED <<account, status, upstream, nextId, owner>>

(* The key of the lock expires after ten minutes, at work or not. *)
LockExpires ==
    /\ owner # None
    /\ Event
    /\ owner' = None
    /\ UNCHANGED <<account, status, mailboxes, pc, result, progress, history>>

-----------------------------------------------------------------------------
(* CREATE, DELETE and RENAME change the local table only. *)
CreateMailbox(n) ==
    /\ account # "missing" /\ Named(n) = {}
    /\ rows' = rows \cup {NewRow(n, TRUE)}
    /\ nextId' = nextId + 1
DeleteMailbox(n) ==
    /\ Named(n) # {} /\ rows' = rows \ Named(n) /\ UNCHANGED nextId
RenameMailbox(n, m) ==
    /\ Named(n) # {} /\ Named(m) = {}
    /\ rows' = (rows \ Named(n)) \cup {[r EXCEPT !.name = m] : r \in Named(n)}
    /\ UNCHANGED nextId

Client ==
    /\ Event
    /\ \/ \E n \in Names : CreateMailbox(n) \/ DeleteMailbox(n)
       \/ \E n, m \in Names : RenameMailbox(n, m)
    /\ quiet' = {}
    /\ UNCHANGED <<account, status, upstream, owner, pc, result, progress, steady, cut, reused>>

(* Another client of the upstream server creates or deletes a mailbox. *)
UpstreamChanges ==
    /\ Event
    /\ \E n \in Names \ {Inbox} : upstream' \in {upstream \cup {n}, upstream \ {n}} \ {upstream}
    /\ steady' = [s \in Syncs |-> steady[s] \cap upstream']
    /\ quiet' = {}
    /\ UNCHANGED <<account, status, rows, nextId, owner, pc, result, progress, cut, reused>>

Pause == account = "enabled" /\ account' = "disabled" /\ UNCHANGED <<rows, quiet>>
Resume == account = "disabled" /\ account' = "enabled" /\ UNCHANGED <<rows, quiet>>
(* delete-account holds the sync lock while it works. *)
DeleteAccount ==
    /\ account # "missing" /\ owner = None
    /\ account' = "missing" /\ rows' = {} /\ quiet' = {}

Admin ==
    /\ Event
    /\ Pause \/ Resume \/ DeleteAccount
    /\ UNCHANGED <<status, upstream, nextId, owner, pc, result, progress, steady, cut, reused>>

SyncStep(s) ==
    \/ Start(s) \/ ConnectFails(s) \/ Find(s) \/ Lock(s) \/ List(s)
    \/ Upsert(s) \/ Mailbox(s) \/ ListRows(s) \/ EmptyRow(s) \/ RemoveRow(s)
    \/ Fail(s) \/ Release(s) \/ Report(s)

Next ==
    \/ \E s \in Syncs : SyncStep(s) \/ Crash(s)
    \/ LockExpires \/ Client \/ UpstreamChanges \/ Admin

Spec == Init /\ [][Next]_vars

-----------------------------------------------------------------------------
(* After a sync that nothing disturbed the rows are the upstream mailboxes *)
(* up to the case of their names, with their counts, and each row holds    *)
(* the mail of the mailbox it is named after (sync_account and             *)
(* remove_missing_mailboxes) - unless, since the row was last cleared, it  *)
(* was synced for a mailbox of another name and the same UIDVALIDITY, a    *)
(* sync of another mailbox broke off in it, or it was emptied as missing   *)
(* and yet kept: its checkpoint does not tell of that.                     *)
QuietSyncMirrors ==
    \A s \in quiet : result[s] = "ok" /\ pc[s] = "release" =>
        /\ {Canonical[r.name] : r \in rows} = {Canonical[n] : n \in upstream}
        /\ \A r \in rows : r.counted /\ r.saved = r.name /\ r.name \in upstream
        /\ \A r \in rows : r.holds = r.name \/ r.id \in reused

(* A sync never removes the row of a mailbox that has been upstream ever   *)
(* since it listed the mailboxes, whatever overlapping syncs and clients   *)
(* do to the rows meanwhile (remove_missing_mailboxes lists the rows once, *)
(* empties them by id and removes them by name).                           *)
RemovedWasMissing ==
    [][\A s \in Syncs : pc[s] = "remove" /\ pc'[s] # "remove" =>
          \A r \in rows \ rows' : \A n \in steady[s] : Canonical[r.name] # Canonical[n]]_vars

(* A row shows no counts only while it is being synced or after a sync     *)
(* broke off in it (upsert_mailbox writes zero before the mailbox is       *)
(* synced).                                                                *)
UncountedOnlyIfCut ==
    \A r \in rows : r.counted
        \/ r.id \in cut
        \/ \E s \in Syncs : pc[s] = "mailbox" /\ current[s].id = r.id
=============================================================================
