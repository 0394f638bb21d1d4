------------------------------ MODULE SyncLock ------------------------------
(***************************************************************************)
(* The Redis lock of one account and the admin commands that take it:      *)
(* force-sync, which mirrors the account, and delete-account, which purges *)
(* its objects and deletes its row.  Each command is a process of its own  *)
(* and asks for the lock once.  IMAP sessions append messages without the  *)
(* lock.                                                                   *)
(*                                                                         *)
(* A sync or an append adds one object: a blob in the object store, then   *)
(* the row of its message, then the row that tracks the blob for eviction. *)
(* Objects are named after the process that adds them, tokens likewise.    *)
(***************************************************************************)
EXTENDS Naturals

CONSTANTS
    Syncs,          \* force-sync processes
    Deletes,        \* delete-account processes
    Clients,        \* IMAP sessions that append a message
    Ttl,            \* life of the lock (600 s in the code)
    MaxCrashes,     \* bound on processes that die
    MaxFailures,    \* bound on failures of Redis, the upstream or the database
    None            \* no owner

Commands == Syncs \cup Deletes
Processes == Commands \cup Clients

ASSUME LockAssumption ==
    /\ Ttl \in Nat \ {0}
    /\ MaxCrashes \in Nat /\ MaxFailures \in Nat
    /\ None \notin Processes
    /\ Syncs \cap Deletes = {} /\ Commands \cap Clients = {}

VARIABLES
    owner,          \* value of the lock's key in Redis, or None
    ttl,            \* time the key has left
    releasing,      \* processes with a release task that has not run
    account,        \* the account's row
    lastSync,       \* last_sync_at and last_sync_error, as the metric shows them
    messages,       \* objects whose message row is in the database
    tracked,        \* objects with a row in cache_objects
    blobs,          \* objects whose blob is in the object store
    purged,         \* keys that the purge of a command met in cache_objects
    condemned,      \* keys whose blobs a command has still to delete
    pc,             \* where each process is
    age,            \* time since the lock was granted, counted up to Ttl
    outlived,       \* history: commands at work when their lock had expired
    interrupted,    \* history: processes that stopped between blob and row
    outcome,        \* history: how the last sync that did run ended
    crashes, failures

lock == <<owner, ttl, releasing, age, outlived>>
keys == <<purged, condemned>>
data == <<account, messages, tracked, blobs, keys, interrupted>>
status == <<lastSync, outcome>>
budget == <<crashes, failures>>
vars == <<lock, data, status, pc, budget>>

(* Where a command holds the guard. *)
Critical == {"mailboxes", "put", "message", "track", "disable", "purge", "unlink", "sweep",
             "unlist", "drop"}
Points == Critical \cup {"idle", "read", "acquire", "report_ok", "report_error", "exit", "done"}

(* The state has the shape of the key, the rows and the processes. *)
TypeOK ==
    /\ owner \in Commands \cup {None}
    /\ ttl \in 0..Ttl
    /\ releasing \subseteq Commands
    /\ account \in {"enabled", "disabled", "deleted"}
    /\ lastSync \in {"never", "ok", "error"} /\ outcome \in {"never", "ok", "error"}
    /\ messages \subseteq Processes /\ tracked \subseteq Processes
    /\ blobs \subseteq Processes
    /\ purged \in [Commands -> SUBSET Processes]
    /\ condemned \in [Commands -> SUBSET Processes]
    /\ pc \in [Processes -> Points]
    /\ age \in [Commands -> 0..Ttl]
    /\ outlived \subseteq Commands /\ interrupted \subseteq Processes
    /\ crashes \in Nat /\ failures \in Nat

Init ==
    /\ owner = None /\ ttl = 0 /\ releasing = {}
    /\ account = "enabled"
    /\ lastSync = "never" /\ outcome = "never"
    /\ messages = {} /\ tracked = {} /\ blobs = {}
    /\ purged = [c \in Commands |-> {}] /\ condemned = [c \in Commands |-> {}]
    /\ pc = [p \in Processes |-> "idle"]
    /\ age = [c \in Commands |-> 0]
    /\ outlived = {} /\ interrupted = {}
    /\ crashes = 0 /\ failures = 0

Goto(p, point) == pc' = [pc EXCEPT ![p] = point]

(* The guard leaves its scope: Drop spawns the release and goes on. *)
DropGuard(c) == releasing' = releasing \cup {c}

-----------------------------------------------------------------------------
(* A command starts and reads the account's row.  force-sync refuses a     *)
(* disabled account, which delete-account does not mind.                   *)
Start(c) ==
    /\ pc[c] = "idle"
    /\ Goto(c, IF account = "enabled" \/ (c \in Deletes /\ account = "disabled")
               THEN "read" ELSE "exit")
    /\ UNCHANGED <<lock, data, status, budget>>

(* sync_account reads the row again.  A missing account ends the run; so   *)
(* does one disabled since, which is reported as a success.                *)
ReadAccount(c) ==
    /\ pc[c] = "read"
    /\ Goto(c, IF c \in Deletes \/ account = "enabled" THEN "acquire"
               ELSE IF account = "deleted" THEN "exit" ELSE "report_ok")
    /\ UNCHANGED <<lock, data, status, budget>>

(* SET key token NX PX ttl, granted. *)
Acquire(c) ==
    /\ pc[c] = "acquire" /\ owner = None
    /\ owner' = c /\ ttl' = Ttl
    /\ age' = [age EXCEPT ![c] = 0]
    /\ Goto(c, IF c \in Syncs THEN "mailboxes" ELSE "disable")
    /\ UNCHANGED <<releasing, outlived, data, status, budget>>

(* A busy account ends a sync as a success and a deletion as an error. *)
Busy(c) ==
    /\ pc[c] = "acquire" /\ owner # None
    /\ Goto(c, IF c \in Syncs THEN "report_ok" ELSE "exit")
    /\ UNCHANGED <<lock, data, status, budget>>

(* Redis fails, before or after it ran the SET; no guard is made either    *)
(* way, so nothing will release a key that was set.                        *)
AcquireFails(c) ==
    /\ pc[c] = "acquire" /\ failures < MaxFailures
    /\ failures' = failures + 1
    /\ \/ UNCHANGED <<owner, ttl>>
       \/ owner = None /\ owner' = c /\ ttl' = Ttl
    /\ Goto(c, IF c \in Syncs THEN "report_error" ELSE "exit")
    /\ outcome' = IF c \in Syncs THEN "error" ELSE outcome
    /\ UNCHANGED <<releasing, age, outlived, data, lastSync, crashes>>

-----------------------------------------------------------------------------
(* Leaving the guarded block of sync_account. *)
EndSync(c, result) ==
    /\ DropGuard(c)
    /\ outcome' = result
    /\ Goto(c, IF result = "ok" THEN "report_ok" ELSE "report_error")

(* The rows that reference the account are refused once it is deleted. *)
UpsertMailbox(c) ==
    /\ pc[c] = "mailboxes"
    /\ IF account = "deleted"
       THEN EndSync(c, "error")
       ELSE Goto(c, "put") /\ UNCHANGED <<releasing, outcome>>
    /\ UNCHANGED <<owner, ttl, age, outlived, data, lastSync, budget>>

(* The upstream server fails, or has nothing new. *)
SyncEndsEarly(c) ==
    /\ pc[c] \in {"mailboxes", "put"} /\ c \in Syncs
    /\ \/ EndSync(c, "ok") /\ UNCHANGED failures
       \/ /\ failures < MaxFailures /\ failures' = failures + 1
          /\ EndSync(c, "error")
    /\ UNCHANGED <<owner, ttl, age, outlived, data, lastSync, crashes>>

PutBlob(p) ==
    /\ pc[p] = "put"
    /\ blobs' = blobs \cup {p}
    /\ Goto(p, "message")
    /\ UNCHANGED <<lock, account, messages, tracked, keys, interrupted, status, budget>>

(* The end of an ingest that the database refuses at this row. *)
IngestFails(p) ==
    /\ IF p \in Syncs
       THEN EndSync(p, "error")
       ELSE Goto(p, "exit") /\ UNCHANGED <<releasing, outcome>>
    /\ UNCHANGED <<messages, tracked>>

InsertMessage(p) ==
    /\ pc[p] = "message"
    /\ IF account = "deleted"
       THEN IngestFails(p) /\ interrupted' = interrupted \cup {p}
       ELSE /\ messages' = messages \cup {p}
            /\ Goto(p, "track")
            /\ UNCHANGED <<tracked, interrupted, releasing, outcome>>
    /\ UNCHANGED <<owner, ttl, age, outlived, account, blobs, keys, lastSync, budget>>

InsertCacheObject(p) ==
    /\ pc[p] = "track"
    /\ IF account = "deleted"
       THEN IngestFails(p)
       ELSE /\ tracked' = tracked \cup {p}
            /\ IF p \in Syncs
               THEN EndSync(p, "ok")
               ELSE Goto(p, "exit") /\ UNCHANGED <<releasing, outcome>>
            /\ UNCHANGED messages
    /\ UNCHANGED <<owner, ttl, age, outlived, account, blobs, keys, interrupted,
                   lastSync, budget>>

(* set_mail_account_sync_status, an UPDATE that a deleted row ignores. *)
Report(c) ==
    /\ pc[c] \in {"report_ok", "report_error"}
    /\ lastSync' = IF account = "deleted" THEN lastSync
                   ELSE IF pc[c] = "report_ok" THEN "ok" ELSE "error"
    /\ Goto(c, "exit")
    /\ UNCHANGED <<lock, data, outcome, budget>>

(* A session of the account, open since before it was disabled, appends a  *)
(* message without the lock.                                               *)
StartAppend(p) ==
    /\ p \in Clients /\ pc[p] = "idle" /\ account # "deleted"
    /\ Goto(p, "put")
    /\ UNCHANGED <<lock, data, status, budget>>

-----------------------------------------------------------------------------
(* The account is disabled, and the purge begins. *)
Disable(c) ==
    /\ pc[c] = "disable"
    /\ account' = IF account = "deleted" THEN account ELSE "disabled"
    /\ purged' = [purged EXCEPT ![c] = {}]
    /\ Goto(c, "purge")
    /\ UNCHANGED <<lock, messages, tracked, blobs, condemned, interrupted, status, budget>>

(* The cache row of an object is deleted; its blob is next. *)
Untrack(c, o) ==
    /\ tracked' = tracked \ {o}
    /\ purged' = [purged EXCEPT ![c] = @ \cup {o}]
    /\ condemned' = [condemned EXCEPT ![c] = {o}]
    /\ Goto(c, "unlink")

(* Mutation of PurgeTracked: objects without a cache row are not purged. *)
PurgeTrackedOnly(c) ==
    /\ pc[c] = "purge"
    /\ \/ tracked = {} /\ Goto(c, "drop") /\ UNCHANGED <<tracked, keys>>
       \/ \E o \in tracked : Untrack(c, o)
    /\ UNCHANGED <<lock, account, messages, blobs, interrupted, status, budget>>

(* The first loop of the purge, until no cache row is listed. *)
PurgeTracked(c) ==
    /\ pc[c] = "purge"
    /\ \/ tracked = {} /\ Goto(c, "sweep") /\ UNCHANGED <<tracked, keys>>
       \/ \E o \in tracked : Untrack(c, o)
    /\ UNCHANGED <<lock, account, messages, blobs, interrupted, status, budget>>

(* The second: the keys that any row mentions and the first did not meet. *)
PurgeUntracked(c) ==
    /\ pc[c] = "sweep"
    /\ condemned' = [condemned EXCEPT ![c] = (messages \cup tracked) \ purged[c]]
    /\ Goto(c, "unlist")
    /\ UNCHANGED <<lock, account, messages, tracked, blobs, purged, interrupted, status, budget>>

(* The object store deletes a blob, or all are deleted. *)
DeleteBlob(c) ==
    /\ pc[c] \in {"unlink", "unlist"}
    /\ \/ /\ condemned[c] = {}
          /\ Goto(c, IF pc[c] = "unlink" THEN "purge" ELSE "drop")
          /\ UNCHANGED <<blobs, condemned>>
       \/ \E o \in condemned[c] :
             /\ blobs' = blobs \ {o}
             /\ condemned' = [condemned EXCEPT ![c] = @ \ {o}]
             /\ UNCHANGED pc
    /\ UNCHANGED <<lock, account, messages, tracked, purged, interrupted, status, budget>>

(* delete_mail_account: every row of the account goes with it.  The        *)
(* command is then over, and its guard dropped.                            *)
DeleteRow(c) ==
    /\ pc[c] = "drop"
    /\ account' = "deleted" /\ messages' = {} /\ tracked' = {}
    /\ DropGuard(c)
    /\ Goto(c, "exit")
    /\ UNCHANGED <<owner, ttl, age, outlived, blobs, keys, interrupted, status, budget>>

(* A statement of the purge fails: the account stays, disabled. *)
DeleteFails(c) ==
    /\ pc[c] \in {"disable", "purge", "unlink", "sweep", "unlist", "drop"}
    /\ failures < MaxFailures
    /\ failures' = failures + 1
    /\ DropGuard(c)
    /\ Goto(c, "exit")
    /\ UNCHANGED <<owner, ttl, age, outlived, data, status, crashes>>

-----------------------------------------------------------------------------
(* Mutation of Release: the key is deleted whatever its value. *)
ReleaseAnyway(c) ==
    /\ c \in releasing
    /\ releasing' = releasing \ {c}
    /\ owner' = None /\ ttl' = 0
    /\ UNCHANGED <<age, outlived, data, status, pc, budget>>

(* The release task runs its script: compare the token, then delete. *)
Release(c) ==
    /\ c \in releasing
    /\ releasing' = releasing \ {c}
    /\ IF owner = c THEN owner' = None /\ ttl' = 0 ELSE UNCHANGED <<owner, ttl>>
    /\ UNCHANGED <<age, outlived, data, status, pc, budget>>

(* Redis is not reached: the error is ignored. *)
ReleaseFails(c) ==
    /\ c \in releasing /\ failures < MaxFailures
    /\ failures' = failures + 1
    /\ releasing' = releasing \ {c}
    /\ UNCHANGED <<owner, ttl, age, outlived, data, status, pc, crashes>>

(* main returns.  The runtime stops, and with it a release that has not    *)
(* run yet.                                                                *)
Exit(p) ==
    /\ pc[p] = "exit"
    /\ Goto(p, "done")
    /\ releasing' = releasing \ {p}
    /\ UNCHANGED <<owner, ttl, age, outlived, data, status, budget>>

(* The process dies, and its guard with it. *)
Crash(p) ==
    /\ pc[p] \notin {"idle", "done"} /\ crashes < MaxCrashes
    /\ crashes' = crashes + 1
    /\ interrupted' = IF pc[p] = "message" THEN interrupted \cup {p} ELSE interrupted
    /\ Goto(p, "done")
    /\ releasing' = releasing \ {p}
    /\ UNCHANGED <<owner, ttl, age, outlived, account, messages, tracked, blobs, keys,
                   status, failures>>

Ageing(c) == pc[c] \in Critical /\ age[c] < Ttl

(* Mutation of Tick: the key does not expire. *)
TickForever ==
    /\ ttl > 0 \/ \E c \in Commands : Ageing(c)
    /\ age' = [c \in Commands |-> IF Ageing(c) THEN age[c] + 1 ELSE age[c]]
    /\ outlived' = outlived \cup
           {c \in Commands : pc[c] \in Critical /\ age'[c] = Ttl}
    /\ UNCHANGED <<owner, ttl, releasing, data, status, pc, budget>>

(* A unit of time.  Redis deletes the key when its time is up. *)
Tick ==
    /\ ttl > 0 \/ \E c \in Commands : Ageing(c)
    /\ ttl' = IF ttl > 0 THEN ttl - 1 ELSE 0
    /\ owner' = IF ttl' = 0 THEN None ELSE owner
    /\ age' = [c \in Commands |-> IF Ageing(c) THEN age[c] + 1 ELSE age[c]]
    /\ outlived' = outlived \cup
           {c \in Commands : pc[c] \in Critical /\ age'[c] = Ttl}
    /\ UNCHANGED <<releasing, data, status, pc, budget>>

-----------------------------------------------------------------------------
CommandStep(c) ==
    \/ Start(c) \/ ReadAccount(c) \/ Acquire(c) \/ Busy(c) \/ AcquireFails(c)
    \/ UpsertMailbox(c) \/ SyncEndsEarly(c) \/ Report(c)
    \/ Disable(c) \/ PurgeTracked(c) \/ PurgeUntracked(c) \/ DeleteBlob(c)
    \/ DeleteRow(c) \/ DeleteFails(c)
    \/ Release(c) \/ ReleaseFails(c)

ProcessStep(p) ==
    PutBlob(p) \/ InsertMessage(p) \/ InsertCacheObject(p) \/ Exit(p)

Next ==
    \/ \E c \in Commands : CommandStep(c)
    \/ \E p \in Processes : ProcessStep(p) \/ StartAppend(p) \/ Crash(p)
    \/ Tick

Spec == Init /\ [][Next]_vars

(* Redis expires keys; nothing else is owed to us. *)
FairSpec == Spec /\ WF_vars(Tick)

-----------------------------------------------------------------------------
(* A command that still holds a guard granted less than Ttl ago is the     *)
(* owner Redis knows: no late release, no failed acquisition and no other  *)
(* command took the key from it (compare-and-delete, SET NX).              *)
FreshHolderOwns ==
    \A c \in Commands : (pc[c] \in Critical /\ age[c] < Ttl) => owner = c

(* Two commands are at work on the account at once only after one of them  *)
(* outlived its lock: sync_account has no deadline and does not renew.     *)
OverlapOnlyAfterExpiry ==
    \A c, d \in Commands :
        (c # d /\ {pc[c], pc[d]} \subseteq Critical) => (c \in outlived \/ d \in outlived)

(* Unless a command outlived its lock, deleting the account leaves no blob *)
(* of a sync in the object store, save one whose sync stopped between the  *)
(* blob and the row that names it.                                         *)
DeletionLeavesNoSyncedBlob ==
    (account = "deleted" /\ outlived = {}) => blobs \cap Syncs \subseteq interrupted

(* A lock left behind (a crash, a lost release, an acquisition whose       *)
(* answer was lost) is eventually free again.                              *)
AbandonedLockFreed ==
    \A c \in Commands : (owner = c /\ pc[c] = "done") ~> owner # c

(* What the test of delete-account states: the blobs of tracked objects go *)
(* with the account.  Sessions append without the lock.                    *)
DeletionRemovesTrackedBlobs ==
    [][(account # "deleted" /\ account' = "deleted") => blobs' \cap tracked = {}]_vars

(* What the metric's help text states: the status is that of the last sync. *)
StatusIsLastSync ==
    (\A c \in Syncs : pc[c] \in {"idle", "exit", "done"}) /\ crashes = 0
        => lastSync = outcome
=============================================================================
