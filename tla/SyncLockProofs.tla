--------------------------- MODULE SyncLockProofs ---------------------------
(***************************************************************************)
(* For any number of commands and any time to live, the Redis lock keeps   *)
(* the commands apart until one of them outlives it, and a deletion leaves *)
(* no blob of a completed sync behind.                                     *)
(***************************************************************************)
EXTENDS SyncLock, TLAPS

Leaving == {"report_ok", "report_error", "exit"}

(* A fresh holder owns the key and the key lives as long as it is fresh; a *)
(* stale holder is on record; a command that is releasing holds no guard.  *)
Grip ==
    /\ \A c \in Commands : pc[c] \in Critical =>
           \/ age[c] < Ttl /\ owner = c /\ ttl + age[c] = Ttl
           \/ age[c] = Ttl /\ c \in outlived
    /\ \A c \in releasing : pc[c] \in Leaving

(* Every step of the commands, of Redis and of time keeps the shape. *)
LEMMA TypeStep == TypeOK /\ [Next]_vars => TypeOK'
<1> SUFFICES ASSUME TypeOK, [Next]_vars PROVE TypeOK'
  OBVIOUS
<1>0. Ttl \in Nat \ {0} /\ Commands \subseteq Processes
  BY LockAssumption DEF Processes
<1>1. ASSUME NEW c \in Commands, CommandStep(c) PROVE TypeOK'
  <2>1. CASE Start(c) \/ ReadAccount(c) \/ Busy(c) \/ Disable(c)
    BY <1>0, <2>1 DEF TypeOK, Start, ReadAccount, Busy, Disable, Goto, Points, Critical, lock,
       data, keys, status, budget
  <2>2. CASE Acquire(c)
    BY <1>0, <2>2 DEF TypeOK, Acquire, Goto, Points, Critical, data, keys, status, budget
  <2>3. CASE AcquireFails(c)
    BY <1>0, <2>3 DEF TypeOK, AcquireFails, Goto, Points, Critical, data, keys, status,
       budget
  <2>4. CASE UpsertMailbox(c) \/ SyncEndsEarly(c)
    BY <1>0, <2>4 DEF TypeOK, UpsertMailbox, SyncEndsEarly, EndSync, DropGuard, Goto, Points,
       Critical, data, keys, budget
  <2>5. CASE Report(c)
    BY <1>0, <2>5 DEF TypeOK, Report, Goto, Points, Critical, lock, data, keys, budget
  <2>6. CASE PurgeTracked(c) \/ PurgeUntracked(c) \/ DeleteBlob(c)
    <3>1. CASE PurgeTracked(c)
      BY <1>0, <2>6, <3>1 DEF TypeOK, PurgeTracked, Untrack, Goto, Points, Critical, lock, keys,
         status, budget
    <3>2. CASE PurgeUntracked(c)
      BY <1>0, <2>6, <3>2 DEF TypeOK, PurgeUntracked, Goto, Points, Critical, lock, status, budget
    <3>3. CASE DeleteBlob(c)
      BY <1>0, <2>6, <3>3 DEF TypeOK, DeleteBlob, Goto, Points, Critical, lock, status, budget
    <3> QED BY <2>6, <3>1, <3>2, <3>3
  <2>7. CASE DeleteRow(c) \/ DeleteFails(c)
    BY <1>0, <2>7 DEF TypeOK, DeleteRow, DeleteFails, DropGuard, Goto, Points, Critical, data,
       keys, status, budget
  <2>8. CASE Release(c) \/ ReleaseFails(c)
    BY <1>0, <2>8 DEF TypeOK, Release, ReleaseFails, data, keys, status, budget
  <2> QED BY <1>1, <2>1, <2>2, <2>3, <2>4, <2>5, <2>6, <2>7, <2>8 DEF CommandStep
<1>2. ASSUME NEW p \in Processes, ProcessStep(p) \/ StartAppend(p) \/ Crash(p) PROVE TypeOK'
  <2>1. CASE PutBlob(p) \/ StartAppend(p) \/ Exit(p) \/ Crash(p)
    BY <2>1 DEF TypeOK, PutBlob, StartAppend, Exit, Crash, Goto, Points, Critical, lock, data,
       keys, status, budget
  <2>2. CASE InsertMessage(p) \/ InsertCacheObject(p)
    BY <2>2 DEF TypeOK, InsertMessage, InsertCacheObject, IngestFails, EndSync, DropGuard, Goto,
       Points, Critical, keys, budget, Commands
  <2> QED BY <1>2, <2>1, <2>2 DEF ProcessStep
<1>3. CASE Tick
  BY <1>0, <1>3 DEF TypeOK, Tick, Ageing, data, keys, status, budget
<1>4. CASE UNCHANGED vars
  BY <1>4 DEF TypeOK, vars, lock, data, keys, status, budget
<1> QED BY <1>1, <1>2, <1>3, <1>4 DEF Next

(* The state of the lock always has its type, whatever the constants are. *)
THEOREM LockTypeCorrect == Spec => []TypeOK
<1>1. Init => TypeOK
  BY LockAssumption DEF Init, TypeOK, Points, Processes, Commands
<1> QED BY <1>1, TypeStep, PTL DEF Spec

(* Every step keeps the tie between a command at work and the key in Redis. *)
LEMMA GripStep == TypeOK /\ Grip /\ [Next]_vars => Grip'
<1> SUFFICES ASSUME TypeOK, Grip, [Next]_vars PROVE Grip'
  OBVIOUS
<1>0. /\ Ttl \in Nat \ {0} /\ Commands \subseteq Processes
      /\ None \notin Processes
      /\ pc \in [Processes -> Points] /\ age \in [Commands -> 0..Ttl]
      /\ ttl \in 0..Ttl /\ releasing \subseteq Commands
  BY LockAssumption DEF Processes, TypeOK
(* Steps that leave the key and the ages alone and let one process move on *)
(* inside its critical section, or outside of it.                          *)
<1>1. ASSUME NEW p \in Processes, NEW point,
             pc' = [pc EXCEPT ![p] = point],
             UNCHANGED <<owner, ttl, age, outlived>>,
             p \in Commands /\ point \in Critical => pc[p] \in Critical,
             releasing' \subseteq releasing \cup {p},
             p \in releasing' => point \in Leaving
      PROVE  Grip'
  <2>1. \A c \in releasing' : pc'[c] \in Leaving
    BY <1>0, <1>1 DEF Grip
  <2>2. \A c \in Commands : pc'[c] \in Critical => pc[c] \in Critical
    BY <1>0, <1>1
  <2> QED BY <1>0, <1>1, <2>1, <2>2 DEF Grip
<1>2. ASSUME NEW c \in Commands, CommandStep(c) PROVE Grip'
  <2>1. CASE Start(c) \/ ReadAccount(c) \/ Busy(c) \/ Report(c)
    BY <1>0, <1>1, <2>1 DEF Grip, Leaving, Start, ReadAccount, Busy, Report, Goto, Critical, lock
  <2>2. CASE Acquire(c)
    BY <1>0, <2>2 DEF Grip, Leaving, Acquire, Goto, Critical
  <2>3. CASE AcquireFails(c)
    BY <1>0, <2>3 DEF Grip, Leaving, AcquireFails, Goto, Critical
  <2>4. CASE UpsertMailbox(c) \/ SyncEndsEarly(c)
    BY <1>0, <1>1, <2>4 DEF Grip, Leaving, UpsertMailbox, SyncEndsEarly, EndSync, DropGuard,
       Goto, Critical
  <2>5. CASE Disable(c) \/ PurgeUntracked(c)
    BY <1>0, <1>1, <2>5 DEF Grip, Leaving, Disable, PurgeUntracked, Goto, Critical, lock
  <2>6. CASE PurgeTracked(c) \/ DeleteBlob(c)
    <3>1. UNCHANGED lock /\ pc[c] \in Critical
      BY <2>6 DEF PurgeTracked, DeleteBlob, Critical
    <3>2. UNCHANGED pc \/ \E point \in Critical : Goto(c, point)
      BY <2>6 DEF PurgeTracked, Untrack, DeleteBlob, Critical
    <3>3. CASE UNCHANGED pc
      BY <3>1, <3>3 DEF Grip, lock
    <3>4. CASE \E point \in Critical : Goto(c, point)
      <4>1. c \notin releasing
        BY <1>0, <3>1 DEF Grip, Leaving, Critical
      <4> QED
        BY <1>0, <1>1, <3>1, <3>4, <4>1 DEF Goto, lock
    <3> QED BY <3>2, <3>3, <3>4
  <2>7. CASE DeleteRow(c) \/ DeleteFails(c)
    BY <1>0, <1>1, <2>7 DEF Grip, Leaving, DeleteRow, DeleteFails, DropGuard, Goto, Critical
  <2>8. CASE Release(c) \/ ReleaseFails(c)
    BY <1>0, <2>8 DEF Grip, Leaving, Critical, Release, ReleaseFails
  <2> QED BY <1>2, <2>1, <2>2, <2>3, <2>4, <2>5, <2>6, <2>7, <2>8 DEF CommandStep
<1>3. ASSUME NEW p \in Processes, ProcessStep(p) \/ StartAppend(p) \/ Crash(p) PROVE Grip'
  <2>1. CASE PutBlob(p)
    BY <1>0, <1>1, <2>1 DEF Grip, Leaving, PutBlob, Goto, Critical, lock
  <2>2. CASE StartAppend(p)
    BY <1>0, <1>1, <2>2, LockAssumption DEF Grip, Leaving, StartAppend, Goto, lock
  <2>3. CASE Exit(p) \/ Crash(p)
    BY <1>0, <1>1, <2>3 DEF Grip, Leaving, Exit, Crash, Goto, Critical
  <2>4. CASE InsertMessage(p) \/ InsertCacheObject(p)
    BY <1>0, <1>1, <2>4 DEF Grip, Leaving, InsertMessage, InsertCacheObject, IngestFails, EndSync,
       DropGuard, Goto, Critical
  <2> QED BY <1>3, <2>1, <2>2, <2>3, <2>4 DEF ProcessStep
<1>4. CASE Tick
  BY <1>0, <1>4 DEF Grip, Tick, Ageing
<1>5. CASE UNCHANGED vars
  BY <1>5 DEF Grip, vars, lock
<1> QED BY <1>2, <1>3, <1>4, <1>5 DEF Next

(* The inductive invariant holds throughout. *)
LEMMA Gripped == Spec => [](TypeOK /\ Grip)
<1>1. Init => TypeOK /\ Grip
  BY LockAssumption DEF Init, TypeOK, Grip, Points, Critical, Commands, Processes
<1> QED BY <1>1, TypeStep, GripStep, PTL DEF Spec

(* No late release, lost answer or rival takes the key from a command      *)
(* before its time is up.                                                  *)
THEOREM HolderOwns == Spec => []FreshHolderOwns
<1>1. TypeOK /\ Grip => FreshHolderOwns
  BY LockAssumption DEF TypeOK, Grip, FreshHolderOwns
<1> QED BY <1>1, Gripped, PTL

(* Commands overlap only after one of them outlived its lock. *)
THEOREM Exclusion == Spec => []OverlapOnlyAfterExpiry
<1>1. TypeOK /\ Grip => OverlapOnlyAfterExpiry
  BY DEF TypeOK, Grip, OverlapOnlyAfterExpiry
<1> QED BY <1>1, Gripped, PTL
-----------------------------------------------------------------------------
(* What a deletion leaves behind.  As long as no command has outlived its  *)
(* lock, the blob of a sync is named by a message row, or its sync is      *)
(* about to write one, or stopped before it.  The purge has no such blob   *)
(* left among the keys it met, save the one it is about to delete, then    *)
(* none but those it has listed, and at last none; and so it stays once    *)
(* the account is deleted.                                                 *)
Over == Leaving \cup {"done"}
Storing == {"put", "message", "track"}
Orphans == (Syncs \cap blobs) \ interrupted

PurgedBy(c) ==
    /\ pc[c] \in {"purge", "sweep"} => Orphans \cap purged[c] = {}
    /\ pc[c] = "unlink" => Orphans \cap purged[c] \subseteq condemned[c]
    /\ pc[c] = "unlist" => Orphans \subseteq condemned[c]
    /\ pc[c] = "drop" => Orphans = {}

Swept ==
    outlived = {} =>
        /\ \A s \in Orphans : pc[s] = "message" \/ s \in messages
        /\ \A c \in Commands : PurgedBy(c)
        /\ account = "deleted" => Orphans = {} /\ \A s \in Syncs : pc[s] \notin Storing

Purging == {"purge", "unlink", "sweep", "unlist", "drop"}

(* A process moves on and touches no object. *)
LEMMA MoveSweeps ==
    ASSUME TypeOK, Swept, NEW p \in Processes, NEW point, Goto(p, point),
           UNCHANGED <<account, messages, blobs, purged, condemned>>,
           interrupted \subseteq interrupted', outlived \subseteq outlived',
           p \in Syncs /\ pc[p] = "message" => p \in interrupted',
           point \notin Purging,
           p \in Syncs /\ point \in Storing => account # "deleted"
    PROVE  Swept'
<1>0. Syncs \subseteq Processes /\ Commands \subseteq Processes /\ pc \in [Processes -> Points]
  BY DEF TypeOK, Processes, Commands
<1>a. \A q \in Processes : pc'[q] = IF q = p THEN point ELSE pc[q]
  BY <1>0 DEF Goto
<1>b. Orphans' \subseteq Orphans /\ (p \in Orphans' => pc[p] # "message")
  BY DEF Orphans
<1> SUFFICES ASSUME outlived' = {}
             PROVE  /\ \A s \in Orphans' : pc'[s] = "message" \/ s \in messages'
                    /\ \A c \in Commands : PurgedBy(c)'
                    /\ account' = "deleted" =>
                          Orphans' = {} /\ \A s \in Syncs : pc'[s] \notin Storing
  BY DEF Swept
<1>1. outlived = {}
  OBVIOUS
<1>2. \A s \in Orphans' : pc'[s] = "message" \/ s \in messages'
  BY <1>0, <1>a, <1>b, <1>1 DEF Swept, Orphans
<1>3. ASSUME NEW c \in Commands PROVE PurgedBy(c)'
  <2>1. CASE c = p
    BY <1>0, <1>a, <2>1 DEF PurgedBy, Purging
  <2>2. CASE c # p
    <3>1. pc'[c] = pc[c] /\ PurgedBy(c)
      BY <1>0, <1>a, <1>1, <2>2 DEF Swept
    <3> QED
      BY <1>b, <3>1 DEF PurgedBy
  <2> QED
    BY <2>1, <2>2
<1>4. account' = "deleted" => Orphans' = {} /\ \A s \in Syncs : pc'[s] \notin Storing
  BY <1>0, <1>a, <1>b, <1>1 DEF Swept
<1> QED
  BY <1>2, <1>3, <1>4

(* As long as none has outlived its lock, one command is at work. *)
LEMMA OneAtWork ==
    ASSUME TypeOK, Grip, outlived = {}, NEW c \in Commands, NEW d \in Commands,
           pc[c] \in Critical, pc[d] \in Critical
    PROVE  c = d
BY DEF Grip

(* The three statements that store an object. *)
LEMMA ObjectSweeps ==
    ASSUME TypeOK, Grip, Swept, NEW p \in Processes,
           PutBlob(p) \/ InsertMessage(p) \/ InsertCacheObject(p)
    PROVE  Swept'
<1>0. /\ Syncs \subseteq Processes /\ Commands \subseteq Processes /\ pc \in [Processes -> Points]
      /\ Syncs \subseteq Commands
  BY DEF TypeOK, Processes, Commands
<1>1. CASE PutBlob(p)
  <2>1. /\ pc[p] = "put" /\ blobs' = blobs \cup {p}
        /\ UNCHANGED <<account, messages, purged, condemned, interrupted, outlived>>
    BY <1>1 DEF PutBlob, lock, keys
  <2>2. \A q \in Processes : pc'[q] = IF q = p THEN "message" ELSE pc[q]
    BY <1>0, <1>1 DEF PutBlob, Goto
  <2>3. Orphans' \subseteq Orphans \cup ({p} \cap Syncs)
    BY <2>1 DEF Orphans
  <2> SUFFICES ASSUME outlived = {}
               PROVE  /\ \A s \in Orphans' : pc'[s] = "message" \/ s \in messages'
                      /\ \A c \in Commands : PurgedBy(c)'
                      /\ account' = "deleted" =>
                            Orphans' = {} /\ \A s \in Syncs : pc'[s] \notin Storing
    BY <2>1 DEF Swept
  <2>4. \A s \in Orphans' : pc'[s] = "message" \/ s \in messages'
    BY <1>0, <2>1, <2>2, <2>3 DEF Swept, Orphans
  <2>5. ASSUME NEW c \in Commands PROVE PurgedBy(c)'
    <3>1. CASE c = p
      BY <1>0, <2>2, <3>1 DEF PurgedBy
    <3>2. CASE c # p /\ p \in Syncs
      <4>1. pc'[c] \notin Critical
        BY <1>0, <2>1, <2>2, <3>2, OneAtWork DEF Critical
      <4> QED
        BY <4>1 DEF PurgedBy, Critical
    <3>3. CASE c # p /\ p \notin Syncs
      <4>1. pc'[c] = pc[c] /\ PurgedBy(c) /\ Orphans' \subseteq Orphans
        BY <1>0, <2>2, <2>3, <3>3 DEF Swept
      <4> QED
        BY <2>1, <4>1 DEF PurgedBy
    <3> QED
      BY <3>1, <3>2, <3>3
  <2>6. account' = "deleted" => Orphans' = {} /\ \A s \in Syncs : pc'[s] \notin Storing
    <3>1. account' = "deleted" => p \notin Syncs
      BY <2>1 DEF Swept, Storing
    <3> QED
      BY <1>0, <2>1, <2>2, <2>3, <3>1 DEF Swept
  <2> QED
    BY <2>4, <2>5, <2>6
<1>2. CASE InsertMessage(p)
  <2>a. /\ UNCHANGED <<account, blobs, purged, condemned, outlived>> /\ pc[p] = "message"
    BY <1>2 DEF InsertMessage, keys
  <2>1. CASE account = "deleted"
    <3>1. /\ \E point \in Over : Goto(p, point)
          /\ UNCHANGED messages /\ interrupted' = interrupted \cup {p}
      BY <1>2, <2>1 DEF InsertMessage, IngestFails, EndSync, Over, Leaving
    <3> QED
      BY <2>a, <3>1, MoveSweeps DEF Over, Leaving, Purging, Storing
  <2>2. CASE account # "deleted"
    <3>1. /\ messages' = messages \cup {p} /\ Goto(p, "track") /\ UNCHANGED interrupted
      BY <1>2, <2>2 DEF InsertMessage
    <3>2. \A q \in Processes : pc'[q] = IF q = p THEN "track" ELSE pc[q]
      BY <1>0, <3>1 DEF Goto
    <3>3. Orphans' = Orphans
      BY <2>a, <3>1 DEF Orphans
    <3>4. ASSUME outlived = {}, NEW c \in Commands PROVE PurgedBy(c)'
      <4>1. CASE c = p
        BY <1>0, <3>2, <4>1 DEF PurgedBy
      <4>2. CASE c # p
        <5>1. pc'[c] = pc[c] /\ PurgedBy(c)
          BY <1>0, <3>2, <3>4, <4>2 DEF Swept
        <5> QED
          BY <2>a, <3>3, <5>1 DEF PurgedBy
      <4> QED
        BY <4>1, <4>2
    <3>5. outlived = {} => \A s \in Orphans' : pc'[s] = "message" \/ s \in messages'
      BY <1>0, <3>1, <3>2, <3>3 DEF Swept, Orphans
    <3> QED
      BY <2>a, <2>2, <3>4, <3>5 DEF Swept
  <2> QED
    BY <2>1, <2>2
<1>3. CASE InsertCacheObject(p)
  <2>1. /\ UNCHANGED <<account, messages, blobs, purged, condemned, outlived, interrupted>>
        /\ pc[p] = "track"
    BY <1>3 DEF InsertCacheObject, IngestFails, keys
  <2>2. PICK point \in Over : Goto(p, point)
    BY <1>3 DEF InsertCacheObject, IngestFails, EndSync, Over, Leaving
  <2> QED
    BY <2>1, <2>2, MoveSweeps DEF Over, Leaving, Purging, Storing
<1> QED
  BY <1>1, <1>2, <1>3

(* A step of the purge by c, which is alone at work unless some command    *)
(* outlived its lock.                                                      *)
LEMMA PurgeMoves ==
    ASSUME TypeOK, Grip, Swept, NEW c \in Commands, pc[c] \in Critical, NEW point, Goto(c, point),
           point \in Critical \/ point = "exit",
           UNCHANGED <<interrupted, outlived>>, blobs' \subseteq blobs,
           pc[c] \notin Storing, point \notin Storing,
           account' = "deleted" /\ account # "deleted" /\ outlived = {} => Orphans = {},
           outlived = {} => messages' = messages \/ Orphans = {},
           outlived = {} => PurgedBy(c)'
    PROVE  Swept'
<1>0. /\ Syncs \subseteq Processes /\ Commands \subseteq Processes /\ pc \in [Processes -> Points]
      /\ Syncs \subseteq Commands
  BY DEF TypeOK, Processes, Commands
<1>1. \A q \in Processes : pc'[q] = IF q = c THEN point ELSE pc[q]
  BY <1>0 DEF Goto
<1>2. Orphans' \subseteq Orphans
  BY DEF Orphans
<1> SUFFICES ASSUME outlived = {}
             PROVE  /\ \A s \in Orphans' : pc'[s] = "message" \/ s \in messages'
                    /\ \A d \in Commands : PurgedBy(d)'
                    /\ account' = "deleted" =>
                          Orphans' = {} /\ \A s \in Syncs : pc'[s] \notin Storing
  BY DEF Swept
<1>3. \A d \in Commands : d # c => pc'[d] = pc[d] /\ pc[d] \notin Critical
  BY <1>0, <1>1, OneAtWork
<1>4. \A s \in Syncs : pc'[s] \notin Storing
  BY <1>0, <1>1, <1>3 DEF Critical, Storing
<1>5. \A s \in Orphans' : pc'[s] = "message" \/ s \in messages'
  <2>1. \A s \in Orphans : s \in messages
    BY <1>0, <1>3 DEF Swept, Orphans, Critical, Storing
  <2> QED
    BY <1>2, <2>1
<1>6. ASSUME NEW d \in Commands PROVE PurgedBy(d)'
  BY <1>3, <1>6 DEF PurgedBy, Critical
<1>7. account' = "deleted" => Orphans' = {}
  BY <1>2 DEF Swept
<1> QED
  BY <1>4, <1>5, <1>6, <1>7

(* The steps of delete-account that touch the objects. *)
LEMMA PurgeSweeps ==
    ASSUME TypeOK, Grip, Swept, NEW c \in Commands,
           Disable(c) \/ PurgeTracked(c) \/ PurgeUntracked(c) \/ DeleteBlob(c) \/ DeleteRow(c)
    PROVE  Swept'
<1>0. /\ c \in Processes /\ pc \in [Processes -> Points]
      /\ purged \in [Commands -> SUBSET Processes]
      /\ condemned \in [Commands -> SUBSET Processes]
  BY DEF TypeOK, Processes
<1>1. outlived = {} => PurgedBy(c)
  BY DEF Swept
<1>2. ASSUME NEW point, Goto(c, point) PROVE pc'[c] = point
  BY <1>0, <1>2 DEF Goto
<1>3. CASE Disable(c)
  <2>1. /\ pc[c] = "disable" /\ Goto(c, "purge") /\ purged'[c] = {}
        /\ UNCHANGED <<messages, blobs, interrupted, outlived>>
        /\ account' = "deleted" => account = "deleted"
    BY <1>0, <1>3 DEF Disable, lock
  <2>2. PurgedBy(c)'
    BY <1>2, <2>1 DEF PurgedBy
  <2> QED
    BY <2>1, <2>2, PurgeMoves DEF Critical, Storing
<1>4. CASE PurgeTracked(c)
  <2>1. pc[c] = "purge" /\ UNCHANGED <<account, messages, blobs, interrupted, outlived>>
    BY <1>4 DEF PurgeTracked, lock
  <2>2. Orphans' = Orphans
    BY <2>1 DEF Orphans
  <2>3. CASE Goto(c, "sweep") /\ UNCHANGED keys
    <3>1. outlived = {} => PurgedBy(c)'
      BY <1>1, <1>2, <2>1, <2>2, <2>3 DEF PurgedBy, keys
    <3> QED
      BY <2>1, <2>3, <3>1, PurgeMoves DEF Critical, Storing
  <2>4. CASE \E o \in tracked : Untrack(c, o)
    <3>1. PICK o \in tracked : Untrack(c, o)
      BY <2>4
    <3>2. purged'[c] = purged[c] \cup {o} /\ condemned'[c] = {o} /\ Goto(c, "unlink")
      BY <1>0, <3>1 DEF Untrack
    <3>3. outlived = {} => PurgedBy(c)'
      BY <1>1, <1>2, <2>1, <2>2, <3>2 DEF PurgedBy
    <3> QED
      BY <2>1, <3>2, <3>3, PurgeMoves DEF Critical, Storing
  <2> QED
    BY <1>4, <2>3, <2>4 DEF PurgeTracked
<1>5. CASE PurgeUntracked(c)
  <2>1. /\ pc[c] = "sweep" /\ UNCHANGED <<account, messages, blobs, interrupted, outlived>>
        /\ Goto(c, "unlist") /\ condemned'[c] = (messages \cup tracked) \ purged[c]
    BY <1>0, <1>5 DEF PurgeUntracked, lock
  <2>2. Orphans' = Orphans
    BY <2>1 DEF Orphans
  <2>3. ASSUME outlived = {} PROVE Orphans \subseteq messages /\ Orphans \cap purged[c] = {}
    <3>1. \A s \in Syncs : pc[s] # "message"
      BY <2>1, <2>3, OneAtWork DEF Critical, Commands
    <3> QED
      BY <1>1, <2>1, <2>3, <3>1 DEF Swept, Orphans, PurgedBy
  <2>4. outlived = {} => PurgedBy(c)'
    BY <1>2, <2>1, <2>2, <2>3 DEF PurgedBy
  <2> QED
    BY <2>1, <2>4, PurgeMoves DEF Critical, Storing
<1>6. CASE DeleteBlob(c)
  <2>1. /\ pc[c] \in {"unlink", "unlist"}
        /\ UNCHANGED <<account, messages, purged, interrupted, outlived>>
    BY <1>6 DEF DeleteBlob, lock
  <2>2. CASE condemned[c] = {} /\ UNCHANGED <<blobs, condemned>>
             /\ Goto(c, IF pc[c] = "unlink" THEN "purge" ELSE "drop")
    <3>1. Orphans' = Orphans
      BY <2>1, <2>2 DEF Orphans
    <3>2. outlived = {} => PurgedBy(c)'
      BY <1>1, <1>2, <2>1, <2>2, <3>1 DEF PurgedBy
    <3> QED
      BY <2>1, <2>2, <3>2, PurgeMoves DEF Critical, Storing
  <2>3. CASE \E o \in condemned[c] : /\ blobs' = blobs \ {o} /\ UNCHANGED pc
                                     /\ condemned' = [condemned EXCEPT ![c] = @ \ {o}]
    <3>1. PICK o \in condemned[c] : /\ blobs' = blobs \ {o} /\ UNCHANGED pc
                                    /\ condemned' = [condemned EXCEPT ![c] = @ \ {o}]
      BY <2>3
    <3>2. /\ Orphans' = Orphans \ {o} /\ Goto(c, pc[c])
          /\ condemned'[c] = condemned[c] \ {o}
      BY <1>0, <2>1, <3>1 DEF Orphans, Goto
    <3>3. outlived = {} => PurgedBy(c)'
      BY <1>1, <2>1, <3>1, <3>2 DEF PurgedBy
    <3> QED
      BY <2>1, <3>1, <3>2, <3>3, PurgeMoves DEF Critical, Storing
  <2> QED
    BY <1>6, <2>2, <2>3 DEF DeleteBlob
<1>7. CASE DeleteRow(c)
  <2>1. /\ pc[c] = "drop" /\ Goto(c, "exit") /\ UNCHANGED <<blobs, interrupted, outlived>>
    BY <1>7 DEF DeleteRow
  <2>2. outlived = {} => Orphans = {} /\ PurgedBy(c)'
    BY <1>1, <1>2, <2>1 DEF PurgedBy
  <2> QED
    BY <2>1, <2>2, PurgeMoves DEF Critical, Storing
<1> QED
  BY <1>3, <1>4, <1>5, <1>6, <1>7

(* Every step keeps what the purge has swept. *)
LEMMA SweptStep == TypeOK /\ Grip /\ Swept /\ [Next]_vars => Swept'
<1> SUFFICES ASSUME TypeOK, Grip, Swept, [Next]_vars PROVE Swept'
  OBVIOUS
<1>0. Commands \subseteq Processes /\ Syncs \cap Clients = {}
  BY LockAssumption DEF Processes, Commands
<1>1. ASSUME NEW c \in Commands, CommandStep(c) PROVE Swept'
  <2>1. CASE Start(c) \/ ReadAccount(c) \/ Busy(c) \/ Report(c)
    <3>1. UNCHANGED <<account, messages, blobs, purged, condemned, interrupted, outlived>>
      BY <2>1 DEF Start, ReadAccount, Busy, Report, data, keys, lock
    <3>2. \E point \in {"exit", "read", "report_ok", "acquire"} : Goto(c, point)
      BY <2>1 DEF Start, ReadAccount, Busy, Report
    <3>3. pc[c] # "message"
      BY <2>1 DEF Start, ReadAccount, Busy, Report
    <3> QED
      BY <1>0, <3>1, <3>2, <3>3, MoveSweeps DEF Purging, Storing
  <2>2. CASE Acquire(c) \/ AcquireFails(c)
    <3>1. PICK point \in {"exit", "report_error", "mailboxes", "disable"} : Goto(c, point)
      BY <2>2 DEF Acquire, AcquireFails
    <3>2. UNCHANGED <<account, messages, blobs, purged, condemned, interrupted, outlived>>
          /\ pc[c] = "acquire"
      BY <2>2 DEF Acquire, AcquireFails, data, keys
    <3> QED
      BY <1>0, <3>1, <3>2, MoveSweeps DEF Over, Leaving, Purging, Storing
  <2>3. CASE UpsertMailbox(c) \/ SyncEndsEarly(c)
    <3>1. /\ UNCHANGED <<account, messages, blobs, purged, condemned, interrupted, outlived>>
          /\ pc[c] \in {"mailboxes", "put"}
      BY <2>3 DEF UpsertMailbox, SyncEndsEarly, data, keys
    <3>2. (account # "deleted" /\ Goto(c, "put")) \/ \E point \in Over : Goto(c, point)
      BY <2>3 DEF UpsertMailbox, SyncEndsEarly, EndSync, Over, Leaving
    <3> QED
      BY <1>0, <3>1, <3>2, MoveSweeps DEF Over, Leaving, Purging, Storing
  <2>4. CASE DeleteFails(c)
    BY <1>0, <2>4, MoveSweeps DEF DeleteFails, data, keys, Purging, Storing
  <2>5. CASE Release(c) \/ ReleaseFails(c)
    <3>1. UNCHANGED <<account, messages, blobs, purged, condemned, interrupted, outlived, pc>>
      BY <2>5 DEF Release, ReleaseFails, data, keys
    <3> QED
      BY <3>1 DEF Swept, Orphans, PurgedBy
  <2> QED
    BY <1>1, <2>1, <2>2, <2>3, <2>4, <2>5, PurgeSweeps DEF CommandStep
<1>2. ASSUME NEW p \in Processes, StartAppend(p) \/ Exit(p) \/ Crash(p) PROVE Swept'
  <2>1. CASE StartAppend(p)
    BY <1>0, <2>1, MoveSweeps DEF StartAppend, lock, data, keys, Purging
  <2>2. CASE Exit(p)
    BY <2>2, MoveSweeps DEF Exit, data, keys, Purging, Storing
  <2>3. CASE Crash(p)
    BY <2>3, MoveSweeps DEF Crash, keys, Purging, Storing
  <2> QED
    BY <1>2, <2>1, <2>2, <2>3
<1>3. CASE Tick \/ UNCHANGED vars
  <2>1. /\ UNCHANGED <<account, messages, blobs, purged, condemned, interrupted, pc>>
        /\ outlived \subseteq outlived'
    BY <1>3 DEF Tick, vars, data, keys, lock
  <2> QED
    BY <2>1 DEF Swept, Orphans, PurgedBy
<1> QED
  BY <1>1, <1>2, <1>3, ObjectSweeps DEF Next, ProcessStep

(* With any number of commands and sessions, and wherever any of them      *)
(* dies: unless a command outlives its lock, a deleted account leaves no   *)
(* blob of a sync in the object store, save one whose sync stopped between *)
(* the blob and its row.                                                   *)
THEOREM DeletionClean == Spec => []DeletionLeavesNoSyncedBlob
<1>1. Init => Swept
  BY DEF Init, Swept, Orphans, PurgedBy, Processes, Commands
<1>2. Swept => DeletionLeavesNoSyncedBlob
  BY DEF Swept, Orphans, DeletionLeavesNoSyncedBlob
<1> QED
  BY <1>1, <1>2, Gripped, SweptStep, PTL DEF Spec
=============================================================================
