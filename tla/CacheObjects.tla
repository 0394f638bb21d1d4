---------------------------- MODULE CacheObjects ----------------------------
(***************************************************************************)
(* The object cache: the blobs of a message and of its MIME part in a      *)
(* filesystem store, the rows of messages, mime_parts and mailbox_messages *)
(* that name them, the reference counts in cache_objects, and the quota.   *)
(* Ingests (of a sync or an APPEND), copies, expunges, fetches with their  *)
(* refill from upstream, and clear-cache run side by side.                 *)
(*                                                                         *)
(* Every message here has the same content: keys are content-addressed, so *)
(* that is the case in which accounts and mailboxes share blobs.           *)
(***************************************************************************)
EXTENDS Naturals, FiniteSets

CONSTANTS
    Accounts,
    Ingests,        \* ingests of a message by a sync or an APPEND
    Appends,        \* the ones by an APPEND
    AccountOf,      \* ingest -> its account
    Readers,        \* accounts with a client at work
    Limit,          \* quotas.max_bytes of every account
    Keep,           \* cache_eviction_keep_latest_objects
    MaxIngests,     \* bound on ingests that are started
    MaxPrunes,      \* bound on clear-cache commands
    MaxFailures,    \* bound on ingests and clients that die or meet an error
    MaxReads,       \* bound on refills from upstream
    None

Keys == {"raw", "part"}
Size == 2           \* one unit for each object of a message
Boxes == {"inbox", "sent", "archive"}
Slots == Accounts \X Boxes

ASSUME CacheAssumption ==
    /\ IsFiniteSet(Ingests) /\ Appends \subseteq Ingests /\ AccountOf \in [Ingests -> Accounts]
    /\ Readers \subseteq Accounts
    /\ {Limit, Keep, MaxIngests, MaxPrunes, MaxFailures, MaxReads} \subseteq Nat
    /\ None \notin Ingests \cup Keys

VARIABLES
    blob,           \* the files: absent, torn (created, not written) or whole
    open,           \* key -> writers whose handle is on the file of that name
    messages,       \* ingests with a row in messages
    parts,          \* ingests with a row in mime_parts
    row,            \* mailbox_messages: slot -> its message, or None
    refs,           \* account -> key -> ref_count, 0 for no row
    used,           \* quotas.used_bytes
    pc,             \* where each ingest is
    client,         \* account -> what its client is doing, see Idle
    prune,          \* account -> keys clear-cache has still to drop, key to unlink
    dead,           \* ingests and clients that stopped half way
    pruned,         \* history: accounts whose cache was cleared
    exposed,        \* history: ingests that met a deletion of their blob
    overlapped,     \* history: accounts with two ingests at once
    prunes, failures, reads

store == <<blob, open>>
tables == <<messages, parts, row, refs, used>>
history == <<pruned, exposed, overlapped>>
budget == <<prunes, failures, reads>>
vars == <<store, tables, pc, client, prune, dead, history, budget>>

Steps == {"idle", "put", "write", "message", "put_part", "write_part", "part",
          "track_part", "file", "track", "charge", "done"}
Tasks == {"idle", "copy_part", "copy_raw", "drop_part", "drop_raw",
          "upstream", "create", "write", "find", "insert", "extract"}
Idle == [task |-> "idle", uid |-> FALSE, key |-> "raw", want |-> "raw"]
NoPrune == [todo |-> {}, unlink |-> None]

(* The state has the shape of the files, the rows and the processes. *)
TypeOK ==
    /\ blob \in [Keys -> {"absent", "torn", "whole"}]
    /\ open \in [Keys -> SUBSET (Ingests \cup Accounts)]
    /\ messages \subseteq Ingests /\ parts \subseteq Ingests
    /\ row \in [Slots -> Ingests \cup {None}]
    /\ refs \in [Accounts -> [Keys -> Nat]]
    /\ used \in [Accounts -> Nat]
    /\ pc \in [Ingests -> Steps]
    /\ client \in [Readers -> [task : Tasks, uid : BOOLEAN, key : Keys, want : Keys]]
    /\ prune \in [Accounts -> [todo : SUBSET Keys, unlink : Keys \cup {None}]]
    /\ dead \subseteq Ingests \cup Readers
    /\ pruned \subseteq Accounts /\ exposed \subseteq Ingests /\ overlapped \subseteq Accounts
    /\ prunes \in 0..MaxPrunes /\ failures \in 0..MaxFailures /\ reads \in 0..MaxReads

Init ==
    /\ blob = [k \in Keys |-> "absent"] /\ open = [k \in Keys |-> {}]
    /\ messages = {} /\ parts = {}
    /\ row = [s \in Slots |-> None]
    /\ refs = [a \in Accounts |-> [k \in Keys |-> 0]]
    /\ used = [a \in Accounts |-> 0]
    /\ pc = [j \in Ingests |-> "idle"]
    /\ client = [a \in Readers |-> Idle]
    /\ prune = [a \in Accounts |-> NoPrune]
    /\ dead = {} /\ pruned = {} /\ exposed = {} /\ overlapped = {}
    /\ prunes = 0 /\ failures = 0 /\ reads = 0

-----------------------------------------------------------------------------
(* FilesystemObjectStore::put creates (and truncates) the file, then       *)
(* writes it.  A handle outlives the name: what is written to a file that  *)
(* was unlinked is gone.                                                   *)
Create(p, k) ==
    /\ blob' = [blob EXCEPT ![k] = "torn"]
    /\ open' = [open EXCEPT ![k] = @ \cup {p}]

(* Mutation of Write: what is written is not flushed. *)
WriteUnflushed(p, k) ==
    /\ open' = [open EXCEPT ![k] = @ \ {p}]
    /\ UNCHANGED blob

Write(p, k) ==
    /\ blob' = IF p \in open[k] THEN [blob EXCEPT ![k] = "whole"] ELSE blob
    /\ open' = [open EXCEPT ![k] = @ \ {p}]

(* delete: a missing file is no error. *)
Unlink(k) ==
    /\ blob' = [blob EXCEPT ![k] = "absent"]
    /\ open' = [open EXCEPT ![k] = {}]

(* get validates what it read against the hash in the key. *)
Get(k) ==
    CASE blob[k] = "whole" -> "right" [] blob[k] = "torn" -> "error" [] OTHER -> "missing"

(* upsert_cache_object with ref_count 1. *)
AddRef(a, k) == refs' = [refs EXCEPT ![a][k] = @ + 1]

(* The row of delete_cache_object_for_account: lowered, or deleted at one. *)
DropRef(a, k) == refs' = [refs EXCEPT ![a][k] = IF @ = 0 THEN 0 ELSE @ - 1]

(* Mutation of Elsewhere: only the account's own rows are asked. *)
NowhereElse(a, k) == {}

(* The rows of other accounts that name the key. *)
Elsewhere(a, k) ==
    {j \in (IF k = "raw" THEN messages ELSE parts) : AccountOf[j] # a}

(* The value delete_cache_object_for_account returns: the blob may go. *)
LastReference(a, k) == refs[a][k] = 1 /\ Elsewhere(a, k) = {}

-----------------------------------------------------------------------------
(* An ingest: MessageIngestor::ingest_parsed_message, statement by         *)
(* statement.                                                              *)
Goto(j, step) == pc' = [pc EXCEPT ![j] = step]
Running(j) == pc[j] \notin {"idle", "done"} /\ j \notin dead
At(j, step) == pc[j] = step /\ j \notin dead

(* Mutation of QuotaAdmits: the incoming bytes are not counted. *)
QuotaAdmitsUsed(a) == used[a] <= Limit

QuotaAdmits(a) == used[a] + Size <= Limit

IngestCheck(j) ==
    /\ pc[j] = "idle" /\ Cardinality({i \in Ingests : pc[i] # "idle"}) < MaxIngests
    /\ Goto(j, IF QuotaAdmits(AccountOf[j]) THEN "put" ELSE "done")
    /\ overlapped' = IF QuotaAdmits(AccountOf[j])
                        /\ \E i \in Ingests \ {j} : AccountOf[i] = AccountOf[j] /\ Running(i)
                     THEN overlapped \cup {AccountOf[j]} ELSE overlapped
    /\ UNCHANGED <<store, tables, client, prune, dead, pruned, exposed, budget>>

IngestCreate(j, at, k, next) ==
    /\ At(j, at)
    /\ Create(j, k)
    /\ Goto(j, next)
    /\ exposed' = IF \E a \in Accounts : prune[a].unlink = k THEN exposed \cup {j} ELSE exposed
    /\ UNCHANGED <<tables, client, prune, dead, pruned, overlapped, budget>>

IngestWrite(j, at, k, next) ==
    /\ At(j, at)
    /\ Write(j, k)
    /\ Goto(j, next)
    /\ UNCHANGED <<tables, client, prune, dead, history, budget>>

(* upsert_message is an INSERT: a message ingested again has a new row. *)
IngestMessage(j) ==
    /\ At(j, "message")
    /\ messages' = messages \cup {j}
    /\ Goto(j, "put_part")
    /\ UNCHANGED <<store, parts, row, refs, used, client, prune, dead, history, budget>>

IngestPart(j) ==
    /\ At(j, "part")
    /\ parts' = parts \cup {j}
    /\ Goto(j, "track_part")
    /\ UNCHANGED <<store, messages, row, refs, used, client, prune, dead, history, budget>>

(* upsert_mailbox_message: a row with the same uid is taken over. *)
IngestFile(j) ==
    /\ At(j, "file")
    /\ row' = [row EXCEPT ![<<AccountOf[j], IF j \in Appends THEN "sent" ELSE "inbox">>] = j]
    /\ Goto(j, "track")
    /\ UNCHANGED <<store, messages, parts, refs, used, client, prune, dead, history, budget>>

IngestTrack(j, at, k, next) ==
    /\ At(j, at)
    /\ AddRef(AccountOf[j], k)
    /\ Goto(j, next)
    /\ UNCHANGED <<store, messages, parts, row, used, client, prune, dead, history, budget>>

IngestCharge(j) ==
    /\ At(j, "charge")
    /\ used' = [used EXCEPT ![AccountOf[j]] = @ + Size]
    /\ Goto(j, "done")
    /\ UNCHANGED <<store, messages, parts, row, refs, client, prune, dead, history, budget>>

Ingest(j) ==
    \/ IngestCheck(j)
    \/ IngestCreate(j, "put", "raw", "write") \/ IngestWrite(j, "write", "raw", "message")
    \/ IngestMessage(j)
    \/ IngestCreate(j, "put_part", "part", "write_part")
    \/ IngestWrite(j, "write_part", "part", "part")
    \/ IngestPart(j) \/ IngestTrack(j, "track_part", "part", "file")
    \/ IngestFile(j) \/ IngestTrack(j, "track", "raw", "charge") \/ IngestCharge(j)

-----------------------------------------------------------------------------
(* The client of an account: one command at a time. *)
Task(a, task) == client[a].task = task /\ a \notin dead
Become(a, task) == client' = [client EXCEPT ![a].task = task]
Answer(a) == client' = [client EXCEPT ![a] = Idle]

(* The transaction of copy_mailbox_message; the counts follow it. *)
Copy(a, box) ==
    /\ Task(a, "idle") /\ row[<<a, box>>] # None /\ row[<<a, "archive">>] = None
    /\ row' = [row EXCEPT ![<<a, "archive">>] = row[<<a, box>>]]
    /\ Become(a, "copy_part")
    /\ UNCHANGED <<store, messages, parts, refs, used, pc, prune, dead, history, budget>>

(* Mutation of CopyCount: a copy does not count the message itself. *)
CopyCountParts(a) ==
    /\ \/ Task(a, "copy_part") /\ AddRef(a, "part") /\ Become(a, "copy_raw")
       \/ Task(a, "copy_raw") /\ UNCHANGED refs /\ client' = [client EXCEPT ![a] = Idle]
    /\ UNCHANGED <<store, messages, parts, row, used, pc, prune, dead, history, budget>>

CopyCount(a) ==
    /\ \/ Task(a, "copy_part") /\ AddRef(a, "part") /\ Become(a, "copy_raw")
       \/ Task(a, "copy_raw") /\ AddRef(a, "raw") /\ client' = [client EXCEPT ![a] = Idle]
    /\ UNCHANGED <<store, messages, parts, row, used, pc, prune, dead, history, budget>>

(* The transaction of delete_mailbox_message.  The counts follow it; the   *)
(* blobs stay, whatever the counts come to, and so does the message's row. *)
Delete(a, box) ==
    /\ Task(a, "idle") /\ row[<<a, box>>] # None
    /\ row' = [row EXCEPT ![<<a, box>>] = None]
    /\ Become(a, "drop_part")
    /\ UNCHANGED <<store, messages, parts, refs, used, pc, prune, dead, history, budget>>

DeleteCount(a) ==
    /\ \/ Task(a, "drop_part") /\ DropRef(a, "part") /\ Become(a, "drop_raw")
       \/ Task(a, "drop_raw") /\ DropRef(a, "raw") /\ client' = [client EXCEPT ![a] = Idle]
    /\ UNCHANGED <<store, messages, parts, row, used, pc, prune, dead, history, budget>>

(* load_raw_fetch_bytes: a hit, or an error, answers; a miss is refilled   *)
(* from upstream when the row has an upstream uid, which a copy and an     *)
(* append have not.                                                        *)
Miss(a, box, k) ==
    IF k = "raw" /\ box # "inbox"
    THEN Answer(a) /\ UNCHANGED reads
    ELSE /\ reads < MaxReads /\ reads' = reads + 1
         /\ client' = [client EXCEPT ![a] =
                [task |-> IF k = "raw" THEN "upstream" ELSE "extract",
                 uid |-> box = "inbox", key |-> "raw", want |-> k]]

Fetch(a, box, k) ==
    /\ Task(a, "idle") /\ row[<<a, box>>] # None
    /\ IF Get(k) = "missing" THEN Miss(a, box, k) ELSE Answer(a) /\ UNCHANGED reads
    /\ UNCHANGED <<store, tables, pc, prune, dead, history, prunes, failures>>

(* A partial fetch uses get_range, which compares nothing and answers a    *)
(* torn file's bytes; a part that is missing is then not refilled.         *)
FetchRange(a, box, k) ==
    /\ Task(a, "idle") /\ row[<<a, box>>] # None
    /\ IF blob[k] = "absent" /\ k = "raw" THEN Miss(a, box, k) ELSE Answer(a) /\ UNCHANGED reads
    /\ UNCHANGED <<store, tables, pc, prune, dead, history, prunes, failures>>

(* A part that is missing is cut out of the message. *)
Extract(a) ==
    /\ Task(a, "extract")
    /\ CASE Get("raw") = "right" ->
              client' = [client EXCEPT ![a].task = "create", ![a].key = "part"]
         [] Get("raw") = "missing" /\ client[a].uid -> Become(a, "upstream")
         [] OTHER -> Answer(a)
    /\ UNCHANGED <<store, tables, pc, prune, dead, history, budget>>

(* rehydrate_missing_raw_blob: fetched whole, or the fetch fails. *)
Upstream(a) ==
    /\ Task(a, "upstream")
    /\ Become(a, "create") \/ Answer(a)
    /\ UNCHANGED <<store, tables, pc, prune, dead, history, budget>>

(* put, then find_cache_object and, where there is none, upsert. *)
Refill(a) ==
    LET k == client[a].key IN
    /\ \/ Task(a, "create") /\ Create(a, k) /\ Become(a, "write") /\ UNCHANGED refs
       \/ Task(a, "write") /\ Write(a, k) /\ Become(a, "find") /\ UNCHANGED refs
       \/ Task(a, "find") /\ refs[a][k] = 0 /\ Become(a, "insert") /\ UNCHANGED <<store, refs>>
       \/ /\ \/ Task(a, "find") /\ refs[a][k] > 0 /\ UNCHANGED refs
             \/ Task(a, "insert") /\ AddRef(a, k)
          /\ IF k = client[a].want
             THEN Answer(a)
             ELSE client' = [client EXCEPT ![a].task = "create", ![a].key = "part"]
          /\ UNCHANGED store
    /\ UNCHANGED <<messages, parts, row, used, pc, prune, dead, history, budget>>

-----------------------------------------------------------------------------
(* clear-cache: prune_cache_objects_for_account lists the cache rows once, *)
(* spares the Keep latest (any of them may be the latest), and drops one   *)
(* reference of each of the others.                                        *)
PruneList(a) ==
    LET listed == {k \in Keys : refs[a][k] > 0} IN
    /\ prunes < MaxPrunes /\ prune[a] = NoPrune /\ listed # {}
    /\ \E spared \in SUBSET listed :
          /\ Cardinality(spared) = Keep \/ (spared = listed /\ Cardinality(listed) < Keep)
          /\ prune' = [prune EXCEPT ![a].todo = listed \ spared]
    /\ prunes' = prunes + 1
    /\ pruned' = pruned \cup {a}
    /\ UNCHANGED <<store, tables, pc, client, dead, exposed, overlapped, failures, reads>>

Unnamed(k) == IF k = "raw" THEN {"write", "message"} ELSE {"write_part", "part"}

PruneDrop(a, k) ==
    /\ k \in prune[a].todo /\ prune[a].unlink = None
    /\ DropRef(a, k)
    /\ prune' = [prune EXCEPT ![a] =
           [todo |-> @.todo \ {k}, unlink |-> IF LastReference(a, k) THEN k ELSE None]]
    /\ exposed' = IF LastReference(a, k)
                  THEN exposed \cup {j \in Ingests : pc[j] \in Unnamed(k)} ELSE exposed
    /\ UNCHANGED <<store, messages, parts, row, used, pc, client, dead,
                   pruned, overlapped, budget>>

PruneUnlink(a) ==
    /\ prune[a].unlink # None
    /\ Unlink(prune[a].unlink)
    /\ prune' = [prune EXCEPT ![a].unlink = None]
    /\ UNCHANGED <<tables, pc, client, dead, history, budget>>

(* An ingest or a client stops where it is: its process dies, or a         *)
(* statement fails.                                                        *)
Stop(p) ==
    /\ failures < MaxFailures /\ failures' = failures + 1
    /\ \/ p \in Ingests /\ Running(p)
       \/ p \in Readers /\ client[p].task # "idle" /\ p \notin dead
    /\ dead' = dead \cup {p}
    /\ UNCHANGED <<store, tables, pc, client, prune, history, prunes, reads>>

Next ==
    \/ \E j \in Ingests : Ingest(j)
    \/ \E a \in Readers : CopyCount(a) \/ DeleteCount(a) \/ Extract(a) \/ Upstream(a) \/ Refill(a)
    \/ \E a \in Readers, b \in Boxes : Copy(a, b) \/ Delete(a, b)
    \/ \E a \in Readers, b \in Boxes, k \in Keys : Fetch(a, b, k) \/ FetchRange(a, b, k)
    \/ \E a \in Accounts : PruneList(a) \/ PruneUnlink(a)
    \/ \E a \in Accounts, k \in Keys : PruneDrop(a, k)
    \/ \E p \in Ingests \cup Readers : Stop(p)

Spec == Init /\ [][Next]_vars

-----------------------------------------------------------------------------
(* A copy that is filed and still has to be counted. *)
Copying(a, k) ==
    IF a \in Readers /\ \/ client[a].task = "copy_part"
                        \/ client[a].task = "copy_raw" /\ k = "raw" THEN 1 ELSE 0

(* References that are filed and still have to be counted, by an ingest or *)
(* a copy that is at work, or that stopped in between.                     *)
Owed(a, k) ==
    Cardinality({j \in Ingests : AccountOf[j] = a /\ k = "raw" /\ pc[j] = "track"}) + Copying(a, k)

(* As long as the account's cache is not cleared, no row of a mailbox is   *)
(* without its reference: whatever is ingested again, copied and expunged  *)
(* side by side, ref_count never falls below the rows that need the object *)
(* (upsert adds, delete_cache_object_for_account takes one off).           *)
CountsCoverRows ==
    \A a \in Accounts \ pruned, k \in Keys :
        Cardinality({b \in Boxes : row[<<a, b>>] # None}) <= refs[a][k] + Owed(a, k)

(* clear-cache of one account takes no blob from the messages of another,  *)
(* save one whose ingest was storing the blob at that very time            *)
(* (the count of references elsewhere, then the deletion of the object).   *)
OthersKeepBlobs ==
    \A a \in Accounts \ pruned, b \in Boxes :
        LET j == row[<<a, b>>] IN
        (j # None /\ j \notin exposed) => \A k \in Keys : blob[k] # "absent"

(* An account is charged more than its quota only when two of its ingests  *)
(* ran at once: the quota is read before an ingest and adjusted after it.  *)
OverQuotaOnlyByOverlap ==
    \A a \in Accounts : used[a] > Limit => a \in overlapped

(* p is in the middle of put, at work or stopped there. *)
Writing(p, k) ==
    \/ p \in Ingests /\ pc[p] = (IF k = "raw" THEN "write" ELSE "write_part")
    \/ p \in Readers /\ client[p].task = "write" /\ client[p].key = k

(* Whoever stores, refills, reads and deletes the same content at the same *)
(* time, a file is torn only under a put that is between its creation of   *)
(* the file and its write, or that stopped there: two puts of one content  *)
(* that overlap, or a deletion under a put, leave no torn file behind.     *)
TornOnlyUnderPut ==
    \A k \in Keys : blob[k] = "torn" => \E p \in Ingests \cup Readers : Writing(p, k)
=============================================================================
