------------------------- MODULE CacheObjectsProofs -------------------------
(***************************************************************************)
(* What the cache keeps, counts and charges, for any number of accounts,   *)
(* ingests and clients, and wherever any of them stops: clear-cache of one *)
(* account keeps its hands off the blobs of another (BlobsKept), the quota *)
(* is passed only by overlapping ingests (QuotaHeld), and a file is torn   *)
(* only under a put that has not ended (TornUnderPut).                     *)
(***************************************************************************)
EXTENDS CacheObjects, TLAPS

(* What the argument needs of the types. *)
Shape ==
    /\ blob \in [Keys -> {"absent", "torn", "whole"}]
    /\ messages \subseteq Ingests /\ parts \subseteq Ingests
    /\ row \in [Slots -> Ingests \cup {None}]
    /\ pc \in [Ingests -> Steps]
    /\ prune \in [Accounts -> [todo : SUBSET Keys, unlink : Keys \cup {None}]]

(* An ingest that stored the object k: rows name it, or will.  *)
Stored(j, k) == j \in (IF k = "raw" THEN messages ELSE parts) \/ pc[j] \in Unnamed(k)

(* Rows are written in the order of the statements. *)
RowsFollow ==
    /\ \A j \in Ingests :
          /\ pc[j] \in Steps \ {"idle", "put", "write", "message", "done"} => j \in messages
          /\ pc[j] \in {"track_part", "file", "track", "charge"} => j \in parts
    /\ \A a \in Accounts, b \in Boxes : row[<<a, b>>] # None =>
          /\ row[<<a, b>>] \in messages \cap parts
          /\ AccountOf[row[<<a, b>>]] = a

(* Only an account that was cleared is being cleared, and a blob that is   *)
(* about to be unlinked is one no other account has, but for ingests that  *)
(* were storing it when the references were counted, or came later.        *)
UnlinkedAlone ==
    \A a \in Accounts :
        /\ prune[a] # NoPrune => a \in pruned
        /\ \A k \in Keys, j \in Ingests :
              prune[a].unlink = k /\ AccountOf[j] # a /\ Stored(j, k) => j \in exposed

(* What was stored is there, unless it met a deletion. *)
StoredKept ==
    \A j \in Ingests, k \in Keys :
        Stored(j, k) /\ j \notin exposed /\ AccountOf[j] \notin pruned => blob[k] # "absent"

(* The strengthening that makes OthersKeepBlobs inductive. *)
IInv == Shape /\ RowsFollow /\ UnlinkedAlone /\ StoredKept

(* A row was stored by its ingest, so its blobs are there. *)
LEMMA IInvSuffices == IInv => OthersKeepBlobs
<1> SUFFICES ASSUME IInv, NEW a \in Accounts \ pruned, NEW b \in Boxes, NEW k \in Keys,
                    row[<<a, b>>] # None, row[<<a, b>>] \notin exposed
             PROVE  blob[k] # "absent"
    BY DEF OthersKeepBlobs
<1>1. /\ row[<<a, b>>] \in messages \cap parts /\ AccountOf[row[<<a, b>>]] = a
      /\ messages \subseteq Ingests
  BY DEF IInv, RowsFollow, Shape
<1>2. Stored(row[<<a, b>>], k)
  BY <1>1 DEF Stored
<1> QED
  BY <1>1, <1>2 DEF IInv, StoredKept

(* At first nothing is stored. *)
LEMMA InitKeeps == Init => IInv
<1> SUFFICES ASSUME Init PROVE IInv
    OBVIOUS
<1> USE CacheAssumption DEF Init, NoPrune
<1>1. Shape
  BY DEF Shape, Steps
<1>2. RowsFollow
  BY DEF RowsFollow, Steps, Slots
<1>3. UnlinkedAlone /\ StoredKept
  BY DEF UnlinkedAlone, StoredKept, Stored, Unnamed, Keys
<1> QED
  BY <1>1, <1>2, <1>3 DEF IInv

-----------------------------------------------------------------------------
(* A step that leaves the rows, the ingests and clear-cache alone and      *)
(* unlinks nothing.                                                        *)
LEMMA UntouchedKeeps ==
    ASSUME IInv, UNCHANGED <<messages, parts, row, pc, prune, pruned, exposed>>,
           blob' \in [Keys -> {"absent", "torn", "whole"}],
           \A k \in Keys : blob'[k] = "absent" => blob[k] = "absent"
    PROVE  IInv'
  BY DEF IInv, Shape, RowsFollow, UnlinkedAlone, StoredKept, Stored

(* A file that is created or written is there afterwards. *)
LEMMA FilesAppear ==
    ASSUME Shape, NEW p, NEW k \in Keys, Create(p, k) \/ Write(p, k)
    PROVE  /\ blob' \in [Keys -> {"absent", "torn", "whole"}]
           /\ \A i \in Keys : blob'[i] = "absent" => blob[i] = "absent"
  BY DEF Shape, Create, Write

(* An ingest that moves on without entering or leaving the time in which   *)
(* its blob is stored and not yet named.                                   *)
LEMMA MovesKeeps ==
    ASSUME IInv, NEW j \in Ingests, NEW step \in Steps, Goto(j, step),
           UNCHANGED <<messages, parts, row, prune, pruned, exposed>>,
           blob' \in [Keys -> {"absent", "torn", "whole"}],
           \A k \in Keys : blob'[k] = "absent" => blob[k] = "absent",
           \A k \in Keys : step \in Unnamed(k) => pc[j] \in Unnamed(k),
           step \in Steps \ {"idle", "put", "write", "message", "done"} => j \in messages,
           step \in {"track_part", "file", "track", "charge"} => j \in parts
    PROVE  IInv'
<1>1. Shape'
  BY DEF IInv, Shape, Goto
<1>2. RowsFollow'
  BY DEF IInv, Shape, RowsFollow, Goto
<1>3. \A i \in Ingests, k \in Keys : Stored(i, k)' => Stored(i, k)
  BY DEF IInv, Shape, Stored, Goto, Unnamed
<1>4. UnlinkedAlone'
  BY <1>3 DEF IInv, Shape, UnlinkedAlone
<1>5. StoredKept'
  BY <1>3 DEF IInv, Shape, StoredKept
<1> QED
  BY <1>1, <1>2, <1>4, <1>5 DEF IInv

(* Creating the file: an ingest that comes while the file is about to be   *)
(* unlinked is noted.                                                      *)
LEMMA CreateKeeps ==
    ASSUME IInv, NEW j \in Ingests,
           \/ IngestCreate(j, "put", "raw", "write")
           \/ IngestCreate(j, "put_part", "part", "write_part")
    PROVE  IInv'
<1>1. PICK k \in Keys, step \in Steps :
          /\ Create(j, k) /\ Goto(j, step) /\ step \in Unnamed(k)
          /\ \A i \in Keys : step \in Unnamed(i) => i = k
          /\ exposed' = IF \E a \in Accounts : prune[a].unlink = k THEN exposed \cup {j} ELSE exposed
          /\ step # "write" => pc[j] = "put_part"
          /\ step \in {"write", "write_part"}
  BY DEF IngestCreate, At, Unnamed, Keys, Steps
<1>2. UNCHANGED <<messages, parts, row, prune, pruned>>
  BY DEF IngestCreate, tables
<1>3. blob'[k] # "absent" /\ \A i \in Keys : blob'[i] = "absent" => blob[i] = "absent"
  BY <1>1 DEF IInv, Shape, Create
<1>4. Shape'
  BY <1>1, <1>2, FilesAppear DEF IInv, Shape, Goto
<1>5. RowsFollow'
  BY <1>1, <1>2 DEF IInv, Shape, RowsFollow, Goto, Steps
<1>6. \A i \in Ingests, h \in Keys : Stored(i, h)' => Stored(i, h) \/ (i = j /\ h = k)
  BY <1>1, <1>2 DEF IInv, Shape, Stored, Goto
<1>7. UnlinkedAlone'
  BY <1>1, <1>2, <1>6 DEF IInv, UnlinkedAlone
<1>8. StoredKept'
  BY <1>1, <1>2, <1>3, <1>6 DEF IInv, StoredKept
<1> QED
  BY <1>4, <1>5, <1>7, <1>8 DEF IInv

(* Inserting the row that names the blob. *)
LEMMA NameKeeps ==
    ASSUME IInv, NEW j \in Ingests, IngestMessage(j) \/ IngestPart(j)
    PROVE  IInv'
<1>1. UNCHANGED <<blob, row, prune, pruned, exposed>>
  BY DEF IngestMessage, IngestPart, store, history
<1>2. \/ pc[j] = "message" /\ Goto(j, "put_part") /\ messages' = messages \cup {j} /\ parts' = parts
      \/ pc[j] = "part" /\ Goto(j, "track_part") /\ parts' = parts \cup {j} /\ messages' = messages
  BY DEF IngestMessage, IngestPart, At
<1>3. Shape'
  BY <1>1, <1>2 DEF IInv, Shape, Goto, Steps
<1>4. RowsFollow'
  BY <1>1, <1>2 DEF IInv, Shape, RowsFollow, Goto, Steps
<1>5. \A i \in Ingests, k \in Keys : Stored(i, k)' => Stored(i, k)
  BY <1>2 DEF IInv, Shape, Stored, Goto, Unnamed, Keys
<1>6. UnlinkedAlone' /\ StoredKept'
  BY <1>1, <1>5 DEF IInv, UnlinkedAlone, StoredKept
<1> QED
  BY <1>3, <1>4, <1>6 DEF IInv

(* The steps of an ingest that neither create a file nor name one. *)
LEMMA IngestKeeps ==
    ASSUME IInv, NEW j \in Ingests, Ingest(j)
    PROVE  IInv'
<1>a. /\ blob \in [Keys -> {"absent", "torn", "whole"}]
      /\ pc[j] \in Steps \ {"idle", "put", "write", "message", "done"} => j \in messages
      /\ pc[j] \in {"track_part", "file", "track", "charge"} => j \in parts
  BY DEF IInv, Shape, RowsFollow
<1>1. CASE IngestCheck(j)
  <2>1. PICK step \in {"put", "done"} : Goto(j, step)
    BY <1>1 DEF IngestCheck
  <2>2. UNCHANGED <<messages, parts, row, prune, pruned, exposed, blob>>
    BY <1>1 DEF IngestCheck, tables, store
  <2> QED
    BY <1>a, <2>1, <2>2, MovesKeeps DEF Steps, Unnamed
<1>2. CASE IngestWrite(j, "write", "raw", "message") \/ IngestWrite(j, "write_part", "part", "part")
  <2>1. PICK k \in Keys, step \in {"message", "part"} :
            /\ Write(j, k) /\ Goto(j, step)
            /\ step = "message" => pc[j] = "write"
            /\ step = "part" => pc[j] = "write_part"
    BY <1>2 DEF IngestWrite, At, Keys
  <2>2. UNCHANGED <<messages, parts, row, prune, pruned, exposed>>
    BY <1>2 DEF IngestWrite, tables, history
  <2>3. \A i \in Keys : step \in Unnamed(i) => pc[j] \in Unnamed(i)
    BY <2>1 DEF Unnamed
  <2>4. step = "part" => j \in messages
    BY <1>a, <2>1 DEF Steps
  <2>5. /\ blob' \in [Keys -> {"absent", "torn", "whole"}]
        /\ \A i \in Keys : blob'[i] = "absent" => blob[i] = "absent"
    BY <2>1, FilesAppear DEF IInv
  <2> QED
    BY <2>1, <2>2, <2>3, <2>4, <2>5, MovesKeeps DEF Steps
<1>3. CASE IngestTrack(j, "track_part", "part", "file") \/ IngestTrack(j, "track", "raw", "charge")
           \/ IngestCharge(j)
  <2>1. PICK step \in {"file", "charge", "done"} : Goto(j, step)
    BY <1>3 DEF IngestTrack, IngestCharge
  <2>2. UNCHANGED <<messages, parts, row, prune, pruned, exposed, blob>>
    BY <1>3 DEF IngestTrack, IngestCharge, store, history
  <2>3. pc[j] \in {"track_part", "track", "charge"}
    BY <1>3 DEF IngestTrack, IngestCharge, At
  <2> QED
    BY <1>a, <2>1, <2>2, <2>3, MovesKeeps DEF Steps, Unnamed
<1>4. CASE IngestFile(j)
  <2>1. /\ pc[j] = "file" /\ Goto(j, "track")
        /\ UNCHANGED <<messages, parts, prune, pruned, exposed, blob>>
    BY <1>4 DEF IngestFile, At, store, history
  <2>2. PICK b \in Boxes : row' = [row EXCEPT ![<<AccountOf[j], b>>] = j]
    BY <1>4, Zenon DEF IngestFile, Boxes
  <2>3. j \in messages \cap parts /\ AccountOf[j] \in Accounts
    BY <1>a, <2>1, CacheAssumption DEF Steps
  <2>4. Shape'
    BY <2>1, <2>2, Zenon DEF IInv, Shape, Goto, Steps
  <2>5. RowsFollow'
    BY <2>1, <2>2, <2>3 DEF IInv, Shape, RowsFollow, Goto, Slots
  <2>6. \A i \in Ingests, k \in Keys : Stored(i, k)' => Stored(i, k)
    BY <2>1 DEF IInv, Shape, Stored, Goto, Unnamed
  <2>7. UnlinkedAlone' /\ StoredKept'
    BY <2>1, <2>6 DEF IInv, UnlinkedAlone, StoredKept
  <2> QED
    BY <2>4, <2>5, <2>7 DEF IInv
<1> QED
  BY <1>1, <1>2, <1>3, <1>4, CreateKeeps, NameKeeps DEF Ingest

(* A copy files the message a second time in its account; a deletion drops *)
(* the row only.                                                           *)
LEMMA FilingKeeps ==
    ASSUME IInv, NEW a \in Readers, NEW b \in Boxes, Copy(a, b) \/ Delete(a, b)
    PROVE  IInv'
<1>1. UNCHANGED <<messages, parts, pc, prune, pruned, exposed, blob>>
  BY DEF Copy, Delete, store, history
<1>2. \/ row' = [row EXCEPT ![<<a, "archive">>] = row[<<a, b>>]] /\ row[<<a, b>>] # None
      \/ row' = [row EXCEPT ![<<a, b>>] = None]
  BY DEF Copy, Delete
<1>3. a \in Accounts
  BY CacheAssumption
<1>4. Shape'
  BY <1>1, <1>2, <1>3, Zenon DEF IInv, Shape, Slots, Boxes
<1>5. RowsFollow'
  <2>1. ASSUME NEW c \in Accounts, NEW d \in Boxes, row'[<<c, d>>] # None
        PROVE  row'[<<c, d>>] \in messages \cap parts /\ AccountOf[row'[<<c, d>>]] = c
    <3>1. \A e \in Boxes : row[<<c, e>>] # None =>
              row[<<c, e>>] \in messages \cap parts /\ AccountOf[row[<<c, e>>]] = c
      BY DEF IInv, RowsFollow
    <3>2. <<c, d>> \in Slots /\ row \in [Slots -> Ingests \cup {None}]
      BY DEF Slots, IInv, Shape
    <3>3. row'[<<c, d>>] = row[<<c, d>>] \/ (c = a /\ row'[<<c, d>>] = row[<<c, b>>])
      BY <1>2, <2>1, <3>2
    <3> QED
      BY <2>1, <3>1, <3>3
  <2> QED
    BY <1>1, <2>1 DEF IInv, RowsFollow
<1>6. UnlinkedAlone' /\ StoredKept'
  BY <1>1 DEF IInv, UnlinkedAlone, StoredKept, Stored
<1> QED
  BY <1>4, <1>5, <1>6 DEF IInv

(* clear-cache marks the account before it drops anything. *)
LEMMA PruneListKeeps ==
    ASSUME IInv, NEW a \in Accounts, PruneList(a)
    PROVE  IInv'
<1>1. PICK todo \in SUBSET Keys : prune' = [prune EXCEPT ![a].todo = todo]
  BY Zenon DEF PruneList
<1>2. UNCHANGED <<messages, parts, row, pc, exposed, blob>> /\ pruned' = pruned \cup {a}
  BY DEF PruneList, tables, store
<1>3. Shape' /\ RowsFollow'
  BY <1>1, <1>2 DEF IInv, Shape, RowsFollow
<1>4. \A c \in Accounts : prune'[c].unlink = prune[c].unlink /\ (c # a => prune'[c] = prune[c])
  BY <1>1 DEF IInv, Shape
<1>5. UnlinkedAlone'
  BY <1>2, <1>4 DEF IInv, UnlinkedAlone, Stored
<1>6. StoredKept'
  BY <1>2 DEF IInv, StoredKept, Stored
<1> QED
  BY <1>3, <1>5, <1>6 DEF IInv

(* Dropping the last reference: at that time no other account names the    *)
(* blob, and whoever has stored it without naming it yet is noted.         *)
LEMMA PruneDropKeeps ==
    ASSUME IInv, NEW a \in Accounts, NEW k \in Keys, PruneDrop(a, k)
    PROVE  IInv'
<1>1. /\ UNCHANGED <<messages, parts, row, pc, pruned, blob>> /\ exposed \subseteq exposed'
      /\ k \in prune[a].todo
  BY DEF PruneDrop, store
<1> DEFINE todo == prune[a].todo \ {k}
           unlink == IF LastReference(a, k) THEN k ELSE None
<1>2. /\ todo \in SUBSET Keys /\ unlink \in Keys \cup {None}
      /\ prune' = [prune EXCEPT ![a] = [todo |-> todo, unlink |-> unlink]]
      /\ unlink # None => /\ unlink = k /\ Elsewhere(a, k) = {}
                         /\ \A j \in Ingests : pc[j] \in Unnamed(k) => j \in exposed'
  <2>1. todo \in SUBSET Keys /\ unlink \in Keys \cup {None}
    BY DEF IInv, Shape
  <2>2. prune' = [prune EXCEPT ![a] = [todo |-> todo, unlink |-> unlink]]
    BY DEF PruneDrop
  <2>3. ASSUME unlink # None
        PROVE  /\ unlink = k /\ Elsewhere(a, k) = {}
               /\ \A j \in Ingests : pc[j] \in Unnamed(k) => j \in exposed'
    BY <2>3 DEF PruneDrop, LastReference
  <2> QED
    BY <2>1, <2>2, <2>3
<1> HIDE DEF todo, unlink
<1>3. a \in pruned
  BY <1>1 DEF IInv, UnlinkedAlone, NoPrune
<1>4. Shape' /\ RowsFollow'
  BY <1>1, <1>2, SMTT(30) DEF IInv, Shape, RowsFollow
<1>5. UnlinkedAlone'
  <2>1. ASSUME NEW c \in Accounts, c # a
        PROVE  prune'[c] = prune[c]
    BY <1>2, <2>1 DEF IInv, Shape
  <2>2. prune'[a].unlink = unlink
    BY <1>2 DEF IInv, Shape
  <2>3. ASSUME NEW h \in Keys, NEW j \in Ingests, unlink = h, AccountOf[j] # a, Stored(j, h)
        PROVE  j \in exposed'
    <3>1. h = k /\ Elsewhere(a, k) = {}
      BY <1>2, <2>3, CacheAssumption
    <3>2. j \notin (IF k = "raw" THEN messages ELSE parts)
      BY <2>3, <3>1 DEF Elsewhere, IInv, Shape
    <3> QED
      BY <1>2, <2>3, <3>1, <3>2, CacheAssumption, SMTT(30) DEF Stored
  <2> QED
    BY <1>1, <1>3, <2>1, <2>2, <2>3 DEF IInv, UnlinkedAlone, Stored
<1>6. StoredKept'
  BY <1>1 DEF IInv, StoredKept, Stored
<1> QED
  BY <1>4, <1>5, <1>6 DEF IInv

(* Unlinking: whoever loses the blob is of the account, or was noted. *)
LEMMA PruneUnlinkKeeps ==
    ASSUME IInv, NEW a \in Accounts, PruneUnlink(a)
    PROVE  IInv'
<1>1. UNCHANGED <<messages, parts, row, pc, pruned, exposed>>
  BY DEF PruneUnlink, tables, history
<1>2. PICK k \in Keys : prune[a].unlink = k /\ blob' = [blob EXCEPT ![k] = "absent"]
  BY Zenon DEF PruneUnlink, Unlink, IInv, Shape
<1>3. prune' = [prune EXCEPT ![a].unlink = None]
  BY DEF PruneUnlink
<1>4. a \in pruned
  BY <1>2, CacheAssumption DEF IInv, UnlinkedAlone, NoPrune
<1>5. Shape' /\ RowsFollow'
  BY <1>1, <1>2, <1>3 DEF IInv, Shape, RowsFollow
<1>6. UnlinkedAlone'
  BY <1>1, <1>3, <1>4, CacheAssumption DEF IInv, Shape, UnlinkedAlone, Stored
<1>7. StoredKept'
  <2>1. \A j \in Ingests : Stored(j, k) /\ AccountOf[j] \notin pruned => j \in exposed
    BY <1>2, <1>4 DEF IInv, UnlinkedAlone
  <2> QED
    BY <1>1, <1>2, <2>1 DEF IInv, Shape, StoredKept, Stored
<1> QED
  BY <1>5, <1>6, <1>7 DEF IInv

-----------------------------------------------------------------------------
(* IInv is inductive. *)
LEMMA NextKeeps == IInv /\ [Next]_vars => IInv'
<1> SUFFICES ASSUME IInv, [Next]_vars PROVE IInv'
    OBVIOUS
<1>a. blob \in [Keys -> {"absent", "torn", "whole"}] /\ Shape
  BY DEF IInv, Shape
<1>1. ASSUME NEW a \in Readers, CopyCount(a) \/ DeleteCount(a) \/ Extract(a) \/ Upstream(a)
      PROVE  IInv'
  <2>1. UNCHANGED <<messages, parts, row, pc, prune, pruned, exposed, blob>>
    BY <1>1 DEF CopyCount, DeleteCount, Extract, Upstream, tables, store, history
  <2> QED
    BY <1>a, <2>1, UntouchedKeeps
<1>2. ASSUME NEW a \in Readers, Refill(a) PROVE IInv'
  <2>1. UNCHANGED <<messages, parts, row, pc, prune, pruned, exposed>>
    BY <1>2 DEF Refill, history
  <2>2. (\E k : Create(a, k) \/ Write(a, k)) \/ blob' = blob
    BY <1>2 DEF Refill, store
  <2>3. /\ blob' \in [Keys -> {"absent", "torn", "whole"}]
        /\ \A k \in Keys : blob'[k] = "absent" => blob[k] = "absent"
    BY <1>a, <2>2 DEF Create, Write
  <2> QED
    BY <2>1, <2>3, UntouchedKeeps
<1>3. ASSUME NEW a \in Readers, NEW b \in Boxes, NEW k \in Keys, Fetch(a, b, k) \/ FetchRange(a, b, k)
      PROVE  IInv'
  <2>1. UNCHANGED <<messages, parts, row, pc, prune, pruned, exposed, blob>>
    BY <1>3 DEF Fetch, FetchRange, tables, store, history
  <2> QED
    BY <1>a, <2>1, UntouchedKeeps
<1>4. ASSUME NEW p, Stop(p) PROVE IInv'
  <2>1. UNCHANGED <<messages, parts, row, pc, prune, pruned, exposed, blob>>
    BY <1>4 DEF Stop, tables, store, history
  <2> QED
    BY <1>a, <2>1, UntouchedKeeps
<1>5. ASSUME UNCHANGED vars PROVE IInv'
  <2>1. UNCHANGED <<messages, parts, row, pc, prune, pruned, exposed, blob>>
    BY <1>5 DEF vars, tables, store, history
  <2> QED
    BY <1>a, <2>1, UntouchedKeeps
<1> QED
  BY <1>1, <1>2, <1>3, <1>4, <1>5, IngestKeeps, FilingKeeps, PruneListKeeps, PruneDropKeeps,
     PruneUnlinkKeeps DEF Next

(* As long as its own cache is not cleared, no message of an account loses *)
(* a blob, whatever other accounts ingest, copy, expunge, fetch and clear, *)
(* unless its ingest was storing the blob while the references were being  *)
(* counted and the file unlinked.                                          *)
THEOREM BlobsKept == Spec => []OthersKeepBlobs
  BY InitKeeps, NextKeeps, IInvSuffices, PTL DEF Spec
-----------------------------------------------------------------------------
(* What an account is charged. *)
Live(j) == pc[j] \notin {"idle", "done"} /\ j \notin dead

(* An account of which no two ingests ran at once is within its quota, and *)
(* has room for the ingest that runs, if there is one.                     *)
Charged ==
    /\ used \in [Accounts -> Nat] /\ pc \in [Ingests -> Steps]
    /\ \A a \in Accounts \ overlapped :
          /\ used[a] <= Limit
          /\ \A j \in Ingests : AccountOf[j] = a /\ Live(j) =>
                /\ used[a] + Size <= Limit
                /\ \A i \in Ingests : AccountOf[i] = a /\ Live(i) => i = j

(* A step that charges nothing and starts no ingest. *)
LEMMA NotCharged ==
    ASSUME Charged, UNCHANGED <<used, overlapped>>, pc' \in [Ingests -> Steps],
           \A j \in Ingests : Live(j)' => Live(j)
    PROVE  Charged'
  BY DEF Charged

(* check_quota: the account has room, and if another of its ingests is     *)
(* running the two overlap.                                                *)
LEMMA CheckCharges ==
    ASSUME Charged, NEW j \in Ingests, IngestCheck(j)
    PROVE  Charged'
<1>1. UNCHANGED <<used, dead>> /\ pc' \in [Ingests -> Steps] /\ overlapped \subseteq overlapped'
  BY DEF IngestCheck, tables, Charged, Goto, Steps
<1>2. AccountOf[j] \in Accounts
  BY CacheAssumption
<1>3. CASE ~QuotaAdmits(AccountOf[j])
  <2>1. \A i \in Ingests : Live(i)' => Live(i)
    BY <1>1, <1>3 DEF IngestCheck, Goto, Live, Charged
  <2>2. overlapped' = overlapped
    BY <1>3 DEF IngestCheck
  <2> QED
    BY <1>1, <2>1, <2>2, NotCharged
<1>4. CASE QuotaAdmits(AccountOf[j])
  <2>1. \A i \in Ingests : Live(i)' => Live(i) \/ i = j
    BY <1>1, <1>4 DEF IngestCheck, Goto, Live, Charged
  <2>2. ASSUME AccountOf[j] \notin overlapped', NEW i \in Ingests, i # j, AccountOf[i] = AccountOf[j]
        PROVE  ~Live(i)
    BY <1>4, <2>2 DEF IngestCheck, Running, Live
  <2>3. used[AccountOf[j]] + Size <= Limit
    BY <1>4 DEF QuotaAdmits
  <2> QED
    BY <1>1, <1>2, <2>1, <2>2, <2>3, SMTT(30) DEF Charged
<1> QED
  BY <1>3, <1>4

(* adjust_quota at the end of an ingest: there was room for it. *)
LEMMA ChargeCharges ==
    ASSUME Charged, NEW j \in Ingests, IngestCharge(j)
    PROVE  Charged'
<1>1. /\ UNCHANGED <<overlapped, dead>> /\ pc' \in [Ingests -> Steps]
      /\ used' = [used EXCEPT ![AccountOf[j]] = @ + Size]
  BY DEF IngestCharge, history, Charged, Goto, Steps
<1>2. AccountOf[j] \in Accounts /\ Size \in Nat /\ Limit \in Nat
  BY CacheAssumption DEF Size
<1>3. used' \in [Accounts -> Nat]
  BY <1>1, <1>2 DEF Charged
<1>4. Live(j) /\ ~Live(j)' /\ \A i \in Ingests : Live(i)' => Live(i)
  BY <1>1 DEF IngestCharge, At, Goto, Live, Charged
<1>5. ASSUME AccountOf[j] \notin overlapped
      PROVE  /\ used'[AccountOf[j]] <= Limit
             /\ \A i \in Ingests : AccountOf[i] = AccountOf[j] => ~Live(i)'
  <2>1. used[AccountOf[j]] + Size <= Limit
    BY <1>2, <1>4, <1>5 DEF Charged
  <2>2. \A i \in Ingests : AccountOf[i] = AccountOf[j] /\ Live(i) => i = j
    BY <1>2, <1>4, <1>5 DEF Charged
  <2> QED
    BY <1>1, <1>2, <1>4, <2>1, <2>2 DEF Charged
<1>6. \A a \in Accounts : a # AccountOf[j] => used'[a] = used[a]
  BY <1>1 DEF Charged
<1> QED
  BY <1>1, <1>2, <1>3, <1>4, <1>5, <1>6 DEF Charged

(* Every step keeps Charged. *)
LEMMA StepCharges == Charged /\ [Next]_vars => Charged'
<1> SUFFICES ASSUME Charged, [Next]_vars PROVE Charged'
    OBVIOUS
<1>1. ASSUME NEW j \in Ingests, Ingest(j) PROVE Charged'
  <2>1. CASE IngestCheck(j) \/ IngestCharge(j)
    BY <2>1, CheckCharges, ChargeCharges
  <2>2. CASE ~(IngestCheck(j) \/ IngestCharge(j))
    <3>1. UNCHANGED <<used, overlapped, dead>> /\ At(j, pc[j]) /\ pc[j] \notin {"idle", "done"}
          /\ \E step \in Steps : Goto(j, step)
      BY <1>1, <2>2, Zenon DEF Ingest, IngestCreate, IngestWrite, IngestMessage, IngestPart, IngestTrack,
         IngestFile, At, tables, history, Steps
    <3>2. pc' \in [Ingests -> Steps] /\ \A i \in Ingests : Live(i)' => Live(i)
      BY <3>1 DEF Charged, Goto, At, Live
    <3> QED
      BY <3>1, <3>2, NotCharged
  <2> QED
    BY <2>1, <2>2
<1>2. CASE UNCHANGED <<used, overlapped, pc>> /\ dead \subseteq dead'
  <2>1. pc' \in [Ingests -> Steps] /\ \A j \in Ingests : Live(j)' => Live(j)
    BY <1>2 DEF Charged, Live
  <2> QED
    BY <1>2, <2>1, NotCharged
<1>3. ASSUME NEW a \in Readers, CopyCount(a) \/ DeleteCount(a) \/ Extract(a) \/ Upstream(a) \/ Refill(a)
      PROVE  UNCHANGED <<used, overlapped, pc, dead>>
  BY <1>3 DEF CopyCount, DeleteCount, Extract, Upstream, Refill, tables, history
<1>4. ASSUME NEW a \in Readers, NEW b \in Boxes, Copy(a, b) \/ Delete(a, b)
      PROVE  UNCHANGED <<used, overlapped, pc, dead>>
  BY <1>4 DEF Copy, Delete, history
<1>5. ASSUME NEW a \in Readers, NEW b \in Boxes, NEW k \in Keys, Fetch(a, b, k) \/ FetchRange(a, b, k)
      PROVE  UNCHANGED <<used, overlapped, pc, dead>>
  BY <1>5 DEF Fetch, FetchRange, tables, history
<1>6. ASSUME NEW a \in Accounts, PruneList(a) \/ PruneUnlink(a) \/ \E k \in Keys : PruneDrop(a, k)
      PROVE  UNCHANGED <<used, overlapped, pc, dead>>
  BY <1>6 DEF PruneList, PruneUnlink, PruneDrop, tables, history
<1>7. ASSUME NEW p, Stop(p) PROVE UNCHANGED <<used, overlapped, pc>> /\ dead \subseteq dead'
  BY <1>7 DEF Stop, tables, history
<1>8. ASSUME UNCHANGED vars PROVE UNCHANGED <<used, overlapped, pc, dead>>
  BY <1>8 DEF vars, tables, history
<1> QED
  BY <1>1, <1>2, <1>3, <1>4, <1>5, <1>6, <1>7, <1>8 DEF Next

(* Without two ingests at once an account stays within its quota, whatever *)
(* stops half way.                                                         *)
THEOREM QuotaHeld == Spec => []OverQuotaOnlyByOverlap
<1>1. Init => Charged
  BY CacheAssumption DEF Init, Charged, Live, Steps
<1>2. Charged => OverQuotaOnlyByOverlap
  BY CacheAssumption DEF Charged, OverQuotaOnlyByOverlap
<1> QED
  BY <1>1, <1>2, StepCharges, PTL DEF Spec
-----------------------------------------------------------------------------
(* What a client may be doing. *)
Clients == [task : Tasks, uid : BOOLEAN, key : Keys, want : Keys]

(* A handle on a file is that of a put that has not written yet, and a     *)
(* torn file has one.  A put that stopped keeps its handle.                *)
Handles ==
    /\ blob \in [Keys -> {"absent", "torn", "whole"}]
    /\ open \in [Keys -> SUBSET (Ingests \cup Readers)]
    /\ pc \in [Ingests -> Steps]
    /\ client \in [Readers -> Clients]
    /\ \A k \in Keys : \A p \in open[k] : Writing(p, k)
    /\ \A k \in Keys : blob[k] = "torn" => open[k] # {}

(* Where everyone is after a step in which the put of q into k, if there   *)
(* is one, may have ended.                                                 *)
OthersWriting(q, k) ==
    /\ pc' \in [Ingests -> Steps] /\ client' \in [Readers -> Clients]
    /\ \A p \in Ingests \cup Readers, c \in Keys :
          Writing(p, c) => Writing(p, c)' \/ (p = q /\ c = k)

(* The same after a step in which no put ended. *)
AllWriting ==
    /\ pc' \in [Ingests -> Steps] /\ client' \in [Readers -> Clients]
    /\ \A p \in Ingests \cup Readers, c \in Keys : Writing(p, c) => Writing(p, c)'

(* A step that touches no file. *)
LEMMA LeavesHandles ==
    ASSUME Handles, UNCHANGED store, AllWriting
    PROVE  Handles'
  BY DEF Handles, store, AllWriting

(* Creation gives q the handle of the file. *)
LEMMA CreateHandles ==
    ASSUME Handles, NEW q \in Ingests \cup Readers, NEW k \in Keys, Create(q, k),
           AllWriting, Writing(q, k)'
    PROVE  Handles'
<1>1. /\ blob' \in [Keys -> {"absent", "torn", "whole"}]
      /\ open' \in [Keys -> SUBSET (Ingests \cup Readers)]
  BY DEF Handles, Create
<1>2. ASSUME NEW c \in Keys, NEW p \in open'[c] PROVE Writing(p, c)'
  <2>1. p \in open[c] \/ (p = q /\ c = k)
    BY <1>2 DEF Handles, Create
  <2>2. CASE p \in open[c]
    BY <2>2 DEF Handles, AllWriting
  <2> QED
    BY <2>1, <2>2
<1>3. ASSUME NEW c \in Keys, blob'[c] = "torn" PROVE open'[c] # {}
  BY <1>3 DEF Handles, Create
<1> QED
  BY <1>1, <1>2, <1>3 DEF Handles, AllWriting

(* A write gives the handle up; the file is whole, or has no name, or is   *)
(* another one that was created since.                                     *)
LEMMA WriteHandles ==
    ASSUME Handles, NEW q \in Ingests \cup Readers, NEW k \in Keys, Write(q, k),
           OthersWriting(q, k)
    PROVE  Handles'
<1>1. /\ blob' \in [Keys -> {"absent", "torn", "whole"}]
      /\ open' \in [Keys -> SUBSET (Ingests \cup Readers)]
  BY DEF Handles, Write
<1>2. ASSUME NEW c \in Keys, NEW p \in open'[c] PROVE Writing(p, c)'
  <2>1. p \in open[c] /\ ~(p = q /\ c = k)
    BY <1>2 DEF Handles, Write
  <2> QED
    BY <2>1 DEF Handles, OthersWriting
<1>3. ASSUME NEW c \in Keys, blob'[c] = "torn" PROVE open'[c] # {}
  BY <1>3 DEF Handles, Write
<1> QED
  BY <1>1, <1>2, <1>3 DEF Handles, OthersWriting

(* A deletion takes the name, and the handles with it. *)
LEMMA UnlinkHandles ==
    ASSUME Handles, NEW k \in Keys, Unlink(k), AllWriting
    PROVE  Handles'
<1>1. /\ blob' \in [Keys -> {"absent", "torn", "whole"}]
      /\ open' \in [Keys -> SUBSET (Ingests \cup Readers)]
  BY DEF Handles, Unlink
<1>2. ASSUME NEW c \in Keys, NEW p \in open'[c] PROVE Writing(p, c)'
  BY <1>2 DEF Handles, Unlink, AllWriting
<1>3. ASSUME NEW c \in Keys, blob'[c] = "torn" PROVE open'[c] # {}
  BY <1>3 DEF Handles, Unlink
<1> QED
  BY <1>1, <1>2, <1>3 DEF Handles, AllWriting

(* An ingest that moves on. *)
LEMMA GotoWriting ==
    ASSUME Handles, NEW j \in Ingests, NEW step \in Steps, Goto(j, step), UNCHANGED client
    PROVE  /\ pc[j] \notin {"write", "write_part"} => AllWriting
           /\ \A k \in Keys :
                 pc[j] = (IF k = "raw" THEN "write" ELSE "write_part") => OthersWriting(j, k)
           /\ \A k \in Keys :
                 step = (IF k = "raw" THEN "write" ELSE "write_part") => Writing(j, k)'
  BY DEF Handles, Goto, Writing, AllWriting, OthersWriting, Keys

(* The steps of an ingest: it creates and writes two files. *)
LEMMA IngestHandles ==
    ASSUME Handles, NEW j \in Ingests, Ingest(j)
    PROVE  Handles'
<1> USE DEF Steps
<1>1. CASE IngestCreate(j, "put", "raw", "write")
  <2>1. Create(j, "raw") /\ Goto(j, "write") /\ UNCHANGED client /\ pc[j] = "put"
    BY <1>1 DEF IngestCreate, At
  <2> QED
    BY <2>1, GotoWriting, CreateHandles DEF Keys
<1>2. CASE IngestCreate(j, "put_part", "part", "write_part")
  <2>1. Create(j, "part") /\ Goto(j, "write_part") /\ UNCHANGED client /\ pc[j] = "put_part"
    BY <1>2 DEF IngestCreate, At
  <2> QED
    BY <2>1, GotoWriting, CreateHandles DEF Keys
<1>3. CASE IngestWrite(j, "write", "raw", "message")
  <2>1. Write(j, "raw") /\ Goto(j, "message") /\ UNCHANGED client /\ pc[j] = "write"
    BY <1>3 DEF IngestWrite, At
  <2> QED
    BY <2>1, GotoWriting, WriteHandles DEF Keys
<1>4. CASE IngestWrite(j, "write_part", "part", "part")
  <2>1. Write(j, "part") /\ Goto(j, "part") /\ UNCHANGED client /\ pc[j] = "write_part"
    BY <1>4 DEF IngestWrite, At
  <2> QED
    BY <2>1, GotoWriting, WriteHandles DEF Keys
<1>5. CASE \/ IngestCheck(j) \/ IngestMessage(j) \/ IngestPart(j) \/ IngestFile(j)
           \/ IngestTrack(j, "track_part", "part", "file") \/ IngestTrack(j, "track", "raw", "charge")
           \/ IngestCharge(j)
  <2>1. /\ \E step \in Steps : Goto(j, step)
        /\ UNCHANGED <<store, client>> /\ pc[j] \notin {"write", "write_part"}
    BY <1>5 DEF IngestCheck, IngestMessage, IngestPart, IngestFile, IngestTrack, IngestCharge, At
  <2> QED
    BY <2>1, GotoWriting, LeavesHandles
<1> QED
  BY <1>1, <1>2, <1>3, <1>4, <1>5 DEF Ingest

Turns(a, x) == client' = [client EXCEPT ![a] = x]

(* A client that turns to another task leaves the puts of the others. *)
LEMMA TurnWriting ==
    ASSUME Handles, NEW a \in Readers, NEW x \in Clients, Turns(a, x), UNCHANGED pc
    PROVE  /\ client[a].task # "write" => AllWriting
           /\ client[a].task = "write" => OthersWriting(a, client[a].key)
<1>1. pc' \in [Ingests -> Steps] /\ client' \in [Readers -> Clients]
  BY DEF Handles, Turns
<1>2. client'[a] = x /\ \A p \in Readers : p # a => client'[p] = client[p]
  BY DEF Handles, Turns
<1>3. ASSUME NEW p \in Ingests \cup Readers, NEW c \in Keys, Writing(p, c),
             ~(p = a /\ client[a].task = "write" /\ client[a].key = c)
      PROVE  Writing(p, c)'
  BY <1>2, <1>3 DEF Writing
<1> QED
  BY <1>1, <1>3 DEF AllWriting, OthersWriting

(* A client that becomes something else is a client. *)
LEMMA BecomeTyped ==
    ASSUME NEW x \in Clients, NEW task \in Tasks
    PROVE  /\ [x EXCEPT !.task = task] \in Clients
           /\ [x EXCEPT !.task = task].task = task /\ [x EXCEPT !.task = task].key = x.key
           /\ x.key \in Keys
  BY DEF Clients

(* So is one that goes on to the part. *)
LEMMA PartTyped ==
    ASSUME NEW x \in Clients
    PROVE  [[x EXCEPT !.task = "create"] EXCEPT !.key = "part"] \in Clients
  BY Zenon DEF Clients, Tasks, Keys

(* And so is an idle one. *)
LEMMA IdleTyped == Idle \in Clients
  BY Zenon DEF Idle, Clients, Tasks, Keys

(* A step of a client that touches no file. *)
LEMMA ClientLeaves ==
    ASSUME Handles, NEW a \in Readers, UNCHANGED <<store, pc>>, client[a].task # "write",
           \E x \in Clients : Turns(a, x)
    PROVE  Handles'
<1>1. PICK x \in Clients : Turns(a, x)
  OBVIOUS
<1>2. AllWriting
  BY <1>1, TurnWriting
<1> QED
  BY <1>2, LeavesHandles

(* The steps of a client: only a refill writes, and only then. *)
LEMMA ClientHandles ==
    ASSUME Handles, NEW a \in Readers,
           \/ CopyCount(a) \/ DeleteCount(a) \/ Extract(a) \/ Upstream(a) \/ Refill(a)
           \/ \E b \in Boxes : Copy(a, b) \/ Delete(a, b)
           \/ \E b \in Boxes, k \in Keys : Fetch(a, b, k) \/ FetchRange(a, b, k)
    PROVE  Handles'
<1>t. client[a] \in Clients
  BY DEF Handles
<1>a. ASSUME NEW task \in Tasks, Become(a, task)
      PROVE  \E x \in Clients : Turns(a, x)
  <2> DEFINE x == [client[a] EXCEPT !.task = task]
  <2>1. Turns(a, x)
    BY <1>a DEF Become, Turns
  <2>2. x \in Clients
    BY <1>t, BecomeTyped
  <2> HIDE DEF x
  <2> QED
    BY <2>1, <2>2
<1>b. Answer(a) => \E x \in Clients : Turns(a, x)
  <2>1. Answer(a) => Turns(a, Idle)
    BY DEF Answer, Turns
  <2> QED
    BY <2>1, IdleTyped
<1>c. ASSUME client' = [client EXCEPT ![a].task = "create", ![a].key = "part"]
      PROVE  \E x \in Clients : Turns(a, x)
  <2> DEFINE x == [[client[a] EXCEPT !.task = "create"] EXCEPT !.key = "part"]
  <2>1. Turns(a, x)
    BY <1>c, Zenon DEF Turns
  <2>2. x \in Clients
    BY <1>t, PartTyped, Zenon
  <2> HIDE DEF x
  <2> QED
    BY <2>1, <2>2
<1>1. CASE CopyCount(a) \/ DeleteCount(a)
  <2>1. /\ UNCHANGED <<store, pc>> /\ client[a].task # "write"
        /\ Become(a, "copy_raw") \/ Become(a, "drop_raw") \/ Answer(a)
    BY <1>1 DEF CopyCount, DeleteCount, Task, Answer
  <2> QED
    BY <2>1, <1>a, <1>b, ClientLeaves DEF Tasks
<1>2. CASE \E b \in Boxes : Copy(a, b) \/ Delete(a, b)
  <2>1. /\ UNCHANGED <<store, pc>> /\ client[a].task # "write"
        /\ Become(a, "copy_part") \/ Become(a, "drop_part")
    BY <1>2 DEF Copy, Delete, Task
  <2> QED
    BY <2>1, <1>a, ClientLeaves DEF Tasks
<1>3. CASE Extract(a) \/ Upstream(a)
  <2>1. /\ UNCHANGED <<store, pc>> /\ client[a].task # "write"
        /\ \/ Become(a, "create") \/ Become(a, "upstream") \/ Answer(a)
           \/ client' = [client EXCEPT ![a].task = "create", ![a].key = "part"]
    BY <1>3 DEF Extract, Upstream, Task
  <2> QED
    BY <2>1, <1>a, <1>b, <1>c, ClientLeaves DEF Tasks
<1>4. ASSUME NEW b \in Boxes, NEW k \in Keys, Fetch(a, b, k) \/ FetchRange(a, b, k)
      PROVE  Handles'
  <2>1. UNCHANGED <<store, pc>> /\ client[a].task # "write" /\ (Answer(a) \/ Miss(a, b, k))
    BY <1>4 DEF Fetch, FetchRange, Task
  <2>2. ASSUME Miss(a, b, k) PROVE \E x \in Clients : Turns(a, x)
    <3>1. CASE Answer(a)
      BY <3>1, <1>b
    <3>2. CASE ~Answer(a)
      <4> DEFINE x == [task |-> IF k = "raw" THEN "upstream" ELSE "extract",
                       uid |-> b = "inbox", key |-> "raw", want |-> k]
      <4>1. Turns(a, x)
        BY <2>2, <3>2 DEF Miss, Turns
      <4>2. x \in Clients
        BY DEF Clients, Tasks, Keys
      <4> HIDE DEF x
      <4> QED
        BY <4>1, <4>2
    <3> QED
      BY <3>1, <3>2
  <2> QED
    BY <2>1, <2>2, <1>b, ClientLeaves
<1>5. CASE Refill(a)
  <2>k. PICK k \in Keys : k = client[a].key
    BY <1>t DEF Clients
  <2>p. UNCHANGED pc
    BY <1>5 DEF Refill
  <2>1. CASE Task(a, "create") /\ Create(a, k) /\ Become(a, "write")
    <3>t. "write" \in Tasks
      BY DEF Tasks
    <3>0. [client[a] EXCEPT !.task = "write"] \in Clients
      BY <1>t, <3>t, BecomeTyped
    <3>1. PICK x \in Clients : x = [client[a] EXCEPT !.task = "write"]
      BY <3>0, Zenon
    <3>2. Turns(a, x) /\ x.task = "write" /\ x.key = k
      BY <1>t, <2>1, <2>k, <3>t, <3>1, BecomeTyped DEF Become, Turns
    <3>3. client[a].task # "write"
      BY <2>1 DEF Task
    <3>4. AllWriting
      BY <3>1, <3>2, <3>3, <2>p, TurnWriting
    <3>5. Writing(a, k)'
      BY <3>2 DEF Writing, Turns, Handles
    <3> QED
      BY <2>1, <2>k, <3>4, <3>5, CreateHandles
  <2>2. CASE Task(a, "write") /\ Write(a, k) /\ Become(a, "find")
    <3>1. PICK x \in Clients : Turns(a, x)
      BY <2>2, <1>a DEF Tasks
    <3>2. OthersWriting(a, k)
      BY <2>2, <2>k, <3>1, <2>p, TurnWriting DEF Task
    <3> QED
      BY <2>2, <2>k, <3>2, WriteHandles
  <2>3. CASE /\ UNCHANGED store /\ client[a].task # "write"
             /\ \/ Become(a, "insert") \/ Answer(a)
                \/ client' = [client EXCEPT ![a].task = "create", ![a].key = "part"]
    BY <2>3, <2>p, <1>a, <1>b, <1>c, ClientLeaves DEF Tasks
  <2> QED
    BY <1>5, <2>k, <2>1, <2>2, <2>3 DEF Refill, Task
<1> QED
  BY <1>1, <1>2, <1>3, <1>4, <1>5

(* For any number of accounts, ingests and clients that store, refill, read *)
(* and delete the same content, and wherever any of them stops: a file is   *)
(* torn only under a put that has not written yet, or that stopped there.   *)
THEOREM TornUnderPut == Spec => []TornOnlyUnderPut
<1>1. Init => Handles
  BY DEF Init, Handles, Steps, Clients, Tasks, Idle, Keys
<1>2. Handles => TornOnlyUnderPut
  BY DEF Handles, TornOnlyUnderPut
<1>3. Handles /\ [Next]_vars => Handles'
  <2> SUFFICES ASSUME Handles, [Next]_vars PROVE Handles'
    OBVIOUS
  <2>a. UNCHANGED <<pc, client>> => AllWriting
    BY DEF Handles, AllWriting, Writing
  <2>1. ASSUME NEW a \in Accounts, PruneUnlink(a) PROVE Handles'
    <3>1. Unlink(prune[a].unlink) /\ UNCHANGED <<pc, client>>
      BY <2>1 DEF PruneUnlink
    <3>2. CASE prune[a].unlink \in Keys
      BY <3>1, <3>2, <2>a, UnlinkHandles
    <3>3. CASE prune[a].unlink \notin Keys
      <4>1. UNCHANGED store
        BY <3>1, <3>3 DEF Unlink, Handles, store
      <4> QED
        BY <3>1, <4>1, <2>a, LeavesHandles
    <3> QED
      BY <3>2, <3>3
  <2>2. CASE \/ \E a \in Accounts : PruneList(a)
             \/ \E a \in Accounts, k \in Keys : PruneDrop(a, k)
             \/ \E p \in Ingests \cup Readers : Stop(p)
             \/ UNCHANGED vars
    <3>1. UNCHANGED <<store, pc, client>>
      BY <2>2 DEF PruneList, PruneDrop, Stop, vars
    <3> QED
      BY <3>1, <2>a, LeavesHandles
  <2> QED
    BY <2>1, <2>2, IngestHandles, ClientHandles DEF Next
<1> QED
  BY <1>1, <1>2, <1>3, PTL DEF Spec
=============================================================================
