------------------------- MODULE AccountSyncProofs --------------------------
(***************************************************************************)
(* What a sync removes and when a row shows no counts, for any number of   *)
(* syncs, mailboxes, clients' commands and faults.                         *)
(***************************************************************************)
EXTENDS AccountSync, TLAPS

(* What the argument needs of the types. *)
Rec == [id : Nat, name : Names, holds : Names \cup {None, Mixed},
        saved : Names \cup {None}, counted : BOOLEAN]
Shape ==
    /\ upstream \subseteq Names /\ rows \subseteq Rec /\ nextId \in Nat
    /\ pc \in [Syncs -> Points]
    /\ todo \in [Syncs -> SUBSET Names] /\ steady \in [Syncs -> SUBSET Names]
    /\ seen \in [Syncs -> SUBSET Nat]
    /\ current \in [Syncs -> [name : Names \cup {None}, id : Nat]]
    /\ victims \in [Syncs -> SUBSET Rec]

(* The ways in which a row is written. *)
LEMMA RowsWritten ==
    ASSUME NEW n \in Names
    PROVE  /\ \A i \in Nat, c \in BOOLEAN :
                 [id |-> i, name |-> n, holds |-> None, saved |-> None, counted |-> c] \in Rec
           /\ \A r \in Rec : [r EXCEPT !.name = n] \in Rec
           /\ \A r \in Rec : [r EXCEPT !.name = n, !.counted = FALSE] \in Rec
  BY Zenon DEF Rec

(* What the sync of a mailbox writes into its row. *)
LEMMA RowsSynced ==
    ASSUME NEW r \in Rec, NEW n \in Names, NEW h \in Names \cup {None, Mixed}
    PROVE  /\ [r EXCEPT !.holds = h] \in Rec
           /\ [r EXCEPT !.holds = h].id = r.id
           /\ [r EXCEPT !.holds = h].counted = r.counted
           /\ [r EXCEPT !.holds = h, !.saved = n] \in Rec
           /\ [r EXCEPT !.holds = h, !.saved = n].id = r.id
           /\ [r EXCEPT !.holds = h, !.saved = n].counted = r.counted
           /\ [r EXCEPT !.holds = h, !.saved = n, !.counted = TRUE] \in Rec
           /\ [r EXCEPT !.holds = h, !.saved = n, !.counted = TRUE].id = r.id
           /\ [r EXCEPT !.holds = h, !.saved = n, !.counted = TRUE].counted
  BY Zenon DEF Rec

(* A sync of a mailbox that completes writes one row, with its counts. *)
LEMMA MailboxWrites ==
    ASSUME rows \subseteq Rec, upstream \subseteq Names, NEW s \in Syncs, Mailbox(s)
    PROVE  \E r \in rows, q \in Rec :
              /\ r.id = current[s].id /\ q.id = r.id /\ q.counted
              /\ rows' = (rows \ {r}) \cup {q} /\ cut' = cut \ {current[s].id}
<1>1. PICK r \in rows : r.id = current[s].id /\ SyncMailbox(r, current[s].name)
  BY Zenon DEF Mailbox
<1>2. PICK n \in Names : n = current[s].name
  BY Zenon DEF Mailbox
<1>3. PICK h \in Fetched(r, n) :
        rows' = (rows \ {r}) \cup {[r EXCEPT !.holds = h, !.saved = n, !.counted = TRUE]}
  BY <1>1, <1>2, Zenon DEF SyncMailbox
<1>4. h \in Names \cup {None, Mixed} /\ r \in Rec
  BY <1>2 DEF Fetched
<1>5. cut' = cut \ {current[s].id}
  BY <1>1, Zenon DEF SyncMailbox
<1> DEFINE w == [r EXCEPT !.holds = h, !.saved = n, !.counted = TRUE]
<1>6. w \in Rec /\ w.id = r.id /\ w.counted
  BY <1>4, RowsSynced, Zenon
<1>7. rows' = (rows \ {r}) \cup {w}
  BY <1>3, Zenon
<1> HIDE DEF w
<1> QED
  BY <1>1, <1>5, <1>6, <1>7, Zenon

(* A sync that breaks off leaves the rows alone or writes one, and leaves  *)
(* its counts as they were.                                                *)
LEMMA BreakOffWrites ==
    ASSUME rows \subseteq Rec, upstream \subseteq Names, NEW s \in Syncs, BreakOff(s)
    PROVE  \/ rows' = rows
           \/ \E r \in rows, q \in Rec :
                 q.id = r.id /\ q.counted = r.counted /\ rows' = (rows \ {r}) \cup {q}
<1> SUFFICES ASSUME rows' # rows
             PROVE  \E r \in rows, q \in Rec :
                      q.id = r.id /\ q.counted = r.counted /\ rows' = (rows \ {r}) \cup {q}
    BY Zenon
<1>1. PICK r \in rows : ~Doomed(s) /\ pc[s] = "mailbox" /\ r.id = current[s].id
                        /\ PartlySynced(r, current[s].name)
  BY Zenon DEF BreakOff
<1>2. PICK n \in Names : n = current[s].name
  BY <1>1, Zenon DEF Doomed
<1>3. \/ rows' = (rows \ {r}) \cup {[r EXCEPT !.holds = Mixed]}
      \/ \E h \in Fetched(r, n) : rows' = (rows \ {r}) \cup {[r EXCEPT !.holds = h, !.saved = n]}
  BY <1>1, <1>2, Zenon DEF PartlySynced
<1>4. r \in Rec /\ Fetched(r, n) \subseteq Names \cup {None, Mixed}
  BY <1>2 DEF Fetched
<1> QED
  BY <1>3, <1>4, RowsSynced, Zenon

(* Initially the state has its shape. *)
LEMMA ShapeInit == Init => Shape
  BY AccountAssumption DEF Init, Shape, Points

(* The steps that end a process forget its locals. *)
LEMMA EndShape ==
    ASSUME Shape, NEW s \in Syncs, NEW point \in Points, End(s, point),
           UNCHANGED <<upstream, nextId>>, rows' \subseteq Rec
    PROVE  Shape'
  BY DEF Shape, End, Goto

(* Every step of the syncs, of clients and of the administrator keeps the shape. *)
LEMMA ShapeStep == Shape /\ [Next]_vars => Shape'
<1> SUFFICES ASSUME Shape, [Next]_vars PROVE Shape'
    OBVIOUS
<1> USE DEF mailboxes, progress, history
<1>1. ASSUME NEW s \in Syncs, Start(s) \/ ConnectFails(s) \/ Find(s) \/ Lock(s) \/ Release(s)
      PROVE  Shape'
  <2>1. \E point \in Points : Goto(s, point)
    BY <1>1 DEF Start, ConnectFails, Find, Lock, Release, Points
  <2>2. UNCHANGED <<mailboxes, progress, steady>>
    BY <1>1 DEF Start, ConnectFails, Find, Lock, Release
  <2> QED
    BY <2>1, <2>2 DEF Shape, Goto
<1>2. ASSUME NEW s \in Syncs, List(s) PROVE Shape'
  BY <1>2 DEF List, Shape, Goto, Points
<1>3. ASSUME NEW s \in Syncs, Upsert(s) PROVE Shape'
  <2>1. PICK n \in todo[s] :
          /\ todo' = [todo EXCEPT ![s] = @ \ {n}]
          /\ seen' = [seen EXCEPT ![s] = @ \cup {Canonical[n]}]
          /\ \/ \E r \in Named(n) :
                     /\ rows' = (rows \ {r}) \cup {[r EXCEPT !.name = n, !.counted = FALSE]}
                     /\ current' = [current EXCEPT ![s] = [name |-> n, id |-> r.id]]
                     /\ UNCHANGED nextId
             \/ /\ rows' = rows \cup {NewRow(n, FALSE)}
                /\ current' = [current EXCEPT ![s] = [name |-> n, id |-> nextId]]
                /\ nextId' = nextId + 1
    BY <1>3, Zenon DEF Upsert
  <2>2. n \in Names /\ Canonical[n] \in Nat
    BY AccountAssumption DEF Shape
  <2>3. rows' \subseteq Rec /\ nextId' \in Nat /\ current' \in [Syncs -> [name : Names \cup {None}, id : Nat]]
    <3>1. rows \subseteq Rec /\ Named(n) \subseteq rows /\ nextId \in Nat
      BY DEF Shape, Named
    <3>2. rows' \subseteq Rec
      <4> DEFINE Added == NewRow(n, FALSE)
                 Listed(r) == [r EXCEPT !.name = n, !.counted = FALSE]
      <4>1. Added \in Rec /\ \A r \in Named(n) : Listed(r) \in Rec
        BY <2>2, <3>1, RowsWritten, Zenon DEF NewRow
      <4>2. (\E r \in Named(n) : rows' = (rows \ {r}) \cup {Listed(r)}) \/ rows' = rows \cup {Added}
        BY <2>1, Zenon
      <4> HIDE DEF Added, Listed
      <4> QED
        BY <3>1, <4>1, <4>2, SMTT(30)
    <3>3. \A r \in rows : r.id \in Nat
      BY <3>1 DEF Rec
    <3>4. nextId' = nextId + 1 \/ nextId' = nextId
      BY <2>1, Zenon
    <3>5. \E i \in Nat : current' = [current EXCEPT ![s] = [name |-> n, id |-> i]]
      BY <2>1, <3>1, <3>3, Zenon
    <3>6. current' \in [Syncs -> [name : Names \cup {None}, id : Nat]]
      BY <2>2, <3>5 DEF Shape
    <3> QED
      BY <3>1, <3>2, <3>4, <3>6
  <2>4. /\ todo' \in [Syncs -> SUBSET Names] /\ seen' \in [Syncs -> SUBSET Nat]
        /\ pc' \in [Syncs -> Points] /\ UNCHANGED <<upstream, steady, victims>>
    BY <1>3, <2>1, <2>2, ZenonT(40) DEF Shape, Upsert, Goto, Points
  <2> QED
    BY <2>3, <2>4 DEF Shape
<1>4. ASSUME NEW s \in Syncs, Mailbox(s) PROVE Shape'
  <2>1. rows' \subseteq Rec
    BY <1>4, MailboxWrites, Zenon DEF Shape
  <2>2. pc' \in [Syncs -> Points]
    BY <1>4 DEF Mailbox, Shape, Goto, Points
  <2> QED
    BY <1>4, <2>1, <2>2 DEF Mailbox, Shape
<1>5. ASSUME NEW s \in Syncs, ListRows(s) PROVE Shape'
  BY <1>5 DEF ListRows, MissingRows, Shape, Goto, Points
<1>6. ASSUME NEW s \in Syncs, EmptyRow(s) PROVE Shape'
  <2>1. rows' \subseteq Rec
    BY <1>6, SMTT(30) DEF EmptyRow, Shape, Rec
  <2> QED
    BY <1>6, <2>1 DEF EmptyRow, Shape, Goto, Points
<1>7. ASSUME NEW s \in Syncs, RemoveRow(s) PROVE Shape'
  BY <1>7 DEF RemoveRow, Shape, Goto, Points
<1>8. ASSUME NEW s \in Syncs, Report(s) \/ Crash(s) PROVE Shape'
  <2>1. rows' \subseteq Rec
    BY <1>8, BreakOffWrites, Zenon DEF Report, Crash, Shape
  <2>2. UNCHANGED <<upstream, nextId>> /\ (End(s, "done") \/ End(s, "dead"))
    BY <1>8 DEF Report, Crash
  <2> QED
    BY <2>1, <2>2, EndShape DEF Points
<1>13. ASSUME NEW s \in Syncs, Fail(s) PROVE Shape'
  <2>1. rows' \subseteq Rec
    BY <1>13, BreakOffWrites, Zenon DEF Fail, Shape
  <2>2. pc' \in [Syncs -> Points]
    BY <1>13 DEF Fail, Goto, Points, Shape
  <2> QED
    BY <1>13, <2>1, <2>2 DEF Fail, Shape
<1>9. ASSUME Client PROVE Shape'
  <2>1. rows' \subseteq Rec /\ nextId' \in Nat
    <3>1. rows \subseteq Rec /\ nextId \in Nat
      BY DEF Shape
    <3>2. ASSUME NEW n \in Names, CreateMailbox(n) \/ DeleteMailbox(n)
          PROVE  rows' \subseteq Rec /\ nextId' \in Nat
      <4> DEFINE Added == NewRow(n, TRUE)
      <4>1. Added \in Rec
        BY <3>1, RowsWritten, Zenon DEF NewRow
      <4>2. rows' = rows \cup {Added} \/ rows' = rows \ Named(n)
        BY <3>2 DEF CreateMailbox, DeleteMailbox
      <4>3. nextId' = nextId + 1 \/ nextId' = nextId
        BY <3>2 DEF CreateMailbox, DeleteMailbox
      <4> HIDE DEF Added
      <4> QED
        BY <3>1, <4>1, <4>2, <4>3
    <3>3. ASSUME NEW n \in Names, NEW m \in Names, RenameMailbox(n, m)
          PROVE  rows' \subseteq Rec /\ nextId' \in Nat
      <4>1. {[r EXCEPT !.name = m] : r \in Named(n)} \subseteq Rec
        BY <3>1, RowsWritten, Zenon DEF Named
      <4> QED
        BY <3>1, <3>3, <4>1, SMTT(30) DEF RenameMailbox
    <3> QED
      BY <1>9, <3>2, <3>3 DEF Client
  <2> QED
    BY <1>9, <2>1 DEF Client, Shape
<1>10. ASSUME UpstreamChanges PROVE Shape'
  BY <1>10, AccountAssumption DEF UpstreamChanges, Shape
<1>11. ASSUME Admin PROVE Shape'
  BY <1>11 DEF Admin, Pause, Resume, DeleteAccount, Shape
<1>12. ASSUME LockExpires \/ UNCHANGED vars PROVE Shape'
  BY <1>12 DEF LockExpires, vars, Shape
<1> QED
  BY <1>1, <1>2, <1>3, <1>4, <1>5, <1>6, <1>7, <1>8, <1>9, <1>10, <1>11, <1>12, <1>13 DEF Next, SyncStep

(* The state keeps its shape. *)
LEMMA ShapeCorrect == Spec => []Shape
  BY ShapeInit, ShapeStep, PTL DEF Spec

-----------------------------------------------------------------------------
(* A mailbox that stayed upstream since the LIST is still to be filed or   *)
(* was filed, all are filed when the rows are compared with the list, and  *)
(* no row to be removed has the name of a filed one.                       *)
Listing(s) ==
    /\ pc[s] \in {"upsert", "mailbox", "missing", "empty", "remove"} =>
          \A n \in steady[s] : n \in todo[s] \/ Canonical[n] \in seen[s]
    /\ pc[s] \in {"missing", "empty", "remove"} => todo[s] = {}
    /\ pc[s] \in {"empty", "remove"} =>
          \A v \in victims[s] : Canonical[v.name] \notin seen[s]
Listings == \A s \in Syncs : Listing(s)

(* What one sync keeps in its locals no other sync touches. *)
Locals(s) == <<pc[s], todo[s], seen[s], victims[s], steady[s]>>
(* A sync's locals are its own. *)
LEMMA LocalsOwn ==
    ASSUME Shape, NEW t \in Syncs, SyncStep(t) \/ Crash(t), NEW s \in Syncs \ {t}
    PROVE  UNCHANGED Locals(s)
<1> USE DEF Shape, Locals, Goto, mailboxes, progress, history
<1>1. CASE Start(t) \/ ConnectFails(t) \/ Find(t) \/ Lock(t) \/ Fail(t) \/ Release(t)
  BY <1>1 DEF Start, ConnectFails, Find, Lock, Fail, Release
<1>2. CASE List(t) \/ ListRows(t)
  BY <1>2 DEF List, ListRows
<1>3. CASE Upsert(t)
  BY <1>3, ZenonT(40) DEF Upsert
<1>4. CASE Mailbox(t) \/ EmptyRow(t) \/ RemoveRow(t)
  BY <1>4, Zenon DEF Mailbox, EmptyRow, RemoveRow
<1>5. CASE Report(t) \/ Crash(t)
  BY <1>5 DEF Report, Crash, End
<1> QED
  BY <1>1, <1>2, <1>3, <1>4, <1>5 DEF SyncStep

(* Every step keeps what the syncs have listed. *)
LEMMA ListingStep == Shape /\ Listings /\ [Next]_vars => Listings'
<1> SUFFICES ASSUME Shape, Listings, [Next]_vars, NEW s \in Syncs PROVE Listing(s)'
    BY DEF Listings
<1>0. Listing(s)
  BY DEF Listings
<1> USE DEF mailboxes, progress, history
<1>1. ASSUME UNCHANGED Locals(s) PROVE Listing(s)'
  BY <1>0, <1>1 DEF Listing, Locals
<1>2. CASE Start(s) \/ ConnectFails(s) \/ Find(s) \/ Lock(s) \/ Fail(s) \/ Release(s) \/ Report(s) \/ Crash(s)
  <2>1. pc'[s] \in {"start", "find", "lock", "list", "release", "report", "done", "dead"}
    BY <1>2 DEF Start, ConnectFails, Find, Lock, Fail, Release, Report, Crash, End, Goto, Shape
  <2> QED
    BY <2>1 DEF Listing
<1>3. CASE List(s)
  BY <1>3 DEF List, Goto, Shape, Listing
<1>4. CASE Upsert(s)
  <2>1. PICK n \in todo[s] : /\ todo' = [todo EXCEPT ![s] = @ \ {n}]
                             /\ seen' = [seen EXCEPT ![s] = @ \cup {Canonical[n]}]
    BY <1>4, Zenon DEF Upsert
  <2>2. pc[s] = "upsert" /\ pc'[s] = "mailbox" /\ UNCHANGED steady
    BY <1>4, Zenon DEF Upsert, Goto, Shape
  <2> QED
    BY <1>0, <2>1, <2>2 DEF Listing, Shape
<1>5. CASE Mailbox(s)
  BY <1>0, <1>5 DEF Mailbox, Goto, Shape, Listing
<1>6. CASE ListRows(s)
  BY <1>0, <1>6 DEF ListRows, MissingRows, Goto, Shape, Listing
<1>7. CASE EmptyRow(s)
  BY <1>0, <1>7 DEF EmptyRow, Goto, Shape, Listing
<1>8. CASE RemoveRow(s)
  BY <1>0, <1>8 DEF RemoveRow, Goto, Shape, Listing
<1>9. CASE Client \/ Admin \/ LockExpires \/ UNCHANGED vars
  BY <1>1, <1>9 DEF Client, Admin, LockExpires, vars, Locals
<1>10. CASE UpstreamChanges
  BY <1>0, <1>10 DEF UpstreamChanges, Listing, Shape
<1> QED
  BY <1>1, <1>2, <1>3, <1>4, <1>5, <1>6, <1>7, <1>8, <1>9, <1>10, LocalsOwn DEF Next, SyncStep

(* A sync never removes the row of a mailbox that has been upstream ever   *)
(* since it listed the mailboxes (remove_missing_mailboxes), for any       *)
(* number of syncs, names, clients' commands and faults.                   *)
THEOREM RemovesOnlyMissing == Spec => RemovedWasMissing
<1>1. Init => Listings
  BY DEF Init, Listings, Listing
<1>2. ASSUME Shape, Listings, [Next]_vars
      PROVE  [\A s \in Syncs : pc[s] = "remove" /\ pc'[s] # "remove" =>
                \A r \in rows \ rows' : \A n \in steady[s] : Canonical[r.name] # Canonical[n]]_vars
  <2> SUFFICES ASSUME Next, NEW s \in Syncs, pc[s] = "remove", pc'[s] # "remove",
                      NEW r \in rows \ rows', NEW n \in steady[s]
               PROVE  Canonical[r.name] # Canonical[n]
      BY <1>2 DEF vars
  <2> USE DEF mailboxes, progress, history
  <2>1. Listing(s) /\ Canonical[n] \in seen[s]
    BY <1>2 DEF Listings, Listing
  <2>2. SyncStep(s) \/ Crash(s)
    <3>1. PICK t \in Syncs : SyncStep(t) \/ Crash(t)
      BY DEF Next, LockExpires, Client, UpstreamChanges, Admin
    <3> QED
      BY <1>2, <3>1, LocalsOwn DEF Locals
  <2>3. RemoveRow(s)
    <3>1. ~Fail(s) /\ ~Crash(s)
      BY DEF Fail, Crash, BreakOff
    <3> QED
      BY <2>2, <3>1 DEF SyncStep, Start, ConnectFails, Find, Lock, List, Upsert, Mailbox, ListRows,
                  EmptyRow, Release, Report
  <2>4. PICK v \in victims[s] : r \in Named(v.name)
    BY <2>3 DEF RemoveRow, FirstVictim
  <2> QED
    BY <2>1, <2>4 DEF Listing, Named
<1> QED
  BY <1>1, <1>2, ShapeCorrect, ListingStep, PTL DEF Spec, RemovedWasMissing

-----------------------------------------------------------------------------
(* No two rows have the same id, and an id that was used is never used     *)
(* again.                                                                  *)
IdsUnique ==
    /\ \A r, q \in rows : r.id = q.id => r = q
    /\ \A r \in rows : r.id < nextId

(* The ids of the rows that are being synced or whose sync was broken off. *)
Excused(i) == i \in cut \/ \E s \in Syncs : pc[s] = "mailbox" /\ current[s].id = i

(* Every step keeps the ids apart. *)
LEMMA IdsStep == Shape /\ IdsUnique /\ [Next]_vars => IdsUnique'
<1> SUFFICES ASSUME Shape, IdsUnique, [Next]_vars PROVE IdsUnique'
    OBVIOUS
<1> USE DEF mailboxes, progress, history
<1>0. rows \subseteq Rec /\ nextId \in Nat /\ \A r \in rows : r.id \in Nat
  BY DEF Shape, Rec
(* The two ways in which a step writes one row. *)
<1>1. ASSUME NEW n \in Names, NEW c \in BOOLEAN,
             rows' = rows \cup {NewRow(n, c)},
             nextId' = nextId + 1
      PROVE  IdsUnique'
  <2> DEFINE Added == NewRow(n, c)
  <2>1. Added.id = nextId /\ rows' = rows \cup {Added}
    BY <1>1 DEF NewRow
  <2> HIDE DEF Added
  <2> QED
    BY <1>0, <1>1, <2>1 DEF IdsUnique
<1>2. ASSUME NEW r \in rows, NEW q, q.id = r.id, rows' = (rows \ {r}) \cup {q}, nextId' = nextId
      PROVE  IdsUnique'
  BY <1>0, <1>2 DEF IdsUnique
<1>3. ASSUME rows' \subseteq rows, nextId' = nextId PROVE IdsUnique'
  BY <1>3, SMTT(30) DEF IdsUnique
<1>4. ASSUME NEW s \in Syncs, Upsert(s) PROVE IdsUnique'
  <2>1. PICK n \in todo[s] :
          \/ \E r \in rows :
                /\ rows' = (rows \ {r}) \cup {[r EXCEPT !.name = n, !.counted = FALSE]}
                /\ UNCHANGED nextId
          \/ /\ rows' = rows \cup {NewRow(n, FALSE)}
             /\ nextId' = nextId + 1
    BY <1>4, Zenon DEF Upsert, Named
  <2>2. n \in Names
    BY DEF Shape
  <2>3. \A r \in rows : [r EXCEPT !.name = n, !.counted = FALSE].id = r.id
    BY <1>0 DEF Rec
  <2> QED
    BY <1>1, <1>2, <2>1, <2>2, <2>3, ZenonT(40)
<1>5. ASSUME NEW s \in Syncs, Mailbox(s) PROVE IdsUnique'
  <2>1. nextId' = nextId /\ upstream \subseteq Names
    BY <1>5 DEF Mailbox, Shape
  <2> QED
    BY <1>0, <1>2, <1>5, <2>1, MailboxWrites, Zenon
<1>11. ASSUME NEW s \in Syncs, Fail(s) \/ Crash(s) PROVE IdsUnique'
  <2>1. nextId' = nextId /\ upstream \subseteq Names /\ BreakOff(s)
    BY <1>11 DEF Fail, Crash, Shape
  <2> QED
    BY <1>0, <1>2, <1>3, <2>1, BreakOffWrites, Zenon
<1>6. ASSUME NEW s \in Syncs, EmptyRow(s) PROVE IdsUnique'
  <2>1. PICK v : rows' = {IF r.id = v.id THEN [r EXCEPT !.holds = None] ELSE r : r \in rows}
    BY <1>6, Zenon DEF EmptyRow
  <2>2. \A r \in rows : (IF r.id = v.id THEN [r EXCEPT !.holds = None] ELSE r).id = r.id
    BY <1>0 DEF Rec
  <2>3. ASSUME NEW q \in rows'
        PROVE  \E r \in rows : q.id = r.id /\ q = IF r.id = v.id THEN [r EXCEPT !.holds = None] ELSE r
    BY <2>1, <2>2, Zenon
  <2> QED
    BY <1>6, <2>3 DEF EmptyRow, IdsUnique
<1>7. ASSUME Client PROVE IdsUnique'
  <2>1. ASSUME NEW n \in Names, CreateMailbox(n) \/ DeleteMailbox(n) PROVE IdsUnique'
    BY <1>1, <1>3, <2>1, Zenon DEF CreateMailbox, DeleteMailbox
  <2>2. ASSUME NEW n \in Names, NEW m \in Names, RenameMailbox(n, m) PROVE IdsUnique'
    <3>1. \A r \in rows : [r EXCEPT !.name = m].id = r.id
      BY <1>0 DEF Rec
    <3>2. ASSUME NEW q \in rows'
          PROVE  \E r \in rows : /\ q.id = r.id
                                 /\ q = IF r \in Named(n) THEN [r EXCEPT !.name = m] ELSE r
      BY <2>2, <3>1, Zenon DEF RenameMailbox, Named
    <3> QED
      BY <2>2, <3>2 DEF RenameMailbox, IdsUnique
  <2> QED
    BY <1>7, <2>1, <2>2 DEF Client
<1>8. ASSUME Admin PROVE IdsUnique'
  BY <1>3, <1>8 DEF Admin, Pause, Resume, DeleteAccount
<1>9. ASSUME NEW s \in Syncs, RemoveRow(s) PROVE IdsUnique'
  BY <1>3, <1>9 DEF RemoveRow
<1>10. ASSUME UNCHANGED <<rows, nextId>> PROVE IdsUnique'
  BY <1>3, <1>10
<1> QED
  BY <1>4, <1>5, <1>6, <1>7, <1>8, <1>9, <1>10, <1>11
     DEF Next, SyncStep, Start, ConnectFails, Find, Lock, List, ListRows, Release, Report,
         LockExpires, UpstreamChanges, vars

(* Only the sync of a mailbox that completes takes away an excuse. *)
LEMMA ExcusesKept ==
    ASSUME Shape, [Next]_vars, \A s \in Syncs : ~Mailbox(s), NEW i \in Nat, Excused(i)
    PROVE  Excused(i)'
<1> USE DEF mailboxes, progress, history, Excused
<1>1. CASE Client \/ Admin \/ LockExpires \/ UpstreamChanges \/ UNCHANGED vars
  BY <1>1 DEF Client, Admin, LockExpires, UpstreamChanges, vars
<1>2. ASSUME NEW t \in Syncs, SyncStep(t) \/ Crash(t) PROVE Excused(i)'
  <2>1. CASE i \in cut
    BY <1>2, <2>1, Zenon DEF SyncStep, Start, ConnectFails, Find, Lock, List, Upsert, ListRows, EmptyRow,
                      RemoveRow, Fail, Release, Report, Crash, BreakOff
  <2>2. ASSUME NEW s \in Syncs, pc[s] = "mailbox", current[s].id = i, s # t PROVE Excused(i)'
    <3>1. pc'[s] = pc[s]
      BY <1>2, <2>2, LocalsOwn, SMTT(30) DEF Locals
    <3>2. current'[s] = current[s]
      BY <1>2, <2>2, ZenonT(40) DEF Shape, SyncStep, Start, ConnectFails, Find, Lock, List, Upsert, ListRows,
                        EmptyRow, RemoveRow, Fail, Release, Report, Crash, End
    <3> QED
      BY <2>2, <3>1, <3>2
  <2>3. CASE pc[t] = "mailbox" /\ current[t].id = i
    <3>1. Fail(t) \/ Crash(t)
      BY <1>2, <2>3, SMTT(30) DEF SyncStep, Start, ConnectFails, Find, Lock, List, Upsert, ListRows, EmptyRow,
                        RemoveRow, Release, Report
    <3> QED
      BY <2>3, <3>1 DEF Fail, Crash, BreakOff
  <2> QED
    BY <2>1, <2>2, <2>3, SMTT(30)
<1> QED
  BY <1>1, <1>2 DEF Next

(* Every step that takes a mailbox's counts away leaves it an excuse. *)
LEMMA CountStep == Shape /\ IdsUnique /\ UncountedOnlyIfCut /\ [Next]_vars => UncountedOnlyIfCut'
<1> SUFFICES ASSUME Shape, IdsUnique, UncountedOnlyIfCut, [Next]_vars,
                    NEW q \in rows', ~q.counted
             PROVE  Excused(q.id)'
    BY DEF UncountedOnlyIfCut, Excused
<1> USE DEF mailboxes, progress, history
<1>0. rows \subseteq Rec /\ nextId \in Nat /\ \A r \in rows : r.id \in Nat
  BY DEF Shape, Rec
<1>1. \A r \in rows : ~r.counted => Excused(r.id)
  BY DEF UncountedOnlyIfCut, Excused
<1>2. ASSUME \A s \in Syncs : ~Mailbox(s), NEW r \in rows, r.id = q.id, ~r.counted
      PROVE  Excused(q.id)'
  <2>1. Excused(r.id) /\ r.id \in Nat
    BY <1>0, <1>1, <1>2
  <2>2. Excused(r.id)'
    BY <1>2, <2>1, ExcusesKept
  <2> QED
    BY <1>2, <2>2 DEF Excused
<1>3. ASSUME NEW s \in Syncs, Mailbox(s) PROVE Excused(q.id)'
  <2>0. upstream \subseteq Names
    BY DEF Shape
  <2>1. PICK r \in rows, w \in Rec :
          /\ r.id = current[s].id /\ w.counted
          /\ rows' = (rows \ {r}) \cup {w} /\ cut' = cut \ {current[s].id}
    BY <1>0, <1>3, <2>0, MailboxWrites, Zenon
  <2>3. q \in rows /\ q # r
    BY <2>1, Zenon
  <2>4. q.id # current[s].id /\ Excused(q.id)
    BY <1>1, <2>1, <2>3 DEF IdsUnique
  <2>5. CASE q.id \in cut
    BY <2>1, <2>4, <2>5 DEF Excused
  <2>6. ASSUME NEW t \in Syncs, pc[t] = "mailbox", current[t].id = q.id PROVE Excused(q.id)'
    <3>1. t # s /\ current' = current
      BY <1>3, <2>4, <2>6 DEF Mailbox
    <3>2. pc'[t] = pc[t]
      BY <1>3, <3>1 DEF Mailbox, Goto, Shape
    <3> QED
      BY <2>6, <3>1, <3>2 DEF Excused
  <2> QED
    BY <2>4, <2>5, <2>6, SMTT(30) DEF Excused
<1> SUFFICES ASSUME \A s \in Syncs : ~Mailbox(s) PROVE Excused(q.id)'
    BY <1>3
<1>4. ASSUME NEW s \in Syncs, Upsert(s) PROVE Excused(q.id)'
  <2>1. PICK n, j :
          /\ \/ \E r \in rows :
                   /\ rows' = (rows \ {r}) \cup {[r EXCEPT !.name = n, !.counted = FALSE]} /\ j = r.id
             \/ /\ rows' = rows \cup {NewRow(n, FALSE)}
                /\ j = nextId
          /\ current' = [current EXCEPT ![s] = [name |-> n, id |-> j]]
    BY <1>4, Zenon DEF Upsert, Named
  <2>2. pc'[s] = "mailbox" /\ current'[s].id = j
    BY <1>4, <2>1, ZenonT(40) DEF Upsert, Goto, Shape
  <2>3. \A r \in rows : [r EXCEPT !.name = n, !.counted = FALSE].id = r.id
    BY <1>0 DEF Rec
  <2>4. q \in rows \/ q.id = j
    <3>1. CASE \E r \in rows :
                 /\ rows' = (rows \ {r}) \cup {[r EXCEPT !.name = n, !.counted = FALSE]} /\ j = r.id
      BY <2>3, <3>1, Zenon
    <3>2. CASE /\ rows' = rows \cup {NewRow(n, FALSE)}
               /\ j = nextId
      BY <3>2 DEF NewRow
    <3> QED
      BY <2>1, <3>1, <3>2, Zenon
  <2> QED
    BY <1>2, <2>2, <2>4, SMTT(30) DEF Excused
<1>5. ASSUME NEW s \in Syncs, EmptyRow(s) PROVE Excused(q.id)'
  <2>1. PICK v : rows' = {IF r.id = v.id THEN [r EXCEPT !.holds = None] ELSE r : r \in rows}
    BY <1>5, Zenon DEF EmptyRow
  <2>2. \A r \in rows : /\ [r EXCEPT !.holds = None].id = r.id
                        /\ [r EXCEPT !.holds = None].counted = r.counted
    BY <1>0 DEF Rec
  <2>3. \E r \in rows : r.id = q.id /\ r.counted = q.counted
    BY <2>1, <2>2, Zenon
  <2> QED
    BY <1>2, <2>3
<1>6. ASSUME Client PROVE Excused(q.id)'
  <2>1. ASSUME NEW n \in Names, CreateMailbox(n) \/ DeleteMailbox(n) PROVE Excused(q.id)'
    BY <1>2, <2>1 DEF CreateMailbox, DeleteMailbox, NewRow
  <2>2. ASSUME NEW n \in Names, NEW m \in Names, RenameMailbox(n, m) PROVE Excused(q.id)'
    <3>1. \A r \in rows : /\ [r EXCEPT !.name = m].id = r.id
                          /\ [r EXCEPT !.name = m].counted = r.counted
      BY <1>0 DEF Rec
    <3>2. \E r \in rows : r.id = q.id /\ r.counted = q.counted
      BY <2>2, <3>1, Zenon DEF RenameMailbox, Named
    <3> QED
      BY <1>2, <3>2
  <2> QED
    BY <1>6, <2>1, <2>2 DEF Client
<1>7. CASE q \in rows
  BY <1>2, <1>7
<1>8. ASSUME NEW s \in Syncs, Fail(s) \/ Crash(s) PROVE Excused(q.id)'
  <2>1. upstream \subseteq Names /\ BreakOff(s)
    BY <1>8 DEF Fail, Crash, Shape
  <2>2. q \in rows \/ \E r \in rows : r.id = q.id /\ r.counted = q.counted
    BY <1>0, <2>1, BreakOffWrites, Zenon
  <2> QED
    BY <1>2, <1>7, <2>2
<1> QED
  BY <1>4, <1>5, <1>6, <1>7, <1>8
     DEF Next, SyncStep, Start, ConnectFails, Find, Lock, List, ListRows, RemoveRow, Release,
         Report, LockExpires, UpstreamChanges, Admin, Pause, Resume, DeleteAccount, vars

(* A row shows no counts only while a sync is in it or after one broke off *)
(* in it (upsert_mailbox writes zero before the mailbox is synced), for    *)
(* any number of syncs, names, clients' commands and faults.               *)
THEOREM CountsShown == Spec => []UncountedOnlyIfCut
<1>1. Init => IdsUnique /\ UncountedOnlyIfCut
  BY DEF Init, IdsUnique, UncountedOnlyIfCut
<1> QED
  BY <1>1, ShapeCorrect, IdsStep, CountStep, PTL DEF Spec
=============================================================================
