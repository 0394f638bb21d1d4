------------------------- MODULE CacheCountsProofs --------------------------
(***************************************************************************)
(* No row of a mailbox is without its reference in cache_objects, for any  *)
(* number of accounts, ingests and clients.                                *)
(***************************************************************************)
EXTENDS CacheObjects, FiniteSetTheorems, TLAPS

(* The rows of an account's mailboxes; its ingests that have counted the   *)
(* part and not yet filed the row, and that have filed the row and not yet *)
(* counted the message; its client, with a deletion to take off.           *)
Filled(a) == {b \in Boxes : row[<<a, b>>] # None}
Ahead(a, k) == {j \in Ingests : AccountOf[j] = a /\ k = "part" /\ pc[j] = "file"}
Behind(a, k) == {j \in Ingests : AccountOf[j] = a /\ k = "raw" /\ pc[j] = "track"}
Dropping(a, k) ==
    IF a \in Readers /\ \/ client[a].task = "drop_part"
                        \/ client[a].task = "drop_raw" /\ k = "raw" THEN 1 ELSE 0

CountShape ==
    /\ row \in [Slots -> Ingests \cup {None}]
    /\ refs \in [Accounts -> [Keys -> Nat]]
    /\ pc \in [Ingests -> Steps]
    /\ client \in [Readers -> [task : Tasks, uid : BOOLEAN, key : Keys, want : Keys]]
    /\ prune \in [Accounts -> [todo : SUBSET Keys, unlink : Keys \cup {None}]]
    /\ \A a \in Accounts : prune[a].todo # {} => a \in pruned

(* The references of key k that account a needs, for its rows and for what *)
(* is about to give one back or was counted ahead; and those it has, with  *)
(* what is still to be counted.  The strengthening: it has what it needs.  *)
Need(a, k) == Cardinality(Filled(a)) + Dropping(a, k) + Cardinality(Ahead(a, k))
Have(a, k) == refs[a][k] + Copying(a, k) + Cardinality(Behind(a, k))
Covered == CountShape /\ \A a \in Accounts \ pruned, k \in Keys : Need(a, k) <= Have(a, k)

(* The sets compared are finite, and the numbers natural numbers. *)
LEMMA Finite ==
    ASSUME NEW S, S \subseteq Boxes \/ S \subseteq Ingests
    PROVE  IsFiniteSet(S) /\ Cardinality(S) \in Nat
<1>1. IsFiniteSet(Boxes)
  <2>1. IsFiniteSet({}) /\ Boxes = (({} \cup {"inbox"}) \cup {"sent"}) \cup {"archive"}
    BY FS_EmptySet DEF Boxes
  <2> QED
    BY <2>1, FS_AddElement, Zenon
<1>2. IsFiniteSet(S)
  BY <1>1, CacheAssumption, FS_Subset
<1> QED
  BY <1>2, FS_CardinalityType

(* The numbers compared are natural numbers, *)
LEMMA CountTypes ==
    ASSUME CountShape, NEW a \in Accounts, NEW k \in Keys
    PROVE  /\ IsFiniteSet(Filled(a)) /\ IsFiniteSet(Ahead(a, k)) /\ IsFiniteSet(Behind(a, k))
           /\ Cardinality(Filled(a)) \in Nat
           /\ Cardinality(Ahead(a, k)) \in Nat /\ Cardinality(Behind(a, k)) \in Nat
           /\ refs[a][k] \in Nat /\ Copying(a, k) \in Nat /\ Dropping(a, k) \in Nat
           /\ Need(a, k) \in Nat /\ Have(a, k) \in Nat
<1>1. Filled(a) \subseteq Boxes /\ Ahead(a, k) \subseteq Ingests /\ Behind(a, k) \subseteq Ingests
  BY DEF Filled, Ahead, Behind
<1>2. refs[a][k] \in Nat
  BY DEF CountShape
<1>3. Copying(a, k) \in Nat /\ Dropping(a, k) \in Nat
  BY DEF Copying, Dropping
<1> QED
  BY <1>1, <1>2, <1>3, Finite DEF Need, Have

(* and so they are after a step. *)
LEMMA CountTypesNext ==
    ASSUME CountShape', NEW a \in Accounts, NEW k \in Keys
    PROVE  /\ Cardinality(Filled(a))' \in Nat
           /\ Cardinality(Ahead(a, k))' \in Nat /\ Cardinality(Behind(a, k))' \in Nat
           /\ refs'[a][k] \in Nat /\ Copying(a, k)' \in Nat /\ Dropping(a, k)' \in Nat
           /\ Need(a, k)' \in Nat /\ Have(a, k)' \in Nat
<1>1. Filled(a)' \subseteq Boxes /\ Ahead(a, k)' \subseteq Ingests /\ Behind(a, k)' \subseteq Ingests
  BY DEF Filled, Ahead, Behind
<1>2. refs'[a][k] \in Nat
  BY DEF CountShape
<1>3. Copying(a, k)' \in Nat /\ Dropping(a, k)' \in Nat
  BY DEF Copying, Dropping
<1> QED
  BY <1>1, <1>2, <1>3, Finite DEF Need, Have

(* An element more, and an element less. *)
LEMMA Grows ==
    ASSUME NEW S, NEW x, IsFiniteSet(S)
    PROVE  /\ Cardinality(S) \in Nat /\ Cardinality(S \cup {x}) \in Nat
           /\ x \notin S => Cardinality(S \cup {x}) = Cardinality(S) + 1
           /\ Cardinality(S \cup {x}) <= Cardinality(S) + 1
<1>1. /\ Cardinality(S) \in Nat /\ Cardinality(S \cup {x}) \in Nat
      /\ Cardinality(S \cup {x}) = IF x \in S THEN Cardinality(S) ELSE Cardinality(S) + 1
  BY FS_AddElement, FS_CardinalityType
<1> QED
  BY <1>1

(* An element less. *)
LEMMA Shrinks ==
    ASSUME NEW S, NEW x, IsFiniteSet(S)
    PROVE  /\ Cardinality(S) \in Nat /\ Cardinality(S \ {x}) \in Nat
           /\ x \in S => Cardinality(S \ {x}) = Cardinality(S) - 1
<1>1. /\ Cardinality(S) \in Nat /\ Cardinality(S \ {x}) \in Nat
      /\ Cardinality(S \ {x}) = IF x \in S THEN Cardinality(S) - 1 ELSE Cardinality(S)
  BY FS_RemoveElement, FS_CardinalityType
<1> QED
  BY <1>1, Zenon

(* A step that adds to what an account needs adds as much to what it has. *)
LEMMA Balanced ==
    ASSUME Covered, CountShape', pruned \subseteq pruned',
           \A a \in Accounts \ pruned', k \in Keys :
              Need(a, k)' + Have(a, k) <= Need(a, k) + Have(a, k)'
    PROVE  Covered'
<1> SUFFICES ASSUME NEW a \in Accounts \ pruned', NEW k \in Keys
             PROVE  Need(a, k)' <= Have(a, k)'
  BY DEF Covered
<1>1. Need(a, k) \in Nat /\ Have(a, k) \in Nat
  BY CountTypes, Zenon DEF Covered
<1>2. Need(a, k)' \in Nat /\ Have(a, k)' \in Nat
  BY CountTypesNext
<1>3. Need(a, k) <= Have(a, k)
  BY DEF Covered
<1> QED
  BY <1>1, <1>2, <1>3

(* What the two statements on ref_count do. *)
LEMMA AddRefCounts ==
    ASSUME CountShape, NEW a \in Accounts, NEW k \in Keys, AddRef(a, k)
    PROVE  /\ refs' \in [Accounts -> [Keys -> Nat]]
           /\ \A c \in Accounts, h \in Keys :
                 /\ refs'[c][h] = IF c = a /\ h = k THEN refs[c][h] + 1 ELSE refs[c][h]
                 /\ refs'[c][h] >= refs[c][h]
<1>1. refs \in [Accounts -> [Keys -> Nat]]
  BY DEF CountShape
<1> QED
  BY <1>1 DEF AddRef

(* The decrement stops at zero. *)
LEMMA DropRefCounts ==
    ASSUME CountShape, NEW a \in Accounts, NEW k \in Keys, DropRef(a, k)
    PROVE  /\ refs' \in [Accounts -> [Keys -> Nat]]
           /\ \A c \in Accounts, h \in Keys :
                 refs'[c][h] = IF c = a /\ h = k /\ refs[c][h] > 0 THEN refs[c][h] - 1 ELSE refs[c][h]
<1>1. refs \in [Accounts -> [Keys -> Nat]]
  BY DEF CountShape
<1> QED
  BY <1>1 DEF DropRef

(* Where the ingests stay, so do the sets of those that are ahead and      *)
(* behind; where the clients stay, so does what they owe.                  *)
LEMMA IngestsStay ==
    ASSUME UNCHANGED pc, NEW a, NEW k
    PROVE  /\ Cardinality(Ahead(a, k))' = Cardinality(Ahead(a, k))
           /\ Cardinality(Behind(a, k))' = Cardinality(Behind(a, k))
BY DEF Ahead, Behind

(* Clients that do nothing owe and need nothing more. *)
LEMMA ClientsStay ==
    ASSUME UNCHANGED client, NEW a, NEW k
    PROVE  Copying(a, k)' = Copying(a, k) /\ Dropping(a, k)' = Dropping(a, k)
BY DEF Copying, Dropping

(* Rows that stay are counted as before. *)
LEMMA RowsStay ==
    ASSUME UNCHANGED row, NEW a
    PROVE  Cardinality(Filled(a))' = Cardinality(Filled(a))
BY DEF Filled

(* A step of a client or of clear-cache: for every account and key either  *)
(* nothing moves but a count that rises, or what moves cancels out.        *)
Steady(a, k) ==
    /\ Filled(a)' = Filled(a) /\ refs'[a][k] >= refs[a][k]
    /\ Copying(a, k)' = Copying(a, k) /\ Dropping(a, k)' = Dropping(a, k)
Offset(a, k) ==
    Cardinality(Filled(a))' + Dropping(a, k)' + refs[a][k] + Copying(a, k)
        <= Cardinality(Filled(a)) + Dropping(a, k) + refs'[a][k] + Copying(a, k)'

(* Such a step keeps the balance. *)
LEMMA ClientBalances ==
    ASSUME Covered, CountShape', UNCHANGED pc, pruned \subseteq pruned',
           \A a \in Accounts \ pruned', k \in Keys : Steady(a, k) \/ Offset(a, k)
    PROVE  Covered'
<1>1. ASSUME NEW a \in Accounts \ pruned', NEW k \in Keys
      PROVE  Need(a, k)' + Have(a, k) <= Need(a, k) + Have(a, k)'
  <2>1. /\ Cardinality(Filled(a)) \in Nat
        /\ Cardinality(Ahead(a, k)) \in Nat /\ Cardinality(Behind(a, k)) \in Nat
        /\ refs[a][k] \in Nat /\ Copying(a, k) \in Nat /\ Dropping(a, k) \in Nat
    BY CountTypes, Zenon DEF Covered
  <2>2. /\ Cardinality(Filled(a))' \in Nat
        /\ refs'[a][k] \in Nat /\ Copying(a, k)' \in Nat /\ Dropping(a, k)' \in Nat
    BY CountTypesNext
  <2>3. /\ Cardinality(Ahead(a, k))' = Cardinality(Ahead(a, k))
        /\ Cardinality(Behind(a, k))' = Cardinality(Behind(a, k))
    BY IngestsStay, Zenon
  <2>4. CASE Steady(a, k)
    BY <2>1, <2>2, <2>3, <2>4 DEF Steady, Need, Have
  <2>5. CASE Offset(a, k)
    BY <2>1, <2>2, <2>3, <2>5 DEF Offset, Need, Have
  <2> QED
    BY <2>4, <2>5, Zenon
<1> QED
  BY <1>1, Balanced, Zenon

(* An ingest counts the part before it files the row, and the message      *)
(* after it.                                                               *)
LEMMA IngestCovers ==
    ASSUME Covered, NEW j \in Ingests, Ingest(j)
    PROVE  Covered'
<1> CountShape /\ AccountOf[j] \in Accounts /\ {"raw", "part"} = Keys
  BY CacheAssumption, Zenon DEF Covered, Keys
<1> UNCHANGED <<client, prune, pruned>>
  BY DEF Ingest, IngestCheck, IngestCreate, IngestWrite, IngestMessage, IngestPart, IngestTrack,
     IngestFile, IngestCharge, history
<1> DEFINE Kept(a, k) == Need(a, k)' + Have(a, k) <= Need(a, k) + Have(a, k)'
<1>1. CASE IngestCheck(j) \/ IngestMessage(j) \/ IngestPart(j) \/ IngestCharge(j)
           \/ IngestCreate(j, "put", "raw", "write") \/ IngestWrite(j, "write", "raw", "message")
           \/ IngestCreate(j, "put_part", "part", "write_part")
           \/ IngestWrite(j, "write_part", "part", "part")
  <2>1. UNCHANGED <<row, refs>> /\ pc[j] \notin {"track", "file"}
        /\ \E step \in Steps \ {"track", "file"} : Goto(j, step)
    BY <1>1 DEF IngestCheck, IngestMessage, IngestPart, IngestCharge, IngestCreate, IngestWrite, At,
       tables, Steps
  <2>2. CountShape'
    BY <2>1 DEF CountShape, Goto
  <2>3. ASSUME NEW a \in Accounts, NEW k \in Keys PROVE Kept(a, k)
    <3>1. Ahead(a, k)' = Ahead(a, k) /\ Behind(a, k)' = Behind(a, k)
      BY <2>1 DEF Ahead, Behind, CountShape, Goto
    <3> QED
      BY <2>1, <3>1, ClientsStay, RowsStay, CountTypes DEF Need, Have
  <2> QED
    BY <2>2, <2>3, Balanced, Zenon
<1>2. ASSUME NEW h \in Keys, IngestTrack(j, IF h = "part" THEN "track_part" ELSE "track", h,
                                          IF h = "part" THEN "file" ELSE "charge")
      PROVE  Covered'
  <2>1. /\ pc[j] = IF h = "part" THEN "track_part" ELSE "track"
        /\ Goto(j, IF h = "part" THEN "file" ELSE "charge")
        /\ AddRef(AccountOf[j], h) /\ UNCHANGED row
    BY <1>2 DEF IngestTrack, At
  <2>2. CountShape'
    BY <2>1, AddRefCounts DEF CountShape, Goto, Steps
  <2>3. ASSUME NEW a \in Accounts, NEW k \in Keys PROVE Kept(a, k)
    <3>1. CASE a = AccountOf[j] /\ k = h
      <4>1. refs'[a][k] = refs[a][k] + 1
        BY <2>1, <3>1, AddRefCounts
      <4>2. /\ Cardinality(Ahead(a, k))' + Cardinality(Behind(a, k))
               = Cardinality(Ahead(a, k)) + Cardinality(Behind(a, k))' + 1
        <5>1. CASE k = "part"
          <6>1. /\ Ahead(a, k)' = Ahead(a, k) \cup {j} /\ j \notin Ahead(a, k)
                /\ Behind(a, k)' = Behind(a, k)
            BY <2>1, <3>1, <5>1 DEF Ahead, Behind, CountShape, Goto
          <6>2. Cardinality(Behind(a, k)) \in Nat /\ Cardinality(Ahead(a, k)) \in Nat
            BY CountTypes
          <6>3. Cardinality(Ahead(a, k)') = Cardinality(Ahead(a, k)) + 1
            BY <6>1, CountTypes, Grows, Zenon
          <6> QED
            BY <6>1, <6>2, <6>3
        <5>2. CASE k = "raw"
          <6>1. /\ Behind(a, k)' = Behind(a, k) \ {j} /\ j \in Behind(a, k)
                /\ Ahead(a, k)' = Ahead(a, k)
            BY <2>1, <3>1, <5>2 DEF Ahead, Behind, CountShape, Goto
          <6>2. Cardinality(Behind(a, k)) \in Nat /\ Cardinality(Ahead(a, k)) \in Nat
            BY CountTypes
          <6>3. Cardinality(Behind(a, k)') = Cardinality(Behind(a, k)) - 1
            BY <6>1, CountTypes, Shrinks
          <6> QED
            BY <6>1, <6>2, <6>3
        <5> QED
          BY <5>1, <5>2, Zenon
      <4> QED
        BY <2>1, <2>2, <4>1, <4>2, ClientsStay, RowsStay, CountTypes, CountTypesNext DEF Need, Have
    <3>2. CASE ~(a = AccountOf[j] /\ k = h)
      <4>1. refs'[a][k] = refs[a][k]
        BY <2>1, <3>2, AddRefCounts
      <4>2. Ahead(a, k)' = Ahead(a, k) /\ Behind(a, k)' = Behind(a, k)
        BY <2>1, <3>2 DEF Ahead, Behind, CountShape, Goto
      <4> QED
        BY <2>1, <4>1, <4>2, ClientsStay, RowsStay, CountTypes DEF Need, Have
    <3> QED
      BY <3>1, <3>2, Zenon
  <2> QED
    BY <2>2, <2>3, Balanced, Zenon
<1>3. CASE IngestFile(j)
  <2>1. pc[j] = "file" /\ Goto(j, "track") /\ UNCHANGED refs
    BY <1>3 DEF IngestFile, At
  <2>2. PICK b \in Boxes : row' = [row EXCEPT ![<<AccountOf[j], b>>] = j]
    BY <1>3, Zenon DEF IngestFile, Boxes
  <2>3. CountShape'
    <3>1. row' \in [Slots -> Ingests \cup {None}]
      BY <2>2, Zenon DEF CountShape
    <3> QED
      BY <2>1, <3>1 DEF CountShape, Goto, Steps
  <2>4. ASSUME NEW a \in Accounts, NEW k \in Keys PROVE Kept(a, k)
    <3>1. \A d \in Boxes : row'[<<a, d>>] = IF a = AccountOf[j] /\ d = b THEN j ELSE row[<<a, d>>]
      BY <2>2 DEF CountShape, Slots
    <3>2. CASE a # AccountOf[j]
      <4>1. Ahead(a, k)' = Ahead(a, k) /\ Behind(a, k)' = Behind(a, k) /\ Filled(a)' = Filled(a)
        BY <2>1, <3>1, <3>2 DEF Ahead, Behind, Filled, CountShape, Goto
      <4> QED
        BY <2>1, <4>1, ClientsStay, CountTypes DEF Need, Have
    <3>3. CASE a = AccountOf[j]
      <4>1. Filled(a)' = Filled(a) \cup {b}
        BY <3>1, <3>3, CacheAssumption, Zenon DEF Filled
      <4>2. Cardinality(Filled(a))' <= Cardinality(Filled(a)) + 1
        BY <4>1, CountTypes, Grows
      <4>3. Cardinality(Ahead(a, k))' + Cardinality(Behind(a, k)) + 1
            = Cardinality(Ahead(a, k)) + Cardinality(Behind(a, k))'
        <5>1. CASE k = "part"
          <6>1. /\ Ahead(a, k)' = Ahead(a, k) \ {j} /\ j \in Ahead(a, k)
                /\ Behind(a, k)' = Behind(a, k)
            BY <2>1, <3>3, <5>1 DEF Ahead, Behind, CountShape, Goto
          <6>2. Cardinality(Behind(a, k)) \in Nat /\ Cardinality(Ahead(a, k)) \in Nat
            BY CountTypes
          <6>3. Cardinality(Ahead(a, k)') = Cardinality(Ahead(a, k)) - 1
            BY <6>1, CountTypes, Shrinks
          <6> QED
            BY <6>1, <6>2, <6>3
        <5>2. CASE k = "raw"
          <6>1. /\ Behind(a, k)' = Behind(a, k) \cup {j} /\ j \notin Behind(a, k)
                /\ Ahead(a, k)' = Ahead(a, k)
            BY <2>1, <3>3, <5>2 DEF Ahead, Behind, CountShape, Goto
          <6>2. Cardinality(Behind(a, k)) \in Nat /\ Cardinality(Ahead(a, k)) \in Nat
            BY CountTypes
          <6>3. Cardinality(Behind(a, k)') = Cardinality(Behind(a, k)) + 1
            BY <6>1, CountTypes, Grows, Zenon
          <6> QED
            BY <6>1, <6>2, <6>3
        <5> QED
          BY <5>1, <5>2, Zenon
      <4> QED
        BY <2>1, <2>3, <4>2, <4>3, ClientsStay, CountTypes, CountTypesNext DEF Need, Have
    <3> QED
      BY <3>2, <3>3, Zenon
  <2> QED
    BY <2>3, <2>4, Balanced, Zenon
<1> QED
  BY <1>1, <1>2, <1>3 DEF Ingest
(* A command of a client that is neither a copy nor an expunge owes and    *)
(* drops nothing.                                                          *)
Counting == {"copy_part", "copy_raw", "drop_part", "drop_raw"}

(* A client that neither copies nor deletes moves no count. *)
LEMMA ClientAside ==
    ASSUME NEW r \in Readers, \A c \in Readers \ {r} : client'[c] = client[c],
           client[r].task \notin Counting, client'[r].task \notin Counting
    PROVE  \A a, k : Copying(a, k)' = Copying(a, k) /\ Dropping(a, k)' = Dropping(a, k)
BY DEF Copying, Dropping, Counting

(* The client of r moves on; the others stay where they are. *)
Clients == [task : Tasks, uid : BOOLEAN, key : Keys, want : Keys]
Moves(r) ==
    /\ client' \in [Readers -> Clients]
    /\ \A c \in Readers \ {r} : client'[c] = client[c]
    /\ client'[r].task \notin Counting

(* A client that goes on touches nobody else's task. *)
LEMMA BecomeMoves ==
    ASSUME client \in [Readers -> Clients], NEW r \in Readers, NEW t \in Tasks, Become(r, t)
    PROVE  /\ client' \in [Readers -> Clients] /\ client'[r].task = t
           /\ \A c \in Readers \ {r} : client'[c] = client[c]
<1>1. client' = [client EXCEPT ![r] = [client[r] EXCEPT !.task = t]]
  BY DEF Become
<1>2. [client[r] EXCEPT !.task = t] \in Clients /\ [client[r] EXCEPT !.task = t].task = t
  BY DEF Clients
<1> QED
  BY <1>1, <1>2, Zenon

(* A fetch goes on to the part. *)
LEMMA PartMoves ==
    ASSUME client \in [Readers -> Clients], NEW r \in Readers,
           client' = [client EXCEPT ![r].task = "create", ![r].key = "part"]
    PROVE  Moves(r)
<1> DEFINE x == [[client[r] EXCEPT !.task = "create"] EXCEPT !.key = "part"]
<1>1. client' = [client EXCEPT ![r] = x]
  BY Zenon
<1>2. x \in Clients /\ x.task = "create"
  BY Zenon DEF Clients, Tasks, Keys
<1> HIDE DEF x
<1> QED
  BY <1>1, <1>2, Zenon DEF Moves, Counting

(* A client that answers is idle. *)
LEMMA AnswerMoves ==
    ASSUME client \in [Readers -> Clients], NEW r \in Readers, Answer(r)
    PROVE  Moves(r)
<1>1. Idle \in Clients /\ Idle.task = "idle"
  BY DEF Idle, Clients, Tasks, Keys
<1> QED
  BY <1>1, Zenon DEF Moves, Answer, Counting

(* A fetch that finds no file answers or goes upstream. *)
LEMMA MissMoves ==
    ASSUME client \in [Readers -> Clients], NEW r \in Readers, NEW b, NEW k \in Keys, Miss(r, b, k)
    PROVE  Moves(r)
<1>1. CASE k = "raw" /\ b # "inbox"
  BY <1>1, AnswerMoves DEF Miss
<1>2. CASE ~(k = "raw" /\ b # "inbox")
  <2> DEFINE x == [task |-> IF k = "raw" THEN "upstream" ELSE "extract",
                   uid |-> b = "inbox", key |-> "raw", want |-> k]
  <2>1. client' = [client EXCEPT ![r] = x]
    BY <1>2 DEF Miss
  <2>2. x \in Clients /\ x.task \notin Counting
    BY DEF Clients, Tasks, Keys, Counting
  <2> HIDE DEF x
  <2> QED
    BY <2>1, <2>2, Zenon DEF Moves
<1> QED
  BY <1>1, <1>2, Zenon

(* No step of a fetch moves a count. *)
LEMMA FetchCovers ==
    ASSUME Covered, NEW r \in Readers,
           \/ Extract(r) \/ Upstream(r) \/ Refill(r)
           \/ \E b \in Boxes, k \in Keys : Fetch(r, b, k) \/ FetchRange(r, b, k)
    PROVE  Covered'
<1> CountShape /\ r \in Accounts
  BY CacheAssumption, Zenon DEF Covered
<1> UNCHANGED <<row, pc, prune, pruned>>
  BY Zenon DEF Extract, Upstream, Refill, Fetch, FetchRange, tables, history
<1>1. /\ refs' \in [Accounts -> [Keys -> Nat]]
      /\ \A a \in Accounts, k \in Keys : refs'[a][k] >= refs[a][k]
  <2>1. CASE UNCHANGED refs
    BY <2>1 DEF CountShape
  <2>2. CASE AddRef(r, client[r].key)
    <3>1. client[r].key \in Keys
      BY DEF CountShape
    <3> QED
      BY <2>2, <3>1, AddRefCounts
  <2> QED
    BY <2>1, <2>2, Zenon DEF Extract, Upstream, Refill, Fetch, FetchRange, tables
<1>2. Moves(r) /\ client[r].task \notin Counting
  <2>a. client \in [Readers -> Clients]
    BY DEF CountShape, Clients
  <2>1. CASE Extract(r)
    BY <2>a, <2>1, BecomeMoves, PartMoves, AnswerMoves, Zenon DEF Extract, Task, Tasks, Counting, Moves
  <2>2. CASE Upstream(r)
    BY <2>a, <2>2, BecomeMoves, AnswerMoves, Zenon DEF Upstream, Task, Tasks, Counting, Moves
  <2>3. CASE Refill(r)
    BY <2>a, <2>3, BecomeMoves, PartMoves, AnswerMoves, Zenon DEF Refill, Task, Tasks, Counting, Moves
  <2>4. ASSUME NEW b \in Boxes, NEW k \in Keys, Fetch(r, b, k) \/ FetchRange(r, b, k)
        PROVE  Moves(r) /\ client[r].task \notin Counting
    <3>1. /\ client[r].task = "idle"
          /\ Answer(r) \/ Miss(r, b, k)
      BY <2>4, Zenon DEF Fetch, FetchRange, Task
    <3> QED
      BY <2>a, <3>1, AnswerMoves, MissMoves DEF Counting
  <2> QED
    BY <2>1, <2>2, <2>3, <2>4, Zenon
<1>3. CountShape'
  BY <1>1, <1>2 DEF CountShape, Moves, Clients
<1>4. \A a, k : Copying(a, k)' = Copying(a, k) /\ Dropping(a, k)' = Dropping(a, k)
  BY <1>2, ClientAside, Zenon DEF Moves
<1>5. \A a \in Accounts, k \in Keys : Steady(a, k)
  BY <1>1, <1>4 DEF Steady, Filled
<1> QED
  BY <1>3, <1>5, ClientBalances, Zenon

(* A copy files its row first and owes both counts. *)
LEMMA CopyCovers ==
    ASSUME Covered, NEW r \in Readers, NEW b \in Boxes, Copy(r, b)
    PROVE  Covered'
<1> /\ CountShape /\ r \in Accounts /\ client \in [Readers -> Clients] /\ "copy_part" \in Tasks
    /\ "archive" \in Boxes
  BY CacheAssumption DEF Covered, CountShape, Clients, Tasks, Boxes
<1> /\ client[r].task = "idle" /\ row[<<r, b>>] # None
    /\ row[<<r, "archive">>] = None
    /\ UNCHANGED <<refs, pc, prune, pruned>>
  BY DEF Copy, Task, history
<1>1. /\ client' \in [Readers -> Clients]
      /\ \A c \in Readers \ {r} : client'[c] = client[c]
      /\ client'[r].task = "copy_part"
  BY BecomeMoves DEF Copy
<1>2. /\ row' \in [Slots -> Ingests \cup {None}]
      /\ \A a \in Accounts, d \in Boxes :
            row'[<<a, d>>] = IF a = r /\ d = "archive" THEN row[<<r, b>>] ELSE row[<<a, d>>]
  BY DEF CountShape, Copy, Slots
<1>3. CountShape'
  BY <1>1, <1>2 DEF CountShape, Clients
<1>4. ASSUME NEW a \in Accounts, NEW k \in Keys PROVE Steady(a, k) \/ Offset(a, k)
  <2>1. CASE a # r
    <3>1. /\ Filled(a)' = Filled(a)
          /\ Copying(a, k)' = Copying(a, k) /\ Dropping(a, k)' = Dropping(a, k)
      BY <1>1, <1>2, <2>1, Zenon DEF Filled, Copying, Dropping
    <3> QED
      BY <3>1, CountTypes DEF Steady
  <2>2. CASE a = r
    <3>1. Filled(a)' = Filled(a) \cup {"archive"} /\ "archive" \notin Filled(a)
      BY <1>2, <2>2, Zenon DEF Filled
    <3>2. Copying(a, k)' = 1 /\ Copying(a, k) = 0 /\ Dropping(a, k)' = 0 /\ Dropping(a, k) = 0
      BY <1>1, <2>2, Zenon DEF Copying, Dropping
    <3>3. Cardinality(Filled(a)') = Cardinality(Filled(a)) + 1
      BY <3>1, CountTypes, Grows, Zenon
    <3>4. Cardinality(Filled(a)) \in Nat /\ refs[a][k] \in Nat
      BY CountTypes
    <3> QED
      BY <3>2, <3>3, <3>4 DEF Offset
  <2> QED
    BY <2>1, <2>2, Zenon
<1> QED
  BY <1>3, <1>4, ClientBalances, Zenon

(* A copy that is counted owes one less. *)
LEMMA CopyCountCovers ==
    ASSUME Covered, NEW r \in Readers, CopyCount(r)
    PROVE  Covered'
<1> /\ CountShape /\ r \in Accounts /\ {"raw", "part"} = Keys
    /\ client \in [Readers -> Clients]
  BY CacheAssumption DEF Covered, Keys, CountShape, Clients
<1> UNCHANGED <<row, pc, prune, pruned>>
  BY DEF CopyCount, history
<1>1. PICK k \in Keys :
         /\ AddRef(r, k)
         /\ client' \in [Readers -> Clients]
         /\ \A c \in Readers \ {r} : client'[c] = client[c]
         /\ \/ k = "part" /\ client[r].task = "copy_part" /\ client'[r].task = "copy_raw"
            \/ k = "raw" /\ client[r].task = "copy_raw" /\ client'[r].task = "idle"
  <2>1. CASE Task(r, "copy_part") /\ AddRef(r, "part") /\ Become(r, "copy_raw")
    <3>1. "copy_raw" \in Tasks
      BY DEF Tasks
    <3> QED
      BY <2>1, <3>1, BecomeMoves, Zenon DEF Task
  <2>2. CASE Task(r, "copy_raw") /\ AddRef(r, "raw") /\ client' = [client EXCEPT ![r] = Idle]
    <3>1. Idle \in Clients /\ Idle.task = "idle"
      BY DEF Idle, Clients, Tasks, Keys
    <3> QED
      BY <2>2, <3>1, Zenon DEF Task
  <2> QED
    BY <2>1, <2>2 DEF CopyCount
<1>2. CountShape'
  BY <1>1, AddRefCounts DEF CountShape, Clients
<1>3. ASSUME NEW a \in Accounts, NEW h \in Keys PROVE Steady(a, h) \/ Offset(a, h)
  <2>1. Filled(a)' = Filled(a) /\ Cardinality(Filled(a)) \in Nat /\ refs[a][h] \in Nat
    BY CountTypes, Zenon DEF Filled
  <2>2. CASE a = r /\ h = k
    <3>1. refs'[a][h] = refs[a][h] + 1
      BY <1>1, <2>2, AddRefCounts
    <3>2. Copying(a, h) = 1 /\ Copying(a, h)' = 0 /\ Dropping(a, h) = 0 /\ Dropping(a, h)' = 0
      BY <1>1, <2>2, Zenon DEF Copying, Dropping
    <3> QED
      BY <2>1, <3>1, <3>2 DEF Offset
  <2>3. CASE ~(a = r /\ h = k)
    <3>1. refs'[a][h] = refs[a][h]
      BY <1>1, <2>3, AddRefCounts
    <3>2. Copying(a, h)' = Copying(a, h) /\ Dropping(a, h)' = Dropping(a, h)
      BY <1>1, <2>3, Zenon DEF Copying, Dropping
    <3> QED
      BY <2>1, <3>1, <3>2 DEF Steady
  <2> QED
    BY <2>2, <2>3, Zenon
<1> QED
  BY <1>2, <1>3, ClientBalances, Zenon

(* An expunge takes the row first: until its references are given back     *)
(* they are too many, never too few.                                       *)
LEMMA DeleteCovers ==
    ASSUME Covered, NEW r \in Readers, NEW b \in Boxes, Delete(r, b)
    PROVE  Covered'
<1> /\ CountShape /\ r \in Accounts /\ client \in [Readers -> Clients] /\ "drop_part" \in Tasks
    /\ "archive" \in Boxes
  BY CacheAssumption DEF Covered, CountShape, Clients, Tasks, Boxes
<1> /\ client[r].task = "idle" /\ row[<<r, b>>] # None
    /\ UNCHANGED <<refs, pc, prune, pruned>>
  BY DEF Delete, Task, history
<1>1. /\ client' \in [Readers -> Clients]
      /\ \A c \in Readers \ {r} : client'[c] = client[c]
      /\ client'[r].task = "drop_part"
  BY BecomeMoves DEF Delete
<1>2. /\ row' \in [Slots -> Ingests \cup {None}]
      /\ \A a \in Accounts, d \in Boxes :
            row'[<<a, d>>] = IF a = r /\ d = b THEN None ELSE row[<<a, d>>]
  BY DEF CountShape, Delete, Slots
<1>3. CountShape'
  BY <1>1, <1>2 DEF CountShape, Clients
<1>4. ASSUME NEW a \in Accounts, NEW k \in Keys PROVE Steady(a, k) \/ Offset(a, k)
  <2>1. CASE a # r
    <3>1. /\ Filled(a)' = Filled(a)
          /\ Copying(a, k)' = Copying(a, k) /\ Dropping(a, k)' = Dropping(a, k)
      BY <1>1, <1>2, <2>1, Zenon DEF Filled, Copying, Dropping
    <3> QED
      BY <3>1, CountTypes DEF Steady
  <2>2. CASE a = r
    <3>1. Filled(a)' = Filled(a) \ {b} /\ b \in Filled(a)
      BY <1>2, <2>2, Zenon DEF Filled
    <3>2. Dropping(a, k)' = 1 /\ Dropping(a, k) = 0 /\ Copying(a, k)' = 0 /\ Copying(a, k) = 0
      BY <1>1, <2>2, Zenon DEF Copying, Dropping
    <3>3. Cardinality(Filled(a)') = Cardinality(Filled(a)) - 1
      BY <3>1, CountTypes, Shrinks
    <3>4. Cardinality(Filled(a)) \in Nat /\ refs[a][k] \in Nat
      BY CountTypes
    <3> QED
      BY <3>2, <3>3, <3>4 DEF Offset
  <2> QED
    BY <2>1, <2>2, Zenon
<1> QED
  BY <1>3, <1>4, ClientBalances, Zenon

(* An expunged row gives its reference back, and only that one. *)
LEMMA DeleteCountCovers ==
    ASSUME Covered, NEW r \in Readers, DeleteCount(r)
    PROVE  Covered'
<1> /\ CountShape /\ r \in Accounts /\ {"raw", "part"} = Keys
    /\ client \in [Readers -> Clients]
  BY CacheAssumption DEF Covered, Keys, CountShape, Clients
<1> UNCHANGED <<row, pc, prune, pruned>>
  BY DEF DeleteCount, history
<1>1. PICK k \in Keys :
         /\ DropRef(r, k)
         /\ client' \in [Readers -> Clients]
         /\ \A c \in Readers \ {r} : client'[c] = client[c]
         /\ \/ k = "part" /\ client[r].task = "drop_part" /\ client'[r].task = "drop_raw"
            \/ k = "raw" /\ client[r].task = "drop_raw" /\ client'[r].task = "idle"
  <2>1. CASE Task(r, "drop_part") /\ DropRef(r, "part") /\ Become(r, "drop_raw")
    <3>1. "drop_raw" \in Tasks
      BY DEF Tasks
    <3> QED
      BY <2>1, <3>1, BecomeMoves, Zenon DEF Task
  <2>2. CASE Task(r, "drop_raw") /\ DropRef(r, "raw") /\ client' = [client EXCEPT ![r] = Idle]
    <3>1. Idle \in Clients /\ Idle.task = "idle"
      BY DEF Idle, Clients, Tasks, Keys
    <3> QED
      BY <2>2, <3>1, Zenon DEF Task
  <2> QED
    BY <2>1, <2>2 DEF DeleteCount
<1>2. CountShape'
  BY <1>1, DropRefCounts DEF CountShape, Clients
<1>3. ASSUME NEW a \in Accounts, NEW h \in Keys PROVE Steady(a, h) \/ Offset(a, h)
  <2>1. Filled(a)' = Filled(a) /\ Cardinality(Filled(a)) \in Nat /\ refs[a][h] \in Nat
    BY CountTypes, Zenon DEF Filled
  <2>2. CASE a = r /\ h = k
    <3>1. refs'[a][h] = IF refs[a][h] > 0 THEN refs[a][h] - 1 ELSE refs[a][h]
      BY <1>1, <2>2, DropRefCounts
    <3>2. Dropping(a, h) = 1 /\ Dropping(a, h)' = 0 /\ Copying(a, h) = 0 /\ Copying(a, h)' = 0
      BY <1>1, <2>2, Zenon DEF Copying, Dropping
    <3> QED
      BY <2>1, <3>1, <3>2 DEF Offset
  <2>3. CASE ~(a = r /\ h = k)
    <3>1. refs'[a][h] = refs[a][h]
      BY <1>1, <2>3, DropRefCounts
    <3>2. Copying(a, h)' = Copying(a, h) /\ Dropping(a, h)' = Dropping(a, h)
      BY <1>1, <2>3, Zenon DEF Copying, Dropping
    <3> QED
      BY <2>1, <3>1, <3>2 DEF Steady
  <2> QED
    BY <2>2, <2>3, Zenon
<1> QED
  BY <1>2, <1>3, ClientBalances, Zenon
(* clear-cache lowers the counts of the account it prunes, and of no other. *)
LEMMA PruneCovers ==
    ASSUME Covered, NEW r \in Accounts,
           PruneList(r) \/ PruneUnlink(r) \/ \E k \in Keys : PruneDrop(r, k)
    PROVE  Covered'
<1> CountShape
  BY DEF Covered
<1> UNCHANGED <<row, pc, client>> /\ pruned \subseteq pruned'
  BY DEF PruneList, PruneUnlink, PruneDrop, tables, history
<1> DEFINE Prunes == [todo : SUBSET Keys, unlink : Keys \cup {None}]
<1>1. /\ prune' \in [Accounts -> Prunes]
      /\ \A a \in Accounts : prune'[a].todo # {} => a \in pruned'
      /\ refs' \in [Accounts -> [Keys -> Nat]]
      /\ \A a \in Accounts \ pruned', k \in Keys : refs'[a][k] = refs[a][k]
  <2>a. /\ prune \in [Accounts -> Prunes] /\ refs \in [Accounts -> [Keys -> Nat]]
        /\ \A a \in Accounts : prune[a].todo # {} => a \in pruned
    BY DEF CountShape
  <2>1. CASE PruneList(r)
    <3>1. UNCHANGED refs /\ r \in pruned'
      BY <2>1, Zenon DEF PruneList, tables
    <3>2. PICK t \in SUBSET Keys : prune' = [prune EXCEPT ![r].todo = t]
      <4>1. PICK spared \in SUBSET {k \in Keys : refs[r][k] > 0} :
               prune' = [prune EXCEPT ![r].todo = {k \in Keys : refs[r][k] > 0} \ spared]
        BY <2>1, Zenon DEF PruneList
      <4> QED
        BY <4>1, Zenon
    <3>3. [prune[r] EXCEPT !.todo = t] \in Prunes
      BY <2>a, Zenon
    <3>4. \A a \in Accounts : prune'[a] = IF a = r THEN [prune[r] EXCEPT !.todo = t] ELSE prune[a]
      BY <2>a, <3>2, Zenon
    <3>5. prune' \in [Accounts -> Prunes]
      BY <2>a, <3>2, <3>3, Zenon
    <3>6. \A a \in Accounts : prune'[a].todo # {} => a \in pruned'
      BY <2>a, <3>1, <3>4, Zenon
    <3> QED
      BY <2>a, <3>1, <3>5, <3>6, Zenon
  <2>2. CASE PruneUnlink(r)
    <3>1. UNCHANGED <<refs, pruned>> /\ prune' = [prune EXCEPT ![r].unlink = None]
      BY <2>2, Zenon DEF PruneUnlink, tables, history
    <3>2. /\ [prune[r] EXCEPT !.unlink = None] \in Prunes
          /\ [prune[r] EXCEPT !.unlink = None].todo = prune[r].todo
      BY <2>a, Zenon
    <3>3. \A a \in Accounts : prune'[a] = IF a = r THEN [prune[r] EXCEPT !.unlink = None] ELSE prune[a]
      BY <2>a, <3>1, Zenon
    <3>4. prune' \in [Accounts -> Prunes]
      BY <2>a, <3>1, <3>2, Zenon
    <3> QED
      BY <2>a, <3>1, <3>2, <3>3, <3>4, Zenon
  <2>3. ASSUME NEW k \in Keys, PruneDrop(r, k)
        PROVE  <1>1!1 /\ <1>1!2 /\ <1>1!3 /\ <1>1!4
    <3>1. DropRef(r, k) /\ UNCHANGED pruned /\ k \in prune[r].todo /\ r \in pruned
      BY <2>3, <2>a DEF PruneDrop
    <3>2. PICK u \in Keys \cup {None} :
             prune' = [prune EXCEPT ![r] = [todo |-> prune[r].todo \ {k}, unlink |-> u]]
      BY <2>3, <2>a, Zenon DEF PruneDrop
    <3>3. [todo |-> prune[r].todo \ {k}, unlink |-> u] \in Prunes
      BY <2>a, Zenon
    <3>4. prune' \in [Accounts -> Prunes]
      BY <2>a, <3>2, <3>3, Zenon
    <3>5. \A a \in Accounts : prune'[a].todo # {} => a \in pruned'
      BY <2>a, <3>1, <3>2, Zenon
    <3>6. refs' \in [Accounts -> [Keys -> Nat]]
      BY <3>1, DropRefCounts
    <3>7. \A a \in Accounts \ pruned', h \in Keys : refs'[a][h] = refs[a][h]
      BY <3>1, DropRefCounts
    <3> QED
      BY <3>4, <3>5, <3>6, <3>7, Zenon
  <2> QED
    BY <2>1, <2>2, <2>3, Zenon
<1>2. CountShape'
  BY <1>1 DEF CountShape
<1>3. ASSUME NEW a \in Accounts \ pruned', NEW k \in Keys PROVE Steady(a, k)
  <2>1. refs'[a][k] = refs[a][k] /\ refs[a][k] \in Nat
    BY <1>1, CountTypes
  <2>2. refs'[a][k] >= refs[a][k]
    BY <2>1
  <2> QED
    BY <2>2, Zenon DEF Steady, Filled, Copying, Dropping
<1> QED
  BY <1>2, <1>3, ClientBalances, Zenon

(* Covered is inductive. *)
LEMMA StepCovers == Covered /\ [Next]_vars => Covered'
<1> SUFFICES ASSUME Covered, [Next]_vars PROVE Covered'
  OBVIOUS
<1>1. ASSUME UNCHANGED <<row, refs, pc, client, prune, pruned>> PROVE Covered'
  <2>1. CountShape /\ CountShape'
    BY <1>1 DEF Covered, CountShape
  <2>2. ASSUME NEW a \in Accounts, NEW k \in Keys PROVE Steady(a, k)
    <3>1. refs'[a][k] = refs[a][k] /\ refs[a][k] \in Nat
      BY <1>1, <2>1, CountTypes
    <3> QED
      BY <1>1, <3>1 DEF Steady, Filled, Copying, Dropping
  <2> QED
    BY <1>1, <2>1, <2>2, ClientBalances, Zenon
<1>2. ASSUME NEW p \in Ingests \cup Readers, Stop(p) PROVE Covered'
  BY <1>1, <1>2, Zenon DEF Stop, tables, history
<1>3. CASE UNCHANGED vars
  BY <1>1, <1>3, Zenon DEF vars, tables, history
<1> QED
  BY <1>2, <1>3, IngestCovers, FetchCovers, CopyCovers, CopyCountCovers, DeleteCovers,
     DeleteCountCovers, PruneCovers DEF Next

(* What the strengthening says of the rows and the counts. *)
LEMMA CoveredCounts == Covered => CountsCoverRows
<1> SUFFICES ASSUME Covered, NEW a \in Accounts \ pruned, NEW k \in Keys
             PROVE  Cardinality(Filled(a)) <= refs[a][k] + Owed(a, k)
  BY DEF CountsCoverRows, Filled
<1>1. Need(a, k) <= Have(a, k) /\ CountShape
  BY DEF Covered
<1>2. Owed(a, k) = Cardinality(Behind(a, k)) + Copying(a, k)
  BY Zenon DEF Owed, Behind
<1> QED
  BY <1>1, <1>2, CountTypes DEF Need, Have

(* With any number of accounts, ingests and clients, and wherever any of   *)
(* them stops: as long as an account's cache is not cleared, no mailbox    *)
(* row of it is without its reference, whatever is ingested again, copied  *)
(* and expunged side by side.                                              *)
THEOREM RowsCounted == Spec => []CountsCoverRows
<1>1. Init => Covered
  <2> SUFFICES ASSUME Init PROVE Covered
    OBVIOUS
  <2>1. CountShape
    BY DEF Init, CountShape, Idle, NoPrune, Steps, Tasks, Keys
  <2>2. ASSUME NEW a \in Accounts, NEW k \in Keys PROVE Need(a, k) <= Have(a, k)
    <3>1. Filled(a) = {} /\ Ahead(a, k) = {} /\ Behind(a, k) = {}
      BY DEF Init, Filled, Ahead, Behind, Slots
    <3>2. Copying(a, k) = 0 /\ Dropping(a, k) = 0 /\ refs[a][k] = 0
      BY DEF Init, Copying, Dropping, Idle
    <3>3. Cardinality({}) = 0
      BY FS_EmptySet
    <3> QED
      BY <3>1, <3>2, <3>3 DEF Need, Have
  <2> QED
    BY <2>1, <2>2, Zenon DEF Covered
<1> QED
  BY <1>1, StepCovers, CoveredCounts, PTL DEF Spec
=============================================================================
