------------------------ MODULE MailboxCommandsProofs ------------------------
(***************************************************************************)
(* For any number of sessions, any commands and any messages: the row      *)
(* locks make modseqs rise and uids new, no message vanishes that no       *)
(* command deletes, and the counts follow.                                 *)
(***************************************************************************)
EXTENDS MailboxCommands, TLAPS

-----------------------------------------------------------------------------
(* What a point of a command says of the command and of its variables. *)
Deleting == Expunging \cup {"MOVE"}
Placed == [box : Boxes, msg : Messages, flags : SUBSET Flags, uid : Nat \ {0}, modseq : Nat]
Listing == {"each", "update", "queue", "lock", "insert", "copied", "find", "delete"}

Fits(c, m) ==
    /\ m.pc \in Listing => /\ c.verb # "APPEND" => m.todo # <<>>
                           /\ m.fresh = Refreshed(c)
    /\ m.pc \in {"refresh", "write"} => m.fresh # <<>>
    /\ m.pc \in {"update", "queue"} => c.verb \in Storing
    /\ m.pc \in {"lock", "insert"} => /\ c.verb \in Copying \cup {"APPEND"}
                                      /\ m.new.box = IF c.verb = "APPEND" THEN c.box ELSE c.to
    /\ m.pc = "lock" => m.new \in [box : Boxes, msg : Messages, flags : SUBSET Flags]
    /\ m.pc = "insert" => m.new \in Placed
    /\ m.pc = "copied" => c.verb \in Copying
    /\ m.pc = "find" => c.verb = "MOVE"
    /\ m.pc = "delete" => c.verb \in Deleting
    /\ m.pc = "rest" => /\ c.verb = "APPEND" \/ (c.verb = "UID STORE" /\ m.todo # <<>>)
                        /\ m.fresh = <<>>
    /\ c.verb \notin Storing => m.listed = <<>>

Local(s) == Fits(cmd[s], me[s])

(* A mailbox is locked by one session, which has chosen the modseq after   *)
(* the mailbox's and a uid above those of its messages; a message is       *)
(* locked by one deletion.                                                 *)
Holds(s, b) == \/ At(s, "update") /\ Box(s) = b
               \/ At(s, "insert") /\ me[s].new.box = b

Locked ==
    /\ \A s, t \in Sessions : \A b \in Boxes : Holds(s, b) /\ Holds(t, b) => s = t
    /\ \A s \in Sessions : \A b \in Boxes : Holds(s, b) => me[s].new.modseq = highest[b] + 1
    /\ \A s \in Sessions : At(s, "insert") => \A r \in In(me[s].new.box) : r.uid < me[s].new.uid
    /\ \A s \in Sessions : At(s, "delete") => Has(Box(s), Target(s).uid)
    /\ \A s, t \in Sessions : At(s, "delete") /\ At(t, "delete") /\ Box(s) = Box(t)
                              /\ Target(s).uid = Target(t).uid => s = t

(* Facts about finite sets that the steps rely on, proved below from those *)
(* of FiniteSetTheorems.                                                   *)
FiniteFacts ==
    /\ \A S : IsFiniteSet(S) => Cardinality(S) \in Nat /\ (S = {} => Cardinality(S) = 0)
    /\ \A S : \A T \in SUBSET S : IsFiniteSet(S) => IsFiniteSet(T)
    /\ \A S, x : IsFiniteSet(S) => IsFiniteSet(S \cup {x})
    /\ \A S, T : \A f \in [S -> T] :
          IsFiniteSet(S) /\ (\A y \in T : \E x \in S : f[x] = y) => IsFiniteSet(T)
    /\ \A R \in SUBSET Row : IsFiniteSet(R) =>
          \E m \in {r.uid : r \in R} \cup {0} : \A u \in {r.uid : r \in R} \cup {0} : m >= u

(* The strengthening all theorems rest on. *)
Sound == FiniteFacts /\ TypeOK /\ (\A s \in Sessions : Local(s)) /\ Locked

-----------------------------------------------------------------------------
(* The row at a uid that a session has still to handle is the one it       *)
(* listed, unless it was misled; a MOVE has a copy of it before it         *)
(* deletes.                                                                *)
Misled(s, x) == <<s, x.uid>> \in misled

ToldTo(s) ==
    /\ \A x \in Range(me[s].todo) : ~Misled(s, x) =>
          \A r \in In(Box(s)) : r.uid = x.uid => r.msg = x.msg
    /\ Verb(s) \in Expunging => \A x \in Range(me[s].todo) : x.msg \in struck
    /\ Verb(s) = "MOVE" /\ me[s].pc \in {"lock", "insert"} /\ ~Misled(s, Target(s)) =>
          me[s].new.msg = Target(s).msg

Told == \A s \in Sessions : Verb(s) \in Deleting => ToldTo(s)

(* r is a message that a MOVE has copied, or did not find, and has not yet *)
(* deleted.                                                                *)
Gone == {"copied", "find", "delete"}

Leaves(s, r) ==
    /\ Verb(s) = "MOVE" /\ me[s].pc \in Gone
    /\ Box(s) = r.box /\ Target(s).uid = r.uid /\ ~Misled(s, r)

(* Of every message there is a row that no MOVE is about to delete. *)
Safe(q) == \A s \in Sessions : ~Leaves(s, q)
Excused(msg) == msg \in struck \cup mistaken
Remains == \A r \in rows : Excused(r.msg) \/ \E q \in rows : q.msg = r.msg /\ Safe(q)

(* A mailbox whose count is off is on record, or some session that changed *)
(* it has its refresh before it, or failed.                                *)
WillCount(s, b) == Active(s) /\ b \in Range(me[s].fresh)

CountedIn(b) == \/ b \in stale \/ stored[b] = Cardinality(In(b)) \/ Failed
                \/ \E s \in Sessions : WillCount(s, b)

Counted == \A b \in Boxes : CountedIn(b)

-----------------------------------------------------------------------------
(* Max of two numbers is one of them. *)
LEMMA MaxOfTwo ==
    ASSUME NEW i \in Nat, NEW j \in Nat
    PROVE  Max({i, j}) \in {i, j}
<1>1. \E x \in {i, j} : \A y \in {i, j} : x >= y
  OBVIOUS
<1> QED
  BY <1>1 DEF Max

(* What is in a sequence, and in what is left of it. *)
LEMMA HeadAndTail ==
    ASSUME NEW X, NEW q \in Seq(X), q # <<>>
    PROVE  /\ Head(q) \in X /\ Tail(q) \in Seq(X)
           /\ Range(q) = {Head(q)} \cup Range(Tail(q))
<1>1. /\ Len(q) \in Nat \ {0} /\ Head(q) = q[1] /\ Head(q) \in X /\ Tail(q) \in Seq(X)
      /\ Len(Tail(q)) = Len(q) - 1 /\ \A i \in 1..Len(Tail(q)) : Tail(q)[i] = q[i + 1]
      /\ DOMAIN q = 1..Len(q) /\ DOMAIN Tail(q) = 1..Len(Tail(q))
  OBVIOUS
<1>2. Range(Tail(q)) \subseteq Range(q) /\ q[1] \in Range(q)
  BY <1>1 DEF Range
<1>3. ASSUME NEW x \in Range(q), x # q[1] PROVE x \in Range(Tail(q))
  <2>1. PICK i \in 1..Len(q) : x = q[i]
    BY <1>1 DEF Range
  <2>2. i - 1 \in 1..Len(Tail(q)) /\ Tail(q)[i - 1] = q[i]
    BY <1>1, <1>3, <2>1
  <2> QED
    BY <1>1, <2>1, <2>2, Zenon DEF Range
<1> QED
  BY <1>1, <1>2, <1>3

(* The empty sequence has nothing in it. *)
LEMMA NoRange == Range(<<>>) = {}
  BY DEF Range

-----------------------------------------------------------------------------
(* What the moves of a session do to its variables and to no other's. *)
Moved(s, point) ==
    /\ me' \in [Sessions -> Locals] /\ me'[s].pc = point
    /\ \A t \in Sessions : t # s => me'[t] = me[t]

Same(s) == /\ me'[s].todo = me[s].todo /\ me'[s].listed = me[s].listed
           /\ me'[s].fresh = me[s].fresh

Stays(s, point) == Moved(s, point) /\ Same(s)

Nexts(s) ==
    /\ Moved(s, IF Tail(me[s].todo) = <<>> THEN "refresh" ELSE "each")
    /\ me'[s].todo = Tail(me[s].todo) /\ me'[s].listed = me[s].listed
    /\ me'[s].fresh = me[s].fresh

Ends(s, point) == Moved(s, point) /\ me'[s] = Outside(point)

(* A session that takes on other variables touches nobody else's. *)
LEMMA BecomeMoves ==
    ASSUME TypeOK, NEW s \in Sessions, NEW m \in Locals, Become(s, m)
    PROVE  Moved(s, m.pc) /\ me'[s] = m
  BY DEF TypeOK, Become, Moved

(* A session that only goes on keeps what it has read. *)
LEMMA GotoMoves ==
    ASSUME TypeOK, NEW s \in Sessions, NEW point \in Points, Goto(s, point)
    PROVE  Stays(s, point) /\ me'[s].new = me[s].new
<1> DEFINE m == [me[s] EXCEPT !.pc = point]
<1>1. /\ m \in Locals /\ m.pc = point /\ m.todo = me[s].todo /\ m.new = me[s].new
      /\ m.listed = me[s].listed /\ m.fresh = me[s].fresh
  BY Zenon DEF TypeOK, Locals
<1>2. Become(s, m)
  BY DEF Goto
<1> HIDE DEF m
<1> QED
  BY <1>1, <1>2, BecomeMoves DEF Same, Stays

(* A session that goes on with a draft of a row keeps the rest. *)
LEMMA DraftMoves ==
    ASSUME TypeOK, NEW s \in Sessions, NEW point \in Points, NEW new \in Drafts,
           Become(s, [me[s] EXCEPT !.pc = point, !.new = new])
    PROVE  Stays(s, point) /\ me'[s].new = new
<1> DEFINE m == [me[s] EXCEPT !.pc = point, !.new = new]
<1>1. /\ m \in Locals /\ m.pc = point /\ m.todo = me[s].todo /\ m.new = new
      /\ m.listed = me[s].listed /\ m.fresh = me[s].fresh
  BY Zenon DEF TypeOK, Locals
<1> HIDE DEF m
<1> QED
  BY <1>1, BecomeMoves, Zenon DEF Same, Stays, m

(* The loop over the targets drops the one handled; after the last comes the refresh. *)
LEMMA NextMoves ==
    ASSUME TypeOK, NEW s \in Sessions, me[s].todo # <<>>, NextTarget(s)
    PROVE  Nexts(s)
<1> DEFINE todo == Tail(me[s].todo)
           m == [me[s] EXCEPT !.todo = todo, !.new = Unset,
                              !.pc = IF todo = <<>> THEN "refresh" ELSE "each"]
<1>1. me[s] \in Locals /\ todo \in Seq(Item) /\ Unset \in Drafts
  BY HeadAndTail DEF TypeOK, Locals, Drafts, Unset
<1>2. /\ m \in Locals /\ m.todo = todo /\ m.pc = IF todo = <<>> THEN "refresh" ELSE "each"
      /\ m.listed = me[s].listed /\ m.fresh = me[s].fresh
  BY <1>1, Zenon DEF Locals, Points
<1>3. Become(s, m)
  BY DEF NextTarget
<1> HIDE DEF m
<1> QED
  BY <1>2, <1>3, BecomeMoves, Zenon DEF Nexts

(* A command that ends drops its variables. *)
LEMMA EndMoves ==
    ASSUME TypeOK, NEW s \in Sessions, NEW point \in Points, End(s, point)
    PROVE  Ends(s, point)
<1>1. Outside(point) \in Locals /\ Outside(point).pc = point
  BY DEF Outside, Locals, Drafts, Unset
<1> QED
  BY <1>1, BecomeMoves DEF End, Ends

(* What the fields of a command are, by its verb. *)
LEMMA CommandTypes ==
    ASSUME NEW c \in Commands
    PROVE  /\ c.box \in Boxes /\ c.verb \in Storing \cup Copying \cup Expunging \cup {"APPEND"}
           /\ c.verb \in Copying => c.to \in Boxes
           /\ c.verb \in Storing => c.flag \in Flags
           /\ c.verb = "APPEND" => c.msg \in Messages
<1>1. CASE c \in [verb : Storing, box : Boxes, op : {"+", "-"}, flag : Flags]
  BY <1>1, Zenon DEF Storing, Copying
<1>2. CASE c \in [verb : Copying, box : Boxes, to : Boxes]
  BY <1>2, Zenon DEF Copying, Storing
<1>3. CASE c \in [verb : Expunging, box : Boxes]
  BY <1>3, Zenon DEF Copying, Expunging, Storing
<1>4. CASE c \in [verb : {"APPEND"}, box : Boxes, msg : Messages]
  BY <1>4, Zenon DEF Copying, Storing
<1> QED
  BY <1>1, <1>2, <1>3, <1>4 DEF Commands

(* The messages a command lists are in its mailbox. *)
Read(r) == [uid |-> r.uid, msg |-> r.msg, flags |-> r.flags]

(* A listing, in whatever order the command handles it, is of messages of the mailbox. *)
LEMMA TurnsListed ==
    ASSUME Sound, NEW s \in Sessions, NEW S \in Listed(cmd[s]), NEW turns \in Turns(cmd[s], S)
    PROVE  /\ S \subseteq In(Box(s)) /\ turns \in Seq(Item)
           /\ \A x \in Range(turns) : \E r \in S : x = Read(r)
<1> DEFINE n == Cardinality(S)
           read == {Read(r) : r \in S}
<1>1. cmd[s] \in Commands /\ rows \subseteq Row /\ IsFiniteSet(rows)
  BY DEF Sound, TypeOK
<1>2. S \subseteq In(Box(s))
  BY Zenon DEF Listed, Deleted, Box, In
<1>3. S \subseteq Row /\ S \in SUBSET rows
  BY <1>1, <1>2 DEF In
<1>4. n \in Nat
  BY <1>1, <1>3 DEF Sound, FiniteFacts
<1>5. read \subseteq Item
  BY <1>3 DEF Row, Item, Read
<1>6. turns \in [1..n -> read]
  BY DEF Turns, Read
<1> HIDE DEF n
<1>7. turns \in Seq(Item) /\ Len(turns) = n /\ DOMAIN turns = 1..n
  BY <1>4, <1>5, <1>6
<1>8. \A x \in Range(turns) : \E r \in S : x = Read(r)
  BY <1>6, <1>7 DEF Range
<1> QED
  BY <1>2, <1>7, <1>8

(* The moves with effects of their own. *)
Begins(s, S, turns) ==
    /\ \A x \in Range(turns) : \E r \in S : x = Read(r)
    /\ Moved(s, IF Verb(s) = "APPEND" THEN "lock"
                ELSE IF turns = <<>> THEN "refresh" ELSE "each")
    /\ me'[s].todo = turns /\ me'[s].fresh = Refreshed(cmd[s])
    /\ me'[s].listed = IF Verb(s) \in Storing THEN turns ELSE <<>>
    /\ Verb(s) = "APPEND" => me'[s].new = NewRow(Box(s), cmd[s].msg, {})
    /\ struck' = IF Verb(s) \in Expunging THEN struck \cup {r.msg : r \in S} ELSE struck

(* The listing statement, and what an EXPUNGE or a CLOSE thereby strikes. *)
LEMMA BeginMoves ==
    ASSUME Sound, NEW s \in Sessions, Begin(s)
    PROVE  \E S \in SUBSET In(Box(s)), turns \in Seq(Item) : Begins(s, S, turns)
<1> DEFINE c == cmd[s]
           point(turns) == IF c.verb = "APPEND" THEN "lock"
                           ELSE IF turns = <<>> THEN "refresh" ELSE "each"
           list(turns) == IF c.verb \in Storing THEN turns ELSE <<>>
           draft == IF c.verb = "APPEND" THEN NewRow(c.box, c.msg, {}) ELSE me[s].new
           m(turns) == [me[s] EXCEPT !.pc = point(turns), !.listed = list(turns), !.todo = turns,
                                     !.new = draft, !.fresh = Refreshed(c)]
<1>0. PICK S \in Listed(c) : \E turns \in Turns(c, S) :
          /\ struck' = IF c.verb \in Expunging THEN struck \cup {r.msg : r \in S} ELSE struck
          /\ Become(s, m(turns))
  BY Zenon DEF Begin
<1>1. PICK turns \in Turns(c, S) :
          /\ struck' = IF c.verb \in Expunging THEN struck \cup {r.msg : r \in S} ELSE struck
          /\ Become(s, m(turns))
  BY <1>0, Zenon
<1>2. /\ S \subseteq In(Box(s)) /\ turns \in Seq(Item)
      /\ \A x \in Range(turns) : \E r \in S : x = Read(r)
  BY TurnsListed, Zenon
<1>3. TypeOK /\ me[s] \in Locals /\ c \in Commands
  BY DEF Sound, TypeOK
<1>4. Refreshed(c) \in Seq(Boxes)
  BY <1>3, CommandTypes DEF Refreshed
<1>5. draft \in Drafts /\ (c.verb = "APPEND" => draft = NewRow(c.box, c.msg, {}))
  BY <1>3, CommandTypes DEF NewRow, Drafts, Locals
<1>6. list(turns) \in Seq(Item)
  BY <1>2
<1>7. /\ point(turns) = IF c.verb = "APPEND" THEN "lock"
                         ELSE IF turns = <<>> THEN "refresh" ELSE "each"
      /\ point(turns) \in Points
  BY DEF Points
<1> HIDE DEF point, list, draft
<1>8. m(turns) \in Locals
  BY <1>2, <1>3, <1>4, <1>5, <1>6, <1>7, Zenon DEF Locals
<1>9. /\ m(turns).todo = turns /\ m(turns).fresh = Refreshed(c)
      /\ m(turns).listed = list(turns) /\ m(turns).new = draft /\ m(turns).pc = point(turns)
  BY <1>3 DEF Locals
<1> HIDE DEF m
<1>10. Moved(s, m(turns).pc) /\ me'[s] = m(turns)
  BY <1>1, <1>3, <1>8, BecomeMoves
<1> QED
  BY <1>1, <1>2, <1>5, <1>7, <1>9, <1>10, Zenon DEF Begins, Verb, Box, list

(* UPDATE mailboxes of a flag update: the session holds the next modseq. *)
LEMMA UpdateLockMoves ==
    ASSUME TypeOK, NEW s \in Sessions, UpdateLock(s)
    PROVE  Stays(s, "update") /\ me'[s].new.modseq = highest[Box(s)] + 1
<1> DEFINE new == [modseq |-> AssignModseq(Box(s))]
<1>1. new \in Drafts /\ new.modseq = highest[Box(s)] + 1
  BY CommandTypes DEF TypeOK, Box, AssignModseq, Drafts
<1>2. Become(s, [me[s] EXCEPT !.pc = "update", !.new = new])
  BY DEF UpdateLock
<1> HIDE DEF new
<1> QED
  BY <1>1, <1>2, DraftMoves, Zenon DEF Points

(* A COPY reads its source, or goes on if it is gone. *)
LEMMA CopyReadMoves ==
    ASSUME TypeOK, NEW s \in Sessions, CopyRead(s)
    PROVE  \/ /\ Stays(s, "lock")
              /\ \E r \in In(Box(s)) : /\ r.uid = Target(s).uid
                                       /\ me'[s].new = NewRow(cmd[s].to, r.msg, r.flags)
           \/ ~Has(Box(s), Target(s).uid) /\ AfterCopy(s)
<1> SUFFICES ASSUME Has(Box(s), Target(s).uid)
             PROVE  /\ Stays(s, "lock")
                    /\ \E r \in In(Box(s)) :
                          /\ r.uid = Target(s).uid
                          /\ me'[s].new = NewRow(cmd[s].to, r.msg, r.flags)
  BY DEF CopyRead
<1> DEFINE r == RowAt(Box(s), Target(s).uid)
           new == NewRow(cmd[s].to, r.msg, r.flags)
<1>1. r \in In(Box(s)) /\ r.uid = Target(s).uid
  BY DEF Has, RowAt
<1>2. r \in Row /\ cmd[s].to \in Boxes
  BY <1>1, CommandTypes DEF TypeOK, In, CopyRead, Verb
<1>3. Become(s, [me[s] EXCEPT !.pc = "lock", !.new = new])
  BY DEF CopyRead
<1> HIDE DEF r
<1>4. new \in Drafts
  BY <1>2 DEF NewRow, Drafts, Row
<1> HIDE DEF new
<1>5. Stays(s, "lock") /\ me'[s].new = new
  BY <1>3, <1>4, DraftMoves, Zenon DEF Points
<1> QED
  BY <1>1, <1>5 DEF new

(* The uid after the largest in a mailbox is above all of them. *)
LEMMA NextUidAbove ==
    ASSUME FiniteFacts, TypeOK, NEW b \in Boxes
    PROVE  NextUid(b) \in Nat \ {0} /\ \A r \in In(b) : r.uid < NextUid(b)
<1> DEFINE uids == {r.uid : r \in In(b)} \cup {0}
<1>1. \A u \in uids : u \in Nat
  BY DEF TypeOK, In, Row
<1>2. \E m \in uids : \A u \in uids : m >= u
  <2>1. In(b) \in SUBSET rows /\ In(b) \in SUBSET Row /\ IsFiniteSet(rows)
    BY DEF TypeOK, In
  <2>2. IsFiniteSet(In(b))
    BY <2>1, Zenon DEF FiniteFacts
  <2> QED
    BY <2>1, <2>2, Zenon DEF FiniteFacts
<1>3. NextUid(b) = Max(uids) + 1 /\ \A r \in In(b) : r.uid \in uids
  BY DEF NextUid
<1> HIDE DEF uids
<1>4. Max(uids) \in uids /\ \A u \in uids : Max(uids) >= u
  BY <1>2, Zenon DEF Max
<1> QED
  BY <1>1, <1>3, <1>4

(* The insert's lock: the session holds the next modseq and a uid above all others. *)
LEMMA LockMoves ==
    ASSUME Sound, NEW s \in Sessions, Lock(s)
    PROVE  /\ Stays(s, "insert")
           /\ me'[s].new \in Placed /\ me'[s].new.box = me[s].new.box
           /\ me'[s].new.msg = me[s].new.msg
           /\ me'[s].new.modseq = highest[me[s].new.box] + 1
           /\ \A r \in In(me[s].new.box) : r.uid < me'[s].new.uid
<1> DEFINE n == me[s].new
           new == [box |-> n.box, msg |-> n.msg, flags |-> n.flags,
                   uid |-> NextUid(n.box), modseq |-> AssignModseq(n.box)]
<1>1. TypeOK /\ FiniteFacts /\ n \in [box : Boxes, msg : Messages, flags : SUBSET Flags]
  BY Zenon DEF Sound, Local, Fits, Lock, At
<1>2. Become(s, [me[s] EXCEPT !.pc = "insert", !.new = new])
  BY DEF Lock
<1> HIDE DEF n
<1>3. /\ NextUid(n.box) \in Nat \ {0} /\ \A r \in In(n.box) : r.uid < NextUid(n.box)
      /\ AssignModseq(n.box) = highest[n.box] + 1 /\ AssignModseq(n.box) \in Nat
  BY <1>1, NextUidAbove DEF TypeOK, AssignModseq
<1>4. /\ new \in Placed /\ new \in Drafts /\ new.box = n.box /\ new.msg = n.msg
      /\ new.uid = NextUid(n.box) /\ new.modseq = highest[n.box] + 1
  BY <1>1, <1>3, Zenon DEF Placed, Drafts
<1> HIDE DEF new
<1>5. Stays(s, "insert") /\ me'[s].new = new
  BY <1>1, <1>2, <1>4, DraftMoves, Zenon DEF Points
<1> QED
  BY <1>3, <1>4, <1>5 DEF n

(* Counting in the snapshot of refresh_mailbox_counts. *)
LEMMA RefreshCountMoves ==
    ASSUME Sound, NEW s \in Sessions, RefreshCount(s)
    PROVE  Stays(s, "write")
<1> DEFINE n == Cardinality(In(Head(me[s].fresh)))
           m == [me[s] EXCEPT !.pc = "write", !.count = n]
<1>1. TypeOK /\ me[s] \in Locals /\ IsFiniteSet(rows) /\ In(Head(me[s].fresh)) \in SUBSET rows
  BY DEF Sound, TypeOK, In
<1>2. n \in Nat
  BY <1>1 DEF Sound, FiniteFacts
<1> HIDE DEF n
<1>3. /\ m \in Locals /\ m.pc = "write" /\ m.todo = me[s].todo
      /\ m.listed = me[s].listed /\ m.fresh = me[s].fresh
  BY <1>1, <1>2, Zenon DEF Locals, Points
<1>4. Become(s, m)
  BY DEF RefreshCount, n
<1> HIDE DEF m
<1> QED
  BY <1>1, <1>3, <1>4, BecomeMoves DEF Same, Stays

(* Writing the counts: the next mailbox, the rest of the command, or its end. *)
LEMMA RefreshWriteMoves ==
    ASSUME TypeOK, NEW s \in Sessions, Local(s), RefreshWrite(s)
    PROVE  \/ Ends(s, "done") /\ Tail(me[s].fresh) = <<>>
           \/ /\ me'[s].fresh = Tail(me[s].fresh)
              /\ me'[s].todo = me[s].listed /\ me'[s].listed = me[s].listed
              /\ \/ Moved(s, "refresh") /\ me'[s].fresh # <<>>
                 \/ /\ Moved(s, "rest") /\ me'[s].fresh = <<>>
                    /\ Verb(s) = "APPEND" \/ (Verb(s) = "UID STORE" /\ me'[s].todo # <<>>)
<1> DEFINE left == Tail(me[s].fresh)
           more == Verb(s) = "APPEND" \/ (Verb(s) = "UID STORE" /\ me[s].listed # <<>>)
           m == [me[s] EXCEPT !.pc = IF left = <<>> THEN "rest" ELSE "refresh",
                              !.fresh = left, !.count = 0, !.todo = me[s].listed]
<1>1. me[s] \in Locals /\ me[s].fresh \in Seq(Boxes) /\ me[s].fresh # <<>>
  BY Zenon DEF TypeOK, Locals, Local, Fits, RefreshWrite, At
<1>2. left \in Seq(Boxes)
  BY <1>1
<1>3. CASE left = <<>> /\ ~more
  <2>1. End(s, "done")
    BY <1>3, Zenon DEF RefreshWrite
  <2> QED
    BY <1>3, <2>1, EndMoves, Zenon DEF Points
<1>4. CASE ~(left = <<>> /\ ~more)
  <2>1. Become(s, m)
    BY <1>4, Zenon DEF RefreshWrite
  <2> HIDE DEF left
  <2>2. /\ m \in Locals /\ m.pc = IF left = <<>> THEN "rest" ELSE "refresh"
        /\ m.todo = me[s].listed /\ m.listed = me[s].listed /\ m.fresh = left
    BY <1>1, <1>2, Zenon DEF Locals, Points
  <2> HIDE DEF m
  <2>3. Moved(s, m.pc) /\ me'[s] = m
    BY <2>1, <2>2, BecomeMoves
  <2> QED
    BY <1>4, <2>2, <2>3, Zenon DEF left
<1> QED
  BY <1>3, <1>4, Zenon

(* Queueing a mutation fails on a key that was used, or goes on. *)
LEMMA EnqueueMoves ==
    ASSUME TypeOK, NEW s \in Sessions, NEW key, NEW next, Enqueue(s, key, next)
    PROVE  Ends(s, "failed") \/ next
  BY EndMoves DEF Enqueue, Points

(* Queueing after the refresh, by APPEND and UID STORE. *)
LEMMA QueueRestMoves ==
    ASSUME TypeOK, NEW s \in Sessions, Local(s), QueueRest(s)
    PROVE  \/ Ends(s, "failed") \/ Ends(s, "done")
           \/ /\ Verb(s) = "UID STORE" /\ Moved(s, "rest")
              /\ me'[s].todo = Tail(me[s].todo) /\ me'[s].todo # <<>>
              /\ me'[s].listed = me[s].listed /\ me'[s].fresh = me[s].fresh
<1> DEFINE left == Tail(me[s].todo)
           m == [me[s] EXCEPT !.todo = left]
           next == IF left = <<>> THEN End(s, "done") ELSE Become(s, m)
<1>1. CASE Verb(s) = "APPEND"
  BY <1>1, EndMoves, Zenon DEF QueueRest, Enqueue, Points
<1>2. CASE Verb(s) # "APPEND"
  <2>1. /\ Verb(s) = "UID STORE" /\ me[s].todo # <<>> /\ me[s].pc = "rest"
        /\ me[s] \in Locals /\ me[s].todo \in Seq(Item)
    BY <1>2, Zenon DEF TypeOK, Locals, QueueRest, Local, Fits, At, Verb
  <2>2. Ends(s, "failed") \/ next
    BY <1>2, EndMoves, Zenon DEF QueueRest, Enqueue, Points
  <2>3. left \in Seq(Item)
    BY <2>1, HeadAndTail, Zenon
  <2> HIDE DEF left
  <2>4. /\ m \in Locals /\ m.pc = "rest" /\ m.todo = left
        /\ m.listed = me[s].listed /\ m.fresh = me[s].fresh
    BY <2>1, <2>3, Zenon DEF Locals
  <2> HIDE DEF m
  <2>5. left # <<>> /\ next => Moved(s, m.pc) /\ me'[s] = m
    BY <2>4, BecomeMoves, Zenon
  <2>6. left = <<>> /\ next => Ends(s, "done")
    BY EndMoves, Zenon DEF Points
  <2> QED
    BY <2>1, <2>2, <2>4, <2>5, <2>6, Zenon DEF left
<1> QED
  BY <1>1, <1>2, Zenon

-----------------------------------------------------------------------------
(* Steps keep Sound and leave the other sessions' variables alone, and     *)
(* most of them what the session has still to refresh.                     *)
Alone(s) == \A t \in Sessions : t # s => me'[t] = me[t]
Kept(s) == me'[s].fresh = me[s].fresh /\ me'[s].pc \notin {"idle", "done", "failed"}

(* A step that changes no message. *)
LEMMA CalmSound ==
    ASSUME Sound, NEW s \in Sessions, NEW point, Moved(s, point),
           UNCHANGED <<rows, highest, top, cmd>>, stored' \in [Boxes -> Nat],
           Fits(cmd[s], me'[s]),
           point = "update" => BoxFree(Box(s)) /\ me'[s].new.modseq = highest[Box(s)] + 1,
           point = "insert" => /\ BoxFree(me'[s].new.box)
                               /\ me'[s].new.modseq = highest[me'[s].new.box] + 1
                               /\ \A r \in In(me'[s].new.box) : r.uid < me'[s].new.uid,
           point = "delete" => /\ Has(Box(s), Head(me'[s].todo).uid)
                               /\ RowFree(Box(s), Head(me'[s].todo).uid)
    PROVE  Sound' /\ Alone(s)
<1>1. TypeOK'
  BY DEF Sound, TypeOK, Moved
<1>2. \A t \in Sessions : Local(t)'
  BY Zenon DEF Sound, Moved, Local
<1>3. \A t \in Sessions : t # s => /\ \A b \in Boxes : Holds(t, b)' <=> Holds(t, b)
                                   /\ At(t, "delete")' <=> At(t, "delete")
                                   /\ Target(t)' = Target(t) /\ me'[t] = me[t]
  BY DEF Moved, Holds, At, Target, Box
<1>4. ASSUME NEW b \in Boxes, Holds(s, b)'
      PROVE  BoxFree(b) /\ me'[s].new.modseq = highest[b] + 1
  BY <1>4, Zenon DEF Moved, Holds, At, Box
<1>5. \A t \in Sessions : \A b \in Boxes : BoxFree(b) => ~Holds(t, b)
  BY Zenon DEF BoxFree, Holds
<1>6. Locked'
  <2>1. ASSUME NEW t \in Sessions, NEW u \in Sessions, NEW b \in Boxes, Holds(t, b)', Holds(u, b)'
        PROVE  t = u
    BY <1>3, <1>4, <1>5, <2>1, Zenon DEF Sound, Locked
  <2>2. ASSUME NEW t \in Sessions, NEW b \in Boxes, Holds(t, b)'
        PROVE  me'[t].new.modseq = highest'[b] + 1
    BY <1>3, <1>4, <2>2 DEF Sound, Locked
  <2>3. ASSUME NEW t \in Sessions, At(t, "insert")', NEW r \in In(me[t].new.box)'
        PROVE  r.uid < me'[t].new.uid
    BY <2>3, Zenon DEF Sound, Locked, Moved, At, In
  <2>4. ASSUME NEW t \in Sessions, At(t, "delete")' PROVE Has(Box(t), Target(t).uid)'
    BY <2>4, <1>3 DEF Sound, Locked, Moved, At, Has, In, Box, Target
  <2>5. ASSUME NEW t \in Sessions, NEW u \in Sessions, At(t, "delete")', At(u, "delete")',
               Box(t)' = Box(u)', Target(t)'.uid = Target(u)'.uid
        PROVE  t = u
    <3>1. CASE t # s /\ u # s
      BY <1>3, <2>5, <3>1 DEF Sound, Locked, Box
    <3>2. CASE t = s \/ u = s
      BY <1>3, <2>5, <3>2, Zenon DEF Moved, At, RowFree, Box, Target
    <3> QED
      BY <3>1, <3>2, Zenon
  <2> QED
    BY <2>1, <2>2, <2>3, <2>4, <2>5, Zenon DEF Locked
<1> QED
  BY <1>1, <1>2, <1>6 DEF Sound, Alone, Moved

(* The end of a command frees its locks. *)
LEMMA EndSound ==
    ASSUME Sound, NEW s \in Sessions, NEW point \in {"done", "failed"}, Ends(s, point),
           UNCHANGED <<rows, highest, top, cmd>>, stored' \in [Boxes -> Nat]
    PROVE  Sound' /\ Alone(s)
<1>1. me'[s].listed = <<>> /\ me'[s].pc = point /\ Moved(s, point)
  BY DEF Ends, Outside
<1>2. Fits(cmd[s], me'[s])
  BY <1>1, Zenon DEF Fits, Listing
<1> QED
  BY <1>1, <1>2, CalmSound

(* Every command refreshes a mailbox. *)
LEMMA RefreshedOnce ==
    ASSUME NEW c
    PROVE  Refreshed(c) # <<>>
  BY DEF Refreshed

(* The loop goes on with the next message. *)
LEMMA NextFits ==
    ASSUME TypeOK, NEW s \in Sessions, Local(s), me[s].pc \in Listing, Verb(s) # "APPEND",
           NextTarget(s)
    PROVE  /\ Nexts(s) /\ Fits(cmd[s], me'[s]) /\ Kept(s)
           /\ \E point \in {"refresh", "each"} : Moved(s, point)
           /\ Range(me'[s].todo) \subseteq Range(me[s].todo)
<1>1. /\ me[s].todo # <<>> /\ me[s].todo \in Seq(Item) /\ me[s].fresh = Refreshed(cmd[s])
      /\ Refreshed(cmd[s]) # <<>>
  BY RefreshedOnce, Zenon DEF TypeOK, Local, Fits, Verb, Locals
<1>2. Nexts(s)
  BY <1>1, NextMoves
<1>3. Fits(cmd[s], me'[s])
  BY <1>1, <1>2, Zenon DEF Nexts, Moved, Local, Fits, Listing, Verb
<1>4. Range(me'[s].todo) \subseteq Range(me[s].todo)
  BY <1>1, <1>2, HeadAndTail, Zenon DEF Nexts
<1> QED
  BY <1>2, <1>3, <1>4, Zenon DEF Nexts, Moved, Kept

(* Going on to the next target frees the locks of the last. *)
LEMMA NextSound ==
    ASSUME Sound, NEW s \in Sessions, me[s].pc \in Listing, Verb(s) # "APPEND", NextTarget(s),
           UNCHANGED <<rows, highest, top, cmd, stored>>
    PROVE  Sound' /\ Alone(s) /\ Kept(s)
<1>1. TypeOK /\ Local(s) /\ stored' \in [Boxes -> Nat]
  BY DEF Sound, TypeOK
<1>2. /\ Fits(cmd[s], me'[s]) /\ Kept(s)
      /\ \E point \in {"refresh", "each"} : Moved(s, point)
  BY <1>1, NextFits, Zenon
<1> QED
  BY <1>1, <1>2, CalmSound

(* A command that begins holds no lock yet. *)
LEMMA BeginSound ==
    ASSUME Sound, NEW s \in Sessions, Begin(s)
    PROVE  Sound' /\ Alone(s)
<1>1. cmd[s] \in Commands /\ stored' \in [Boxes -> Nat] /\ UNCHANGED <<rows, highest, top, cmd>>
  BY DEF Sound, TypeOK, Begin, boxes
<1>2. PICK S \in SUBSET In(Box(s)), turns \in Seq(Item) : Begins(s, S, turns)
  BY BeginMoves
<1>3. Verb(s) = "APPEND" => /\ me'[s].new \in [box : Boxes, msg : Messages, flags : SUBSET Flags]
                            /\ me'[s].new.box = Box(s)
  BY <1>1, <1>2, CommandTypes DEF Begins, NewRow, Box, Verb
<1>4. Fits(cmd[s], me'[s])
  BY <1>2, <1>3, RefreshedOnce DEF Begins, Fits, Moved, Listing, Verb, Box, Copying
<1>5. PICK point \in {"lock", "refresh", "each"} : Moved(s, point)
  BY <1>2, Zenon DEF Begins
<1> QED
  BY <1>1, <1>4, <1>5, CalmSound

(* Between the loops and the locks. *)
LEMMA StaySound ==
    ASSUME Sound, NEW s \in Sessions, NEW point \in {"lock", "find", "write"}, Stays(s, point),
           Fits(cmd[s], me'[s]), UNCHANGED <<rows, highest, top, cmd, stored>>
    PROVE  Sound' /\ Alone(s) /\ Kept(s)
<1>1. Moved(s, point) /\ stored' \in [Boxes -> Nat] /\ Kept(s)
  BY DEF Stays, Same, Moved, Sound, TypeOK, Kept
<1> QED
  BY <1>1, CalmSound

(* What follows a copy: the deletion of a MOVE, or the next target. *)
LEMMA AfterCopySound ==
    ASSUME Sound, NEW s \in Sessions, me[s].pc \in {"each", "copied"}, Verb(s) \in Copying,
           AfterCopy(s), UNCHANGED <<rows, highest, top, cmd, stored>>
    PROVE  Sound' /\ Alone(s) /\ Kept(s)
<1>1. CASE Verb(s) = "MOVE"
  <2>1. TypeOK /\ Local(s)
    BY DEF Sound
  <2>2. Stays(s, "find")
    BY <1>1, <2>1, GotoMoves DEF AfterCopy, Points
  <2>3. Fits(cmd[s], me'[s])
    BY <1>1, <2>1, <2>2, Zenon DEF Fits, Local, Stays, Moved, Same, Listing, Verb
  <2> QED
    BY <2>2, <2>3, StaySound
<1>2. CASE Verb(s) # "MOVE"
  BY <1>2, NextSound DEF AfterCopy, Listing, Copying
<1> QED
  BY <1>1, <1>2

(* A transaction reads, and locks a mailbox or a message. *)
LEMMA LocksSound ==
    ASSUME Sound, NEW s \in Sessions, UpdateLock(s) \/ CopyRead(s) \/ Lock(s) \/ DeleteFind(s)
    PROVE  Sound' /\ Alone(s) /\ Kept(s)
<1>1. TypeOK /\ Local(s) /\ cmd[s] \in Commands /\ stored \in [Boxes -> Nat]
  BY DEF Sound, TypeOK
<1>2. UNCHANGED <<rows, highest, top, cmd, stored>>
  BY DEF UpdateLock, CopyRead, Lock, DeleteFind, boxes, history
<1>3. ASSUME NEW point \in {"update", "insert", "delete"}, Stays(s, point) PROVE Kept(s)
  BY <1>3, Zenon DEF Stays, Same, Moved, Kept
<1>4. CASE UpdateLock(s)
  <2>1. /\ Stays(s, "update") /\ me'[s].new.modseq = highest[Box(s)] + 1 /\ BoxFree(Box(s))
        /\ At(s, "each") /\ Verb(s) \in Storing
    BY <1>1, <1>4, UpdateLockMoves, Zenon DEF UpdateLock
  <2>2. Fits(cmd[s], me'[s])
    BY <1>1, <2>1, Zenon DEF Fits, Local, Stays, Moved, Same, Listing, Verb, At
  <2> QED
    BY <1>1, <1>2, <1>3, <2>1, <2>2, CalmSound DEF Stays
<1>5. CASE CopyRead(s)
  <2>1. At(s, "each") /\ Verb(s) \in Copying
    BY <1>5 DEF CopyRead
  <2>2. CASE AfterCopy(s)
    BY <1>2, <2>1, <2>2, AfterCopySound DEF At
  <2>3. CASE ~AfterCopy(s)
    <3>1. /\ Stays(s, "lock")
          /\ \E r \in In(Box(s)) : me'[s].new = NewRow(cmd[s].to, r.msg, r.flags)
      BY <1>1, <1>5, <2>3, CopyReadMoves, Zenon
    <3>2. cmd[s].to \in Boxes /\ \A r \in In(Box(s)) : r \in Row
      BY <1>1, <2>1, CommandTypes, Zenon DEF TypeOK, In, Verb
    <3>3. /\ me'[s].new \in [box : Boxes, msg : Messages, flags : SUBSET Flags]
          /\ me'[s].new.box = cmd[s].to
      BY <3>1, <3>2 DEF NewRow, Row
    <3>4. Fits(cmd[s], me'[s])
      BY <1>1, <2>1, <3>1, <3>3, Zenon
      DEF Fits, Local, Stays, Moved, Same, Listing, Verb, At, Copying
    <3> QED
      BY <1>2, <3>1, <3>4, StaySound
  <2> QED
    BY <2>2, <2>3
<1>6. CASE Lock(s)
  <2>1. /\ Stays(s, "insert") /\ me'[s].new \in Placed /\ me'[s].new.box = me[s].new.box
        /\ me'[s].new.modseq = highest[me[s].new.box] + 1
        /\ \A r \in In(me[s].new.box) : r.uid < me'[s].new.uid
        /\ BoxFree(me[s].new.box) /\ At(s, "lock")
    BY <1>6, LockMoves, Zenon DEF Lock
  <2>2. Fits(cmd[s], me'[s])
    BY <1>1, <2>1, Zenon DEF Fits, Local, Stays, Moved, Same, Listing, Verb, At
  <2> QED
    BY <1>1, <1>2, <1>3, <2>1, <2>2, CalmSound DEF Stays
<1>7. CASE DeleteFind(s)
  <2>1. me[s].pc \in {"find", "each"} /\ Verb(s) \in Deleting
    BY <1>1, <1>7, Zenon DEF DeleteFind, At, Deleting, Local, Fits, Verb
  <2>2. CASE Has(Box(s), Target(s).uid)
    <3>1. Goto(s, "delete") /\ RowFree(Box(s), Target(s).uid)
      BY <1>7, <2>2, Zenon DEF DeleteFind
    <3>2. Stays(s, "delete") /\ Has(Box(s), Head(me'[s].todo).uid)
          /\ RowFree(Box(s), Head(me'[s].todo).uid)
      BY <1>1, <2>2, <3>1, GotoMoves DEF Points, Stays, Same, Target
    <3>3. Fits(cmd[s], me'[s])
      BY <1>1, <2>1, <3>2, Zenon
      DEF Fits, Local, Stays, Moved, Same, Listing, Verb, Deleting, Expunging, Storing
    <3> QED
      BY <1>1, <1>2, <1>3, <3>2, <3>3, CalmSound DEF Stays
  <2>3. CASE ~Has(Box(s), Target(s).uid)
    <3>1. NextTarget(s)
      BY <1>7, <2>3 DEF DeleteFind
    <3> QED
      BY <1>2, <2>1, <3>1, NextSound, Zenon DEF Listing, Deleting, Expunging
  <2> QED
    BY <2>2, <2>3
<1> QED
  BY <1>4, <1>5, <1>6, <1>7

(* A command queues what it did, and refreshes the counts. *)
LEMMA QueuesSound ==
    ASSUME Sound, NEW s \in Sessions,
           QueueFlags(s) \/ QueueCopy(s) \/ RefreshCount(s) \/ RefreshWrite(s) \/ QueueRest(s)
    PROVE  /\ Sound' /\ Alone(s)
           /\ Kept(s) \/ Ends(s, "failed") \/ RefreshWrite(s) \/ QueueRest(s)
<1>1. /\ TypeOK /\ Local(s) /\ stored \in [Boxes -> Nat] /\ me[s] \in Locals
      /\ me[s].todo \in Seq(Item) /\ me[s].fresh \in Seq(Boxes)
  BY DEF Sound, TypeOK, Locals
<1>2. UNCHANGED <<rows, highest, top, cmd>> /\ (UNCHANGED stored \/ RefreshWrite(s))
  BY Zenon DEF QueueFlags, QueueCopy, RefreshCount, RefreshWrite, QueueRest, boxes, history
<1>3. CASE (QueueFlags(s) \/ QueueCopy(s)) /\ ~RefreshWrite(s)
  <2>1. CASE Ends(s, "failed")
    BY <1>1, <1>2, <1>3, <2>1, EndSound
  <2>2. CASE QueueFlags(s) /\ ~Ends(s, "failed")
    <3>1. At(s, "queue") /\ NextTarget(s)
      BY <1>1, <2>2, EnqueueMoves DEF QueueFlags
    <3> QED
      BY <1>1, <1>2, <1>3, <3>1, NextSound, Zenon DEF Listing, At, Local, Fits, Verb, Storing
  <2>3. CASE QueueCopy(s) /\ ~Ends(s, "failed")
    <3>1. At(s, "copied") /\ AfterCopy(s)
      BY <1>1, <2>3, EnqueueMoves DEF QueueCopy
    <3> QED
      BY <1>1, <1>2, <1>3, <3>1, AfterCopySound, Zenon DEF At, Local, Fits, Verb
  <2> QED
    BY <1>3, <2>1, <2>2, <2>3
<1>4. CASE RefreshCount(s) /\ ~RefreshWrite(s)
  <2>1. Stays(s, "write") /\ At(s, "refresh")
    BY <1>4, RefreshCountMoves, Zenon DEF RefreshCount
  <2>2. Fits(cmd[s], me'[s])
    BY <1>1, <2>1, Zenon DEF Fits, Local, Stays, Moved, Same, Listing, At
  <2> QED
    BY <1>2, <1>4, <2>1, <2>2, StaySound
<1>5. CASE RefreshWrite(s)
  <2>1. me[s].fresh # <<>> /\ At(s, "write") /\ me[s].count \in Nat
    BY <1>1, <1>5, Zenon DEF RefreshWrite, Local, Fits, At, Locals
  <2>2. stored' \in [Boxes -> Nat]
    BY <1>1, <1>5, <2>1, HeadAndTail, Zenon DEF RefreshWrite, Store
  <2>3. CASE Ends(s, "done")
    BY <1>2, <1>5, <2>2, <2>3, EndSound, Zenon
  <2>4. CASE ~Ends(s, "done")
    <3>1. /\ me'[s].listed = me[s].listed
          /\ \/ Moved(s, "refresh") /\ me'[s].fresh # <<>>
             \/ /\ Moved(s, "rest") /\ me'[s].fresh = <<>>
                /\ Verb(s) = "APPEND" \/ (Verb(s) = "UID STORE" /\ me'[s].todo # <<>>)
      BY <1>1, <1>5, <2>4, RefreshWriteMoves, Zenon
    <3>2. Fits(cmd[s], me'[s])
      BY <1>1, <3>1, Zenon DEF Fits, Local, Moved, Listing, Verb
    <3>3. PICK point \in {"rest", "refresh"} : Moved(s, point)
      BY <3>1, Zenon
    <3> QED
      BY <1>2, <1>5, <2>2, <3>2, <3>3, CalmSound
  <2> QED
    BY <2>3, <2>4
<1>6. CASE QueueRest(s) /\ ~RefreshWrite(s)
  <2>1. CASE Ends(s, "failed") \/ Ends(s, "done")
    BY <1>1, <1>2, <1>6, <2>1, EndSound
  <2>2. CASE ~(Ends(s, "failed") \/ Ends(s, "done"))
    <3>1. /\ Moved(s, "rest") /\ Verb(s) = "UID STORE" /\ me'[s].todo # <<>>
          /\ me'[s].listed = me[s].listed /\ me'[s].fresh = me[s].fresh
      BY <1>1, <1>6, <2>2, QueueRestMoves, Zenon
    <3>2. Fits(cmd[s], me'[s])
      BY <1>1, <1>6, <3>1, Zenon DEF Fits, Local, Moved, Listing, Verb, At, QueueRest
    <3> QED
      BY <1>1, <1>2, <1>6, <3>1, <3>2, CalmSound, Zenon
  <2> QED
    BY <2>1, <2>2
<1> QED
  BY <1>3, <1>4, <1>5, <1>6, Zenon

(* A step that changes the messages of mailbox b, locked by no other. *)
Changes(b) == /\ b \in Boxes /\ highest' = [highest EXCEPT ![b] = highest[b] + 1]
              /\ \A a \in Boxes \ {b} : In(a)' = In(a)

(* A commit that changes rows of a mailbox and raises its modseq, while no *)
(* other session holds that mailbox.                                       *)
LEMMA ChangeSound ==
    ASSUME Sound, NEW s \in Sessions, NEW point \in {"queue", "copied", "each", "refresh"},
           Moved(s, point), Fits(cmd[s], me'[s]), UNCHANGED <<cmd, stored>>,
           NEW b, Changes(b), \A t \in Sessions : t # s => ~Holds(t, b),
           top' \in [Boxes -> Nat], rows' \subseteq Row, IsFiniteSet(rows'),
           \A r, q \in rows' : r.box = q.box /\ r.uid = q.uid => r = q,
           \A t \in Sessions : t # s /\ At(t, "delete") => Has(Box(t), Target(t).uid)'
    PROVE  Sound' /\ Alone(s)
<1>0. TypeOK /\ highest' \in [Boxes -> Nat]
  BY DEF Sound, TypeOK, Changes
<1>1. TypeOK'
  BY <1>0, Zenon DEF TypeOK, Moved
<1>2. \A t \in Sessions : Local(t)'
  BY Zenon DEF Sound, Moved, Local
<1>3. \A t \in Sessions : t # s => /\ \A a \in Boxes : Holds(t, a)' <=> Holds(t, a)
                                   /\ At(t, "delete")' <=> At(t, "delete")
                                   /\ Target(t)' = Target(t) /\ me'[t] = me[t]
  BY DEF Moved, Holds, At, Target, Box
<1>4. /\ ~At(s, "insert")' /\ ~At(s, "delete")'
      /\ \A a \in Boxes : ~Holds(s, a)' /\ (a # b => highest'[a] = highest[a])
  BY Zenon DEF Moved, At, Holds, Sound, TypeOK, Changes
<1>5. Locked'
  <2>1. ASSUME NEW t \in Sessions, NEW u \in Sessions, NEW a \in Boxes, Holds(t, a)', Holds(u, a)'
        PROVE  t = u
    BY <1>3, <1>4, <2>1, Zenon DEF Sound, Locked
  <2>2. ASSUME NEW t \in Sessions, NEW a \in Boxes, Holds(t, a)'
        PROVE  me'[t].new.modseq = highest'[a] + 1
    BY <1>3, <1>4, <2>2 DEF Sound, Locked
  <2>3. ASSUME NEW t \in Sessions, At(t, "insert")', NEW r \in In(me[t].new.box)'
        PROVE  r.uid < me'[t].new.uid
    <3>1. /\ t # s /\ me'[t] = me[t] /\ At(t, "insert") /\ r \in In(me[t].new.box)'
          /\ r \in rows' /\ r.box = me[t].new.box
      BY <1>3, <1>4, <2>3, Zenon DEF At, In
    <3>2. me[t].new.box # b /\ me[t].new.box \in Boxes
      BY <3>1, Zenon DEF Holds, Row
    <3>3. r \in In(me[t].new.box)
      BY <3>1, <3>2, Zenon DEF Changes
    <3> QED
      BY <3>1, <3>3, Zenon DEF Sound, Locked
  <2>4. ASSUME NEW t \in Sessions, At(t, "delete")' PROVE Has(Box(t), Target(t).uid)'
    BY <1>3, <1>4, <2>4, Zenon
  <2>5. ASSUME NEW t \in Sessions, NEW u \in Sessions, At(t, "delete")', At(u, "delete")',
               Box(t)' = Box(u)', Target(t)'.uid = Target(u)'.uid
        PROVE  t = u
    BY <1>3, <1>4, <2>5 DEF Sound, Locked, Box
  <2> QED
    BY <2>1, <2>2, <2>3, <2>4, <2>5 DEF Locked
<1> QED
  BY <1>1, <1>2, <1>5 DEF Sound, Alone, Moved

(* What UpdateRow makes of a row. *)
Updated(s, r) ==
    IF <<r.box, r.uid>> = <<Box(s), Target(s).uid>>
    THEN [r EXCEPT !.flags = Apply(Target(s).flags, cmd[s]), !.wanted = Apply(@, cmd[s])]
    ELSE r

(* A flag update changes neither mailbox, uid nor message of a row. *)
LEMMA UpdatedRow ==
    ASSUME TypeOK, NEW s \in Sessions, Verb(s) \in Storing, me[s].todo # <<>>, NEW r \in rows
    PROVE  /\ Updated(s, r) \in Row /\ Updated(s, r).box = r.box /\ Updated(s, r).uid = r.uid
           /\ Updated(s, r).msg = r.msg /\ (r.box # Box(s) => Updated(s, r) = r)
<1>1. r \in Row /\ me[s].todo \in Seq(Item) /\ cmd[s] \in Commands
  BY DEF TypeOK, Locals
<1>2. Target(s) \in Item /\ cmd[s].flag \in Flags
  BY <1>1, HeadAndTail, CommandTypes DEF Target, Verb
<1>3. \A F \in SUBSET Flags : Apply(F, cmd[s]) \in SUBSET Flags
  BY <1>2 DEF Apply
<1>4. Apply(Target(s).flags, cmd[s]) \in SUBSET Flags /\ Apply(r.wanted, cmd[s]) \in SUBSET Flags
  BY <1>1, <1>2, <1>3 DEF Item, Row
<1> QED
  BY <1>1, <1>4, Zenon DEF Updated, Row

(* What the commit of a flag update does. *)
LEMMA UpdateRowMoves ==
    ASSUME Sound, NEW s \in Sessions, UpdateRow(s)
    PROVE  /\ rows' = {Updated(s, r) : r \in rows}
           /\ \A r \in rows : /\ Updated(s, r) \in Row /\ Updated(s, r).box = r.box
                              /\ Updated(s, r).uid = r.uid /\ Updated(s, r).msg = r.msg
                              /\ r.box # Box(s) => Updated(s, r) = r
           /\ highest' = [highest EXCEPT ![Box(s)] = highest[Box(s)] + 1]
           /\ Fits(cmd[s], me'[s]) /\ Kept(s)
           /\ \E point \in {"queue", "refresh", "each"} : Moved(s, point)
<1>1. TypeOK /\ Local(s) /\ At(s, "update") /\ Box(s) \in Boxes
  BY CommandTypes, Zenon DEF Sound, UpdateRow, TypeOK, Box
<1>2. Verb(s) \in Storing /\ me[s].todo # <<>>
  BY <1>1, Zenon DEF Local, Fits, At, Verb, Listing, Storing
<1>3. rows' = {Updated(s, r) : r \in rows}
  BY Zenon DEF UpdateRow, Updated
<1>4. me[s].new.modseq = highest[Box(s)] + 1
  BY <1>1 DEF Sound, Locked, Holds
<1>5. highest' = [highest EXCEPT ![Box(s)] = highest[Box(s)] + 1]
  BY <1>4, Zenon DEF UpdateRow
<1>6. /\ Fits(cmd[s], me'[s]) /\ Kept(s)
      /\ \E point \in {"queue", "refresh", "each"} : Moved(s, point)
  <2>1. CASE Verb(s) = "STORE"
    <3>1. Stays(s, "queue")
      BY <1>1, <2>1, GotoMoves, Zenon DEF UpdateRow, Points
    <3>2. Fits(cmd[s], me'[s])
      BY <1>1, <1>2, <3>1, Zenon DEF Fits, Local, Stays, Moved, Same, Listing, Verb, At
    <3> QED
      BY <3>1, <3>2, Zenon DEF Stays, Same, Moved, Kept
  <2>2. CASE Verb(s) # "STORE"
    <3>1. NextTarget(s) /\ me[s].pc \in Listing /\ Verb(s) # "APPEND"
      BY <1>1, <1>2, <2>2, Zenon DEF Storing, UpdateRow, At, Listing
    <3> QED
      BY <1>1, <3>1, NextFits, Zenon
  <2> QED
    BY <2>1, <2>2
<1>7. ASSUME NEW r \in rows
      PROVE  /\ Updated(s, r) \in Row /\ Updated(s, r).box = r.box
             /\ Updated(s, r).uid = r.uid /\ Updated(s, r).msg = r.msg
             /\ r.box # Box(s) => Updated(s, r) = r
  BY <1>1, <1>2, UpdatedRow, Zenon
<1> QED
  BY <1>3, <1>5, <1>6, <1>7, Zenon

(* The row that Insert adds. *)
Entry(n) == [box |-> n.box, uid |-> n.uid, msg |-> n.msg, flags |-> n.flags,
             base |-> n.flags, wanted |-> n.flags]

(* What the commit of an insert does: the row is new, above all others. *)
LEMMA InsertMoves ==
    ASSUME Sound, NEW s \in Sessions, Insert(s)
    PROVE  LET n == me[s].new IN
           /\ n.box \in Boxes /\ Entry(n) \in Row /\ (\A r \in In(n.box) : r.uid < n.uid)
           /\ Entry(n).box = n.box /\ Entry(n).uid = n.uid /\ Entry(n).msg = n.msg
           /\ n.box = IF Verb(s) = "APPEND" THEN Box(s) ELSE cmd[s].to
           /\ Verb(s) \in Copying \cup {"APPEND"} /\ rows' = rows \cup {Entry(n)}
           /\ highest' = [highest EXCEPT ![n.box] = highest[n.box] + 1]
           /\ top' \in [Boxes -> Nat]
           /\ Stays(s, IF Verb(s) = "APPEND" THEN "refresh" ELSE "copied")
           /\ Fits(cmd[s], me'[s])
<1> DEFINE n == me[s].new
<1>1. TypeOK /\ Local(s) /\ At(s, "insert") /\ me[s] \in Locals
  BY DEF Sound, Insert, TypeOK
<1>2. /\ Verb(s) \in Copying \cup {"APPEND"} /\ n \in Placed
      /\ n.box = IF Verb(s) = "APPEND" THEN Box(s) ELSE cmd[s].to
  BY <1>1, Zenon DEF Local, Fits, At, Verb, Box
<1>3. /\ n.box \in Boxes /\ n.uid \in Nat \ {0} /\ Entry(n) \in Row
      /\ Entry(n).box = n.box /\ Entry(n).uid = n.uid /\ Entry(n).msg = n.msg
  BY <1>2 DEF Placed, Entry, Row
<1>4. (\A r \in In(n.box) : r.uid < n.uid) /\ n.modseq = highest[n.box] + 1
  BY <1>1, <1>3, Zenon DEF Sound, Locked, Holds
<1>5. ASSUME NEW r \in rows PROVE <<r.box, r.uid>> # <<n.box, n.uid>>
  <2>1. r.uid \in Nat
    BY DEF Sound, TypeOK, Row
  <2>2. r.box = n.box => r.uid < n.uid
    BY <1>4, Zenon DEF In
  <2>3. r.box = n.box => r.uid # n.uid
    BY <1>3, <2>1, <2>2
  <2> QED
    BY <2>3, Zenon
<1>6. rows' = rows \cup {Entry(n)}
  BY <1>5, Zenon DEF Insert, Entry
<1>7. highest' = [highest EXCEPT ![n.box] = highest[n.box] + 1]
  BY <1>4, Zenon DEF Insert
<1>8. top' \in [Boxes -> Nat]
  <2> DEFINE i == top[n.box]
             j == n.uid
  <2>1. top \in [Boxes -> Nat] /\ top' = [top EXCEPT ![n.box] = Max({i, j})]
    BY <1>1, Zenon DEF TypeOK, Insert
  <2>2. i \in Nat /\ j \in Nat
    BY <1>3, <2>1
  <2> HIDE DEF i, j
  <2>3. Max({i, j}) \in Nat
    BY <2>2, MaxOfTwo, Zenon
  <2> QED
    BY <1>3, <2>1, <2>3, Zenon
<1>9. Stays(s, IF Verb(s) = "APPEND" THEN "refresh" ELSE "copied")
  BY <1>1, GotoMoves DEF Insert, Points
<1>10. Fits(cmd[s], me'[s])
  BY <1>1, <1>2, <1>9, RefreshedOnce, Zenon
  DEF Fits, Local, Stays, Moved, Same, Listing, Verb, At, Storing
<1> QED
  BY <1>2, <1>3, <1>4, <1>6, <1>7, <1>8, <1>9, <1>10, Zenon

(* What the commit of a deletion does: one row goes, which is noted if its uid was reused. *)
LEMMA DeleteRowMoves ==
    ASSUME Sound, NEW s \in Sessions, DeleteRow(s)
    PROVE  /\ Verb(s) \in Deleting
           /\ \E r \in In(Box(s)) :
                 /\ r.uid = Target(s).uid /\ rows' = rows \ {r}
                 /\ mistaken' = IF <<s, r.uid>> \in misled THEN mistaken \cup {r.msg} ELSE mistaken
           /\ highest' = [highest EXCEPT ![Box(s)] = highest[Box(s)] + 1]
           /\ NextTarget(s) /\ me[s].pc \in Listing /\ Verb(s) # "APPEND"
<1>1. Local(s) /\ At(s, "delete") /\ NextTarget(s)
  BY DEF Sound, DeleteRow
<1>2. Verb(s) \in Deleting /\ me[s].pc \in Listing /\ Verb(s) # "APPEND"
  BY <1>1, Zenon DEF Local, Fits, At, Verb, Listing, Deleting, Expunging
<1>3. Has(Box(s), Target(s).uid)
  BY <1>1, Zenon DEF Sound, Locked
<1>4. RowAt(Box(s), Target(s).uid) \in In(Box(s)) /\ RowAt(Box(s), Target(s).uid).uid = Target(s).uid
  BY <1>3 DEF Has, RowAt
<1> QED
  BY <1>1, <1>2, <1>4, Zenon DEF DeleteRow, AssignModseq

(* The mailbox whose messages a session changes. *)
Changed(s) == IF At(s, "insert") THEN me[s].new.box ELSE Box(s)

(* A flag update is made under the lock of its mailbox. *)
LEMMA UpdateRowSound ==
    ASSUME Sound, NEW s \in Sessions, UpdateRow(s)
    PROVE  Sound' /\ Alone(s) /\ Kept(s) /\ Changes(Box(s))
<1>1. /\ Locked /\ rows \subseteq Row /\ IsFiniteSet(rows) /\ Box(s) \in Boxes
      /\ \A r, q \in rows : r.box = q.box /\ r.uid = q.uid => r = q
  BY CommandTypes DEF Sound, TypeOK, Box
<1>2. UNCHANGED <<cmd, stored>> /\ top' \in [Boxes -> Nat] /\ Holds(s, Box(s))
  BY Zenon DEF UpdateRow, Sound, TypeOK, history, Holds
<1>3. /\ rows' = {Updated(s, r) : r \in rows}
      /\ \A r \in rows : /\ Updated(s, r) \in Row /\ Updated(s, r).box = r.box
                         /\ Updated(s, r).uid = r.uid
                         /\ r.box # Box(s) => Updated(s, r) = r
      /\ highest' = [highest EXCEPT ![Box(s)] = highest[Box(s)] + 1]
      /\ Fits(cmd[s], me'[s]) /\ Kept(s)
  BY UpdateRowMoves, Zenon
<1>4. PICK point \in {"queue", "refresh", "each"} : Moved(s, point)
  BY UpdateRowMoves, Zenon
<1>5. rows' \subseteq Row /\ \A r, q \in rows' : r.box = q.box /\ r.uid = q.uid => r = q
  BY <1>1, <1>3
<1>6. IsFiniteSet(rows')
  <2> DEFINE f == [r \in rows |-> Updated(s, r)]
  <2>1. f \in [rows -> rows'] /\ \A q \in rows' : \E r \in rows : f[r] = q
    BY <1>3, Zenon
  <2> HIDE DEF f
  <2> QED
    BY <1>1, <2>1 DEF Sound, FiniteFacts
<1>7. Changes(Box(s))
  BY <1>1, <1>3 DEF Changes, In
<1>8. \A t \in Sessions : t # s => ~Holds(t, Box(s))
  BY <1>1, <1>2, Zenon DEF Locked
<1>9. ASSUME NEW t \in Sessions, t # s, At(t, "delete") PROVE Has(Box(t), Target(t).uid)'
  <2>1. PICK r \in rows : r.box = Box(t) /\ r.uid = Target(t).uid
    BY <1>1, <1>9 DEF Locked, Has, In
  <2>2. Updated(s, r) \in rows' /\ Updated(s, r).box = r.box /\ Updated(s, r).uid = r.uid
        /\ me'[t] = me[t]
    BY <1>3, <1>4, <1>9, Zenon DEF Moved
  <2> QED
    BY <1>2, <2>1, <2>2, Zenon DEF Has, In, Box, Target
<1> QED
  BY <1>2, <1>3, <1>4, <1>5, <1>6, <1>7, <1>8, <1>9, ChangeSound, Zenon

(* An insert is made under the lock of its mailbox. *)
LEMMA InsertSound ==
    ASSUME Sound, NEW s \in Sessions, Insert(s)
    PROVE  Sound' /\ Alone(s) /\ Kept(s) /\ Changes(me[s].new.box)
<1> DEFINE n == me[s].new
<1>1. /\ Locked /\ rows \subseteq Row /\ IsFiniteSet(rows)
      /\ \A r, q \in rows : r.box = q.box /\ r.uid = q.uid => r = q
      /\ \A r \in rows : r.uid \in Nat
  BY DEF Sound, TypeOK, Row
<1>2. UNCHANGED <<cmd, stored>> /\ Holds(s, n.box)
  BY Zenon DEF Insert, Holds
<1>3. /\ n.box \in Boxes /\ Entry(n) \in Row /\ \A r \in In(n.box) : r.uid < n.uid
      /\ Entry(n).box = n.box /\ Entry(n).uid = n.uid /\ rows' = rows \cup {Entry(n)}
      /\ highest' = [highest EXCEPT ![n.box] = highest[n.box] + 1] /\ top' \in [Boxes -> Nat]
      /\ Stays(s, IF Verb(s) = "APPEND" THEN "refresh" ELSE "copied")
      /\ Fits(cmd[s], me'[s])
  BY InsertMoves, Zenon
<1> HIDE DEF n
<1>4. rows' \subseteq Row /\ IsFiniteSet(rows')
  BY <1>1, <1>3, Zenon DEF Sound, FiniteFacts
<1>5. \A r, q \in rows' : r.box = q.box /\ r.uid = q.uid => r = q
  BY <1>1, <1>3 DEF In
<1>6. Changes(n.box)
  BY <1>3, Zenon DEF Changes, In
<1>7. \A t \in Sessions : t # s => ~Holds(t, n.box)
  BY <1>1, <1>2, <1>3 DEF Locked
<1>8. PICK point \in {"refresh", "copied"} : Moved(s, point)
  BY <1>3, Zenon DEF Stays
<1>9. ASSUME NEW t \in Sessions, t # s, At(t, "delete") PROVE Has(Box(t), Target(t).uid)'
  <2>1. PICK q \in rows : q.box = Box(t) /\ q.uid = Target(t).uid
    BY <1>1, <1>9, Zenon DEF Locked, Has, In
  <2>2. q \in rows' /\ Box(t)' = Box(t) /\ Target(t)' = Target(t)
    BY <1>2, <1>3, <1>8, <1>9, Zenon DEF Moved, Box, Target
  <2> QED
    BY <2>1, <2>2, Zenon DEF Has, In
<1>10. Kept(s)
  BY <1>3, <1>8, Zenon DEF Stays, Same, Moved, Kept
<1>11. Sound' /\ Alone(s)
  <2>1. PICK b \in Boxes : Changes(b) /\ \A t \in Sessions : t # s => ~Holds(t, b)
    BY <1>3, <1>6, <1>7, Zenon
  <2>2. top' \in [Boxes -> Nat] /\ Fits(cmd[s], me'[s]) /\ UNCHANGED <<cmd, stored>>
    BY <1>2, <1>3
  <2> QED
    BY <1>4, <1>5, <1>8, <1>9, <2>1, <2>2, ChangeSound, Zenon
<1> QED
  BY <1>6, <1>10, <1>11 DEF n

(* A deletion holds its row, and waits for the lock of the mailbox. *)
LEMMA DeleteRowSound ==
    ASSUME Sound, NEW s \in Sessions, DeleteRow(s)
    PROVE  Sound' /\ Alone(s) /\ Kept(s) /\ Changes(Box(s))
<1>1. /\ TypeOK /\ Local(s) /\ Locked /\ rows \subseteq Row /\ IsFiniteSet(rows) /\ Box(s) \in Boxes
      /\ \A r, q \in rows : r.box = q.box /\ r.uid = q.uid => r = q
  BY CommandTypes DEF Sound, TypeOK, Box
<1>2. /\ UNCHANGED <<cmd, stored>> /\ top' \in [Boxes -> Nat] /\ BoxFree(Box(s)) /\ At(s, "delete")
  BY Zenon DEF DeleteRow, Sound, TypeOK
<1>3. PICK r \in In(Box(s)) : r.uid = Target(s).uid /\ rows' = rows \ {r}
  BY DeleteRowMoves, Zenon
<1>4. /\ highest' = [highest EXCEPT ![Box(s)] = highest[Box(s)] + 1]
      /\ Fits(cmd[s], me'[s]) /\ Kept(s)
      /\ \E point \in {"refresh", "each"} : Moved(s, point)
  BY <1>1, DeleteRowMoves, NextFits, Zenon
<1>5. /\ rows' \subseteq Row /\ IsFiniteSet(rows')
      /\ \A p, q \in rows' : p.box = q.box /\ p.uid = q.uid => p = q
  BY <1>1, <1>3, Zenon DEF Sound, FiniteFacts
<1>6. Changes(Box(s))
  BY <1>1, <1>3, <1>4 DEF Changes, In
<1>7. \A t \in Sessions : t # s => ~Holds(t, Box(s))
  BY <1>2, Zenon DEF BoxFree, Holds
<1>8. ASSUME NEW t \in Sessions, t # s, At(t, "delete") PROVE Has(Box(t), Target(t).uid)'
  <2>1. PICK q \in rows : q.box = Box(t) /\ q.uid = Target(t).uid
    BY <1>1, <1>8, Zenon DEF Locked, Has, In
  <2>2. q # r /\ me'[t] = me[t]
    BY <1>1, <1>2, <1>3, <1>4, <1>8, <2>1 DEF Locked, In, Moved
  <2> QED
    BY <1>2, <1>3, <2>1, <2>2, Zenon DEF Has, In, Box, Target
<1> QED
  BY <1>2, <1>4, <1>5, <1>6, <1>7, <1>8, ChangeSound, Zenon

(* The steps that change messages, and those of one mailbox. *)
LEMMA RowsSound ==
    ASSUME Sound, NEW s \in Sessions, UpdateRow(s) \/ Insert(s) \/ DeleteRow(s)
    PROVE  Sound' /\ Alone(s) /\ Kept(s) /\ Changes(Changed(s))
<1>1. CASE UpdateRow(s) \/ DeleteRow(s)
  <2>1. Changed(s) = Box(s)
    BY <1>1, Zenon DEF Changed, UpdateRow, DeleteRow, At
  <2> QED
    BY <1>1, <2>1, UpdateRowSound, DeleteRowSound, Zenon
<1>2. CASE Insert(s)
  <2>1. Changed(s) = me[s].new.box
    BY <1>2, Zenon DEF Changed, Insert
  <2> QED
    BY <1>2, <2>1, InsertSound, Zenon
<1> QED
  BY <1>1, <1>2

-----------------------------------------------------------------------------
(* What the sync of a mailbox remembers. *)
Syncing == sync \in [Boxes -> [pc : {"rest", "upserted", "described", "counted"}, count : Nat]]

(* A step of the sync changes the row of one mailbox, which no session     *)
(* holds, and no message.                                                  *)
Tidies(b) ==
    /\ UNCHANGED others
    /\ highest' \in [Boxes -> Nat] /\ stored' \in [Boxes -> Nat]
    /\ \A a \in Boxes : highest'[a] # highest[a] => a = b /\ BoxFree(b) /\ sync'[b] # sync[b]
    /\ UNCHANGED <<stored, stale>> \/ \E n \in Nat : Store(b, n)

(* The number of messages of a mailbox is a number. *)
LEMMA CountIsNat ==
    ASSUME Sound, NEW b
    PROVE  Cardinality(In(b)) \in Nat
<1>1. In(b) \in SUBSET rows /\ IsFiniteSet(rows)
  BY DEF Sound, TypeOK, In
<1> QED
  BY <1>1 DEF Sound, FiniteFacts

(* A statement of the sync writes these two columns of a mailbox. *)
LEMMA SyncWrites ==
    ASSUME Sound, Syncing, NEW b \in Boxes, NEW m \in Nat, NEW n \in Nat, NEW point,
           NEW k \in Nat, point \in {"rest", "upserted", "described", "counted"},
           point # sync[b].pc, BoxFree(b), UNCHANGED others,
           highest' = [highest EXCEPT ![b] = m], Store(b, n), SyncGoto(b, point, k)
    PROVE  Tidies(b) /\ Syncing'
<1>1. highest \in [Boxes -> Nat] /\ stored \in [Boxes -> Nat]
  BY Zenon DEF Sound, TypeOK
<1>2. highest' \in [Boxes -> Nat] /\ \A a \in Boxes : a # b => highest'[a] = highest[a]
  BY <1>1, Zenon
<1>3. stored' \in [Boxes -> Nat]
  BY <1>1, Zenon DEF Store
<1>4. Syncing' /\ sync'[b] # sync[b]
  BY DEF Syncing, SyncGoto
<1> QED
  BY <1>2, <1>3, <1>4, Zenon DEF Tidies

(* A step of the sync that leaves the row alone. *)
LEMMA SyncWaits ==
    ASSUME Sound, Syncing, NEW b \in Boxes, NEW point, NEW k \in Nat,
           point \in {"rest", "upserted", "described", "counted"},
           UNCHANGED <<others, boxes, stale>>, SyncGoto(b, point, k)
    PROVE  Tidies(b) /\ Syncing'
<1>1. UNCHANGED others /\ highest' = highest /\ stored' = stored /\ stale' = stale
  BY DEF boxes
<1>2. highest' \in [Boxes -> Nat] /\ stored' \in [Boxes -> Nat]
  BY <1>1, Zenon DEF Sound, TypeOK
<1>3. Syncing'
  BY DEF Syncing, SyncGoto
<1> QED
  BY <1>1, <1>2, <1>3, Zenon DEF Tidies

(* What the steps of the sync do. *)
LEMMA SyncTidies ==
    ASSUME Sound, Syncing, NEW b \in Boxes, Sync(b)
    PROVE  Tidies(b) /\ Syncing'
<1>1. /\ highest \in [Boxes -> Nat] /\ stored \in [Boxes -> Nat]
      /\ sync[b].count \in Nat /\ 0 \in Nat
  BY DEF Sound, TypeOK, Syncing
<1>2. CASE SyncUpsert(b)
  BY <1>1, <1>2, SyncWrites, Zenon DEF SyncUpsert, SyncAt
<1>3. CASE SyncDescribe(b)
  <2>1. PICK m \in Reported \cup {highest[b]} : \E n \in Reported \cup {stored[b]} :
            highest' = [highest EXCEPT ![b] = m] /\ Store(b, n)
    BY <1>3, Zenon DEF SyncDescribe
  <2>2. PICK n \in Reported \cup {stored[b]} :
            highest' = [highest EXCEPT ![b] = m] /\ Store(b, n)
    BY <2>1, Zenon
  <2>3. m \in Nat /\ n \in Nat
    BY <1>1, CommandsAssumption
  <2> QED
    BY <1>1, <1>3, <2>2, <2>3, SyncWrites, Zenon DEF SyncDescribe, SyncAt
<1>4. CASE SyncCount(b)
  BY <1>4, CountIsNat, SyncWaits, Zenon DEF SyncCount
<1>5. CASE SyncWrite(b)
  <2>1. highest' = [highest EXCEPT ![b] = highest[b]] /\ highest[b] \in Nat
    BY <1>1, <1>5, Zenon DEF SyncWrite
  <2> QED
    BY <1>1, <1>5, <2>1, SyncWrites, Zenon DEF SyncWrite, SyncAt
<1>6. CASE SyncFail(b)
  BY <1>1, <1>6, SyncWaits, Zenon DEF SyncFail
<1> QED
  BY <1>2, <1>3, <1>4, <1>5, <1>6, Zenon DEF Sync

(* The sync leaves the locks alone: it never writes a mailbox that a       *)
(* session has locked and chosen a modseq for.                             *)
LEMMA TidiesSound ==
    ASSUME Sound, NEW b \in Boxes, Tidies(b)
    PROVE  Sound'
<1>1. UNCHANGED <<rows, top, cmd, me>>
  BY Zenon DEF Tidies, others
<1>2. TypeOK'
  BY <1>1, Zenon DEF Sound, TypeOK, Tidies
<1>3. \A s, a, u : /\ Holds(s, a)' <=> Holds(s, a)
                   /\ In(a)' = In(a) /\ (Has(a, u)' <=> Has(a, u))
  BY <1>1 DEF Holds, At, Box, In, Has
<1>4. \A s : /\ Box(s)' = Box(s) /\ Target(s)' = Target(s)
             /\ At(s, "insert")' <=> At(s, "insert")
             /\ At(s, "delete")' <=> At(s, "delete")
  BY <1>1 DEF Box, Target, At
<1>5. ASSUME NEW s \in Sessions, NEW a \in Boxes, Holds(s, a)
      PROVE  me'[s].new.modseq = highest'[a] + 1
  <2>1. highest'[a] = highest[a]
    BY <1>5, Zenon DEF Tidies, BoxFree, Holds
  <2> QED
    BY <1>1, <1>5, <2>1, Zenon DEF Sound, Locked
<1>6. Locked'
  BY <1>1, <1>3, <1>4, <1>5, Zenon DEF Sound, Locked
<1> QED
  BY <1>1, <1>2, <1>6, Zenon DEF Sound, Local

-----------------------------------------------------------------------------
(* Whatever happens is a step of one session, of its command or its end,   *)
(* or of the sync.                                                         *)
Quits(s) == Ends(s, "failed") /\ UNCHANGED <<rows, boxes, queued, cmd, syncing, history>>
Does(s) == (Act(s) \/ Quits(s)) /\ Sound' /\ Alone(s)

(* Every step of the specification is one of these. *)
LEMMA Steps ==
    ASSUME Sound, Syncing, Next
    PROVE  (\E s \in Sessions : Does(s)) \/ (\E b \in Boxes : Tidies(b))
<1>1. ASSUME NEW s \in Sessions, Act(s) PROVE Sound' /\ Alone(s)
  BY <1>1, BeginSound, LocksSound, RowsSound, QueuesSound DEF Act
<1>2. ASSUME NEW s \in Sessions,
             End(s, "failed") /\ UNCHANGED <<rows, boxes, queued, cmd, syncing, history>>
      PROVE  Quits(s) /\ Sound' /\ Alone(s)
  <2>1. Quits(s)
    BY <1>2, EndMoves, Zenon DEF Sound, Points, Quits
  <2>2. UNCHANGED <<rows, highest, top, cmd>> /\ stored' \in [Boxes -> Nat]
    BY <1>2 DEF boxes, history, Sound, TypeOK
  <2> QED
    BY <2>1, <2>2, EndSound DEF Quits
<1>3. ASSUME NEW b \in Boxes, Sync(b) PROVE Tidies(b)
  BY <1>3, SyncTidies, Zenon
<1> QED
  BY <1>1, <1>2, <1>3, Zenon DEF Next, Progress, Deadlock, Break, Does

(* Only the sync changes what the sync remembers. *)
LEMMA SyncingStep == Sound /\ Syncing /\ [Next]_vars => Syncing'
<1>1. ASSUME Sound, Syncing, NEW b \in Boxes, Sync(b) PROVE Syncing'
  BY <1>1, SyncTidies, Zenon
<1>2. ASSUME NEW s \in Sessions, Act(s) PROVE UNCHANGED syncing
  BY <1>2, Zenon DEF Act, Begin, UpdateLock, UpdateRow, QueueFlags, CopyRead, Lock, Insert,
     QueueCopy, DeleteFind, DeleteRow, RefreshCount, RefreshWrite, QueueRest
<1>3. ASSUME [Next]_vars PROVE UNCHANGED syncing \/ \E b \in Boxes : Sync(b)
  BY <1>2, <1>3, Zenon DEF Next, Progress, Deadlock, Break, vars
<1> QED
  BY <1>1, <1>3, Zenon DEF Syncing, syncing

(* Sound is inductive. *)
LEMMA SoundStep == Sound /\ Syncing /\ [Next]_vars => Sound'
<1>1. ASSUME Sound, UNCHANGED vars PROVE Sound'
  <2>1. UNCHANGED <<rows, highest, stored, top, cmd, me>>
    BY <1>1 DEF vars, boxes, history
  <2>2. TypeOK'
    BY <1>1, Zenon DEF vars, boxes, history, Sound, TypeOK
  <2>3. Locked'
    <3>1. \A s, b : (Holds(s, b)' <=> Holds(s, b)) /\ In(b)' = In(b)
      BY <2>1 DEF Holds, At, Box, In
    <3>2. \A s, b, u : (At(s, "delete")' <=> At(s, "delete")) /\ (Has(b, u)' <=> Has(b, u))
      BY <2>1 DEF At, Has, In
    <3>3. \A s : Box(s)' = Box(s) /\ Target(s)' = Target(s) /\ (At(s, "insert")' <=> At(s, "insert"))
      BY <2>1 DEF Box, Target, At
    <3> QED
      BY <1>1, <2>1, <3>1, <3>2, <3>3, Zenon DEF Sound, Locked
  <2> QED
    BY <1>1, <2>1, <2>2, <2>3, Zenon DEF Sound, Local
<1> QED
  BY <1>1, Steps, TidiesSound, Zenon DEF Does

-----------------------------------------------------------------------------
(* Only three steps change messages. *)
LEMMA CalmOr ==
    ASSUME NEW s \in Sessions, Does(s)
    PROVE  \/ UNCHANGED <<rows, highest, misled, mistaken>>
           \/ UpdateRow(s) \/ Insert(s) \/ DeleteRow(s)
  BY Zenon DEF Act, Begin, UpdateLock, QueueFlags, CopyRead, Lock, QueueCopy, DeleteFind,
     RefreshCount, RefreshWrite, QueueRest, Quits, Does, boxes, history

(* What a step does to the variables of history, and to the commands. *)
LEMMA HistoryGrows ==
    ASSUME NEW s \in Sessions, Does(s)
    PROVE  /\ cmd' = cmd /\ struck \subseteq struck' /\ misled \subseteq misled'
           /\ mistaken \subseteq mistaken'
<1>1. CASE Begin(s)
  BY <1>1 DEF Begin
<1>2. CASE Insert(s) \/ DeleteRow(s)
  BY <1>2, Zenon DEF Insert, DeleteRow
<1>3. CASE ~(Begin(s) \/ Insert(s) \/ DeleteRow(s))
  BY <1>3, Zenon DEF Act, UpdateLock, UpdateRow, QueueFlags, CopyRead, Lock, QueueCopy,
     DeleteFind, RefreshCount, RefreshWrite, QueueRest, Quits, Does, history
<1> QED
  BY <1>1, <1>2, <1>3

(* Every row is an earlier one, with other flags perhaps, or the new one. *)
LEMMA RowsFrom ==
    ASSUME Sound, NEW s \in Sessions, Does(s), NEW r \in rows'
    PROVE  \/ \E q \in rows : q.box = r.box /\ q.uid = r.uid /\ q.msg = r.msg
           \/ Insert(s) /\ r = Entry(me[s].new)
<1>1. CASE UNCHANGED rows
  BY <1>1
<1>2. CASE UpdateRow(s)
  <2>1. /\ rows' = {Updated(s, q) : q \in rows}
        /\ \A q \in rows : /\ Updated(s, q).box = q.box /\ Updated(s, q).uid = q.uid
                           /\ Updated(s, q).msg = q.msg
    BY <1>2, UpdateRowMoves, Zenon
  <2> QED
    BY <2>1, Zenon
<1>3. CASE Insert(s)
  BY <1>3, InsertMoves, Zenon
<1>4. CASE DeleteRow(s)
  BY <1>4, Zenon DEF DeleteRow
<1> QED
  BY <1>1, <1>2, <1>3, <1>4, CalmOr

-----------------------------------------------------------------------------
(* How a command that deletes goes on: its list shrinks, what it copies is *)
(* what it finds at the uid, and it deletes what it copied or did not      *)
(* find.                                                                   *)
Carries(s) ==
    /\ Range(me'[s].todo) \subseteq Range(me[s].todo)
    /\ me'[s].pc \in {"lock", "insert"} =>
          /\ me'[s].todo = me[s].todo
          /\ \/ \E r \in In(Box(s)) : r.uid = Target(s).uid /\ me'[s].new.msg = r.msg
             \/ me[s].pc = "lock" /\ me'[s].new.msg = me[s].new.msg
    /\ me'[s].pc \in Gone /\ Verb(s) = "MOVE" =>
          /\ me'[s].todo = me[s].todo
          /\ me[s].pc \in Gone \/ Insert(s) \/ ~Has(Box(s), Target(s).uid)

(* A command that ends deletes nothing any more. *)
LEMMA EndCarries ==
    ASSUME NEW s \in Sessions, NEW point \in {"done", "failed"}, Ends(s, point)
    PROVE  Carries(s)
<1>1. me'[s].todo = <<>> /\ me'[s].pc = point
  BY DEF Ends, Outside
<1> QED
  BY <1>1, NoRange, Zenon DEF Carries, Gone

(* The next target was listed with the others. *)
LEMMA NextCarries ==
    ASSUME TypeOK, NEW s \in Sessions, Local(s), me[s].pc \in Listing, Verb(s) # "APPEND",
           NextTarget(s)
    PROVE  Carries(s)
<1>1. Range(me'[s].todo) \subseteq Range(me[s].todo) /\ me'[s].pc \in {"refresh", "each"}
  BY NextFits, Zenon DEF Moved
<1> QED
  BY <1>1, Zenon DEF Carries, Gone

(* Steps between the copy and the deletion of a MOVE. *)
LEMMA StayCarries ==
    ASSUME NEW s \in Sessions, NEW point, Stays(s, point), point \notin {"lock", "insert"},
           point \in Gone => me[s].pc \in Gone \/ Insert(s) \/ ~Has(Box(s), Target(s).uid)
    PROVE  Carries(s)
  BY Zenon DEF Carries, Stays, Same, Moved

(* A MOVE goes on to delete what it has copied, or did not find. *)
LEMMA AfterCopyCarries ==
    ASSUME TypeOK, NEW s \in Sessions, Local(s), Verb(s) \in Copying, AfterCopy(s),
           me[s].pc = "copied" \/ (me[s].pc = "each" /\ ~Has(Box(s), Target(s).uid))
    PROVE  Carries(s)
<1>1. CASE Verb(s) = "MOVE"
  <2>1. Stays(s, "find")
    BY <1>1, GotoMoves, Zenon DEF AfterCopy, Points
  <2> QED
    BY <2>1, StayCarries, Zenon DEF Gone
<1>2. CASE Verb(s) # "MOVE"
  BY <1>2, NextCarries DEF AfterCopy, Listing, Copying
<1> QED
  BY <1>1, <1>2, Zenon

(* Every step of a command that deletes is one of these. *)
LEMMA DeleterCarries ==
    ASSUME Sound, NEW s \in Sessions, Act(s), ~Begin(s), Verb(s) \in Deleting
    PROVE  Carries(s)
<1>1. /\ TypeOK /\ Local(s) /\ cmd[s].verb \notin Storing /\ Verb(s) # "APPEND"
  BY Zenon DEF Sound, Deleting, Expunging, Storing, Verb
<1>2. ~UpdateLock(s) /\ ~UpdateRow(s) /\ ~QueueFlags(s) /\ ~QueueRest(s)
  BY <1>1, Zenon DEF UpdateLock, UpdateRow, QueueFlags, QueueRest, At, Local, Fits, Verb, Storing
<1>3. CASE CopyRead(s)
  <2>1. Verb(s) \in Copying /\ me[s].pc = "each"
    BY <1>3, Zenon DEF CopyRead, At
  <2>2. CASE ~Has(Box(s), Target(s).uid) /\ AfterCopy(s)
    BY <1>1, <2>1, <2>2, AfterCopyCarries, Zenon
  <2>3. CASE ~(~Has(Box(s), Target(s).uid) /\ AfterCopy(s))
    <3>1. /\ Stays(s, "lock")
          /\ \E r \in In(Box(s)) : /\ r.uid = Target(s).uid
                                   /\ me'[s].new = NewRow(cmd[s].to, r.msg, r.flags)
      BY <1>1, <1>3, <2>3, CopyReadMoves, Zenon
    <3>2. \E r \in In(Box(s)) : r.uid = Target(s).uid /\ me'[s].new.msg = r.msg
      BY <3>1 DEF NewRow
    <3> QED
      BY <3>1, <3>2 DEF Carries, Stays, Same, Moved, Gone
  <2> QED
    BY <2>2, <2>3
<1>4. CASE Lock(s)
  <2>1. Stays(s, "insert") /\ me'[s].new.msg = me[s].new.msg /\ me[s].pc = "lock"
    BY <1>4, LockMoves, Zenon DEF Lock, At
  <2> QED
    BY <2>1 DEF Carries, Stays, Same, Moved, Gone
<1>5. CASE Insert(s)
  <2>1. Stays(s, "copied")
    BY <1>1, <1>5, InsertMoves, Zenon
  <2> QED
    BY <1>5, <2>1, StayCarries
<1>6. CASE QueueCopy(s)
  <2>1. me[s].pc = "copied" /\ Verb(s) \in Copying
    BY <1>1, <1>6, Zenon DEF QueueCopy, At, Local, Fits, Verb
  <2>2. Ends(s, "failed") \/ AfterCopy(s)
    BY <1>1, <1>6, EnqueueMoves DEF QueueCopy
  <2>3. ASSUME Ends(s, "failed") PROVE Carries(s)
    BY <2>3, EndCarries, Zenon
  <2>4. ASSUME AfterCopy(s) PROVE Carries(s)
    BY <1>1, <2>1, <2>4, AfterCopyCarries, Zenon
  <2> QED
    BY <2>2, <2>3, <2>4, Zenon
<1>7. CASE DeleteFind(s)
  <2>1. me[s].pc \in {"find", "each"} /\ (Verb(s) = "MOVE" => me[s].pc = "find")
    BY <1>7, Zenon DEF DeleteFind, At, Expunging
  <2>2. CASE Goto(s, "delete")
    <3>1. Stays(s, "delete")
      BY <1>1, <2>2, GotoMoves, Zenon DEF Points
    <3> QED
      BY <2>1, <3>1, Zenon DEF Carries, Stays, Same, Moved, Gone
  <2>3. CASE NextTarget(s)
    BY <1>1, <2>1, <2>3, NextCarries DEF Listing
  <2> QED
    BY <1>7, <2>2, <2>3 DEF DeleteFind
<1>8. CASE DeleteRow(s)
  BY <1>1, <1>8, DeleteRowMoves, NextCarries, Zenon
<1>9. CASE RefreshCount(s)
  BY <1>9, RefreshCountMoves, StayCarries DEF Gone
<1>10. CASE RefreshWrite(s)
  <2>1. CASE Ends(s, "done")
    BY <2>1, EndCarries, Zenon
  <2>2. CASE ~Ends(s, "done")
    <3>1. me'[s].todo = me[s].listed /\ me'[s].pc \in {"rest", "refresh"}
      BY <1>1, <1>10, <2>2, RefreshWriteMoves, Zenon DEF Moved
    <3>2. me[s].listed = <<>>
      BY <1>1, Zenon DEF Local, Fits
    <3> QED
      BY <3>1, <3>2, NoRange DEF Carries, Gone
  <2> QED
    BY <2>1, <2>2
<1> QED
  BY <1>2, <1>3, <1>4, <1>5, <1>6, <1>7, <1>8, <1>9, <1>10 DEF Act

-----------------------------------------------------------------------------
(* At the listing the rows are those listed. *)
LEMMA ToldBegin ==
    ASSUME Sound, NEW s \in Sessions, Does(s), Verb(s) \in Deleting, Begin(s)
    PROVE  ToldTo(s)'
<1>1. TypeOK /\ cmd' = cmd /\ rows' = rows
  BY DEF Sound, Begin
<1>2. PICK S \in SUBSET In(Box(s)), turns \in Seq(Item) : Begins(s, S, turns)
  BY BeginMoves
<1>3. /\ me'[s].todo = turns /\ me'[s].pc \in {"refresh", "each"}
      /\ \A x \in Range(turns) : \E r \in S : x = Read(r)
      /\ Verb(s) \in Expunging => struck' = struck \cup {r.msg : r \in S}
  BY <1>2, Zenon DEF Begins, Moved, Deleting, Expunging
<1>4. ASSUME NEW x \in Range(turns)
      PROVE  /\ \A r \in In(Box(s)) : r.uid = x.uid => r.msg = x.msg
             /\ Verb(s) \in Expunging => x.msg \in struck'
  <2>1. PICK q \in S : x = Read(q)
    BY <1>3, Zenon
  <2>2. x.uid = q.uid /\ x.msg = q.msg
    BY <2>1, Zenon DEF Read
  <2> QED
    BY <1>1, <1>3, <2>2, Zenon DEF TypeOK, In
<1> QED
  BY <1>1, <1>3, <1>4 DEF ToldTo, In, Box, Verb

(* A row of a uid that a session has listed is the one it was, unless the  *)
(* session is misled.                                                      *)
LEMMA ToldKept ==
    ASSUME Sound, Told, NEW s \in Sessions, Does(s), NEW t \in Sessions, Verb(t) \in Deleting,
           Range(me'[t].todo) \subseteq Range(me[t].todo)
    PROVE  /\ \A x \in Range(me'[t].todo) : <<t, x.uid>> \notin misled' =>
                 \A r \in rows' : r.box = Box(t) /\ r.uid = x.uid => r.msg = x.msg
           /\ Verb(t) \in Expunging => \A x \in Range(me'[t].todo) : x.msg \in struck'
<1>1. struck \subseteq struck' /\ misled \subseteq misled' /\ ToldTo(t)
  BY HistoryGrows, Zenon DEF Told
<1>2. ASSUME NEW x \in Range(me'[t].todo), <<t, x.uid>> \notin misled',
             NEW r \in rows', r.box = Box(t), r.uid = x.uid
      PROVE  r.msg = x.msg
  <2>1. x \in Range(me[t].todo) /\ ~Misled(t, x)
    BY <1>1, <1>2, Zenon DEF Misled
  <2>2. ~(Insert(s) /\ r = Entry(me[s].new))
    <3> SUFFICES ASSUME Insert(s), r = Entry(me[s].new) PROVE FALSE
      OBVIOUS
    <3>1. misled' = misled \cup Surprised(me[s].new)
      BY Zenon DEF Insert
    <3>2. <<t, x.uid>> \in Surprised(me[s].new)
      BY <1>2, <2>1, Zenon DEF Entry, Surprised
    <3> QED
      BY <1>2, <3>1, <3>2, Zenon
  <2>3. \E q \in rows : q.box = r.box /\ q.uid = r.uid /\ q.msg = r.msg
    BY <2>2, RowsFrom, Zenon
  <2> QED
    BY <1>1, <1>2, <2>1, <2>3, Zenon DEF ToldTo, In
<1> QED
  BY <1>1, <1>2, Zenon DEF ToldTo

(* A session at work on a message has it in its list. *)
LEMMA TargetListed ==
    ASSUME Sound, NEW s \in Sessions, me[s].pc \in Listing, Verb(s) # "APPEND"
    PROVE  Target(s) \in Range(me[s].todo)
<1>1. me[s].todo \in Seq(Item) /\ me[s].todo # <<>>
  BY Zenon DEF Sound, TypeOK, Locals, Local, Fits, Verb
<1> QED
  BY <1>1, HeadAndTail DEF Target

(* The session that moves is still told what it acts on. *)
LEMMA ToldCarried ==
    ASSUME Sound, Told, NEW s \in Sessions, Does(s), Verb(s) \in Deleting, Carries(s)
    PROVE  ToldTo(s)'
<1>1. cmd' = cmd /\ misled \subseteq misled' /\ ToldTo(s)
  BY HistoryGrows DEF Told
<1>2. ASSUME Verb(s) = "MOVE", me'[s].pc \in {"lock", "insert"},
             <<s, Head(me'[s].todo).uid>> \notin misled'
      PROVE  me'[s].new.msg = Head(me'[s].todo).msg
  <2>1. me'[s].todo = me[s].todo /\ ~Misled(s, Target(s))
    BY <1>1, <1>2, Zenon DEF Carries, Misled, Target
  <2>2. Target(s) \in Range(me[s].todo)
    <3>1. me[s].todo \in Seq(Item) /\ me[s].todo # <<>>
      BY <1>1, <1>2, <2>1, Zenon DEF Does, Sound, TypeOK, Locals, Local, Fits, Listing, Verb
    <3> QED
      BY <3>1, HeadAndTail DEF Target
  <2> QED
    BY <1>1, <1>2, <2>1, <2>2, Zenon DEF Carries, ToldTo, Target
<1>3. Range(me'[s].todo) \subseteq Range(me[s].todo)
  BY Zenon DEF Carries
<1>4. /\ \A x \in Range(me'[s].todo) : <<s, x.uid>> \notin misled' =>
            \A r \in rows' : r.box = Box(s) /\ r.uid = x.uid => r.msg = x.msg
      /\ Verb(s) \in Expunging => \A x \in Range(me'[s].todo) : x.msg \in struck'
  BY <1>3, ToldKept
<1> QED
  BY <1>1, <1>2, <1>4, Zenon DEF ToldTo, Misled, In, Box, Verb, Target

(* Told is kept by every step, of this session and of the others. *)
LEMMA ToldStep ==
    ASSUME Sound, Told, NEW s \in Sessions, Does(s)
    PROVE  Told'
<1>1. cmd' = cmd /\ misled \subseteq misled'
  BY HistoryGrows, Zenon
<1>2. ASSUME NEW t \in Sessions, Verb(t) \in Deleting, t # s PROVE ToldTo(t)'
  <2>1. me'[t] = me[t] /\ ToldTo(t)
    BY <1>2, Zenon DEF Does, Alone, Told
  <2>2. /\ \A x \in Range(me'[t].todo) : <<t, x.uid>> \notin misled' =>
              \A r \in rows' : r.box = Box(t) /\ r.uid = x.uid => r.msg = x.msg
        /\ Verb(t) \in Expunging => \A x \in Range(me'[t].todo) : x.msg \in struck'
    BY <1>2, <2>1, ToldKept
  <2> QED
    BY <1>1, <2>1, <2>2, Zenon DEF ToldTo, Misled, In, Box, Verb, Target
<1>3. ASSUME Verb(s) \in Deleting PROVE ToldTo(s)'
  <2>1. CASE Begin(s)
    BY <1>3, <2>1, ToldBegin
  <2>2. CASE ~Begin(s)
    BY <1>3, <2>2, DeleterCarries, EndCarries, ToldCarried DEF Does, Quits
  <2> QED
    BY <2>1, <2>2
<1> QED
  BY <1>1, <1>2, <1>3 DEF Told, Verb

(* A new row is safe: a session that has listed its uid is misled. *)
LEMMA NewSafe ==
    ASSUME Sound, NEW s \in Sessions, Does(s), Insert(s)
    PROVE  \E e \in rows' : e = Entry(me[s].new) /\ Safe(e)'
<1>1. PICK n : n = me[s].new
  BY Zenon
<1>2. /\ rows' = rows \cup {Entry(n)} /\ Entry(n).box = n.box /\ Entry(n).uid = n.uid
      /\ Stays(s, IF Verb(s) = "APPEND" THEN "refresh" ELSE "copied")
  BY <1>1, InsertMoves
<1>3. cmd' = cmd /\ misled' = misled \cup Surprised(n)
  BY <1>1, Zenon DEF Insert
<1>4. PICK e \in rows' : e = Entry(n)
  BY <1>2, Zenon
<1>5. ASSUME NEW t \in Sessions, Leaves(t, e)' PROVE FALSE
  <2>1. me'[t].todo = me[t].todo
    BY <1>2 DEF Stays, Same, Moved
  <2>2. /\ Verb(t) = "MOVE" /\ me'[t].pc \in Gone /\ Box(t) = n.box
        /\ Head(me[t].todo).uid = n.uid /\ <<t, n.uid>> \notin misled'
    BY <1>2, <1>3, <1>4, <1>5, <2>1, Zenon DEF Leaves, Box, Verb, Target, Misled
  <2>3. me[t].todo # <<>> /\ me[t].todo \in Seq(Item)
    BY <1>3, <2>1, <2>2, Zenon DEF Does, Sound, TypeOK, Locals, Local, Fits, Listing, Gone, Verb
  <2>4. Head(me[t].todo) \in Range(me[t].todo)
    BY <2>3, HeadAndTail, Zenon
  <2>5. <<t, n.uid>> \in Surprised(n)
    BY <2>2, <2>4, Zenon DEF Surprised
  <2> QED
    BY <1>3, <2>2, <2>5, Zenon
<1> QED
  BY <1>1, <1>4, <1>5 DEF Safe

(* Whoever goes on leaves no other message than before, unless it has just *)
(* copied it.                                                              *)
LEMMA LeavesAsBefore ==
    ASSUME Sound, NEW s \in Sessions, Does(s), ~Insert(s), NEW q \in rows,
           NEW p, p.box = q.box, p.uid = q.uid, NEW t \in Sessions, Leaves(t, p)'
    PROVE  Leaves(t, q)
<1>1. cmd' = cmd /\ misled \subseteq misled'
  BY HistoryGrows, Zenon
<1>2. /\ Verb(t) = "MOVE" /\ me'[t].pc \in Gone /\ Box(t) = q.box
      /\ Head(me'[t].todo).uid = q.uid /\ ~Misled(t, q)
  BY <1>1, Zenon DEF Leaves, Box, Verb, Target, Misled
<1>3. CASE t # s
  BY <1>2, <1>3 DEF Does, Alone, Leaves, Target
<1>4. CASE t = s
  <2>1. Act(s)
    BY <1>2, <1>4, Zenon DEF Does, Quits, Ends, Moved, Gone
  <2>2. ~Begin(s)
    <3>1. ASSUME NEW S, NEW turns, Begins(s, S, turns) PROVE FALSE
      BY <1>2, <1>4, <3>1, Zenon DEF Begins, Moved, Gone
    <3> QED
      BY <3>1, BeginMoves, Zenon
  <2>3. Carries(s)
    BY <1>2, <1>4, <2>1, <2>2, DeleterCarries DEF Deleting
  <2>4. me'[s].todo = me[s].todo /\ (me[s].pc \in Gone \/ ~Has(Box(s), Target(s).uid))
    BY <1>2, <1>4, <2>3, Zenon DEF Carries
  <2>5. Has(Box(s), Target(s).uid)
    BY <1>2, <1>4, <2>4, Zenon DEF Has, In, Target
  <2> QED
    BY <1>2, <1>4, <2>4, <2>5, Zenon DEF Leaves, Target
<1> QED
  BY <1>3, <1>4

(* An insertion of a copy makes up for the safe row that it leaves. *)
LEMMA InsertKeeps ==
    ASSUME Sound, Told, NEW s \in Sessions, Does(s), Insert(s), NEW q \in rows, Safe(q)
    PROVE  \E p \in rows' : p.msg = q.msg /\ Safe(p)'
<1>1. /\ rows' = rows \cup {Entry(me[s].new)} /\ Entry(me[s].new).msg = me[s].new.msg
      /\ Same(s) /\ At(s, "insert")
  BY InsertMoves, Zenon DEF Insert, Stays
<1>2. SUFFICES ASSUME NEW t \in Sessions, Leaves(t, q)' PROVE q.msg = me[s].new.msg
  BY <1>1, NewSafe, Zenon DEF Safe
<1>3. cmd' = cmd /\ misled \subseteq misled'
  BY HistoryGrows, Zenon
<1>4. /\ Verb(t) = "MOVE" /\ me'[t].pc \in Gone /\ Box(t) = q.box
      /\ Head(me'[t].todo).uid = q.uid /\ ~Misled(t, q)
  BY <1>2, <1>3, Zenon DEF Leaves, Box, Verb, Target, Misled
<1>5. t = s
  BY <1>4, Zenon DEF Does, Alone, Safe, Leaves, Target
<1>6. Target(s).uid = q.uid /\ Target(s) \in Range(me[s].todo) /\ ~Misled(s, Target(s))
  BY <1>1, <1>4, <1>5, TargetListed, Zenon DEF Same, Target, At, Listing, Misled
<1>7. ToldTo(s)
  BY <1>4, <1>5 DEF Told, Deleting
<1> QED
  BY <1>1, <1>4, <1>5, <1>6, <1>7, Zenon DEF ToldTo, In, At

(* A deletion takes a safe row only of a message that is excused. *)
LEMMA DeleteExcused ==
    ASSUME Sound, Told, NEW s \in Sessions, DeleteRow(s), NEW q \in rows, Safe(q), q \notin rows'
    PROVE  Excused(q.msg)'
<1>1. PICK r \in In(Box(s)) :
          /\ r.uid = Target(s).uid /\ rows' = rows \ {r}
          /\ mistaken' = IF <<s, r.uid>> \in misled THEN mistaken \cup {r.msg} ELSE mistaken
  BY DeleteRowMoves, Zenon
<1>2. /\ Verb(s) \in Deleting /\ Verb(s) # "APPEND" /\ me[s].pc \in Listing /\ me[s].pc \in Gone
      /\ struck' = struck /\ q = r
  BY <1>1, DeleteRowMoves, Zenon DEF DeleteRow, At, Gone
<1>3. CASE <<s, r.uid>> \in misled
  BY <1>1, <1>2, <1>3, Zenon DEF Excused
<1>4. CASE <<s, r.uid>> \notin misled
  <2>1. Verb(s) \in Expunging
    BY <1>1, <1>2, <1>4, Zenon DEF Safe, Leaves, Misled, Deleting, In
  <2>2. Target(s) \in Range(me[s].todo) /\ ToldTo(s)
    BY <1>2, TargetListed, Zenon DEF Told
  <2> QED
    BY <1>1, <1>2, <1>4, <2>1, <2>2, Zenon DEF ToldTo, Misled, Excused
<1> QED
  BY <1>3, <1>4, Zenon

(* Of a safe row's message there is a safe row after a step, or the        *)
(* message is excused.                                                     *)
LEMMA SafeStays ==
    ASSUME Sound, Told, NEW s \in Sessions, Does(s), NEW q \in rows, Safe(q)
    PROVE  Excused(q.msg)' \/ \E p \in rows' : p.msg = q.msg /\ Safe(p)'
<1>1. CASE Insert(s)
  BY <1>1, InsertKeeps, Zenon
<1>2. CASE ~Insert(s)
  <2>1. ASSUME NEW p \in rows', p.box = q.box, p.uid = q.uid PROVE Safe(p)'
    BY <1>2, <2>1, LeavesAsBefore, Zenon DEF Safe
  <2>2. CASE UpdateRow(s)
    <3>1. /\ Updated(s, q) \in rows' /\ Updated(s, q).box = q.box
          /\ Updated(s, q).uid = q.uid /\ Updated(s, q).msg = q.msg
      BY <2>2, UpdateRowMoves, Zenon
    <3> QED
      BY <2>1, <3>1
  <2>3. CASE q \in rows'
    BY <2>1, <2>3
  <2>4. CASE DeleteRow(s) /\ q \notin rows'
    BY <2>4, DeleteExcused
  <2> QED
    BY <1>2, <2>2, <2>3, <2>4, CalmOr, Zenon
<1> QED
  BY <1>1, <1>2, Zenon

(* Remains is kept by every step. *)
LEMMA RemainsStep ==
    ASSUME Sound, Told, Remains, NEW s \in Sessions, Does(s)
    PROVE  Remains'
<1> SUFFICES ASSUME NEW r \in rows'
             PROVE  Excused(r.msg)' \/ \E q \in rows' : q.msg = r.msg /\ Safe(q)'
  BY DEF Remains
<1>1. CASE Insert(s) /\ r = Entry(me[s].new)
  BY <1>1, NewSafe
<1>2. CASE \E q \in rows : q.msg = r.msg
  <2>1. PICK q \in rows : q.msg = r.msg
    BY <1>2, Zenon
  <2>2. CASE Excused(q.msg)
    BY <2>1, <2>2, HistoryGrows, Zenon DEF Excused
  <2>3. CASE ~Excused(q.msg)
    <3>1. PICK p \in rows : p.msg = q.msg /\ Safe(p)
      BY <2>3, Zenon DEF Remains
    <3> QED
      BY <2>1, <3>1, SafeStays
  <2> QED
    BY <2>2, <2>3, Zenon
<1> QED
  BY <1>1, <1>2, RowsFrom

-----------------------------------------------------------------------------
(* A session that works keeps its refreshes until it fails or writes. *)
LEMMA RefreshKept ==
    ASSUME Sound, NEW s \in Sessions, Act(s), ~RefreshWrite(s), NEW b, WillCount(s, b)
    PROVE  WillCount(s, b)' \/ Ends(s, "failed")
<1>1. ~Begin(s)
  BY Zenon DEF WillCount, Active, Begin, At
<1>2. ~QueueRest(s)
  <2> SUFFICES ASSUME QueueRest(s) PROVE FALSE
    OBVIOUS
  <2>1. me[s].fresh = <<>>
    BY Zenon DEF QueueRest, At, Sound, Local, Fits
  <2> QED
    BY <2>1, NoRange DEF WillCount
<1>3. Kept(s) \/ Ends(s, "failed")
  BY <1>1, <1>2, LocksSound, RowsSound, QueuesSound, Zenon DEF Act
<1> QED
  BY <1>3 DEF Kept, WillCount, Active

(* Whoever changes a mailbox has its refresh before it. *)
LEMMA ChangerCounts ==
    ASSUME Sound, NEW s \in Sessions, UpdateRow(s) \/ Insert(s) \/ DeleteRow(s)
    PROVE  WillCount(s, Changed(s))
<1>1. Local(s) /\ me[s].pc \in {"update", "insert", "delete"}
  BY Zenon DEF Sound, UpdateRow, Insert, DeleteRow, At
<1>2. me[s].fresh = Refreshed(cmd[s]) /\ Active(s)
  BY <1>1, Zenon DEF Local, Fits, Listing, Active
<1>3. /\ Box(s) \in Range(Refreshed(cmd[s]))
      /\ Verb(s) \in Copying => cmd[s].to \in Range(Refreshed(cmd[s]))
  BY DEF Refreshed, Range, Box, Verb
<1>4. Changed(s) = Box(s) \/ (Verb(s) \in Copying /\ Changed(s) = cmd[s].to)
  BY <1>1, Zenon DEF Changed, Local, Fits, At, Verb, Box
<1> QED
  BY <1>2, <1>3, <1>4 DEF WillCount

(* A session that failed stays so. *)
LEMMA FailedStays ==
    ASSUME NEW s \in Sessions, Does(s), Failed
    PROVE  Failed'
<1>1. CASE Quits(s)
  BY <1>1, Zenon DEF Quits, Ends, Moved, Failed, At
<1>2. CASE Act(s)
  <2>1. ~At(s, "failed")
    BY <1>2, Zenon DEF Act, Begin, UpdateLock, UpdateRow, QueueFlags, CopyRead, Lock, Insert,
       QueueCopy, DeleteFind, DeleteRow, RefreshCount, RefreshWrite, QueueRest, At
  <2> QED
    BY <2>1 DEF Failed, At, Does, Alone
<1> QED
  BY <1>1, <1>2, Zenon DEF Does

(* The write of a refresh. *)
LEMMA WriteCounts ==
    ASSUME Sound, NEW s \in Sessions, Does(s), RefreshWrite(s), NEW b \in Boxes, CountedIn(b)
    PROVE  CountedIn(b)'
<1> DEFINE h == Head(me[s].fresh)
<1>1. /\ TypeOK /\ Local(s) /\ stored \in [Boxes -> Nat] /\ me[s].fresh \in Seq(Boxes)
      /\ me[s].fresh # <<>>
  BY Zenon DEF Sound, TypeOK, Locals, Local, Fits, RefreshWrite, At
<1>2. /\ stored' = [stored EXCEPT ![h] = me[s].count] /\ rows' = rows
      /\ stale' = IF me[s].count = Cardinality(In(h)) THEN stale \ {h} ELSE stale \cup {h}
  BY Zenon DEF RefreshWrite, Store
<1>3. h \in Boxes /\ Range(me[s].fresh) = {h} \cup Range(Tail(me[s].fresh))
  BY <1>1, HeadAndTail, Zenon
<1> HIDE DEF h
<1>4. In(b)' = In(b)
  BY <1>2 DEF In
<1>5. CASE b = h
  BY <1>1, <1>2, <1>3, <1>4, <1>5, Zenon DEF CountedIn
<1>6. CASE b # h
  <2>1. stored'[b] = stored[b] /\ (b \in stale => b \in stale')
    BY <1>1, <1>2, <1>6, Zenon
  <2>2. ASSUME NEW t \in Sessions, t # s, WillCount(t, b) PROVE WillCount(t, b)'
    BY <2>2, Zenon DEF WillCount, Active, Does, Alone
  <2>3. ASSUME WillCount(s, b) PROVE WillCount(s, b)'
    <3>1. b \in Range(Tail(me[s].fresh))
      BY <1>3, <1>6, <2>3 DEF WillCount
    <3>2. Tail(me[s].fresh) # <<>>
      BY <3>1, NoRange, Zenon
    <3>3. Moved(s, "refresh") /\ me'[s].fresh = Tail(me[s].fresh)
      BY <1>1, <3>2, RefreshWriteMoves, Zenon
    <3> QED
      BY <3>1, <3>3, Zenon DEF WillCount, Active, Moved
  <2> QED
    BY <1>4, <2>1, <2>2, <2>3, FailedStays, Zenon DEF CountedIn
<1> QED
  BY <1>5, <1>6

(* Counted is kept by every step. *)
LEMMA CountedStep ==
    ASSUME Sound, Counted, NEW s \in Sessions, Does(s)
    PROVE  Counted'
<1> SUFFICES ASSUME NEW b \in Boxes, CountedIn(b) PROVE CountedIn(b)'
  BY Zenon DEF Counted
<1>1. CASE Ends(s, "failed")
  BY <1>1 DEF CountedIn, Failed, At, Ends, Moved
<1>2. CASE RefreshWrite(s)
  BY <1>2, WriteCounts
<1>3. CASE Act(s) /\ ~Ends(s, "failed") /\ ~RefreshWrite(s)
  <2>1. ASSUME NEW t \in Sessions, WillCount(t, b) PROVE WillCount(t, b)'
    <3>1. CASE t # s
      BY <2>1, <3>1, Zenon DEF WillCount, Active, Does, Alone
    <3>2. CASE t = s
      BY <1>3, <2>1, <3>2, RefreshKept, Zenon
    <3> QED
      BY <3>1, <3>2, Zenon
  <2>2. stored' = stored /\ stale' = stale
    BY <1>3, Zenon DEF Act, Begin, UpdateLock, UpdateRow, QueueFlags, CopyRead, Lock, Insert,
       QueueCopy, DeleteFind, DeleteRow, RefreshCount, QueueRest, boxes, history
  <2>3. CASE In(b)' = In(b)
    BY <2>1, <2>2, <2>3, FailedStays, Zenon DEF CountedIn
  <2>4. CASE In(b)' # In(b)
    <3>1. UpdateRow(s) \/ Insert(s) \/ DeleteRow(s)
      BY <2>4, CalmOr, Zenon DEF In
    <3>2. b = Changed(s)
      BY <2>4, <3>1, RowsSound, Zenon DEF Changes
    <3>3. WillCount(s, b)
      BY <3>1, <3>2, ChangerCounts
    <3> QED
      BY <2>1, <3>3 DEF CountedIn
  <2> QED
    BY <2>3, <2>4
<1> QED
  BY <1>1, <1>2, <1>3 DEF Does, Quits

(* A sync that writes a count that is off puts the mailbox on record. *)
LEMMA CountedTidies ==
    ASSUME Sound, Counted, NEW b \in Boxes, Tidies(b)
    PROVE  Counted'
<1> SUFFICES ASSUME NEW a \in Boxes, CountedIn(a) PROVE CountedIn(a)'
  BY Zenon DEF Counted
<1>1. rows' = rows /\ me' = me /\ stored \in [Boxes -> Nat]
  BY Zenon DEF Tidies, others, Sound, TypeOK
<1>2. In(a)' = In(a) /\ (Failed' <=> Failed) /\ \A s : WillCount(s, a)' <=> WillCount(s, a)
  BY <1>1 DEF In, Failed, At, WillCount, Active
<1>3. CASE stored'[a] = stored[a] /\ (a \in stale => a \in stale')
  BY <1>2, <1>3, Zenon DEF CountedIn
<1>4. CASE ~(stored'[a] = stored[a] /\ (a \in stale => a \in stale'))
  <2>1. PICK n \in Nat : Store(b, n)
    BY <1>4, Zenon DEF Tidies
  <2>2. a = b
    BY <1>1, <1>4, <2>1, Zenon DEF Store
  <2> QED
    BY <1>1, <1>2, <2>1, <2>2, Zenon DEF Store, CountedIn
<1> QED
  BY <1>3, <1>4, Zenon

-----------------------------------------------------------------------------
INSTANCE FiniteSetTheorems

(* A set of numbers has a smallest one. *)
LEMMA MinExists ==
    ASSUME NEW T \in SUBSET Nat, T # {}
    PROVE  \E k \in T : \A j \in T : k <= j
<1>1. PICK k \in T : \A j \in T : <<j, k>> \notin OpToRel(<, Nat)
  BY NatLessThanWellFounded, WFMin, Zenon
<1>2. \A j \in T : ~ (j < k)
  BY <1>1, Zenon DEF OpToRel
<1> QED
  BY <1>2, SMT

(* Finitely many messages have a largest uid: otherwise take a smallest    *)
(* set of messages that has none.                                          *)
LEMMA LargestUid ==
    ASSUME NEW R \in SUBSET Row, IsFiniteSet(R)
    PROVE  \E m \in {r.uid : r \in R} \cup {0} : \A u \in {r.uid : r \in R} \cup {0} : m >= u
<1> DEFINE uids(A) == {r.uid : r \in A} \cup {0}
           Topped(A) == \E m \in uids(A) : \A u \in uids(A) : m >= u
           sizes == {n \in Nat : \E A \in SUBSET R : Cardinality(A) = n /\ ~Topped(A)}
<1>1. SUFFICES ASSUME ~Topped(R) PROVE FALSE
  BY Zenon
<1> HIDE DEF Topped
<1>2. Cardinality(R) \in sizes
  BY <1>1, FS_CardinalityType, Zenon
<1>3. sizes \in SUBSET Nat /\ sizes # {}
  BY <1>2, Zenon
<1>4. PICK n \in sizes : \A j \in sizes : n <= j
  <2> HIDE DEF sizes
  <2> QED
    BY <1>3, MinExists, Zenon
<1>5. PICK A \in SUBSET R : Cardinality(A) = n /\ ~Topped(A)
  BY <1>4, Zenon
<1>6. PICK r \in A : r.uid \in Nat
  <2>1. A # {}
    <3> SUFFICES ASSUME A = {} PROVE FALSE
      BY Zenon
    <3>1. uids(A) = {0}
      BY Zenon
    <3> HIDE DEF uids
    <3> QED
      BY <1>5, <3>1 DEF Topped
  <2> QED
    BY <2>1, Zenon DEF Row
<1>7. IsFiniteSet(A) /\ n \in Nat
  BY <1>4, FS_Subset, Zenon
<1>8. Cardinality(A \ {r}) = n - 1 /\ Cardinality(A \ {r}) \in Nat
  BY <1>5, <1>6, <1>7, FS_RemoveElement, FS_CardinalityType, Zenon
<1>9. Topped(A \ {r})
  <2>1. n - 1 \in sizes \/ Topped(A \ {r})
    BY <1>5, <1>8, Zenon
  <2> QED
    BY <1>4, <1>7, <2>1
<1>10. PICK m \in uids(A \ {r}) : \A u \in uids(A \ {r}) : m >= u
  BY <1>9, Zenon DEF Topped
<1>11. uids(A) = uids(A \ {r}) \cup {r.uid} /\ \A u \in uids(A) : u \in Nat
  BY <1>6 DEF Row
<1> HIDE DEF uids
<1>12. \E k \in {m, r.uid} : \A u \in uids(A) : k >= u
  BY <1>6, <1>10, <1>11
<1>13. m \in uids(A) /\ r.uid \in uids(A)
  BY <1>10, <1>11
<1> QED
  BY <1>5, <1>12, <1>13, Zenon DEF Topped

(* The facts about finite sets, from the library's. *)
LEMMA FiniteFactsHold == FiniteFacts
<1>1. ASSUME NEW S, NEW T, NEW f \in [S -> T], IsFiniteSet(S), \A y \in T : \E x \in S : f[x] = y
      PROVE  IsFiniteSet(T)
  <2>1. f \in Surjection(S, T)
    BY <1>1, Zenon DEF Surjection
  <2> QED
    BY <1>1, <2>1, FS_Surjection
<1>2. ASSUME NEW S, IsFiniteSet(S)
      PROVE  Cardinality(S) \in Nat /\ (S = {} => Cardinality(S) = 0)
  BY <1>2, FS_CardinalityType, FS_EmptySet
<1>3. ASSUME NEW S, NEW T \in SUBSET S, IsFiniteSet(S) PROVE IsFiniteSet(T)
  BY <1>3, FS_Subset, Zenon
<1>4. ASSUME NEW S, NEW x, IsFiniteSet(S) PROVE IsFiniteSet(S \cup {x})
  BY <1>4, FS_AddElement
<1> QED
  BY <1>1, <1>2, <1>3, <1>4, LargestUid, Zenon DEF FiniteFacts

(* Nothing is locked at first. *)
LEMMA InitSound == Init => Sound
<1> SUFFICES ASSUME Init PROVE Sound
  BY Zenon
<1>1. /\ rows \subseteq Row /\ IsFiniteSet(rows) /\ cmd \in [Sessions -> Commands]
      /\ \A r, q \in rows : r.box = q.box /\ r.uid = q.uid => r = q
  <2>1. PICK w \in Workloads : cmd = w.cmd
    BY Zenon DEF Init
  <2>2. cmd \in [Sessions -> Commands]
    BY <2>1, CommandsAssumption, Zenon
  <2> QED
    BY <2>2, CommandsAssumption, Zenon DEF Init
<1>2. me \in [Sessions -> Locals] /\ \A s \in Sessions : me[s] = Outside("idle")
  BY DEF Init, Outside, Locals, Drafts, Unset, Points
<1>3. ASSUME NEW b \in Boxes PROVE Cardinality(In(b)) \in Nat /\ top[b] \in Nat
  <2> DEFINE uids == {r.uid : r \in In(b)} \cup {0}
  <2>1. In(b) \in SUBSET Row /\ IsFiniteSet(In(b)) /\ \A u \in uids : u \in Nat
    BY <1>1, FS_Subset DEF In, Row
  <2>2. \E m \in uids : \A u \in uids : m >= u
    BY <2>1, LargestUid, Zenon
  <2>3. top[b] = Max(uids)
    BY DEF Init
  <2> HIDE DEF uids
  <2>4. Max(uids) \in uids
    BY <2>2, Zenon DEF Max
  <2> QED
    BY <2>1, <2>3, <2>4, FS_CardinalityType, Zenon
<1>4. TypeOK
  BY <1>1, <1>2, <1>3, Zenon DEF Init, TypeOK
<1>5. \A s \in Sessions : me[s].pc = "idle" /\ me[s].listed = <<>>
  BY <1>2 DEF Outside
<1>6. \A s \in Sessions : Local(s)
  BY <1>5, Zenon DEF Local, Fits, Listing
<1>7. Locked
  BY <1>5, Zenon DEF Locked, Holds, At
<1> QED
  BY <1>4, <1>6, <1>7, FiniteFactsHold DEF Sound

(* Every reachable state is sound: its tables are well-formed, a mailbox   *)
(* and a message have at most one session that locked them, and that       *)
(* session's modseq and uid are new.                                       *)
THEOREM LocksHold == Spec => [](Sound /\ Syncing)
<1>1. Init => Sound /\ Syncing
  <2>1. Init => Syncing
    BY DEF Init, Syncing, Resting
  <2> QED
    BY <2>1, InitSound
<1>2. Sound /\ Syncing /\ [Next]_vars => (Sound /\ Syncing)'
  BY SoundStep, SyncingStep
<1> QED
  BY <1>1, <1>2, PTL DEF Spec

(* Between two syncs no two changes of a mailbox have the same modseq,     *)
(* whatever the sessions do at once: the modseq a transaction chose is     *)
(* still the next one when it commits, because it holds the mailbox, and   *)
(* nothing but a sync lowers it.                                           *)
THEOREM ModseqsRise == Spec => ModseqRises
<1>1. ASSUME Sound, Syncing, [Next]_vars
      PROVE  \A b \in Boxes : /\ In(b)' # In(b) => highest'[b] > highest[b]
                              /\ highest'[b] < highest[b] => sync'[b] # sync[b]
  <2>1. highest \in [Boxes -> Nat]
    BY <1>1, Zenon DEF Sound, TypeOK
  <2>2. CASE UNCHANGED <<rows, highest>>
    BY <2>1, <2>2 DEF In
  <2>3. ASSUME NEW s \in Sessions, UpdateRow(s) \/ Insert(s) \/ DeleteRow(s), NEW b \in Boxes
        PROVE  highest'[b] >= highest[b] /\ (In(b)' # In(b) => highest'[b] > highest[b])
    BY <1>1, <2>1, <2>3, RowsSound DEF Changes
  <2>4. ASSUME NEW a \in Boxes, Tidies(a), NEW b \in Boxes
        PROVE  In(b)' = In(b) /\ (highest'[b] # highest[b] => sync'[b] # sync[b])
    BY <2>4, Zenon DEF Tidies, others, In
  <2>5. CASE \E s \in Sessions : Does(s)
    <3>1. ASSUME NEW b \in Boxes
          PROVE  highest'[b] >= highest[b] /\ (In(b)' # In(b) => highest'[b] > highest[b])
      BY <2>1, <2>2, <2>3, <2>5, CalmOr DEF In
    <3>2. highest' \in [Boxes -> Nat]
      BY <2>5, Zenon DEF Does, Sound, TypeOK
    <3> QED
      BY <2>1, <3>1, <3>2
  <2>6. CASE \E a \in Boxes : Tidies(a)
    <3>1. PICK a \in Boxes : Tidies(a)
      BY <2>6, Zenon
    <3>2. highest' \in [Boxes -> Nat]
      BY <3>1, Zenon DEF Tidies
    <3> QED
      BY <2>1, <2>4, <3>1, <3>2
  <2> QED
    BY <1>1, <2>2, <2>5, <2>6, Steps, Zenon DEF vars, boxes
<1> QED
  BY <1>1, LocksHold, PTL DEF Spec, ModseqRises

(* A message disappears only where a command deletes it on purpose or is   *)
(* misled about the uid, and no row takes another's place, for any number  *)
(* of sessions and any commands: a MOVE deletes a row only when a row of   *)
(* the same message is left that no other MOVE is about to delete.         *)
THEOREM MessagesKept == Spec => NothingVanishes
<1>1. Init => Told /\ Remains
  <2> SUFFICES ASSUME Init PROVE Told /\ Remains
    BY Zenon
  <2>1. \A s \in Sessions : me[s].pc = "idle" /\ me[s].todo = <<>>
    BY Zenon DEF Init, Outside
  <2> QED
    BY <2>1, NoRange, Zenon DEF Told, ToldTo, Remains, Safe, Leaves, Gone
<1>2. Sound /\ Syncing /\ Told /\ Remains /\ [Next]_vars => (Told /\ Remains)'
  <2>1. CASE UNCHANGED vars \/ \E b \in Boxes : Tidies(b)
    <3>1. UNCHANGED <<rows, cmd, me, struck, misled, mistaken>>
      BY <2>1, Zenon DEF vars, history, Tidies, others
    <3>2. Told => Told'
      <4>1. \A s, x : /\ Verb(s)' = Verb(s) /\ Box(s)' = Box(s) /\ Target(s)' = Target(s)
                      /\ (Misled(s, x)' <=> Misled(s, x))
        BY <3>1 DEF Verb, Box, Target, Misled
      <4>2. ASSUME NEW s, ToldTo(s) PROVE ToldTo(s)'
        BY <3>1, <4>1, <4>2 DEF ToldTo, In
      <4> QED
        BY <4>1, <4>2, Zenon DEF Told
    <3>3. Remains => Remains'
      BY <3>1, Zenon DEF Remains, Safe, Excused, Leaves, Verb, Box, Target, Misled
    <3> QED
      BY <3>2, <3>3, Zenon
  <2> QED
    BY <2>1, Steps, ToldStep, RemainsStep, Zenon
<1>3. ASSUME Sound, Syncing, Told, Remains, [Next]_vars
      PROVE  \A r \in rows : /\ \/ \E q \in rows' : q.msg = r.msg
                                \/ r.msg \in struck' \cup mistaken'
                             /\ \A q \in rows' : <<q.box, q.uid>> = <<r.box, r.uid>> => q.msg = r.msg
  <2>1. ASSUME NEW s \in Sessions, Does(s), NEW r \in rows
        PROVE  (\E q \in rows' : q.msg = r.msg) \/ r.msg \in struck' \cup mistaken'
    <3>1. CASE Excused(r.msg)
      BY <2>1, <3>1, HistoryGrows, Zenon DEF Excused
    <3>2. CASE ~Excused(r.msg)
      <4>1. PICK p \in rows : p.msg = r.msg /\ Safe(p)
        BY <1>3, <3>2, Zenon DEF Remains
      <4> QED
        BY <1>3, <2>1, <4>1, SafeStays, Zenon DEF Excused
    <3> QED
      BY <3>1, <3>2, Zenon
  <2>2. ASSUME NEW s \in Sessions, Does(s), NEW r \in rows,
               NEW q \in rows', q.box = r.box, q.uid = r.uid
        PROVE  q.msg = r.msg
    <3>1. CASE \E p \in rows : p.box = q.box /\ p.uid = q.uid /\ p.msg = q.msg
      BY <1>3, <2>2, <3>1, Zenon DEF Sound, TypeOK
    <3>2. CASE Insert(s) /\ q = Entry(me[s].new)
      <4>1. /\ \A p \in In(me[s].new.box) : p.uid < me[s].new.uid
            /\ q.box = me[s].new.box /\ q.uid = me[s].new.uid
        BY <1>3, <3>2, InsertMoves, Zenon
      <4>2. r.uid < r.uid /\ r.uid \in Nat
        BY <1>3, <2>2, <4>1, Zenon DEF In, Sound, TypeOK, Row
      <4> QED
        BY <4>2
    <3> QED
      BY <1>3, <2>2, <3>1, <3>2, RowsFrom, Zenon
  <2>3. CASE UNCHANGED vars \/ \E b \in Boxes : Tidies(b)
    <3>1. rows' = rows
      BY <2>3, Zenon DEF vars, Tidies, others
    <3> QED
      BY <1>3, <3>1 DEF Sound, TypeOK
  <2> QED
    BY <1>3, <2>1, <2>2, <2>3, Steps, Zenon
<1> QED
  BY <1>1, <1>2, <1>3, LocksHold, PTL DEF Spec, NothingVanishes

(* When the commands are over, exists_count is the number of messages,     *)
(* unless a command failed, a refresh was overtaken or a sync wrote the    *)
(* count last: every change is made by a session that still has its        *)
(* refresh of that mailbox to do.                                          *)
THEOREM CountsAgree == Spec => []CountsFollow
<1>1. Init => Counted
  BY Zenon DEF Init, Counted, CountedIn
<1>2. Sound /\ Syncing /\ Counted /\ [Next]_vars => Counted'
  <2>1. CASE UNCHANGED vars
    BY <2>1, Zenon DEF vars, boxes, history, Counted, CountedIn, In, Failed, At, WillCount, Active
  <2> QED
    BY <2>1, Steps, CountedStep, CountedTidies, Zenon
<1>3. Counted => CountsFollow
  BY DEF Counted, CountedIn, WillCount, CountsFollow, Quiet
<1> QED
  BY <1>1, <1>2, <1>3, LocksHold, PTL DEF Spec
=============================================================================
