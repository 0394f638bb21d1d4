-------------------------- MODULE ImapSessionProofs --------------------------
(***************************************************************************)
(* For any number of connections, accounts, mailboxes and users without    *)
(* account: CLOSE and EXPUNGE stay within the account of the session, the  *)
(* gauge counts the sessions that are logged in, and rows of sessions are  *)
(* left open only by failures of the database.                             *)
(***************************************************************************)
EXTENDS ImapSession, FiniteSetTheorems, TLAPS

(* What the argument needs of the types. *)
Shape ==
    /\ who \in [Conns -> Users \cup {None}] /\ joining \in [Conns -> Users \cup {None}]
    /\ snapshot \in [Conns -> SUBSET [account : Accounts \cup {None}, id : Nat]]
    /\ mailboxes \subseteq [id : Nat \ {0}, account : Accounts, name : Names]
    /\ nextId \in Nat \ {0}

(* An id is given out once and never changes its account. *)
IdsGivenOnce ==
    /\ \A b \in mailboxes : b.id < nextId
    /\ \A b, d \in mailboxes : b.id = d.id => b.account = d.account

(* The mailbox a session remembers by its id, if it still exists, belongs  *)
(* to the account the session is logged in to now.                         *)
SelectionOwned ==
    \A c \in Conns : \A s \in snapshot[c] :
        /\ s.id < nextId
        /\ \A b \in mailboxes : b.id = s.id => b.account = who[c]

(* The strengthening that makes ExpungesOwn inductive. *)
IInv == Shape /\ IdsGivenOnce /\ SelectionOwned /\ ExpungesOwn

-----------------------------------------------------------------------------
(* A step that leaves the mailboxes, the logins and the history alone and  *)
(* at most drops selections keeps IInv.                                    *)
LEMMA DroppingKeeps ==
    ASSUME IInv, UNCHANGED <<who, joining, table, expunged>>,
           NEW c \in Conns,
           snapshot' = snapshot \/ snapshot' = [snapshot EXCEPT ![c] = {}]
    PROVE  IInv'
BY DEF IInv, Shape, IdsGivenOnce, SelectionOwned, ExpungesOwn, table

(* Expunging a mailbox the session owns keeps the history clean. *)
LEMMA ExpungingKeeps ==
    ASSUME ExpungesOwn, NEW c \in Conns, NEW id, Expunging(c, id),
           \A b \in mailboxes : b.id = id => b.account = who[c]
    PROVE  ExpungesOwn'
BY DEF ExpungesOwn, Expunging

(* Initially nothing is selected and nothing was expunged. *)
LEMMA InitKeeps == Init => IInv
BY DEF Init, IInv, Shape, IdsGivenOnce, SelectionOwned, ExpungesOwn

(* activate_authenticated_session changes the account of the session only  *)
(* as it forgets what the session had selected.                            *)
LEMMA CreateSessionKeeps ==
    ASSUME IInv, NEW c \in Conns, CreateSession(c)
    PROVE  IInv'
BY DEF IInv, Shape, IdsGivenOnce, SelectionOwned, ExpungesOwn, CreateSession, Enter, Deselect, table

(* SELECT remembers a mailbox of the account, or the placeholder, whose id *)
(* no mailbox has.                                                         *)
LEMMA SelectKeeps ==
    ASSUME IInv, NEW c \in Conns, NEW n \in Names, NEW x \in BOOLEAN, Select(c, n, x)
    PROVE  IInv'
<1> USE DEF table, login
<1>1. PICK b \in (IF HasAccount(c) THEN Find(who[c], n) ELSE {[account |-> None, id |-> 0]}) :
           snapshot' = [snapshot EXCEPT ![c] = {[account |-> b.account, id |-> b.id]}]
  BY DEF Select
<1>2. UNCHANGED <<who, joining, mailboxes, nextId, expunged>>
  BY DEF Select
<1>3. /\ b.id \in Nat /\ b.id < nextId /\ b.account \in Accounts \cup {None}
      /\ \A d \in mailboxes : d.id = b.id => d.account = who[c]
  <2>1. CASE HasAccount(c)
    BY <2>1 DEF IInv, Shape, IdsGivenOnce, Find
  <2>2. CASE ~HasAccount(c)
    <3>1. b.id = 0 /\ b.account = None
      BY <2>2
    <3>2. \A d \in mailboxes : d.id # 0
      BY DEF IInv, Shape
    <3> QED
      BY <3>1, <3>2 DEF IInv, Shape
  <2> QED
    BY <2>1, <2>2
<1>4. Shape'
  <2>1. {[account |-> b.account, id |-> b.id]} \in SUBSET [account : Accounts \cup {None}, id : Nat]
    BY <1>3
  <2> QED
    BY <1>1, <1>2, <2>1 DEF IInv, Shape
<1>5. SelectionOwned'
  BY <1>1, <1>2, <1>3 DEF IInv, Shape, SelectionOwned
<1> QED
  BY <1>2, <1>4, <1>5 DEF IInv, IdsGivenOnce, ExpungesOwn

(* CLOSE expunges by the id it remembers. *)
LEMMA CloseKeeps ==
    ASSUME IInv, NEW c \in Conns, Close(c) \/ CloseFails(c)
    PROVE  IInv'
<1>1. ExpungesOwn'
  <2>1. CASE UNCHANGED expunged
    BY <2>1 DEF IInv, ExpungesOwn
  <2>2. CASE \E s \in snapshot[c] : Expunging(c, s.id)
    BY <2>2, ExpungingKeeps DEF IInv, SelectionOwned
  <2> QED
    BY <2>1, <2>2 DEF Close, CloseFails
<1>2. /\ UNCHANGED <<who, joining, mailboxes, nextId>>
      /\ snapshot' = [snapshot EXCEPT ![c] = {}]
  BY DEF Close, CloseFails, Deselect, EndLoop, login, table
<1> QED
  BY <1>1, <1>2 DEF IInv, Shape, IdsGivenOnce, SelectionOwned

(* EXPUNGE looks its mailbox up among those of the account. *)
LEMMA ExpungeKeeps ==
    ASSUME IInv, NEW c \in Conns, Expunge(c)
    PROVE  IInv'
<1>1. PICK b \in Find(who[c], name[c]) : Expunging(c, b.id)
  BY DEF Expunge
<1>2. ExpungesOwn'
  BY <1>1, ExpungingKeeps DEF IInv, IdsGivenOnce, Find
<1>3. UNCHANGED <<who, joining, snapshot, mailboxes, nextId>>
  BY DEF Expunge, login, selection, table
<1> QED
  BY <1>2, <1>3 DEF IInv, Shape, IdsGivenOnce, SelectionOwned

(* CREATE takes an id no session remembers; DELETE and RENAME change no    *)
(* account.                                                                *)
LEMMA TableKeeps ==
    ASSUME IInv, NEW c \in Conns, NEW n \in Names, NEW new \in Names,
           Create(c, n) \/ Delete(c, n) \/ Rename(c, n, new)
    PROVE  IInv'
<1> USE DEF login, selection
<1>1. CASE Create(c, n)
  BY <1>1 DEF Create, HasAccount, IInv, Shape, IdsGivenOnce, SelectionOwned, ExpungesOwn
<1>2. CASE Delete(c, n)
  BY <1>2 DEF Delete, IInv, Shape, IdsGivenOnce, SelectionOwned, ExpungesOwn
<1>3. CASE Rename(c, n, new)
  <2>1. \A b \in mailboxes' :
            \E d \in mailboxes : b.id = d.id /\ b.account = d.account /\ b.name \in Names
                                 /\ b \in [id : Nat \ {0}, account : Accounts, name : Names]
    BY <1>3 DEF Rename, Find, IInv, Shape
  <2>2. UNCHANGED <<who, joining, snapshot, nextId, expunged>>
    BY <1>3 DEF Rename
  <2> QED
    BY <2>1, <2>2 DEF IInv, Shape, IdsGivenOnce, SelectionOwned, ExpungesOwn
<1> QED
  BY <1>1, <1>2, <1>3

(* Logging in only sets joining until the session is recorded. *)
LEMMA ActivateKeeps ==
    ASSUME IInv, NEW c \in Conns, NEW u \in Users, Activate(c, u)
    PROVE  IInv'
BY DEF Activate, IInv, Shape, IdsGivenOnce, SelectionOwned, ExpungesOwn, selection, table

(* The end of a connection forgets its login with what it had selected. *)
LEMMA LeaveKeeps ==
    ASSUME IInv, NEW c \in Conns, Leave(c)
    PROVE  IInv'
BY DEF Leave, Deselect, IInv, Shape, IdsGivenOnce, SelectionOwned, ExpungesOwn, table

(* Every step keeps IInv. *)
LEMMA StepKeeps == IInv /\ [Next]_vars => IInv'
<1> SUFFICES ASSUME IInv, [Next]_vars PROVE IInv'
  OBVIOUS
<1>1. CASE UNCHANGED vars
  BY <1>1 DEF vars, login, selection, table, IInv, Shape, IdsGivenOnce, SelectionOwned, ExpungesOwn
<1>2. ASSUME NEW c \in Conns, NEW b \in BOOLEAN, Connect(c, b) PROVE IInv'
  BY <1>2, DroppingKeeps DEF Connect, login, selection
<1>3. ASSUME NEW c \in Conns, Starttls(c) PROVE IInv'
  BY <1>3, DroppingKeeps DEF Starttls, login, selection
<1>4. ASSUME NEW c \in Conns, NEW u \in Users, Login(c, u) \/ Authenticate(c, u) PROVE IInv'
  BY <1>4, ActivateKeeps DEF Login, Authenticate
<1>5. ASSUME NEW c \in Conns, Unselect(c) PROVE IInv'
  BY <1>5, DroppingKeeps, Zenon DEF Unselect, Deselect, login
<1>6. ASSUME NEW c \in Conns, Logout(c) \/ Break(c) PROVE IInv'
  BY <1>6, DroppingKeeps DEF Logout, Break, EndLoop, Deselect, login
<1>7. ASSUME NEW c \in Conns, RecordDisconnected(c) PROVE IInv'
  BY <1>7, DroppingKeeps DEF RecordDisconnected, login, selection
<1> QED
  BY <1>1, <1>2, <1>3, <1>4, <1>5, <1>6, <1>7, CreateSessionKeeps, SelectKeeps, CloseKeeps,
     ExpungeKeeps, TableKeeps, LeaveKeeps DEF Next

(* CLOSE and EXPUNGE expunge only mailboxes of the account the session is  *)
(* logged in to: in every behaviour of any number of connections.          *)
THEOREM OwnMailboxesOnly == Spec => []ExpungesOwn
<1>1. IInv => ExpungesOwn
  BY DEF IInv
<1> QED
  BY InitKeeps, StepKeeps, <1>1, PTL DEF Spec
-----------------------------------------------------------------------------
(* The sessions counted by the flag auth_counted, and those that GaugeExact *)
(* says are to be counted.                                                  *)
Counted == {c \in Conns : counted[c]}
LoggedIn(c) == state[c] # "Logout" /\ (who[c] # None \/ joining[c] # None)

(* The flag auth_counted of a session is set exactly while the session is  *)
(* to be counted, and the gauge is the number of flags.  A login is under  *)
(* way exactly while the session is being recorded, and a session that     *)
(* still takes commands has not logged out.                                *)
Gauging ==
    /\ counted \in [Conns -> BOOLEAN]
    /\ phase \in [Conns -> Phases] /\ state \in [Conns -> States]
    /\ who \in [Conns -> Users \cup {None}] /\ joining \in [Conns -> Users \cup {None}]
    /\ \A c \in Conns : counted[c] <=> LoggedIn(c)
    /\ \A c \in Conns : joining[c] # None <=> phase[c] = "recording"
    /\ \A c \in Conns : phase[c] \in {"ready", "recording"} => state[c] # "Logout"
    /\ \A c \in Conns : phase[c] = "new" => state[c] = "NotAuthenticated"
    /\ gauge = Cardinality(Counted)

(* A set of connections grows or shrinks by one. *)
LEMMA OneMore ==
    ASSUME NEW S \in SUBSET Conns, NEW T, NEW c \in Conns, T = S \cup {c}
    PROVE  /\ Cardinality(S) \in Nat /\ Cardinality(T) \in Nat
           /\ Cardinality(T) = IF c \in S THEN Cardinality(S) ELSE Cardinality(S) + 1
<1>1. IsFiniteSet(S)
  BY SessionAssumption, FS_Subset
<1> QED
  BY <1>1, FS_AddElement, FS_CardinalityType

(* A set of connections shrinks by one. *)
LEMMA OneLess ==
    ASSUME NEW S \in SUBSET Conns, NEW T, NEW c \in Conns, T = S \ {c}
    PROVE  /\ Cardinality(S) \in Nat /\ Cardinality(T) \in Nat
           /\ Cardinality(T) = IF c \in S THEN Cardinality(S) - 1 ELSE Cardinality(S)
<1>1. IsFiniteSet(S)
  BY SessionAssumption, FS_Subset
<1> QED
  BY <1>1, FS_RemoveElement, FS_CardinalityType

(* A step that touches neither logins nor the gauge keeps Gauging, when it *)
(* does not leave the loop of the commands backwards.                      *)
LEMMA GaugeUntouched ==
    ASSUME Gauging, UNCHANGED <<who, counted, joining, gauge>>,
           phase' \in [Conns -> Phases], state' \in [Conns -> States],
           \A d \in Conns :
               /\ phase'[d] = "recording" <=> phase[d] = "recording"
               /\ state'[d] = "Logout" <=> state[d] = "Logout"
               /\ phase'[d] \in {"ready", "recording"} => state'[d] # "Logout"
               /\ phase'[d] = "new" => state'[d] = "NotAuthenticated"
    PROVE  Gauging'
<1>1. Counted' = Counted
  BY DEF Counted
<1> QED
  BY <1>1 DEF Gauging, LoggedIn

(* A login counts the session, unless an earlier one did. *)
LEMMA ActivateGauges ==
    ASSUME Gauging, NEW c \in Conns, NEW u \in Users, Ready(c), Activate(c, u)
    PROVE  Gauging'
<1>1. Counted' = Counted \cup {c} /\ Counted \subseteq Conns
  BY DEF Gauging, Activate, Counted
<1>2. gauge' = Cardinality(Counted')
  BY <1>1, OneMore DEF Gauging, Activate, Counted
<1>3. u # None /\ u \in Users \cup {None}
  BY SessionAssumption
<1> QED
  BY <1>2, <1>3 DEF Gauging, LoggedIn, Activate, Ready, Phases, States

(* The session is counted until the login is recorded, and after. *)
LEMMA CreateSessionGauges ==
    ASSUME Gauging, NEW c \in Conns, CreateSession(c)
    PROVE  Gauging'
<1>1. Counted' = Counted
  BY DEF CreateSession, Enter, Counted
<1> QED
  BY <1>1 DEF Gauging, LoggedIn, CreateSession, Enter, Phases, States

(* LOGOUT and the teardown count down for a session that is counted, and   *)
(* clear its flag.                                                         *)
LEMMA DepartureGauges ==
    ASSUME Gauging, NEW c \in Conns, Logout(c) \/ Leave(c)
    PROVE  Gauging'
<1>1. Counted' = Counted \ {c} /\ Counted \subseteq Conns
  BY DEF Gauging, Logout, Leave, Counted
<1>2. gauge' = Cardinality(Counted')
  BY <1>1, OneLess DEF Gauging, Logout, Leave, Counted
<1>3. CASE Logout(c)
  BY <1>2, <1>3 DEF Gauging, LoggedIn, Logout, EndLoop, Ready, Phases, States
<1>4. CASE Leave(c)
  BY <1>2, <1>4, SessionAssumption DEF Gauging, LoggedIn, Leave, Phases, States
<1> QED
  BY <1>3, <1>4

(* Initially nobody is logged in. *)
LEMMA InitGauges == Init => Gauging
<1> SUFFICES ASSUME Init PROVE Gauging
  OBVIOUS
<1>1. Counted = {}
  BY DEF Init, Counted
<1> QED
  BY <1>1, FS_EmptySet DEF Init, Gauging, LoggedIn, Phases, States

(* Every step keeps Gauging. *)
LEMMA StepGauges == Gauging /\ [Next]_vars => Gauging'
<1> SUFFICES ASSUME Gauging, [Next]_vars PROVE Gauging'
  OBVIOUS
<1>1. CASE UNCHANGED vars
  BY <1>1 DEF vars, login, Gauging, LoggedIn, Counted
<1>2. ASSUME NEW c \in Conns, NEW b \in BOOLEAN, Connect(c, b) PROVE Gauging'
  BY <1>2, GaugeUntouched DEF Connect, login, Gauging, Phases, States
<1>3. ASSUME NEW c \in Conns, NEW u \in Users, Login(c, u) \/ Authenticate(c, u) PROVE Gauging'
  BY <1>3, ActivateGauges DEF Login, Authenticate
<1>4. ASSUME NEW c \in Conns,
             \/ Starttls(c) \/ Unselect(c) \/ Close(c) \/ Expunge(c)
             \/ \E n \in Names, b \in BOOLEAN : Select(c, n, b)
             \/ \E n \in Names : Create(c, n) \/ Delete(c, n)
             \/ \E n, new \in Names : Rename(c, n, new)
      PROVE  Gauging'
  <2>1. /\ phase[c] = "ready" /\ UNCHANGED <<who, counted, joining, gauge, phase>>
        /\ \E s \in States \ {"Logout"} : state' = [state EXCEPT ![c] = s]
    BY <1>4 DEF Starttls, Select, Unselect, Close, Expunge, Create, Delete, Rename, Ready,
                login, Gauging, States
  <2> QED
    BY <2>1, GaugeUntouched DEF Gauging, Phases, States
<1>5. ASSUME NEW c \in Conns, CloseFails(c) \/ Break(c) \/ RecordDisconnected(c) PROVE Gauging'
  <2>1. /\ phase[c] # "recording" /\ UNCHANGED <<who, counted, joining, gauge, state>>
        /\ \E p \in {"closing", "leaving"} : phase' = [phase EXCEPT ![c] = p]
    BY <1>5 DEF CloseFails, Break, RecordDisconnected, EndLoop, Ready, login
  <2> QED
    BY <2>1, GaugeUntouched DEF Gauging, Phases
<1> QED
  BY <1>1, <1>2, <1>3, <1>4, <1>5, CreateSessionGauges, DepartureGauges DEF Next

(* The gauge of authenticated sessions is exact, whatever logins repeat    *)
(* and wherever connections break off.                                     *)
THEOREM GaugeCounts == Spec => []GaugeExact
<1>1. Gauging => GaugeExact
  <2> SUFFICES ASSUME Gauging PROVE GaugeExact
    OBVIOUS
  <2>1. Counted = {c \in Conns : state[c] # "Logout" /\ (who[c] # None \/ joining[c] # None)}
    BY DEF Gauging, Counted, LoggedIn
  <2> QED
    BY <2>1 DEF Gauging, GaugeExact
<1> QED
  BY InitGauges, StepGauges, <1>1, PTL DEF Spec
-----------------------------------------------------------------------------
(* The connections whose row says "connected" and that will not close it:  *)
(* they do not know of the row, or are past the UPDATE.                    *)
Abandoned(c) ==
    sessions[c] = "connected" /\ (~recorded[c] \/ phase[c] \in {"leaving", "ended"})
LeftOpen == {c \in Conns : Abandoned(c)}

(* Every row that is not going to be closed cost a failure. *)
Closing ==
    /\ phase \in [Conns -> Phases] /\ recorded \in [Conns -> BOOLEAN]
    /\ sessions \in [Conns -> {"none", "connected", "disconnected"}]
    /\ failures \in Nat
    /\ Cardinality(LeftOpen) <= failures

(* No more rows are abandoned than were. *)
LEMMA NoneAbandoned ==
    ASSUME Closing, LeftOpen' \subseteq LeftOpen, failures' = failures
    PROVE  Cardinality(LeftOpen') <= failures'
<1>1. IsFiniteSet(LeftOpen)
  BY SessionAssumption, FS_Subset DEF LeftOpen
<1> QED
  BY <1>1, FS_Subset, FS_CardinalityType DEF Closing

(* One row is abandoned, at the cost of a failure. *)
LEMMA OneAbandoned ==
    ASSUME Closing, NEW c \in Conns, LeftOpen' \subseteq LeftOpen \cup {c}, failures' = failures + 1
    PROVE  Cardinality(LeftOpen') <= failures'
<1>1. IsFiniteSet(LeftOpen \cup {c})
  BY SessionAssumption, FS_Subset DEF LeftOpen
<1>2. Cardinality(LeftOpen') <= Cardinality(LeftOpen \cup {c}) /\ Cardinality(LeftOpen') \in Nat
  BY <1>1, FS_Subset, FS_CardinalityType
<1>3. Cardinality(LeftOpen \cup {c}) <= Cardinality(LeftOpen) + 1
      /\ Cardinality(LeftOpen) \in Nat /\ Cardinality(LeftOpen \cup {c}) \in Nat
  <2>1. LeftOpen \in SUBSET Conns
    BY DEF LeftOpen
  <2> QED
    BY <2>1, OneMore
<1> QED
  BY <1>2, <1>3 DEF Closing

(* A step that leaves the rows alone abandons none, unless it takes the    *)
(* connection past the UPDATE.                                             *)
LEMMA RowsUntouched ==
    ASSUME Closing, UNCHANGED <<recorded, sessions, failures>>,
           phase' \in [Conns -> Phases],
           \A d \in Conns : phase'[d] \in {"leaving", "ended"} => phase'[d] = phase[d]
    PROVE  Closing'
<1>1. LeftOpen' \subseteq LeftOpen
  BY DEF LeftOpen, Abandoned
<1> QED
  BY <1>1, NoneAbandoned DEF Closing

(* create_session: an error may come after the row is written. *)
LEMMA CreateSessionCloses ==
    ASSUME Closing, NEW c \in Conns, CreateSession(c)
    PROVE  Closing'
<1>1. /\ phase' \in [Conns -> Phases] /\ recorded' \in [Conns -> BOOLEAN]
      /\ sessions' \in [Conns -> {"none", "connected", "disconnected"}]
      /\ failures' \in Nat
  <2>1. phase' \in [Conns -> Phases] /\ recorded' \in [Conns -> BOOLEAN]
    BY Zenon DEF Closing, CreateSession, Enter, Phases
  <2>2. sessions' \in [Conns -> {"none", "connected", "disconnected"}]
    BY DEF Closing, CreateSession
  <2>3. failures' \in Nat
    BY DEF Closing, CreateSession
  <2> QED
    BY <2>1, <2>2, <2>3
<1>2. CASE failures' = failures + 1
  <2>1. LeftOpen' \subseteq LeftOpen \cup {c}
    BY <1>2 DEF Closing, CreateSession, Enter, LeftOpen, Abandoned
  <2> QED
    BY <1>1, <1>2, <2>1, OneAbandoned DEF Closing
<1>3. CASE failures' # failures + 1
  <2>1. failures' = failures /\ LeftOpen' \subseteq LeftOpen
    BY <1>3 DEF Closing, CreateSession, Enter, LeftOpen, Abandoned
  <2> QED
    BY <1>1, <2>1, NoneAbandoned DEF Closing
<1> QED
  BY <1>2, <1>3

(* record_disconnected closes the row the connection knows of, or fails. *)
LEMMA RecordDisconnectedCloses ==
    ASSUME Closing, NEW c \in Conns, RecordDisconnected(c)
    PROVE  Closing'
<1>1. /\ phase' \in [Conns -> Phases] /\ recorded' \in [Conns -> BOOLEAN]
      /\ sessions' \in [Conns -> {"none", "connected", "disconnected"}]
      /\ failures' \in Nat
  BY DEF Closing, RecordDisconnected, login, Phases
<1>2. CASE failures' = failures + 1
  <2>1. LeftOpen' \subseteq LeftOpen \cup {c}
    BY <1>2 DEF Closing, RecordDisconnected, login, LeftOpen, Abandoned
  <2> QED
    BY <1>1, <1>2, <2>1, OneAbandoned DEF Closing
<1>3. CASE failures' # failures + 1
  <2>1. failures' = failures /\ LeftOpen' \subseteq LeftOpen
    BY <1>3 DEF Closing, RecordDisconnected, login, LeftOpen, Abandoned
  <2> QED
    BY <1>1, <2>1, NoneAbandoned DEF Closing
<1> QED
  BY <1>2, <1>3

(* The end of a connection, whose row was closed or abandoned before. *)
LEMMA LeaveCloses ==
    ASSUME Closing, NEW c \in Conns, Leave(c)
    PROVE  Closing'
<1>1. LeftOpen' \subseteq LeftOpen
  BY DEF Closing, Leave, LeftOpen, Abandoned
<1> QED
  BY <1>1, NoneAbandoned DEF Closing, Leave, Phases

(* Initially there are no rows. *)
LEMMA InitCloses == Init => Closing
<1> SUFFICES ASSUME Init PROVE Closing
  OBVIOUS
<1>1. LeftOpen = {}
  BY DEF Init, LeftOpen, Abandoned
<1> QED
  BY <1>1, FS_EmptySet DEF Init, Closing, Phases

(* Every step keeps Closing. *)
LEMMA StepCloses == Closing /\ [Next]_vars => Closing'
<1> SUFFICES ASSUME Closing, [Next]_vars PROVE Closing'
  OBVIOUS
<1>1. CASE UNCHANGED vars
  BY <1>1 DEF vars, login, Closing, LeftOpen, Abandoned
<1>2. ASSUME NEW c \in Conns,
             \/ \E b \in BOOLEAN : Connect(c, b)
             \/ Starttls(c) \/ Unselect(c) \/ Close(c) \/ Expunge(c)
             \/ \E u \in Users : Login(c, u) \/ Authenticate(c, u)
             \/ \E n \in Names, b \in BOOLEAN : Select(c, n, b)
             \/ \E n \in Names : Create(c, n) \/ Delete(c, n)
             \/ \E n, new \in Names : Rename(c, n, new)
             \/ CloseFails(c) \/ Logout(c) \/ Break(c)
      PROVE  Closing'
  <2>1. /\ UNCHANGED <<recorded, sessions, failures>>
        /\ \/ UNCHANGED phase
           \/ \E p \in {"ready", "recording", "closing"} : phase' = [phase EXCEPT ![c] = p]
    BY <1>2 DEF Connect, Starttls, Unselect, Close, Expunge, Login, Authenticate, Activate, Select,
                Create, Delete, Rename, CloseFails, Logout, Break, EndLoop, login
  <2> QED
    BY <2>1, RowsUntouched DEF Closing, Phases
<1> QED
  BY <1>1, <1>2, CreateSessionCloses, RecordDisconnectedCloses, LeaveCloses DEF Next

(* At most one row per failure of the database says "connected" of a       *)
(* connection that ended.                                                  *)
THEOREM RowsLeftOpen == Spec => []RowsClosed
<1>1. Closing => RowsClosed
  <2> SUFFICES ASSUME Closing PROVE RowsClosed
    OBVIOUS
  <2> DEFINE E == {c \in Conns : phase[c] = "ended" /\ sessions[c] = "connected"}
  <2>1. E \subseteq LeftOpen /\ IsFiniteSet(LeftOpen)
    BY SessionAssumption, FS_Subset DEF LeftOpen, Abandoned
  <2>2. /\ Cardinality(E) <= Cardinality(LeftOpen)
        /\ Cardinality(E) \in Nat /\ Cardinality(LeftOpen) \in Nat
    BY <2>1, FS_Subset, FS_CardinalityType
  <2> QED
    BY <2>2 DEF Closing, RowsClosed
<1> QED
  BY InitCloses, StepCloses, <1>1, PTL DEF Spec
=============================================================================
