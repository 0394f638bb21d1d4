------------------------- MODULE MutationQueueProofs -------------------------
(* Theorems about MutationQueue for every set of workers, accounts and     *)
(* mutations and every value of the bounds.                                *)
EXTENDS MutationQueue, FiniteSetTheorems, TLAPS

(* A counter stays within 0..AttemptCap when the code adds one to it. *)
LEMMA BumpType == \A n \in 0..AttemptCap : Bump(n) \in 0..AttemptCap
BY QueueAssumption DEF Bump

(* retry_delay yields an integer delay for every number of attempts. *)
LEMMA RetryDelayType == ASSUME NEW n \in Nat PROVE RetryDelay(n) \in Int
<1>1. Lesser(n, 10) \in 0..10
  BY DEF Lesser
<1>2. \A k \in 0..10 : 2^k \in Int
  OBVIOUS
<1> QED BY <1>1, <1>2, QueueAssumption DEF RetryDelay, Lesser

(* What list_due_pending_mutations returns: a sequence of the due rows. *)
LEMMA ListingType ==
  ASSUME NEW S \in SUBSET Mutations, NEW s \in Listings(S)
  PROVE  /\ s \in Seq(Mutations)
         /\ {s[i] : i \in 1..Len(s)} = S
         /\ \A i \in 1..Len(s) : s[i] \in S
         /\ \A i, j \in 1..Len(s) : i < j => created[s[i]] < created[s[j]]
<1>1. Cardinality(S) \in Nat
  BY QueueAssumption, FS_Subset, FS_CardinalityType
<1>2. /\ s \in [1..Cardinality(S) -> S]
      /\ {s[i] : i \in DOMAIN s} = S
      /\ InOrder(s)
  BY DEF Listings
<1>3. s \in Seq(Mutations) /\ DOMAIN s = 1..Len(s)
  BY <1>1, <1>2
<1> QED BY <1>2, <1>3 DEF InOrder

(* A worker that is replaying or settling a mutation has one. *)
Busy == \A w \in Workers : pc[w] \in {"apply", "succeed", "fail"} => batch[w] # <<>>

(* Leaving a pass leaves a worker idle, with nothing in hand. *)
LEMMA ReturnShape ==
  ASSUME TypeOK, Busy, NEW w \in Workers, Return(w)
  PROVE  /\ pc' \in [Workers -> Points]
         /\ todo' \in [Workers -> SUBSET Accounts]
         /\ batch' \in [Workers -> Seq(Mutations)]
         /\ snapshot' \in [Workers -> [Mutations -> 0..AttemptCap]]
         /\ Busy'
<1>1. pc' \in [Workers -> Points]
  BY DEF TypeOK, Return, Points
<1>2. todo' \in [Workers -> SUBSET Accounts]
  BY DEF TypeOK, Return
<1>3. batch' \in [Workers -> Seq(Mutations)]
  BY DEF TypeOK, Return
<1>4. snapshot' \in [Workers -> [Mutations -> 0..AttemptCap]]
  BY QueueAssumption DEF TypeOK, Return
<1>5. Busy'
  BY DEF TypeOK, Busy, Return
<1> QED BY <1>1, <1>2, <1>3, <1>4, <1>5

(* Initially the state has its shape. *)
LEMMA ShapeInit == Init => TypeOK /\ Busy
BY QueueAssumption DEF Init, Busy, TypeOK, Statuses, Points

(* Every operation on the table and every step of a worker keeps the shape. *)
LEMMA ShapeStep == TypeOK /\ Busy /\ [Next]_vars => TypeOK' /\ Busy'
<1> SUFFICES ASSUME TypeOK, Busy, [Next]_vars PROVE TypeOK' /\ Busy'
  OBVIOUS
<1>0. Interval \in Nat /\ AttemptCap \in Nat
  BY QueueAssumption
<1>1. ASSUME NEW m \in Mutations, Enqueue(m) PROVE TypeOK' /\ Busy'
  BY <1>1 DEF TypeOK, Busy, Enqueue, Statuses, admin, pass, budget
<1>2. ASSUME NEW m \in Mutations, CascadeDelete(m) PROVE TypeOK' /\ Busy'
  BY <1>2 DEF TypeOK, Busy, CascadeDelete, Statuses, admin, pass
<1>3. ASSUME NEW a \in Accounts, Pause(a) \/ Resume(a) \/ DeleteAccount(a) PROVE TypeOK' /\ Busy'
  BY <1>3 DEF TypeOK, Busy, Pause, Resume, DeleteAccount, Statuses, rows, pass, budget
<1>4. ASSUME NEW w \in Workers, StartPass(w) \/ EndPass(w) \/ SkipAccount(w)
               \/ Connect(w) \/ ConnectFails(w) \/ Logout(w) \/ RowGone(w) \/ Abort(w)
      PROVE TypeOK' /\ Busy'
  <2>1. CASE StartPass(w)
    BY <1>0, <2>1 DEF TypeOK, Busy, StartPass, Goto, Points, rows, admin, budget
  <2>2. CASE SkipAccount(w) \/ Connect(w)
    BY <2>2, Zenon DEF TypeOK, Busy, SkipAccount, Connect, Goto, Points, rows, admin, pass, budget
  <2>3. CASE Logout(w)
    BY <1>0, <2>3 DEF TypeOK, Busy, Logout, Goto, Points, rows, admin, budget
  <2>4. CASE EndPass(w) \/ RowGone(w)
    BY <2>4, ReturnShape, Zenon DEF TypeOK, EndPass, RowGone, rows, admin, budget
  <2>5. CASE ConnectFails(w)
    <3>1. failures' \in Nat
      BY <2>5 DEF TypeOK, ConnectFails
    <3>2. Return(w) /\ UNCHANGED <<rows, effects, admin, timer, aborts, deletes>>
      BY <2>5 DEF ConnectFails
    <3> QED BY <3>1, <3>2, ReturnShape DEF TypeOK, rows, admin
  <2>6. CASE Abort(w)
    <3>1. aborts' \in Nat
      BY <2>6 DEF TypeOK, Abort
    <3>6. timer' \in [Workers -> 0..Interval]
      <4>1. timer' = [timer EXCEPT ![w] = 0] \/ timer' = timer
        BY <2>6 DEF Abort
      <4>2. timer \in [Workers -> 0..Interval] /\ 0 \in 0..Interval
        BY <1>0 DEF TypeOK
      <4> QED BY <4>1, <4>2
    <3>2. Return(w) /\ UNCHANGED <<rows, effects, admin, failures, deletes>>
      BY <2>6 DEF Abort
    <3> QED BY <3>1, <3>2, <3>6, ReturnShape DEF TypeOK, rows, admin
  <2> QED BY <1>4, <2>1, <2>2, <2>3, <2>4, <2>5, <2>6
<1>5. ASSUME NEW w \in Workers, ListDue(w) PROVE TypeOK' /\ Busy'
  <2>1. PICK s \in Listings({m \in Mutations : Due(m, Account(w))}) :
           batch' = [batch EXCEPT ![w] = s]
    BY <1>5, Zenon DEF ListDue
  <2>2. s \in Seq(Mutations)
    BY ListingType
  <2> QED BY <1>5, <2>1, <2>2 DEF TypeOK, Busy, ListDue, Goto, Points, rows, admin, budget
<1>6. ASSUME NEW w \in Workers, Replay(w) \/ ReplayAnswerLost(w) \/ ReplayRefused(w)
      PROVE TypeOK' /\ Busy'
  <2>1. Current(w) \in Mutations
    BY <1>6 DEF TypeOK, Busy, Current, Replay, ReplayAnswerLost, ReplayRefused
  <2>2. Bump(effects[Current(w)]) \in 0..AttemptCap
    BY <2>1, BumpType DEF TypeOK
  <2>3. effects' \in [Mutations -> 0..AttemptCap]
    BY <1>6, <2>2, Zenon DEF TypeOK, Replay, ReplayAnswerLost, ReplayRefused
  <2>4. failures' \in Nat
    BY <1>6 DEF TypeOK, Replay, ReplayAnswerLost, ReplayRefused, budget
  <2> QED BY <1>6, <2>3, <2>4, Zenon DEF TypeOK, Busy, Replay, ReplayAnswerLost, ReplayRefused, Goto,
             Points, rows, admin, pass, budget
<1>7. ASSUME NEW w \in Workers, MarkInFlight(w) \/ MarkSucceeded(w) \/ MarkFailed(w)
      PROVE TypeOK' /\ Busy'
  <2> DEFINE m == Current(w)
             n == Bump(snapshot[w][m])
  <2>1. m \in Mutations /\ batch[w] # <<>>
    <3>1. batch[w] # <<>>
      BY <1>7 DEF Busy, MarkInFlight, MarkSucceeded, MarkFailed
    <3> QED BY <3>1 DEF TypeOK, Current
  <2>2. n \in 0..AttemptCap
    BY <2>1, BumpType, Zenon DEF TypeOK
  <2>3. RetryDelay(n) \in Int
    BY <2>2, RetryDelayType
  <2>4. PICK st \in {"in_flight", "succeeded", "failed"}, wait \in {0, RetryDelay(n)} :
           UpdateRow(w, m, st, wait)
    BY <1>7 DEF MarkInFlight, MarkSucceeded, MarkFailed
  <2> HIDE DEF m, n
  <2>5. /\ attempts' = [attempts EXCEPT ![m] = n]
        /\ delay' = [delay EXCEPT ![m] = wait]
        /\ status' = [status EXCEPT ![m] = st]
        /\ UNCHANGED <<created, inserted>>
    BY <2>4 DEF UpdateRow, n
  <2>6. /\ attempts' \in [Mutations -> 0..AttemptCap]
        /\ delay' \in [Mutations -> Int]
        /\ status' \in [Mutations -> Statuses]
    <3>1. attempts' \in [Mutations -> 0..AttemptCap]
      BY <2>1, <2>2, <2>5 DEF TypeOK
    <3>2. delay' \in [Mutations -> Int]
      BY <2>1, <2>3, <2>5 DEF TypeOK
    <3>3. status' \in [Mutations -> Statuses]
      BY <2>1, <2>5, Zenon DEF TypeOK, Statuses
    <3> QED BY <3>1, <3>2, <3>3
  <2>7. CASE MarkInFlight(w)
    BY <2>1, <2>5, <2>6, <2>7, Zenon DEF TypeOK, Busy, MarkInFlight, Goto, Points, admin, pass, budget
  <2>8. CASE MarkSucceeded(w)
    <3>1. batch' \in [Workers -> Seq(Mutations)]
      BY <2>1, <2>8 DEF TypeOK, MarkSucceeded
    <3>2. Busy'
      BY <2>8 DEF TypeOK, Busy, MarkSucceeded, Goto
    <3>3. pc' \in [Workers -> Points]
      BY <2>8 DEF TypeOK, MarkSucceeded, Goto, Points
    <3> QED BY <2>5, <2>6, <2>8, <3>1, <3>2, <3>3, Zenon DEF TypeOK, MarkSucceeded, admin, budget
  <2>9. CASE MarkFailed(w)
    BY <2>5, <2>6, <2>9, ReturnShape, ZenonT(30) DEF TypeOK, MarkFailed, admin, budget
  <2> QED BY <1>7, <2>7, <2>8, <2>9
<1>8. ASSUME Tick PROVE TypeOK' /\ Busy'
  <2>1. timer' \in [Workers -> 0..Interval]
    BY <1>0, <1>8 DEF TypeOK, Tick, CountDown
  <2>2. delay' \in [Mutations -> Int]
    BY <1>8 DEF TypeOK, Tick, CountDown
  <2> QED BY <1>8, <2>1, <2>2 DEF TypeOK, Busy, Tick, admin, pass, budget
<1>9. CASE UNCHANGED vars
  BY <1>9 DEF TypeOK, Busy, vars, rows, admin, pass, budget
<1> QED BY <1>1, <1>2, <1>3, <1>4, <1>5, <1>6, <1>7, <1>8, <1>9 DEF Next, WorkerStep

(* The table, the admin state and the workers keep their shape. *)
THEOREM TypeCorrect == Spec => []TypeOK
BY ShapeInit, ShapeStep, PTL DEF Spec

-----------------------------------------------------------------------------
(* A worker about to write Succeeded holds a mutation that was carried out. *)
Confirmed ==
    \A w \in Workers : pc[w] = "succeed" => effects[Current(w)] > 0
Honest == TypeOK /\ Busy /\ SucceededWasReplayed /\ Confirmed

(* Every step keeps succeeded rows honest: the status is written only after *)
(* the replay was confirmed, and a confirmed replay is never undone.        *)
LEMMA HonestStep == Honest /\ [Next]_vars => Honest'
<1> SUFFICES ASSUME TypeOK, Busy, SucceededWasReplayed, Confirmed, [Next]_vars
             PROVE  SucceededWasReplayed' /\ Confirmed'
  BY ShapeStep DEF Honest
<1> USE DEF SucceededWasReplayed, Confirmed, Current
<1>1. ASSUME NEW m \in Mutations, Enqueue(m) \/ CascadeDelete(m)
      PROVE SucceededWasReplayed' /\ Confirmed'
  BY <1>1, Zenon DEF TypeOK, Enqueue, CascadeDelete, Statuses, pass
<1>2. ASSUME NEW a \in Accounts, Pause(a) \/ Resume(a) \/ DeleteAccount(a)
      PROVE SucceededWasReplayed' /\ Confirmed'
  BY <1>2, Zenon DEF TypeOK, Pause, Resume, DeleteAccount, rows, pass
<1>3. ASSUME NEW w \in Workers, StartPass(w) \/ EndPass(w) \/ SkipAccount(w)
               \/ Connect(w) \/ ConnectFails(w) \/ ListDue(w) \/ Logout(w)
               \/ RowGone(w) \/ Abort(w)
      PROVE SucceededWasReplayed' /\ Confirmed'
  BY <1>3, ZenonT(30) DEF TypeOK, StartPass, EndPass, SkipAccount, Connect, ConnectFails, ListDue, Logout,
     RowGone, Abort, Return, Goto, rows, pass
<1>4. ASSUME NEW w \in Workers, Replay(w) \/ ReplayAnswerLost(w)
      PROVE SucceededWasReplayed' /\ Confirmed'
  <2>1. Current(w) \in Mutations
    BY <1>4 DEF TypeOK, Busy, Replay, ReplayAnswerLost
  <2>2. effects' = [effects EXCEPT ![Current(w)] = Bump(effects[Current(w)])]
    BY <1>4 DEF Replay, ReplayAnswerLost
  <2>3. Bump(effects[Current(w)]) > 0 /\ Bump(effects[Current(w)]) >= effects[Current(w)]
    <3>1. effects[Current(w)] \in 0..AttemptCap
      BY <2>1, Zenon DEF TypeOK
    <3>2. AttemptCap \in Nat \ {0}
      BY QueueAssumption
    <3> QED BY <3>1, <3>2 DEF Bump
  <2>4. /\ effects'[Current(w)] > 0
        /\ \A m \in Mutations : effects[m] > 0 => effects'[m] > 0
    BY <2>1, <2>2, <2>3 DEF TypeOK
  <2>5. \A v \in Workers : pc[v] = "succeed" => Current(v) \in Mutations
    BY DEF TypeOK, Busy
  <2> QED BY <1>4, <2>4, <2>5, Zenon DEF TypeOK, Replay, ReplayAnswerLost, Goto, rows, pass
<1>5. ASSUME NEW w \in Workers, ReplayRefused(w) \/ MarkInFlight(w) \/ MarkFailed(w)
      PROVE SucceededWasReplayed' /\ Confirmed'
  BY <1>5, ZenonT(30) DEF TypeOK, ReplayRefused, MarkInFlight, MarkFailed, UpdateRow, Return, Goto,
     rows, pass
<1>6. ASSUME NEW w \in Workers, MarkSucceeded(w)
      PROVE SucceededWasReplayed' /\ Confirmed'
  BY <1>6 DEF TypeOK, MarkSucceeded, UpdateRow, Goto
<1>7. ASSUME Tick \/ UNCHANGED vars PROVE SucceededWasReplayed' /\ Confirmed'
  BY <1>7 DEF TypeOK, Tick, vars, rows, pass
<1> QED BY <1>1, <1>2, <1>3, <1>4, <1>5, <1>6, <1>7 DEF Next, WorkerStep

(* However many workers race over a row and however often they restart, a  *)
(* row marked succeeded was carried out upstream.                          *)
THEOREM SucceededHonest == Spec => []SucceededWasReplayed
<1>1. Init => Honest
  BY ShapeInit DEF Init, Honest, SucceededWasReplayed, Confirmed
<1>2. Spec => []Honest
  BY <1>1, HonestStep, PTL DEF Spec
<1> QED BY <1>2, PTL DEF Honest

-----------------------------------------------------------------------------
(* The order of replays. *)

(* Row facts behind NotOvertaken: ranks grow, and a row that was never     *)
(* attempted is due.                                                       *)
Ranked ==
    \A m \in Mutations :
        created[m] <= inserted /\ (status[m] \in {"absent", "pending"} => delay[m] = 0)

(* What a worker has in hand: rows of the account it visits, in creation   *)
(* order, such that a pending row of that account it does not have is      *)
(* younger than all of them.                                               *)
InHand(w) ==
    /\ pc[w] \in {"idle", "account", "list"} => batch[w] = <<>>
    /\ \A i \in 1..Len(batch[w]) :
          status[batch[w][i]] # "absent" /\ AccountOf[batch[w][i]] = Account(w)
    /\ \A i, j \in 1..Len(batch[w]) :
          i < j => created[batch[w][i]] < created[batch[w][j]]
    /\ \A n \in Mutations :
          (/\ pc[w] \in {"next", "apply", "succeed", "fail"}
           /\ AccountOf[n] = Account(w)
           /\ status[n] = "pending") =>
               \/ \E i \in 1..Len(batch[w]) : n = batch[w][i]
               \/ \A i \in 1..Len(batch[w]) : created[n] > created[batch[w][i]]
    /\ pc[w] \in {"apply", "succeed", "fail"} =>
          batch[w] # <<>> /\ status[batch[w][1]] # "pending"

(* The first element of a batch that is not empty. *)
LEMMA FirstOfBatch ==
  ASSUME NEW s \in Seq(Mutations), s # <<>>
  PROVE  Len(s) \in Nat /\ 1 \in 1..Len(s) /\ s[1] \in Mutations /\ Head(s) = s[1]
OBVIOUS

(* A worker that does not move keeps what it has in hand while rows are    *)
(* attempted, settled or deleted.                                          *)
LEMMA InHandStable ==
  ASSUME NEW v \in Workers, InHand(v),
         pc'[v] = pc[v], batch'[v] = batch[v], Account(v)' = Account(v), created' = created,
         batch[v] \in Seq(Mutations),
         \A m \in Mutations : /\ status'[m] = "pending" => status[m] = "pending"
                              /\ status'[m] = "absent" => status[m] = "absent"
  PROVE  InHand(v)'
<1>1. \A i \in 1..Len(batch[v]) : batch[v][i] \in Mutations
  OBVIOUS
<1>2. batch[v] # <<>> => batch[v][1] \in Mutations
  OBVIOUS
<1> QED BY <1>1, <1>2 DEF InHand

(* The same when a new row is inserted: it is younger than all others. *)
LEMMA InHandEnqueue ==
  ASSUME TypeOK, Ranked, NEW v \in Workers, InHand(v), NEW m \in Mutations, Enqueue(m)
  PROVE  InHand(v)'
<1>1. /\ pc'[v] = pc[v] /\ batch'[v] = batch[v] /\ Account(v)' = Account(v)
      /\ batch[v] \in Seq(Mutations)
  BY DEF TypeOK, Enqueue, Account, pass
<1>2. \A i \in 1..Len(batch[v]) : batch[v][i] \in Mutations /\ batch[v][i] # m
  BY <1>1 DEF InHand, Enqueue
<1>3. \A n \in Mutations \ {m} : created'[n] = created[n] /\ status'[n] = status[n]
  BY DEF TypeOK, Enqueue
<1>4. status'[m] = "pending" /\ \A n \in Mutations \ {m} : created'[m] > created'[n]
  BY <1>3 DEF TypeOK, Ranked, Enqueue
<1>5. batch[v] # <<>> => batch[v][1] \in Mutations \ {m}
  BY <1>1, <1>2
<1> QED BY <1>1, <1>2, <1>3, <1>4, <1>5, SMTT(30) DEF InHand

(* The same for a worker that leaves its pass. *)
LEMMA InHandReturn ==
  ASSUME TypeOK, NEW w \in Workers, Return(w)
  PROVE  InHand(w)'
<1>1. batch'[w] = <<>> /\ pc'[w] = "idle"
  BY DEF TypeOK, Return
<1>2. Len(batch'[w]) = 0
  BY <1>1
<1> QED BY <1>1, <1>2 DEF InHand

InLine == TypeOK /\ Busy /\ Ranked /\ \A w \in Workers : InHand(w)

(* What a step of one worker leaves alone: the other workers, the ranks,   *)
(* and the difference between a row never attempted and one that was.      *)
Aside(w) ==
    /\ created' = created /\ inserted' = inserted
    /\ \A v \in Workers \ {w} :
          pc'[v] = pc[v] /\ batch'[v] = batch[v] /\ todo'[v] = todo[v]
    /\ \A m \in Mutations : /\ status'[m] = "pending" => status[m] = "pending"
                            /\ status'[m] = "absent" => status[m] = "absent"

(* Every step of a worker is such a step, whichever it is. *)
LEMMA WorkerAside ==
  ASSUME TypeOK, NEW w \in Workers, WorkerStep(w) \/ Abort(w)
  PROVE  Aside(w)
<1>1. CASE StartPass(w) \/ SkipAccount(w) \/ Connect(w) \/ ListDue(w) \/ Logout(w)
           \/ Replay(w) \/ ReplayAnswerLost(w) \/ ReplayRefused(w)
  BY <1>1, Zenon DEF TypeOK, Aside, StartPass, SkipAccount, Connect, ListDue, Logout, Replay,
     ReplayAnswerLost, ReplayRefused, Goto, rows, pass
<1>2. CASE EndPass(w) \/ ConnectFails(w) \/ RowGone(w) \/ Abort(w)
  BY <1>2, Zenon DEF TypeOK, Aside, EndPass, ConnectFails, RowGone, Abort, Return, rows
<1>3. CASE MarkInFlight(w) \/ MarkSucceeded(w) \/ MarkFailed(w)
  BY <1>3, ZenonT(30) DEF TypeOK, Aside, MarkInFlight, MarkSucceeded, MarkFailed, UpdateRow, Present,
     Return, Goto, pass
<1> QED BY <1>1, <1>2, <1>3 DEF WorkerStep

(* Rows keep the rank of their INSERT. *)
LEMMA RankedStep == TypeOK /\ Busy /\ Ranked /\ [Next]_vars => Ranked'
<1> SUFFICES ASSUME TypeOK, Busy, Ranked, [Next]_vars PROVE Ranked'
  OBVIOUS
<1> USE DEF Ranked
<1>1. ASSUME NEW m \in Mutations, Enqueue(m) PROVE Ranked'
  BY <1>1 DEF TypeOK, Enqueue
<1>2. ASSUME NEW m \in Mutations, CascadeDelete(m) PROVE Ranked'
  BY <1>2 DEF TypeOK, CascadeDelete
<1>3. ASSUME NEW a \in Accounts, Pause(a) \/ Resume(a) \/ DeleteAccount(a) PROVE Ranked'
  BY <1>3 DEF TypeOK, Pause, Resume, DeleteAccount, Present, rows
<1>4. ASSUME NEW w \in Workers, WorkerStep(w) \/ Abort(w) PROVE Ranked'
  <2>1. CASE UNCHANGED rows
    BY <2>1 DEF rows
  <2>2. CASE MarkInFlight(w) \/ MarkSucceeded(w) \/ MarkFailed(w)
    <3>1. PICK m \in Mutations, st \in {"in_flight", "succeeded", "failed"} :
             \E wait : UpdateRow(w, m, st, wait)
      <4>1. batch[w] # <<>>
        BY <2>2 DEF Busy, MarkInFlight, MarkSucceeded, MarkFailed
      <4>2. Current(w) \in Mutations
        BY <4>1 DEF TypeOK, Current
      <4> QED BY <2>2, <4>2, Zenon DEF MarkInFlight, MarkSucceeded, MarkFailed
    <3> QED BY <3>1 DEF TypeOK, UpdateRow
  <2> QED BY <1>4, <2>1, <2>2, Zenon DEF WorkerStep, StartPass, EndPass, SkipAccount, Connect,
      ConnectFails, ListDue, Logout, RowGone, Replay, ReplayAnswerLost, ReplayRefused, Abort
<1>5. ASSUME Tick PROVE Ranked'
  BY <1>5 DEF TypeOK, Tick, CountDown
<1>6. CASE UNCHANGED vars
  BY <1>6 DEF vars, rows
<1> QED BY <1>1, <1>2, <1>3, <1>4, <1>5, <1>6, Zenon DEF Next

(* The steps of the worker that moves. *)
LEMMA InHandMove ==
  ASSUME TypeOK, Busy, Ranked, NEW w \in Workers, InHand(w), WorkerStep(w) \/ Abort(w)
  PROVE  InHand(w)'
<1>0. batch[w] \in Seq(Mutations) /\ Aside(w)
  BY WorkerAside DEF TypeOK
<1>1. CASE StartPass(w) \/ SkipAccount(w) \/ Connect(w) \/ Logout(w)
  <2>1. batch'[w] = <<>> /\ pc'[w] \in {"account", "list"}
    BY <1>1 DEF TypeOK, InHand, StartPass, SkipAccount, Connect, Logout, Goto, pass
  <2>2. Len(batch'[w]) = 0
    BY <2>1
  <2> QED BY <2>1, <2>2 DEF InHand
<1>2. CASE EndPass(w) \/ ConnectFails(w) \/ RowGone(w) \/ MarkFailed(w) \/ Abort(w)
  BY <1>2, InHandReturn, ZenonT(30) DEF EndPass, ConnectFails, RowGone, MarkFailed, Abort
<1>3. CASE ListDue(w)
  <2> DEFINE S == {m \in Mutations : Due(m, Account(w))}
  <2>1. PICK s \in Listings(S) : batch' = [batch EXCEPT ![w] = s]
    BY <1>3, Zenon DEF ListDue
  <2>2. /\ s \in Seq(Mutations)
        /\ {s[i] : i \in 1..Len(s)} = S
        /\ \A i \in 1..Len(s) : s[i] \in S
        /\ \A i, j \in 1..Len(s) : i < j => created[s[i]] < created[s[j]]
    BY ListingType, Zenon
  <2>3. batch'[w] = s /\ pc'[w] = "next" /\ Account(w)' = Account(w)
    BY <1>3, <2>1 DEF TypeOK, ListDue, Goto, Account
  <2>4. status' = status
    BY <1>3 DEF ListDue, rows
  <2>5. \A i \in 1..Len(s) : status[s[i]] # "absent" /\ AccountOf[s[i]] = Account(w)
    BY <2>2 DEF Due
  <2>6. \A n \in Mutations : AccountOf[n] = Account(w) /\ status[n] = "pending" => n \in S
    BY DEF Ranked, Due
  <2> HIDE DEF S
  <2>7. \A n \in S : \E i \in 1..Len(s) : n = s[i]
    BY <2>2
  <2> QED BY <1>0, <2>2, <2>3, <2>4, <2>5, <2>6, <2>7 DEF InHand, Aside
<1>4. CASE MarkInFlight(w) \/ Replay(w) \/ ReplayAnswerLost(w) \/ ReplayRefused(w)
  <2>1. /\ batch'[w] = batch[w] /\ Account(w)' = Account(w) /\ batch[w] # <<>>
        /\ pc[w] \in {"next", "apply"} /\ pc'[w] \in {"apply", "succeed", "fail"}
    BY <1>4, SMTT(30) DEF TypeOK, Busy, MarkInFlight, Replay, ReplayAnswerLost, ReplayRefused, Goto,
       Account, pass
  <2>2. \A i \in 1..Len(batch[w]) : batch[w][i] \in Mutations
    BY <1>0
  <2>3. batch[w][1] \in Mutations /\ Current(w) = batch[w][1]
    BY <1>0, <2>1, FirstOfBatch, Zenon DEF Current
  <2>4. status'[batch[w][1]] # "pending"
    BY <1>4, <2>3 DEF TypeOK, InHand, MarkInFlight, UpdateRow, Replay, ReplayAnswerLost,
       ReplayRefused, rows
  <2>5. /\ \A i \in 1..Len(batch[w]) :
              status'[batch[w][i]] # "absent" /\ AccountOf[batch[w][i]] = Account(w)
        /\ \A i, j \in 1..Len(batch[w]) : i < j => created'[batch[w][i]] < created'[batch[w][j]]
    BY <1>0, <2>2, Zenon DEF InHand, Aside
  <2>6. ASSUME NEW n \in Mutations, AccountOf[n] = Account(w), status'[n] = "pending"
        PROVE  \/ \E i \in 1..Len(batch[w]) : n = batch[w][i]
               \/ \A i \in 1..Len(batch[w]) : created'[n] > created'[batch[w][i]]
    <3>1. status[n] = "pending" /\ created' = created
      BY <1>0, <2>6 DEF Aside
    <3> QED BY <2>1, <2>6, <3>1, Zenon DEF InHand
  <2> QED BY <2>1, <2>4, <2>5, <2>6 DEF InHand
<1>5. CASE MarkSucceeded(w)
  <2> DEFINE b == batch[w]
  <2>1. b \in Seq(Mutations) /\ b # <<>> /\ pc[w] = "succeed"
    BY <1>0, <1>5 DEF Busy, MarkSucceeded
  <2>2. /\ batch'[w] = Tail(b) /\ Account(w)' = Account(w) /\ pc'[w] = "next"
    BY <1>5 DEF TypeOK, MarkSucceeded, Goto, Account
  <2>3. Tail(b) \in Seq(Mutations) /\ Len(Tail(b)) = Len(b) - 1
    BY <2>1
  <2>4. \A i \in 1..Len(Tail(b)) : Tail(b)[i] = b[i + 1] /\ i + 1 \in 1..Len(b)
    BY <2>1
  <2>5. \A i \in 1..Len(b) : b[i] \in Mutations
    BY <2>1
  <2>6. status[b[1]] # "pending"
    BY <2>1 DEF InHand
  <2>7. \A i \in 2..Len(b) : i - 1 \in 1..Len(Tail(b)) /\ b[i] = Tail(b)[i - 1]
    BY <2>1
  <2>8. /\ \A i \in 1..Len(Tail(b)) :
              status'[Tail(b)[i]] # "absent" /\ AccountOf[Tail(b)[i]] = Account(w)
        /\ \A i, j \in 1..Len(Tail(b)) : i < j => created'[Tail(b)[i]] < created'[Tail(b)[j]]
    <3>1. ASSUME NEW i \in 1..Len(Tail(b))
          PROVE  status'[Tail(b)[i]] # "absent" /\ AccountOf[Tail(b)[i]] = Account(w)
      <4>1. Tail(b)[i] = b[i + 1] /\ i + 1 \in 1..Len(b)
        BY <2>4, <3>1, Zenon
      <4>2. b[i + 1] \in Mutations /\ status[b[i + 1]] # "absent"
            /\ AccountOf[b[i + 1]] = Account(w)
        BY <2>5, <4>1, Zenon DEF InHand
      <4> QED BY <1>0, <4>1, <4>2, Zenon DEF Aside
    <3>2. ASSUME NEW i \in 1..Len(Tail(b)), NEW j \in 1..Len(Tail(b)), i < j
          PROVE  created'[Tail(b)[i]] < created'[Tail(b)[j]]
      <4>1. /\ Tail(b)[i] = b[i + 1] /\ i + 1 \in 1..Len(b)
            /\ Tail(b)[j] = b[j + 1] /\ j + 1 \in 1..Len(b)
        BY <2>4, <3>2, Zenon
      <4>2. i + 1 < j + 1
        BY <2>3, <3>2
      <4>3. created[b[i + 1]] < created[b[j + 1]]
        BY <4>1, <4>2, Zenon DEF InHand
      <4> QED BY <1>0, <4>1, <4>3, Zenon DEF Aside
    <3> QED BY <3>1, <3>2, Zenon
  <2>9. ASSUME NEW n \in Mutations, AccountOf[n] = Account(w), status'[n] = "pending"
        PROVE  \/ \E i \in 1..Len(Tail(b)) : n = Tail(b)[i]
               \/ \A i \in 1..Len(Tail(b)) : created'[n] > created'[Tail(b)[i]]
    <3>1. status[n] = "pending" /\ n # b[1]
      BY <1>0, <2>6, <2>9 DEF Aside
    <3>2. CASE \E i \in 1..Len(b) : n = b[i]
      <4>1. PICK i \in 1..Len(b) : n = b[i]
        BY <3>2
      <4>2. i \in 2..Len(b)
        BY <3>1, <4>1
      <4> QED BY <2>7, <4>1, <4>2
    <3>3. CASE \A i \in 1..Len(b) : created[n] > created[b[i]]
      BY <1>0, <2>4, <3>3 DEF Aside
    <3> QED BY <2>1, <2>9, <3>1, <3>2, <3>3 DEF InHand
  <2> HIDE DEF b
  <2> QED BY <2>2, <2>8, <2>9, Zenon DEF InHand
<1> QED BY <1>1, <1>2, <1>3, <1>4, <1>5 DEF WorkerStep

(* What the workers have in hand stays in the order of the INSERTs. *)
LEMMA InLineStep == InLine /\ [Next]_vars => InLine'
<1> SUFFICES ASSUME TypeOK, Busy, Ranked, \A w \in Workers : InHand(w), [Next]_vars
             PROVE  \A v \in Workers : InHand(v)'
  BY ShapeStep, RankedStep DEF InLine
<1> TAKE v \in Workers
<1>0. InHand(v) /\ batch[v] \in Seq(Mutations)
  BY DEF TypeOK
<1>1. ASSUME NEW m \in Mutations, Enqueue(m) PROVE InHand(v)'
  BY <1>0, <1>1, InHandEnqueue
<1>2. ASSUME UNCHANGED <<created, pc, pass>>,
             \A m \in Mutations : /\ status'[m] = "pending" => status[m] = "pending"
                                  /\ status'[m] = "absent" => status[m] = "absent"
      PROVE  InHand(v)'
  <2>1. pc'[v] = pc[v] /\ batch'[v] = batch[v] /\ Account(v)' = Account(v)
    BY <1>2 DEF pass, Account
  <2> QED BY <1>0, <1>2, <2>1, InHandStable
<1>3. ASSUME NEW m \in Mutations, CascadeDelete(m) PROVE InHand(v)'
  BY <1>2, <1>3 DEF TypeOK, CascadeDelete
<1>4. ASSUME NEW a \in Accounts, Pause(a) \/ Resume(a) \/ DeleteAccount(a) PROVE InHand(v)'
  BY <1>2, <1>4, Zenon DEF TypeOK, Pause, Resume, DeleteAccount, rows
<1>5. ASSUME NEW w \in Workers, WorkerStep(w) \/ Abort(w) PROVE InHand(v)'
  <2>1. CASE v = w
    BY <1>0, <1>5, <2>1, InHandMove
  <2>2. CASE v # w
    <3>1. Aside(w)
      BY <1>5, WorkerAside
    <3>2. Account(v)' = Account(v)
      BY <2>2, <3>1 DEF Aside, Account
    <3> QED BY <1>0, <2>2, <3>1, <3>2, InHandStable, Zenon DEF Aside
  <2> QED BY <2>1, <2>2
<1>6. CASE Tick
  BY <1>2, <1>6 DEF Tick
<1>7. CASE UNCHANGED vars
  BY <1>2, <1>7 DEF vars, rows
<1> QED BY <1>1, <1>3, <1>4, <1>5, <1>6, <1>7 DEF Next

(* However many workers run, no mutation is replayed while an older one of *)
(* its account still waits for its first attempt.                          *)
THEOREM OrderKept == Spec => []NotOvertaken
<1>1. Init => InLine
  BY ShapeInit DEF Init, InLine, Ranked, InHand
<1>2. InLine => NotOvertaken
  <2> SUFFICES ASSUME TypeOK, Busy, NEW w \in Workers, InHand(w), pc[w] = "apply",
                      NEW n \in Mutations,
                      AccountOf[n] = AccountOf[Current(w)], status[n] = "pending"
               PROVE  created[n] > created[Current(w)]
    BY DEF InLine, NotOvertaken
  <2>1. /\ batch[w] \in Seq(Mutations) /\ batch[w] # <<>>
        /\ Current(w) = batch[w][1] /\ 1 \in 1..Len(batch[w])
        /\ Current(w) \in Mutations
    <3>1. batch[w] \in Seq(Mutations) /\ batch[w] # <<>>
      BY Zenon DEF TypeOK, Busy
    <3> QED BY <3>1, FirstOfBatch, Zenon DEF Current
  <2>2. AccountOf[n] = Account(w) /\ n # Current(w)
    BY <2>1 DEF InHand
  <2>3. created[n] \in Nat /\ created[Current(w)] \in Nat
    BY <2>1 DEF TypeOK
  <2>4. CASE \E i \in 1..Len(batch[w]) : n = batch[w][i]
    <3>1. PICK i \in 1..Len(batch[w]) : n = batch[w][i]
      BY <2>4, Zenon
    <3>2. i # 1
      BY <2>1, <2>2, <3>1, Zenon
    <3>3. Len(batch[w]) \in Nat
      BY <2>1, FirstOfBatch, Zenon
    <3>4. i > 1
      BY <3>1, <3>2, <3>3
    <3> QED BY <2>1, <2>3, <3>1, <3>4, ZenonT(30) DEF InHand
  <2>5. CASE \A i \in 1..Len(batch[w]) : created[n] > created[batch[w][i]]
    BY <2>1, <2>5
  <2> QED BY <2>2, <2>4, <2>5 DEF InHand
<1>3. Spec => []InLine
  BY <1>1, InLineStep, PTL DEF Spec
<1> QED BY <1>2, <1>3, PTL

-----------------------------------------------------------------------------
(* Rows that stay in flight. *)

(* The rows that no worker will settle. *)
StrandedRows == {m \in Mutations : Stranded(m)}
Leaks == TypeOK /\ Busy /\ StrandedOnlyByAbort

(* A finite set to which something is added. *)
LEMMA AddedOne ==
  ASSUME NEW S, NEW x, IsFiniteSet(S)
  PROVE  /\ IsFiniteSet(S \cup {x}) /\ Cardinality(S) \in Nat
         /\ Cardinality(S \cup {x}) <= Cardinality(S) + 1
BY FS_AddElement, FS_CardinalityType

(* A step that strands no row keeps the bound. *)
LEMMA NoneStranded ==
  ASSUME TypeOK, StrandedOnlyByAbort, StrandedRows' \subseteq StrandedRows, aborts' = aborts
  PROVE  StrandedOnlyByAbort'
<1>1. IsFiniteSet(StrandedRows)
  BY QueueAssumption, FS_Subset DEF StrandedRows
<1>2. /\ Cardinality(StrandedRows') <= Cardinality(StrandedRows)
      /\ Cardinality(StrandedRows') \in Nat /\ Cardinality(StrandedRows) \in Nat
  BY <1>1, FS_Subset, FS_CardinalityType
<1> QED BY <1>2 DEF TypeOK, StrandedOnlyByAbort, StrandedRows

(* The end of a pass at w strands at most the mutation w was working on. *)
LEMMA OneStranded ==
  ASSUME TypeOK, StrandedOnlyByAbort, NEW m, StrandedRows' \subseteq StrandedRows \cup {m},
         aborts' = aborts + 1
  PROVE  StrandedOnlyByAbort'
<1>1. IsFiniteSet(StrandedRows)
  BY QueueAssumption, FS_Subset DEF StrandedRows
<1>2. /\ IsFiniteSet(StrandedRows \cup {m})
      /\ Cardinality(StrandedRows \cup {m}) <= Cardinality(StrandedRows) + 1
  BY <1>1, AddedOne, Zenon
<1>3. /\ Cardinality(StrandedRows') <= Cardinality(StrandedRows \cup {m})
      /\ Cardinality(StrandedRows') \in Nat /\ Cardinality(StrandedRows) \in Nat
      /\ Cardinality(StrandedRows \cup {m}) \in Nat
  BY <1>1, <1>2, FS_Subset, FS_CardinalityType
<1> QED BY <1>2, <1>3 DEF TypeOK, StrandedOnlyByAbort, StrandedRows

(* Whose pass ends without an abort leaves a row in flight to nobody only  *)
(* if it was so before; an abort leaves the one row the worker had.        *)
LEMMA LeaksStep == Leaks /\ [Next]_vars => Leaks'
<1> SUFFICES ASSUME TypeOK, Busy, StrandedOnlyByAbort, [Next]_vars PROVE StrandedOnlyByAbort'
  BY ShapeStep DEF Leaks
<1> USE DEF StrandedRows, Stranded, Owned, Current
<1>1. ASSUME NEW m \in Mutations, Enqueue(m) \/ CascadeDelete(m) PROVE StrandedOnlyByAbort'
  <2>1. StrandedRows' \subseteq StrandedRows /\ aborts' = aborts
    BY <1>1, Zenon DEF TypeOK, Enqueue, CascadeDelete, pass, budget
  <2> QED BY <2>1, NoneStranded
<1>2. ASSUME NEW a \in Accounts, Pause(a) \/ Resume(a) \/ DeleteAccount(a)
      PROVE StrandedOnlyByAbort'
  <2>1. StrandedRows' \subseteq StrandedRows /\ aborts' = aborts
    BY <1>2, Zenon DEF TypeOK, Pause, Resume, DeleteAccount, rows, pass, budget
  <2> QED BY <2>1, NoneStranded
<1>3. ASSUME NEW w \in Workers, StartPass(w) \/ SkipAccount(w) \/ Connect(w) \/ ListDue(w)
               \/ Logout(w) \/ EndPass(w) \/ ConnectFails(w)
      PROVE StrandedOnlyByAbort'
  <2>1. pc[w] \notin {"apply", "succeed", "fail"} /\ UNCHANGED <<status, aborts>>
    BY <1>3 DEF StartPass, SkipAccount, Connect, ListDue, Logout, EndPass, ConnectFails, rows, budget
  <2>2. \A v \in Workers \ {w} : pc'[v] = pc[v] /\ batch'[v] = batch[v]
    BY <1>3, Zenon DEF TypeOK, StartPass, SkipAccount, Connect, ListDue, Logout, EndPass, ConnectFails,
       Return, Goto, pass
  <2>3. StrandedRows' \subseteq StrandedRows
    BY <2>1, <2>2, Zenon
  <2> QED BY <2>1, <2>3, NoneStranded
<1>4. ASSUME NEW w \in Workers, Replay(w) \/ ReplayAnswerLost(w) \/ ReplayRefused(w)
      PROVE StrandedOnlyByAbort'
  <2>1. /\ UNCHANGED <<status, batch, aborts>>
        /\ \A v \in Workers : pc'[v] = pc[v] \/ pc'[v] \in {"succeed", "fail"}
    BY <1>4 DEF TypeOK, Replay, ReplayAnswerLost, ReplayRefused, Goto, rows, pass, budget
  <2>2. StrandedRows' \subseteq StrandedRows
    BY <2>1, Zenon
  <2> QED BY <2>1, <2>2, NoneStranded
<1>5. ASSUME NEW w \in Workers, MarkInFlight(w) PROVE StrandedOnlyByAbort'
  <2>1. /\ UNCHANGED <<batch, aborts>> /\ pc'[w] = "apply"
        /\ \A v \in Workers \ {w} : pc'[v] = pc[v]
        /\ pc[w] = "next"
        /\ \A m \in Mutations : status'[m] = status[m] \/ m = Current(w)
    BY <1>5 DEF TypeOK, MarkInFlight, UpdateRow, Goto, pass, budget
  <2>2. StrandedRows' \subseteq StrandedRows
    BY <2>1, Zenon
  <2> QED BY <2>1, <2>2, NoneStranded
<1>6. ASSUME NEW w \in Workers, MarkSucceeded(w) \/ MarkFailed(w) PROVE StrandedOnlyByAbort'
  <2>1. /\ aborts' = aborts
        /\ \A v \in Workers \ {w} : pc'[v] = pc[v] /\ batch'[v] = batch[v]
    BY <1>6 DEF TypeOK, MarkSucceeded, MarkFailed, Return, Goto, budget
  <2>2. \A m \in Mutations : IF m = Current(w) THEN status'[m] # "in_flight" ELSE status'[m] = status[m]
    BY <1>6, Zenon DEF TypeOK, MarkSucceeded, MarkFailed, UpdateRow
  <2>3. StrandedRows' \subseteq StrandedRows
    BY <2>1, <2>2, Zenon
  <2> QED BY <2>1, <2>3, NoneStranded
<1>7. ASSUME NEW w \in Workers, RowGone(w) PROVE StrandedOnlyByAbort'
  <2>1. /\ UNCHANGED <<status, aborts>> /\ status[Current(w)] # "in_flight"
        /\ \A v \in Workers \ {w} : pc'[v] = pc[v] /\ batch'[v] = batch[v]
    BY <1>7 DEF TypeOK, RowGone, Return, Present, rows, budget
  <2>2. StrandedRows' \subseteq StrandedRows
    BY <2>1, Zenon
  <2> QED BY <2>1, <2>2, NoneStranded
<1>8. ASSUME NEW w \in Workers, Abort(w) PROVE StrandedOnlyByAbort'
  <2>1. /\ UNCHANGED status /\ aborts' = aborts + 1
        /\ \A v \in Workers \ {w} : pc'[v] = pc[v] /\ batch'[v] = batch[v]
    BY <1>8 DEF TypeOK, Abort, Return, rows
  <2>2. StrandedRows' \subseteq StrandedRows \cup {Current(w)}
    BY <2>1, Zenon
  <2> QED BY <2>1, <2>2, OneStranded
<1>9. ASSUME Tick \/ UNCHANGED vars PROVE StrandedOnlyByAbort'
  <2>1. StrandedRows' \subseteq StrandedRows /\ aborts' = aborts
    BY <1>9, Zenon DEF Tick, vars, rows, pass, budget
  <2> QED BY <2>1, NoneStranded
<1> QED BY <1>1, <1>2, <1>3, <1>4, <1>5, <1>6, <1>7, <1>8, <1>9 DEF Next, WorkerStep

(* Each crash or database error strands at most one row, however many      *)
(* workers race.                                                           *)
THEOREM StrandedBounded == Spec => []StrandedOnlyByAbort
<1>1. Init => Leaks
  <2> SUFFICES ASSUME Init PROVE StrandedOnlyByAbort
    BY ShapeInit DEF Leaks
  <2>1. {m \in Mutations : Stranded(m)} = {}
    BY DEF Init, Stranded
  <2>2. Cardinality({m \in Mutations : Stranded(m)}) = 0
    BY <2>1, FS_EmptySet, Zenon
  <2> QED BY <2>2 DEF Init, StrandedOnlyByAbort
<1>2. Spec => []Leaks
  BY <1>1, LeaksStep, PTL DEF Spec
<1> QED BY <1>2, PTL DEF Leaks
-----------------------------------------------------------------------------
(* One worker.  What its pass has listed and not yet taken up waits, or    *)
(* was deleted; what it works on is in flight, or was deleted; and nothing *)
(* is listed twice.                                                        *)
Settling(w) == pc[w] \in {"apply", "succeed", "fail"}
InPass(w) == Settling(w) \/ pc[w] = "next"
Once(w) == \A i, j \in 1..Len(batch[w]) : batch[w][i] = batch[w][j] => i = j
Waits(w) ==
    \A i \in 1..Len(batch[w]) :
        status[batch[w][i]] \in IF Settling(w) /\ i = 1 THEN {"in_flight", "deleted"}
                                                       ELSE {"pending", "failed", "deleted"}
Exclusive == \A w \in Workers : InPass(w) => Once(w) /\ Waits(w)
Alone == \A v, w \in Workers : v = w
Orderly == Honest /\ Exclusive

(* The first of a batch is the one the worker is at. *)
LEMMA CurrentIsFirst ==
  ASSUME TypeOK, NEW w \in Workers, batch[w] # <<>>
  PROVE  /\ Current(w) = batch[w][1] /\ 1 \in 1..Len(batch[w])
         /\ Current(w) \in Mutations /\ Len(batch[w]) \in Nat
BY DEF TypeOK, Current

(* It is enough to look at the worker there is. *)
LEMMA TheWorker ==
  ASSUME Alone, NEW w \in Workers, Once(w)', Waits(w)'
  PROVE  Exclusive'
BY DEF Alone, Exclusive

(* Every step of the queue keeps the worker's batch exclusive. *)
LEMMA ExclusiveStep ==
  ASSUME Alone, TypeOK, Busy, Exclusive, [Next]_vars
  PROVE  Exclusive'
<1>1. ASSUME NEW m \in Mutations, Enqueue(m) \/ CascadeDelete(m) PROVE Exclusive'
  <2>1. /\ UNCHANGED <<pc, batch>>
        /\ \A n \in Mutations : status'[n] = status[n] \/ status'[n] = "deleted"
                                \/ (status[n] = "absent" /\ status'[n] = "pending")
    BY <1>1 DEF TypeOK, Enqueue, CascadeDelete, pass
  <2>2. \A w \in Workers : \A i \in 1..Len(batch[w]) : batch[w][i] \in Mutations
    BY DEF TypeOK
  <2> QED BY <2>1, <2>2 DEF Exclusive, InPass, Settling, Once, Waits
<1>2. ASSUME NEW a \in Accounts, Pause(a) \/ Resume(a) \/ DeleteAccount(a) PROVE Exclusive'
  <2>1. /\ UNCHANGED <<pc, batch>>
        /\ \A n \in Mutations : status'[n] = status[n] \/ status'[n] = "deleted"
    BY <1>2 DEF TypeOK, Pause, Resume, DeleteAccount, rows, pass
  <2>2. \A w \in Workers : \A i \in 1..Len(batch[w]) : batch[w][i] \in Mutations
    BY DEF TypeOK
  <2> QED BY <2>1, <2>2 DEF Exclusive, InPass, Settling, Once, Waits
<1>3. ASSUME NEW w \in Workers, StartPass(w) \/ SkipAccount(w) \/ Connect(w) \/ Logout(w)
               \/ EndPass(w) \/ ConnectFails(w) \/ RowGone(w) \/ MarkFailed(w) \/ Abort(w)
      PROVE Exclusive'
  <2>1. pc'[w] \in {"idle", "account", "list"}
    BY <1>3 DEF TypeOK, StartPass, SkipAccount, Connect, Logout, EndPass, ConnectFails, RowGone,
       MarkFailed, Abort, Return, Goto
  <2>2. ~InPass(w)'
    BY <2>1 DEF InPass, Settling
  <2> QED BY <2>2 DEF Alone, Exclusive
<1>4. ASSUME NEW w \in Workers, ListDue(w) PROVE Exclusive'
  <2> DEFINE S == {m \in Mutations : Due(m, Account(w))}
  <2>1. PICK s \in Listings(S) : batch' = [batch EXCEPT ![w] = s]
    BY <1>4, Zenon DEF ListDue
  <2>2. /\ s \in Seq(Mutations) /\ \A i \in 1..Len(s) : s[i] \in S
        /\ \A i, j \in 1..Len(s) : i < j => created[s[i]] < created[s[j]]
    BY ListingType
  <2>3. batch'[w] = s /\ pc'[w] = "next" /\ UNCHANGED status
    BY <1>4, <2>1 DEF TypeOK, ListDue, Goto, rows
  <2>4. \A i \in 1..Len(s) : s[i] \in Mutations /\ status[s[i]] \in {"pending", "failed"}
    BY <2>2 DEF Due
  <2>5. ASSUME NEW i \in 1..Len(s), NEW j \in 1..Len(s), s[i] = s[j] PROVE i = j
    <3>1. created[s[i]] \in Nat
      BY <2>4 DEF TypeOK
    <3>2. ~(i < j) /\ ~(j < i)
      BY <2>2, <2>5, <3>1
    <3>3. i \in Int /\ j \in Int
      BY <2>2
    <3> QED BY <3>2, <3>3
  <2>6. Once(w)'
    BY <2>3, <2>5, Zenon DEF Once
  <2>7. Waits(w)'
    BY <2>3, <2>4 DEF Waits, Settling
  <2> QED BY <2>6, <2>7, TheWorker
<1>5. ASSUME NEW w \in Workers, MarkInFlight(w) PROVE Exclusive'
  <2>1. batch[w] # <<>> /\ UNCHANGED batch /\ pc[w] = "next" /\ pc'[w] = "apply"
        /\ status' = [status EXCEPT ![Current(w)] = "in_flight"]
    BY <1>5 DEF TypeOK, MarkInFlight, UpdateRow, Goto, pass
  <2>2. Once(w) /\ Waits(w) /\ ~Settling(w) /\ Settling(w)'
    BY <2>1 DEF Exclusive, InPass, Settling
  <2>3. \A i \in 1..Len(batch[w]) : batch[w][i] \in Mutations
    BY DEF TypeOK
  <2>4. \A i \in 1..Len(batch[w]) : i = 1 <=> batch[w][i] = Current(w)
    BY <2>1, <2>2, CurrentIsFirst DEF Once
  <2>5. Waits(w)'
    BY <2>1, <2>2, <2>3, <2>4, Zenon DEF TypeOK, Waits
  <2>6. Once(w)'
    BY <2>1, <2>2, Zenon DEF Once
  <2> QED BY <2>5, <2>6, TheWorker
<1>6. ASSUME NEW w \in Workers, Replay(w) \/ ReplayAnswerLost(w) \/ ReplayRefused(w)
      PROVE Exclusive'
  <2>1. pc[w] = "apply" /\ pc'[w] \in {"succeed", "fail"} /\ UNCHANGED <<status, batch>>
    BY <1>6 DEF TypeOK, Replay, ReplayAnswerLost, ReplayRefused, Goto, rows, pass
  <2>2. Once(w) /\ Waits(w) /\ Settling(w) /\ Settling(w)'
    BY <2>1 DEF Exclusive, InPass, Settling
  <2>3. Once(w)' /\ Waits(w)'
    BY <2>1, <2>2 DEF Once, Waits
  <2> QED BY <2>3, TheWorker
<1>7. ASSUME NEW w \in Workers, MarkSucceeded(w) PROVE Exclusive'
  <2>1. batch[w] # <<>> /\ pc[w] = "succeed"
    BY <1>7 DEF Busy, MarkSucceeded
  <2>2. pc'[w] = "next" /\ batch'[w] = Tail(batch[w])
        /\ status' = [status EXCEPT ![Current(w)] = "succeeded"]
    BY <1>7 DEF TypeOK, MarkSucceeded, UpdateRow, Goto
  <2>3. Once(w) /\ Waits(w) /\ ~Settling(w)'
    BY <2>1, <2>2 DEF Exclusive, InPass, Settling
  <2>4. /\ Len(batch[w]) \in Nat /\ Len(batch'[w]) = Len(batch[w]) - 1
        /\ \A i \in 1..Len(batch'[w]) : i + 1 \in 1..Len(batch[w]) /\ batch'[w][i] = batch[w][i + 1]
    <3>1. \A s \in Seq(Mutations) : s # <<>> =>
              /\ Len(s) \in Nat /\ Len(Tail(s)) = Len(s) - 1
              /\ \A i \in 1..Len(Tail(s)) : i + 1 \in 1..Len(s) /\ Tail(s)[i] = s[i + 1]
      OBVIOUS
    <3>2. batch[w] \in Seq(Mutations)
      BY DEF TypeOK
    <3> QED BY <2>1, <2>2, <3>1, <3>2
  <2>5. \A i \in 1..Len(batch[w]) : i # 1 =>
            /\ batch[w][i] \in Mutations /\ batch[w][i] # Current(w)
            /\ status[batch[w][i]] \in {"pending", "failed", "deleted"}
    <3>1. \A i \in 1..Len(batch[w]) : batch[w][i] \in Mutations
      BY DEF TypeOK
    <3>2. \A i \in 1..Len(batch[w]) : i # 1 => batch[w][i] # Current(w)
      BY <2>1, <2>3, CurrentIsFirst DEF Once
    <3> QED BY <2>3, <3>1, <3>2 DEF Waits
  <2>6. ASSUME NEW i \in 1..Len(batch'[w])
        PROVE  status'[batch'[w][i]] \in {"pending", "failed", "deleted"}
    <3>1. i + 1 \in 1..Len(batch[w]) /\ i + 1 # 1 /\ batch'[w][i] = batch[w][i + 1]
      BY <2>4
    <3> QED BY <2>2, <2>5, <3>1, Zenon DEF TypeOK
  <2>7. ASSUME NEW i \in 1..Len(batch'[w]), NEW j \in 1..Len(batch'[w]),
               batch'[w][i] = batch'[w][j]
        PROVE  i = j
    <3>1. /\ i + 1 \in 1..Len(batch[w]) /\ j + 1 \in 1..Len(batch[w])
          /\ batch[w][i + 1] = batch[w][j + 1]
      BY <2>4, <2>7
    <3>2. i + 1 = j + 1
      BY <2>3, <3>1, Zenon DEF Once
    <3> QED BY <2>4, <3>2
  <2>8. Once(w)'
    BY <2>7, Zenon DEF Once
  <2>9. Waits(w)'
    BY <2>3, <2>6 DEF Waits
  <2> QED BY <2>8, <2>9, TheWorker
<1>8. ASSUME Tick \/ UNCHANGED vars PROVE Exclusive'
  BY <1>8 DEF Tick, vars, rows, pass, Exclusive, InPass, Settling, Once, Waits
<1> QED BY <1>1, <1>2, <1>3, <1>4, <1>5, <1>6, <1>7, <1>8 DEF Next, WorkerStep
-----------------------------------------------------------------------------
(* Writing a status to one row writes its meaning to the ledger. *)
LEMMA PhaseUpdate ==
  ASSUME TypeOK, NEW m \in Mutations, NEW st \in Statuses,
         status' = [status EXCEPT ![m] = st]
  PROVE  LedgerPhase' = [LedgerPhase EXCEPT ![m] =
             CASE st = "absent" -> "none" [] st = "succeeded" -> "done"
               [] st = "deleted" -> "cancelled" [] OTHER -> "queued"]
BY Zenon DEF TypeOK, LedgerPhase

(* Every step of the queue is a step of the ledger, or changes nothing in  *)
(* it.                                                                     *)
LEMMA LedgerStep ==
  ASSUME Alone, Orderly, [Next]_vars
  PROVE  [Ledger!Next]_(Ledger!lvars)
<1> USE DEF Ledger!lvars
<1>0. TypeOK /\ Busy
  BY DEF Orderly, Honest
<1>a. ASSUME UNCHANGED <<status, effects>> PROVE UNCHANGED Ledger!lvars
  BY <1>a DEF LedgerPhase, LedgerDelivered
<1>1. ASSUME NEW m \in Mutations, Enqueue(m) PROVE Ledger!Accept(m)
  <2>1. LedgerPhase' = [LedgerPhase EXCEPT ![m] = "queued"]
    BY <1>0, <1>1, PhaseUpdate, Zenon DEF Enqueue, Statuses
  <2>2. LedgerPhase[m] = "none" /\ LedgerDelivered' = LedgerDelivered
    BY <1>1 DEF Enqueue, LedgerPhase, LedgerDelivered
  <2> QED BY <2>1, <2>2 DEF Ledger!Accept
<1>2. ASSUME NEW m \in Mutations, CascadeDelete(m) PROVE Ledger!Cancel({m})
  <2>1. LedgerPhase[m] # "none" /\ LedgerDelivered' = LedgerDelivered
    BY <1>2 DEF CascadeDelete, Present, LedgerPhase, LedgerDelivered
  <2>2. LedgerPhase' = [n \in Mutations |-> IF n \in {m} THEN "cancelled" ELSE LedgerPhase[n]]
    BY <1>0, <1>2 DEF TypeOK, CascadeDelete, LedgerPhase
  <2> QED BY <2>1, <2>2 DEF Ledger!Cancel
<1>3. ASSUME NEW a \in Accounts, DeleteAccount(a)
      PROVE  Ledger!Cancel({m \in Mutations : AccountOf[m] = a /\ Present(m)})
  <2> DEFINE S == {m \in Mutations : AccountOf[m] = a /\ Present(m)}
  <2>1. (\A m \in S : LedgerPhase[m] # "none") /\ LedgerDelivered' = LedgerDelivered
    BY <1>3 DEF DeleteAccount, Present, LedgerPhase, LedgerDelivered
  <2>2. LedgerPhase' = [n \in Mutations |-> IF n \in S THEN "cancelled" ELSE LedgerPhase[n]]
    <3>1. \A n \in Mutations : status'[n] = IF n \in S THEN "deleted" ELSE status[n]
      BY <1>3 DEF DeleteAccount
    <3>2. \A n \in Mutations : LedgerPhase'[n] = IF n \in S THEN "cancelled" ELSE LedgerPhase[n]
      BY <3>1 DEF LedgerPhase
    <3> QED BY <3>2 DEF LedgerPhase
  <2> QED BY <2>1, <2>2 DEF Ledger!Cancel
<1>4. ASSUME NEW w \in Workers, MarkInFlight(w) \/ MarkFailed(w) PROVE UNCHANGED Ledger!lvars
  <2> DEFINE m == Current(w)
  <2>1. batch[w] # <<>> /\ InPass(w) /\ Present(m)
    BY <1>0, <1>4 DEF Busy, MarkInFlight, MarkFailed, UpdateRow, InPass, Settling
  <2>2. m \in Mutations /\ status[m] \in {"in_flight", "pending", "failed"}
    BY <1>0, <2>1, CurrentIsFirst DEF Orderly, Exclusive, Present, Waits
  <2>3. PICK st \in {"in_flight", "failed"} : status' = [status EXCEPT ![m] = st]
    BY <1>4 DEF MarkInFlight, MarkFailed, UpdateRow
  <2>4. LedgerPhase' = LedgerPhase
    BY <1>0, <2>2, <2>3 DEF TypeOK, LedgerPhase
  <2> QED BY <1>4, <2>4 DEF MarkInFlight, MarkFailed, LedgerDelivered
<1>5. ASSUME NEW w \in Workers, Replay(w) \/ ReplayAnswerLost(w)
      PROVE  \E m \in Mutations : Ledger!Deliver(m)
  <2> DEFINE m == Current(w)
  <2>1. batch[w] # <<>> /\ Settling(w)
    BY <1>0, <1>5 DEF Busy, Replay, ReplayAnswerLost, Settling
  <2>2. m \in Mutations /\ status[m] \in {"in_flight", "deleted"}
    BY <1>0, <2>1, CurrentIsFirst DEF Orderly, Exclusive, InPass, Waits
  <2>3. effects' = [effects EXCEPT ![m] = Bump(effects[m])] /\ UNCHANGED status
    BY <1>5 DEF Replay, ReplayAnswerLost, rows
  <2>4. Bump(effects[m]) > 0
    BY <1>0, <2>2, QueueAssumption DEF TypeOK, Bump
  <2>5. LedgerDelivered' = [LedgerDelivered EXCEPT ![m] = TRUE]
    BY <1>0, <2>2, <2>3, <2>4, Zenon DEF TypeOK, LedgerDelivered
  <2>6. LedgerPhase' = LedgerPhase /\ LedgerPhase[m] \in {"queued", "cancelled"}
    BY <2>2, <2>3 DEF LedgerPhase
  <2> QED BY <2>2, <2>5, <2>6, Zenon DEF Ledger!Deliver
<1>6. ASSUME NEW w \in Workers, MarkSucceeded(w) PROVE \E m \in Mutations : Ledger!Settle(m)
  <2> DEFINE m == Current(w)
  <2>1. batch[w] # <<>> /\ Settling(w) /\ Present(m) /\ pc[w] = "succeed"
    BY <1>0, <1>6 DEF Busy, MarkSucceeded, UpdateRow, Settling
  <2>2. m \in Mutations /\ status[m] = "in_flight"
    BY <1>0, <2>1, CurrentIsFirst DEF Orderly, Exclusive, InPass, Present, Waits
  <2>3. LedgerPhase' = [LedgerPhase EXCEPT ![m] = "done"]
    BY <1>0, <1>6, <2>2, PhaseUpdate, Zenon DEF MarkSucceeded, UpdateRow, Statuses
  <2>4. LedgerPhase[m] = "queued" /\ LedgerDelivered[m] /\ LedgerDelivered' = LedgerDelivered
    BY <1>6, <2>1, <2>2, Zenon DEF MarkSucceeded, Orderly, Honest, Confirmed, LedgerPhase, LedgerDelivered
  <2> QED BY <2>2, <2>3, <2>4, Zenon DEF Ledger!Settle
<1>7. ASSUME NEW w \in Workers, StartPass(w) \/ EndPass(w) \/ SkipAccount(w) \/ Connect(w)
               \/ ConnectFails(w) \/ ListDue(w) \/ Logout(w) \/ RowGone(w) \/ ReplayRefused(w)
               \/ Abort(w)
      PROVE UNCHANGED Ledger!lvars
  <2>1. UNCHANGED <<status, effects>>
    BY <1>7 DEF StartPass, EndPass, SkipAccount, Connect, ConnectFails, ListDue, Logout, RowGone,
       ReplayRefused, Abort, rows
  <2> QED BY <2>1, <1>a
<1>8. ASSUME NEW a \in Accounts, Pause(a) \/ Resume(a) PROVE UNCHANGED Ledger!lvars
  BY <1>8, <1>a DEF Pause, Resume, rows
<1>9. ASSUME Tick \/ UNCHANGED vars PROVE UNCHANGED Ledger!lvars
  BY <1>9, <1>a DEF Tick, vars, rows
<1> QED BY <1>1, <1>2, <1>3, <1>4, <1>5, <1>6, <1>7, <1>8, <1>9, Zenon DEF Next, WorkerStep, Ledger!Next

(* With one worker the queue implements the ledger: a mutation is settled  *)
(* only after it was carried out, and then neither reopened nor sent again. *)
THEOREM QueueImplementsLedger ==
  ASSUME Alone PROVE Spec => ImplementsLedger
<1>1. Init => Orderly
  <2>1. Init => Honest
    BY ShapeInit DEF Init, Honest, SucceededWasReplayed, Confirmed
  <2>2. Init => Exclusive
    BY DEF Init, Exclusive, InPass, Settling
  <2> QED BY <2>1, <2>2 DEF Orderly
<1>2. Orderly /\ [Next]_vars => Orderly'
  BY HonestStep, ExclusiveStep DEF Orderly, Honest
<1>3. Init => Ledger!Init
  <2> SUFFICES ASSUME Init PROVE Ledger!Init
    OBVIOUS
  <2>1. LedgerPhase = [m \in Mutations |-> "none"]
    BY DEF Init, LedgerPhase
  <2>2. \A m \in Mutations : (effects[m] > 0) = FALSE
    BY DEF Init
  <2>3. LedgerDelivered = [m \in Mutations |-> FALSE]
    BY <2>2, Zenon DEF LedgerDelivered
  <2> QED BY <2>1, <2>3 DEF Ledger!Init
<1>4. Orderly /\ [Next]_vars => [Ledger!Next]_(Ledger!lvars)
  BY LedgerStep
<1> QED BY <1>1, <1>2, <1>3, <1>4, PTL DEF Spec, ImplementsLedger, Ledger!Spec
=============================================================================
