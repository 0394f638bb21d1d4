------------------------ MODULE LoginThrottleProofs -------------------------
(* Proofs about LoginThrottle, for any number of connections and any       *)
(* limits.                                                                 *)
EXTENDS LoginThrottle, FiniteSetTheorems, TLAPS

(* TypeOK is inductive. *)
LEMMA TypeInit == Init => TypeOK
  BY ThrottleAssumption DEF Init, TypeOK, Rows, Points

(* record_failure keeps the counter, its expiry and the block in their ranges. *)
LEMMA CountFailureTypes ==
    ASSUME TypeOK, CountFailure
    PROVE  failures' \in 0..MaxFailures /\ countTtl' \in Nat /\ block' \in Nat /\ early' \subseteq Logins
  BY ThrottleAssumption DEF TypeOK, CountFailure, BlockTime

(* Every step of a login, of Redis and of time keeps the types. *)
LEMMA TypeStep == TypeOK /\ [Next]_vars => TypeOK'
<1> SUFFICES ASSUME TypeOK, [Next]_vars PROVE TypeOK'
    OBVIOUS
<1> USE ThrottleAssumption DEF TypeOK, throttle, attempt, Points, Goto, End
<1>1. ASSUME NEW l \in Logins, Ask(l) PROVE TypeOK'
      BY <1>1 DEF Ask
<1>2. ASSUME NEW l \in Logins, Find(l) PROVE TypeOK'
      BY <1>2 DEF Find
<1>3. ASSUME NEW l \in Logins, Verify(l) PROVE TypeOK'
      BY <1>3 DEF Verify
<1>4. ASSUME NEW l \in Logins, RecordFailure(l) PROVE TypeOK'
      BY <1>4, CountFailureTypes DEF RecordFailure
<1>5. ASSUME NEW l \in Logins, RecordSuccess(l) PROVE TypeOK'
      BY <1>5 DEF RecordSuccess, Unblock, Forget
<1>6. ASSUME NEW l \in Logins, ClearFailures(l) PROVE TypeOK'
      BY <1>6 DEF ClearFailures, Forget
<1>7. ASSUME NEW l \in Logins, Grant(l) PROVE TypeOK'
      BY <1>7 DEF Grant
<1>8. ASSUME NEW l \in Logins, RedisFails(l) PROVE TypeOK'
      BY <1>8, CountFailureTypes DEF RedisFails, Unblock, Forget
<1>9. ASSUME Admin PROVE TypeOK'
      BY <1>9 DEF Admin, CreateUser, SetPassword, DisableUser, Rows
<1>10. ASSUME Tick PROVE TypeOK'
      BY <1>10 DEF Tick
<1>11. ASSUME UNCHANGED vars PROVE TypeOK'
      BY <1>11 DEF vars
<1> QED
    BY <1>1, <1>2, <1>3, <1>4, <1>5, <1>6, <1>7, <1>8, <1>9, <1>10, <1>11 DEF Next, LoginStep

(* The throttle's counters stay within their limits. *)
THEOREM ThrottleTypeCorrect == Spec => []TypeOK
  BY TypeInit, TypeStep, PTL DEF Spec

-----------------------------------------------------------------------------
(* A failure that starts a block notes every login that is past the        *)
(* throttle; one that meets a block changes nothing.                       *)
LEMMA CountFailureNotes ==
    ASSUME TypeOK, NoneAdmittedDuringBlock, CountFailure, NEW l \in Logins, Goto(l, "idle")
    PROVE  NoneAdmittedDuringBlock'
  BY ThrottleAssumption DEF TypeOK, NoneAdmittedDuringBlock, CountFailure, Goto, Admitted, BlockTime

(* Only Ask lets a login past the throttle, and it does so while there is  *)
(* no block; only CountFailure starts a block.                             *)
LEMMA AdmissionStep == TypeOK /\ NoneAdmittedDuringBlock /\ [Next]_vars => NoneAdmittedDuringBlock'
<1> SUFFICES ASSUME TypeOK, NoneAdmittedDuringBlock, [Next]_vars PROVE NoneAdmittedDuringBlock'
    OBVIOUS
<1> USE DEF TypeOK, NoneAdmittedDuringBlock, throttle, attempt, Goto, End, Admitted
<1>1. ASSUME NEW l \in Logins, Ask(l) PROVE NoneAdmittedDuringBlock'
      BY <1>1 DEF Ask, IsBlocked
<1>2. ASSUME NEW l \in Logins, Find(l) PROVE NoneAdmittedDuringBlock'
      BY <1>2 DEF Find
<1>3. ASSUME NEW l \in Logins, Verify(l) PROVE NoneAdmittedDuringBlock'
      BY <1>3 DEF Verify
<1>4. ASSUME NEW l \in Logins, RecordFailure(l) PROVE NoneAdmittedDuringBlock'
      BY <1>4, CountFailureNotes, Zenon DEF RecordFailure
<1>5. ASSUME NEW l \in Logins, RecordSuccess(l) PROVE NoneAdmittedDuringBlock'
      BY <1>5 DEF RecordSuccess, Unblock
<1>6. ASSUME NEW l \in Logins, ClearFailures(l) PROVE NoneAdmittedDuringBlock'
      BY <1>6 DEF ClearFailures
<1>7. ASSUME NEW l \in Logins, Grant(l) PROVE NoneAdmittedDuringBlock'
      BY <1>7 DEF Grant
<1>8. ASSUME NEW l \in Logins, RedisFails(l) PROVE NoneAdmittedDuringBlock'
  <2>1. CASE CountFailure
        BY <1>8, <2>1, CountFailureNotes, Zenon DEF RedisFails
  <2>2. CASE UNCHANGED <<block, early>> \/ block' = 0
        BY <1>8, <2>2 DEF RedisFails
  <2> QED
      BY <1>8, <2>1, <2>2 DEF RedisFails, Unblock
<1>9. ASSUME Admin PROVE NoneAdmittedDuringBlock'
      BY <1>9 DEF Admin
<1>10. ASSUME Tick PROVE NoneAdmittedDuringBlock'
      BY <1>10 DEF Tick
<1>11. ASSUME UNCHANGED vars PROVE NoneAdmittedDuringBlock'
      BY <1>11 DEF vars
<1> QED
    BY <1>1, <1>2, <1>3, <1>4, <1>5, <1>6, <1>7, <1>8, <1>9, <1>10, <1>11 DEF Next, LoginStep

(* While the user is blocked only logins that is_blocked had let through   *)
(* before the block began are under way, for any number of connections,    *)
(* either throttle and any limits.                                         *)
THEOREM BlockKeepsOut == Spec => []NoneAdmittedDuringBlock
<1>1. Init => NoneAdmittedDuringBlock
  BY DEF Init, NoneAdmittedDuringBlock
<1> QED
  BY <1>1, AdmissionStep, ThrottleTypeCorrect, PTL DEF Spec

-----------------------------------------------------------------------------
(* What makes GrantedWasValid inductive: a login that has yet to compare   *)
(* its password is noted as valid if it would pass now (before its row is  *)
(* read) or with the row it read (after), and one that has passed is noted.*)
Noted ==
    /\ config.static => user.state = "enabled"
    /\ \A l \in Logins :
          /\ pc[l] = "find" /\ Right(l) => l \in valid
          /\ pc[l] = "verify" /\ read[l].password = given[l] => l \in valid
          /\ pc[l] \in {"succeed", "clear", "finish"} => l \in valid
          /\ pc[l] = "idle" /\ outcome[l] = "granted" => l \in valid

(* At first no login has looked a row up. *)
LEMMA NotedInit == Init => Noted
  BY SMTT(30) DEF Init, Noted

(* A row that changes was the user's row when the login looked it up. *)
LEMMA NotedStep == TypeOK /\ Noted /\ [Next]_vars => Noted'
<1> SUFFICES ASSUME TypeOK, Noted, [Next]_vars PROVE Noted'
    OBVIOUS
<1> USE DEF TypeOK, Noted, Right, throttle, attempt, Goto, End
<1>1. ASSUME NEW l \in Logins, Ask(l) PROVE Noted'
      BY <1>1 DEF Ask
<1>2. ASSUME NEW l \in Logins, Find(l) PROVE Noted'
      BY <1>2 DEF Find, Rows
<1>3. ASSUME NEW l \in Logins, Verify(l) PROVE Noted'
      BY <1>3 DEF Verify
<1>4. ASSUME NEW l \in Logins, RecordFailure(l) PROVE Noted'
      BY <1>4 DEF RecordFailure
<1>5. ASSUME NEW l \in Logins, RecordSuccess(l) PROVE Noted'
      BY <1>5 DEF RecordSuccess
<1>6. ASSUME NEW l \in Logins, ClearFailures(l) PROVE Noted'
      BY <1>6 DEF ClearFailures
<1>7. ASSUME NEW l \in Logins, Grant(l) PROVE Noted'
      BY <1>7 DEF Grant
<1>8. ASSUME NEW l \in Logins, RedisFails(l) PROVE Noted'
      BY <1>8 DEF RedisFails
<1>9. ASSUME Admin PROVE Noted'
      BY <1>9 DEF Admin, CreateUser, SetPassword, DisableUser, Rows
<1>10. ASSUME Tick PROVE Noted'
      BY <1>10 DEF Tick
<1>11. ASSUME UNCHANGED vars PROVE Noted'
      BY <1>11 DEF vars
<1> QED
    BY <1>1, <1>2, <1>3, <1>4, <1>5, <1>6, <1>7, <1>8, <1>9, <1>10, <1>11 DEF Next, LoginStep

(* A connection is authenticated only with a password that was the         *)
(* enabled user's at some time during its login, whatever the admin        *)
(* commands change meanwhile.                                              *)
THEOREM GrantsHonest == Spec => []GrantedWasValid
<1>1. Noted => GrantedWasValid
  BY DEF Noted, GrantedWasValid
<1> QED
  BY <1>1, NotedInit, NotedStep, ThrottleTypeCorrect, PTL DEF Spec

-----------------------------------------------------------------------------
(* The bound on the wrong passwords that are checked. *)

(* How many wrong passwords: the logins at some points, and the failures   *)
(* short of a block.                                                       *)
In(S) == {l \in Logins : pc[l] \in S}
Allowed == IF MaxFailures = 0 THEN 0 ELSE MaxFailures - 1

(* Logins that are about to report a wrong password, and ones that may     *)
(* still check one.                                                        *)
Reporting == Cardinality(In({"fail"}))
Guessing == Cardinality(In({"find", "verify"}))
Connections == Cardinality(Logins)

(* What makes GuessesBounded inductive.  Without a block every wrong       *)
(* password was counted, is about to be, or met an error; with a block no  *)
(* login comes past the throttle, and one that is past it guesses once.    *)
Counting ==
    /\ failures <= Allowed
    /\ block = 0 => guesses <= failures + Reporting + errors
    /\ block > 0 => guesses + Guessing <= Allowed + Connections + errors

(* A finite number of logins is at the points of S ... *)
LEMMA InFinite ==
    ASSUME NEW S
    PROVE  IsFiniteSet(In(S)) /\ Cardinality(In(S)) \in Nat /\ Cardinality(In(S)) <= Cardinality(Logins)
           /\ Cardinality(Logins) \in Nat
  BY ThrottleAssumption, FS_Subset, FS_CardinalityType DEF In

(* ... and disjoint sets of points share the logins. *)
LEMMA InDisjoint ==
    /\ Reporting + Guessing <= Connections
    /\ Reporting \in Nat /\ Guessing \in Nat /\ Connections \in Nat
<1> DEFINE A == In({"fail"})
           B == In({"find", "verify"})
<1>1. IsFiniteSet(A) /\ IsFiniteSet(B) /\ A \cap B = {} /\ A \cup B \subseteq Logins
  BY InFinite, Zenon DEF In
<1>2. Cardinality(A \cup B) = Cardinality(A) + Cardinality(B)
  <2>1. Cardinality(A \cup B) = Cardinality(A) + Cardinality(B) - Cardinality(A \cap B)
    BY <1>1, FS_Union
  <2>2. Cardinality(A \cap B) = 0
    BY <1>1, FS_EmptySet
  <2> HIDE DEF A, B
  <2>3. Cardinality(A) \in Nat /\ Cardinality(B) \in Nat
    BY <1>1, FS_CardinalityType
  <2> QED
    BY <2>1, <2>2, <2>3
<1>3. Cardinality(A \cup B) <= Cardinality(Logins)
  BY <1>1, ThrottleAssumption, FS_Subset
<1> QED
  BY <1>2, <1>3, InFinite DEF Reporting, Guessing, Connections

(* A login that moves changes the count of the points it leaves and enters.*)
LEMMA Moves ==
    ASSUME TypeOK, NEW l \in Logins, NEW x \in Points, NEW S, Goto(l, x)
    PROVE  Cardinality(In(S)') = Cardinality(In(S)) + (IF x \in S THEN 1 ELSE 0)
                                                   - (IF pc[l] \in S THEN 1 ELSE 0)
<1>1. IsFiniteSet(In(S)) /\ Cardinality(In(S)) \in Nat
  BY InFinite
<1>2. CASE x \in S /\ pc[l] \in S
  <2>1. In(S)' = In(S)
    BY <1>2 DEF In, Goto, TypeOK
  <2> QED
    BY <1>1, <1>2, <2>1
<1>3. CASE x \in S /\ pc[l] \notin S
  <2>1. In(S)' = In(S) \cup {l} /\ l \notin In(S)
    BY <1>3 DEF In, Goto, TypeOK
  <2>2. Cardinality(In(S) \cup {l}) = Cardinality(In(S)) + 1
    BY <1>1, <2>1, FS_AddElement, SMTT(30)
  <2> QED
    BY <1>1, <1>3, <2>1, <2>2
<1>4. CASE x \notin S /\ pc[l] \in S
  <2>1. In(S)' = In(S) \ {l} /\ l \in In(S)
    BY <1>4 DEF In, Goto, TypeOK
  <2>2. Cardinality(In(S) \ {l}) = Cardinality(In(S)) - 1
    BY <1>1, <2>1, FS_RemoveElement, SMTT(30)
  <2> QED
    BY <1>1, <1>4, <2>1, <2>2
<1>5. CASE x \notin S /\ pc[l] \notin S
  <2>1. In(S)' = In(S)
    BY <1>5 DEF In, Goto, TypeOK
  <2> QED
    BY <1>1, <1>5, <2>1
<1> QED
  BY <1>2, <1>3, <1>4, <1>5

(* Logins that stay where they are are counted as before. *)
LEMMA Stays ==
    ASSUME UNCHANGED pc, NEW S
    PROVE  Cardinality(In(S)') = Cardinality(In(S))
  BY DEF In

(* The logins at the points that count stay natural numbers. *)
LEMMA CountsNat ==
    ASSUME TypeOK, TypeOK'
    PROVE  /\ Reporting \in Nat /\ Reporting' \in Nat /\ Guessing \in Nat /\ Guessing' \in Nat
           /\ Connections \in Nat /\ Allowed \in Nat /\ Reporting + Guessing <= Connections
           /\ failures \in Nat /\ failures' \in Nat /\ block \in Nat /\ block' \in Nat
           /\ guesses \in Nat /\ guesses' \in Nat /\ errors \in Nat /\ errors' \in Nat
<1>1. Reporting \in Nat /\ Guessing \in Nat /\ Connections \in Nat /\ Reporting + Guessing <= Connections
  BY InDisjoint
<1>2. Reporting' \in Nat /\ Guessing' \in Nat
  <2>1. In({"fail"})' \subseteq Logins /\ In({"find", "verify"})' \subseteq Logins
    BY DEF In
  <2> QED
    BY <2>1, ThrottleAssumption, FS_Subset, FS_CardinalityType DEF Reporting, Guessing
<1> QED
  BY <1>1, <1>2, ThrottleAssumption DEF TypeOK, Allowed

(* The arithmetic of the cases. *)
LEMMA Outlasts ==
    ASSUME NEW x \in Nat, NEW g \in Nat, NEW g1 \in Nat, NEW al \in Nat, NEW n \in Nat,
           NEW e \in Nat, NEW e1 \in Nat, g1 <= g, e <= e1, x + g <= al + n + e
    PROVE  x + g1 <= al + n + e1
  OBVIOUS

(* The sum when a block begins. *)
LEMMA Begins ==
    ASSUME NEW x \in Nat, NEW f \in Nat, NEW r \in Nat, NEW g \in Nat, NEW al \in Nat,
           NEW n \in Nat, NEW e \in Nat, NEW e1 \in Nat,
           x <= f + r + e, r + g <= n, f <= al, e <= e1
    PROVE  x + g <= al + n + e1
  OBVIOUS

(* The sum while the throttle is open. *)
LEMMA Grows ==
    ASSUME NEW x \in Nat, NEW f \in Nat, NEW f1 \in Nat, NEW r \in Nat, NEW r1 \in Nat,
           NEW e \in Nat, NEW e1 \in Nat, x <= f + r + e, f + r + e <= f1 + r1 + e1
    PROVE  x <= f1 + r1 + e1
  OBVIOUS

(* A step without a guess under which no counted login gets lost. *)
LEMMA Unharmed ==
    ASSUME TypeOK, TypeOK', Counting, guesses' = guesses, failures' <= Allowed,
           block' = block, errors <= errors', Guessing' <= Guessing,
           block = 0 => failures + Reporting + errors <= failures' + Reporting' + errors'
    PROVE  Counting'
<1>1. ASSUME block' = 0 PROVE guesses' <= failures' + Reporting' + errors'
  BY <1>1, CountsNat, Grows DEF Counting
<1>2. ASSUME block' > 0 PROVE guesses' + Guessing' <= Allowed + Connections + errors'
  BY <1>2, CountsNat, Outlasts DEF Counting
<1> QED
  BY <1>1, <1>2 DEF Counting, Allowed, Connections

(* A step that clears the throttle. *)
LEMMA Cleared ==
    ASSUME TypeOK, TypeOK', guesses' = 0, block' = 0, failures' <= Allowed
    PROVE  Counting'
<1>1. guesses' <= failures' + Reporting' + errors'
  BY CountsNat
<1> QED
  BY <1>1, CountsNat DEF Counting, Allowed

(* A failure that is counted, or meets a block, or starts one. *)
LEMMA CountFailureCounts ==
    ASSUME TypeOK, TypeOK', Counting, NEW l \in Logins, pc[l] = "fail", Goto(l, "idle"),
           BlockTime > 0, CountFailure, UNCHANGED guesses, errors <= errors'
    PROVE  Counting'
<1>1. Reporting = Reporting' + 1 /\ Guessing' = Guessing
  BY Moves, CountsNat DEF Points, Reporting, Guessing
<1>2. \/ block > 0 /\ failures' = failures /\ block' = block
      \/ block = 0 /\ failures' = 0 /\ block' > 0
      \/ block = 0 /\ block' = 0 /\ failures' = failures + 1 /\ failures' <= Allowed
  BY ThrottleAssumption DEF CountFailure, BlockTime, Allowed, TypeOK
<1>3. CASE block > 0 /\ failures' = failures /\ block' = block
  BY <1>1, <1>3, CountsNat, Unharmed DEF Counting
<1>4. CASE block = 0 /\ failures' = 0 /\ block' > 0
  <2>1. guesses' + Guessing' <= Allowed + Connections + errors'
    BY <1>1, <1>4, CountsNat, Begins DEF Counting
  <2> QED
    BY <1>4, <2>1, CountsNat DEF Counting, Allowed, Connections
<1>5. CASE block = 0 /\ block' = 0 /\ failures' = failures + 1 /\ failures' <= Allowed
  <2>1. failures + Reporting + errors <= failures' + Reporting' + errors'
    <3>1. failures + Reporting = failures' + Reporting'
      BY <1>1, <1>5, CountsNat
    <3> QED
      BY <3>1, CountsNat
  <2> QED
    BY <1>1, <1>5, <2>1, CountsNat, Unharmed
<1> QED
  BY <1>2, <1>3, <1>4, <1>5

(* The block time never changes. *)
LEMMA BlockTimeFixed == [Next]_vars => BlockTime' = BlockTime
  BY DEF Next, LoginStep, vars, BlockTime, Ask, Find, Verify, RecordFailure, RecordSuccess,
         ClearFailures, Grant, RedisFails, Admin, Tick

(* Counting is inductive. *)
LEMMA CountingStep ==
    TypeOK /\ TypeOK' /\ BlockTime > 0 /\ Counting /\ [Next]_vars => Counting'
<1> SUFFICES ASSUME TypeOK, TypeOK', BlockTime > 0, Counting, [Next]_vars PROVE Counting'
    OBVIOUS
<1>a. /\ failures \in Nat /\ failures <= Allowed /\ 0 <= Allowed /\ block \in Nat /\ errors \in Nat
      /\ pc \in [Logins -> Points]
  BY CountsNat DEF Counting, TypeOK
<1>b. ASSUME Guessing' <= Guessing, Reporting <= Reporting', UNCHANGED <<failures, block, guesses, errors>>
      PROVE  Counting'
  BY <1>a, <1>b, CountsNat, Unharmed
<1>c. ASSUME UNCHANGED pc, UNCHANGED <<failures, block, guesses, errors>> PROVE Counting'
  BY <1>b, <1>c, Stays, CountsNat DEF Reporting, Guessing
<1>1. ASSUME NEW l \in Logins, Ask(l) PROVE Counting'
  <2>1. CASE block > 0
    <3>1. UNCHANGED pc
      BY <1>1, <1>a, <2>1, Zenon DEF Ask, IsBlocked, End, Goto
    <3> QED
      BY <1>1, <1>c, <3>1 DEF Ask, throttle
  <2>2. CASE block = 0
    <3>1. PICK x \in {"verify", "find"} : Goto(l, x)
      BY <1>1, <2>2 DEF Ask, IsBlocked
    <3>2. Reporting' = Reporting
      BY <1>1, <3>1, Moves, CountsNat DEF Points, Reporting, Ask
    <3>3. guesses' <= failures' + Reporting' + errors' /\ failures' <= Allowed /\ block' = 0
      BY <1>1, <1>a, <2>2, <3>2 DEF Ask, throttle, Counting
    <3> QED
      BY <3>3 DEF Counting, Allowed
  <2> QED
    BY <1>a, <2>1, <2>2
<1>2. ASSUME NEW l \in Logins, Find(l) PROVE Counting'
  <2>1. PICK x \in {"fail", "idle", "verify"} : Goto(l, x)
    BY <1>2 DEF Find, End
  <2>2. Guessing' <= Guessing /\ Reporting <= Reporting'
    BY <1>2, <2>1, Moves, CountsNat DEF Points, Reporting, Guessing, Find
  <2> QED
    BY <1>2, <1>b, <2>2 DEF Find, throttle
<1>3. ASSUME NEW l \in Logins, Verify(l) PROVE Counting'
  <2>1. CASE read[l].password = given[l]
    <3>1. Goto(l, "succeed") /\ guesses' = guesses
      BY <1>3, <2>1 DEF Verify
    <3>2. Guessing' <= Guessing /\ Reporting <= Reporting'
      BY <1>3, <3>1, Moves, CountsNat DEF Points, Reporting, Guessing, Verify
    <3> QED
      BY <1>3, <1>b, <3>1, <3>2 DEF Verify
  <2>2. CASE read[l].password # given[l]
    <3>1. Goto(l, "fail") /\ guesses' = guesses + 1
      BY <1>3, <2>2 DEF Verify
    <3>2. Guessing = Guessing' + 1 /\ Reporting' = Reporting + 1
      BY <1>3, <3>1, Moves, CountsNat DEF Points, Reporting, Guessing, Verify
    <3>3. UNCHANGED <<failures, block, errors>>
      BY <1>3 DEF Verify
    <3>4. ASSUME block = 0 PROVE guesses' <= failures + Reporting' + errors
      BY <3>1, <3>2, <3>4, CountsNat DEF Counting
    <3>5. ASSUME block > 0 PROVE guesses' + Guessing' <= Allowed + Connections + errors
      <4>1. guesses' + Guessing' = guesses + Guessing
        BY <3>1, <3>2, CountsNat
      <4> QED
        BY <3>5, <4>1 DEF Counting
    <3> QED
      BY <1>a, <3>3, <3>4, <3>5 DEF Counting, Allowed, Connections
  <2> QED
    BY <2>1, <2>2
<1>4. ASSUME NEW l \in Logins, RecordFailure(l) PROVE Counting'
  BY <1>4, <1>a, CountFailureCounts DEF RecordFailure, End
<1>5. ASSUME NEW l \in Logins, RecordSuccess(l) PROVE Counting'
  BY <1>5, <1>a, Cleared DEF RecordSuccess, Unblock, Forget
<1>6. ASSUME NEW l \in Logins, ClearFailures(l) PROVE Counting'
  <2>1. Guessing' = Guessing
    BY <1>6, Moves, CountsNat DEF Points, Guessing, ClearFailures
  <2>2. CASE block = 0
    BY <1>6, <1>a, <2>2, Cleared DEF ClearFailures, Forget
  <2>3. CASE block > 0
    BY <1>6, <1>a, <2>1, <2>3, CountsNat, Unharmed DEF ClearFailures, Forget
  <2> QED
    BY <1>a, <2>2, <2>3
<1>7. ASSUME NEW l \in Logins, Grant(l) PROVE Counting'
  <2>1. Guessing' <= Guessing /\ Reporting <= Reporting'
    BY <1>7, Moves, CountsNat DEF Points, Reporting, Guessing, Grant, End
  <2> QED
    BY <1>7, <1>b, <2>1 DEF Grant, throttle
<1>8. ASSUME NEW l \in Logins, RedisFails(l) PROVE Counting'
  <2>1. Goto(l, "idle") /\ errors' = errors + 1 /\ errors <= errors'
    BY <1>8, <1>a DEF RedisFails, End
  <2>2. pc[l] \in {"idle", "fail", "succeed", "clear"}
    BY <1>8 DEF RedisFails
  <2>3. Guessing' = Guessing /\ Reporting <= Reporting' + 1
    BY <2>1, <2>2, Moves, CountsNat DEF Points, Reporting, Guessing
  <2>4. CASE pc[l] = "fail" /\ CountFailure /\ UNCHANGED guesses
    BY <1>a, <2>1, <2>4, CountFailureCounts
  <2>5. CASE block' = 0 /\ guesses' = 0 /\ failures' \in {0, failures}
    BY <1>a, <2>5, Cleared
  <2>6. CASE UNCHANGED <<block, guesses, failures>>
    <3>1. failures + Reporting + errors <= failures' + Reporting' + errors'
      <4>1. Reporting + errors <= Reporting' + errors'
        BY <2>1, <2>3, CountsNat
      <4> QED
        BY <2>6, <4>1, CountsNat
    <3> QED
      BY <1>a, <2>1, <2>3, <2>6, <3>1, CountsNat, Unharmed
  <2>7. CASE block > 0 /\ failures' = 0 /\ UNCHANGED <<block, guesses>>
    BY <1>a, <2>1, <2>3, <2>7, CountsNat, Unharmed
  <2> QED
    BY <1>8, <1>a, <2>4, <2>5, <2>6, <2>7 DEF RedisFails, Unblock, Forget, throttle
<1>9. ASSUME Admin PROVE Counting'
  BY <1>9, <1>c DEF Admin, throttle, attempt
<1>10. ASSUME Tick PROVE Counting'
  <2>1. UNCHANGED <<pc, errors>> /\ Guessing' = Guessing /\ Reporting' = Reporting
    BY <1>10, Stays DEF Tick, attempt, Reporting, Guessing
  <2>2. failures' \in {0, failures}
    BY <1>10 DEF Tick
  <2>3. CASE block' = 0 /\ guesses' = 0
    BY <1>a, <2>2, <2>3, Cleared
  <2>4. CASE block' = 0 /\ block = 0 /\ guesses' = guesses /\ failures' = failures
    BY <1>c, <2>1, <2>4
  <2>5. CASE block' > 0 /\ block > 0 /\ guesses' \in {0, guesses}
    <3>1. guesses' + Guessing' <= Allowed + Connections + errors'
      BY <2>1, <2>5, CountsNat DEF Counting
    <3> QED
      BY <1>a, <2>2, <2>5, <3>1 DEF Counting, Allowed, Connections
  <2> QED
    BY <1>10, <1>a, <2>3, <2>4, <2>5 DEF Tick
<1>11. ASSUME UNCHANGED vars PROVE Counting'
  BY <1>11, <1>c DEF vars, throttle, attempt
<1> QED
    BY <1>1, <1>2, <1>3, <1>4, <1>5, <1>6, <1>7, <1>8, <1>9, <1>10, <1>11 DEF Next, LoginStep

(* However many connections guess at once, the wrong passwords that are    *)
(* checked before the user is blocked, and while the user is, are at most  *)
(* the limit and one for every other connection and uncounted failure.     *)
THEOREM GuessLimit == Spec => []GuessesBounded
<1>1. Init => Counting
  <2>1. ASSUME Init PROVE Reporting \in Nat /\ Allowed \in Nat
    BY InDisjoint, ThrottleAssumption DEF Allowed
  <2> QED
    BY <2>1 DEF Init, Counting
<1>2. TypeOK /\ Counting => guesses <= Allowed + Connections + errors
  <2> SUFFICES ASSUME TypeOK, Counting PROVE guesses <= Allowed + Connections + errors
    OBVIOUS
  <2>1. /\ Reporting \in Nat /\ Guessing \in Nat /\ Connections \in Nat /\ Allowed \in Nat
        /\ Reporting + Guessing <= Connections
        /\ guesses \in Nat /\ errors \in Nat /\ failures \in Nat /\ block \in Nat
    BY InDisjoint, ThrottleAssumption DEF Allowed, TypeOK
  <2>2. CASE block = 0
    BY <2>1, <2>2 DEF Counting
  <2>3. CASE block > 0
    BY <2>1, <2>3 DEF Counting
  <2> QED
    BY <2>1, <2>2, <2>3
<1>3. TypeOK /\ (BlockTime > 0 => Counting) => GuessesBounded
  BY <1>2 DEF GuessesBounded, Allowed, Connections
<1>4. (BlockTime > 0 => Counting) /\ TypeOK /\ TypeOK' /\ [Next]_vars => (BlockTime > 0 => Counting)'
  BY CountingStep, BlockTimeFixed
<1> QED
  BY <1>1, <1>3, <1>4, ThrottleTypeCorrect, PTL DEF Spec
=============================================================================
