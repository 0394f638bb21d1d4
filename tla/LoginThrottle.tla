---------------------------- MODULE LoginThrottle ---------------------------
(***************************************************************************)
(* Logins with one user name: the authenticator of the configuration       *)
(* (static or PostgreSQL) over the throttle of the configuration (a map in *)
(* memory, or keys in Redis).  The throttle is asked before the password   *)
(* is checked and told after it, and several connections log in at once.   *)
(* The admin commands create the user, set its password and disable it.    *)
(***************************************************************************)
EXTENDS Naturals, FiniteSets

CONSTANTS
    Logins,         \* connections that log in, again and again
    MaxFailures,    \* login_rate_limit_failures
    Lockout,        \* login_rate_limit_lockout_seconds
    Passwords,      \* the passwords the user may have
    MaxErrors       \* bound on requests that Redis does not answer

ASSUME ThrottleAssumption ==
    /\ MaxFailures \in Nat /\ Lockout \in Nat /\ MaxErrors \in Nat
    /\ IsFiniteSet(Logins)

VARIABLES
    config,         \* [redis, static]: the throttle and the authenticator
    user,           \* the user's row: [state, password]
    failures,       \* failed logins the throttle has counted
    countTtl,       \* time the Redis counter has left
    block,          \* time the block has left
    pc,             \* where each login is
    given,          \* the password each login was given
    read,           \* the user's row as each login read it
    outcome,        \* how each connection's last login ended
    early,          \* history: logins past the throttle when the block began
    valid,          \* history: logins whose password was right at some time
    guesses,        \* history: wrong passwords checked since the throttle was clear
    errors

throttle == <<failures, countTtl, block, early, guesses>>
attempt == <<pc, given, read, outcome>>
vars == <<config, user, throttle, attempt, valid, errors>>

Rows == [state : {"missing", "enabled", "disabled"}, password : Passwords]
Points == {"idle", "find", "verify", "fail", "succeed", "clear", "finish"}
(* Past is_blocked and not yet through with the throttle. *)
Admitted(l) == pc[l] \in {"find", "verify", "fail", "succeed", "clear"}

(* The state has the shape of the row, the counters and the logins. *)
TypeOK ==
    /\ config \in [redis : BOOLEAN, static : BOOLEAN]
    /\ user \in Rows
    /\ failures \in 0..MaxFailures /\ countTtl \in Nat /\ block \in Nat
    /\ pc \in [Logins -> Points]
    /\ given \in [Logins -> Passwords] /\ read \in [Logins -> Rows]
    /\ outcome \in [Logins -> {"none", "granted", "refused", "error"}]
    /\ early \subseteq Logins /\ valid \subseteq Logins
    /\ guesses \in Nat /\ errors \in 0..MaxErrors

Init ==
    /\ config \in [redis : BOOLEAN, static : BOOLEAN]
    /\ user \in {r \in Rows : config.static => r.state = "enabled"}
    /\ failures = 0 /\ countTtl = 0 /\ block = 0
    /\ pc = [l \in Logins |-> "idle"]
    /\ given = [l \in Logins |-> user.password]
    /\ read = [l \in Logins |-> user]
    /\ outcome = [l \in Logins |-> "none"]
    /\ early = {} /\ valid = {} /\ guesses = 0 /\ errors = 0

Goto(l, point) == pc' = [pc EXCEPT ![l] = point]
End(l, how) == Goto(l, "idle") /\ outcome' = [outcome EXCEPT ![l] = how]

(* The password is the user's, and the user may log in, at this time. *)
Right(l) == user.state = "enabled" /\ user.password = given[l]

-----------------------------------------------------------------------------
(* The block a failure starts: Redis keys live a second at least. *)
BlockTime == IF config.redis /\ Lockout = 0 THEN 1 ELSE Lockout

IsBlocked == block > 0

(* Mutation of CountFailure: the limit is passed by one. *)
CountFailureLate ==
    IF block > 0 THEN UNCHANGED <<failures, countTtl, block, early>>
    ELSE IF failures + 1 > MaxFailures
    THEN /\ block' = BlockTime /\ failures' = 0 /\ countTtl' = 0
         /\ early' = {l \in Logins : Admitted(l)}
    ELSE /\ failures' = failures + 1
         /\ countTtl' = IF config.redis /\ failures = 0 THEN BlockTime ELSE countTtl
         /\ UNCHANGED <<block, early>>

(* record_failure, under the mutex or in the script: nothing during a      *)
(* block; the failure that reaches the limit starts one.                   *)
CountFailure ==
    IF block > 0 THEN UNCHANGED <<failures, countTtl, block, early>>
    ELSE IF failures + 1 >= MaxFailures
    THEN /\ block' = BlockTime /\ failures' = 0 /\ countTtl' = 0
         /\ early' = {l \in Logins : Admitted(l)}
    ELSE /\ failures' = failures + 1
         /\ countTtl' = IF config.redis /\ failures = 0 THEN BlockTime ELSE countTtl
         /\ UNCHANGED <<block, early>>

-----------------------------------------------------------------------------
(* Mutation of Ask: a refused login starts the block again. *)
AskExtends(l) ==
    /\ pc[l] = "idle"
    /\ \E p \in Passwords :
          /\ given' = [given EXCEPT ![l] = p]
          /\ valid' = IF user.state = "enabled" /\ user.password = p
                      THEN valid \cup {l} ELSE valid \ {l}
    /\ IF IsBlocked
       THEN End(l, "refused") /\ block' = BlockTime
       ELSE /\ Goto(l, IF config.static THEN "verify" ELSE "find")
            /\ UNCHANGED <<outcome, block>>
    /\ read' = IF config.static THEN [read EXCEPT ![l] = user] ELSE read
    /\ UNCHANGED <<config, user, failures, countTtl, early, guesses, errors>>

(* LOGIN or AUTHENTICATE reaches authenticate, which asks the throttle. *)
Ask(l) ==
    /\ pc[l] = "idle"
    /\ \E p \in Passwords :
          /\ given' = [given EXCEPT ![l] = p]
          /\ valid' = IF user.state = "enabled" /\ user.password = p
                      THEN valid \cup {l} ELSE valid \ {l}
    /\ IF IsBlocked
       THEN End(l, "refused")
       ELSE Goto(l, IF config.static THEN "verify" ELSE "find") /\ UNCHANGED outcome
    /\ read' = IF config.static THEN [read EXCEPT ![l] = user] ELSE read
    /\ UNCHANGED <<config, user, throttle, errors>>

(* find_user_by_username.  A missing user counts as a failure, a disabled  *)
(* one does not.                                                           *)
Find(l) ==
    /\ pc[l] = "find"
    /\ read' = [read EXCEPT ![l] = user]
    /\ CASE user.state = "missing" -> Goto(l, "fail") /\ UNCHANGED outcome
         [] user.state = "disabled" -> End(l, "refused")
         [] OTHER -> Goto(l, "verify") /\ UNCHANGED outcome
    /\ UNCHANGED <<config, user, throttle, given, valid, errors>>

(* Mutation of Verify: the row is not compared with the password. *)
VerifyRow(l) ==
    /\ pc[l] = "verify"
    /\ Goto(l, IF read[l].state = "enabled" THEN "succeed" ELSE "fail")
    /\ guesses' = IF read[l].password = given[l] THEN guesses ELSE guesses + 1
    /\ UNCHANGED <<config, user, failures, countTtl, block, early, given, read, outcome,
                   valid, errors>>

(* The password is compared with the hash of the row that was read. *)
Verify(l) ==
    /\ pc[l] = "verify"
    /\ Goto(l, IF read[l].password = given[l] THEN "succeed" ELSE "fail")
    /\ guesses' = IF read[l].password = given[l] THEN guesses ELSE guesses + 1
    /\ UNCHANGED <<config, user, failures, countTtl, block, early, given, read, outcome,
                   valid, errors>>

RecordFailure(l) ==
    /\ pc[l] = "fail"
    /\ CountFailure
    /\ End(l, "refused")
    /\ UNCHANGED <<config, user, guesses, given, read, valid, errors>>

(* record_success: one removal in memory, two DELs in Redis. *)
Unblock == block' = 0 /\ guesses' = 0 /\ early' = {}
Forget == failures' = 0 /\ countTtl' = 0

RecordSuccess(l) ==
    /\ pc[l] = "succeed"
    /\ Unblock
    /\ IF config.redis
       THEN Goto(l, "clear") /\ UNCHANGED <<failures, countTtl>>
       ELSE Goto(l, "finish") /\ Forget
    /\ UNCHANGED <<config, user, given, read, outcome, valid, errors>>

ClearFailures(l) ==
    /\ pc[l] = "clear"
    /\ Forget
    /\ guesses' = IF block > 0 THEN guesses ELSE 0
    /\ Goto(l, "finish")
    /\ UNCHANGED <<config, user, block, early, given, read, outcome, valid, errors>>

(* The account is looked up and the connection is authenticated. *)
Grant(l) ==
    /\ pc[l] = "finish"
    /\ End(l, "granted")
    /\ UNCHANGED <<config, user, throttle, given, read, valid, errors>>

(* Redis does not answer: the login ends in an error, as does its          *)
(* connection.  The request may have been carried out.                     *)
RedisFails(l) ==
    /\ config.redis /\ errors < MaxErrors /\ errors' = errors + 1
    /\ \/ pc[l] \in {"idle", "fail", "succeed", "clear"} /\ UNCHANGED throttle
       \/ pc[l] = "fail" /\ CountFailure /\ UNCHANGED guesses
       \/ pc[l] = "succeed" /\ Unblock /\ UNCHANGED <<failures, countTtl>>
       \/ /\ pc[l] = "clear" /\ Forget
          /\ guesses' = IF block > 0 THEN guesses ELSE 0
          /\ UNCHANGED <<block, early>>
    /\ End(l, "error")
    /\ UNCHANGED <<config, user, given, read, valid>>

-----------------------------------------------------------------------------
(* The admin commands.  A login under way has a row of its own. *)
CreateUser ==
    /\ ~config.static /\ user.state = "missing"
    /\ \E p \in Passwords : user' = [state |-> "enabled", password |-> p]
SetPassword ==
    /\ ~config.static /\ user.state # "missing"
    /\ \E p \in Passwords : user' = [user EXCEPT !.password = p]
DisableUser ==
    /\ ~config.static /\ user.state = "enabled"
    /\ user' = [user EXCEPT !.state = "disabled"]

Admin ==
    /\ CreateUser \/ SetPassword \/ DisableUser
    /\ valid' = valid \cup {l \in Logins : pc[l] # "idle"
                               /\ user'.state = "enabled" /\ user'.password = given[l]}
    /\ UNCHANGED <<config, throttle, attempt, errors>>

(* A unit of time: the block and the Redis counter run out. *)
Tick ==
    /\ block > 0 \/ countTtl > 0
    /\ block' = IF block > 0 THEN block - 1 ELSE 0
    /\ countTtl' = IF countTtl > 0 THEN countTtl - 1 ELSE 0
    /\ failures' = IF config.redis /\ countTtl = 1 THEN 0 ELSE failures
    /\ guesses' = IF block = 1 \/ countTtl = 1 THEN 0 ELSE guesses
    /\ early' = IF block = 1 THEN {} ELSE early
    /\ UNCHANGED <<config, user, attempt, valid, errors>>

LoginStep(l) ==
    \/ Ask(l) \/ Find(l) \/ Verify(l) \/ RecordFailure(l)
    \/ RecordSuccess(l) \/ ClearFailures(l) \/ Grant(l) \/ RedisFails(l)

Next ==
    \/ \E l \in Logins : LoginStep(l)
    \/ Admin
    \/ Tick

Spec == Init /\ [][Next]_vars
(* Time passes; no login owes us anything. *)
FairSpec == Spec /\ WF_vars(Tick)

-----------------------------------------------------------------------------
(* While the user is blocked, only logins that were past the throttle when *)
(* the block began may still check a password or be granted                *)
(* (is_blocked, then find_user and verify_password without the mutex).     *)
NoneAdmittedDuringBlock ==
    block > 0 => \A l \in Logins : Admitted(l) => l \in early

(* Between two times the throttle is clear, no more wrong passwords are    *)
(* checked than the limit and one for every other connection, and one for  *)
(* every failure Redis did not count, if there is a lockout at all (the    *)
(* map in memory takes a lockout of no seconds at its word).               *)
GuessesBounded ==
    BlockTime > 0 =>
        guesses <= (IF MaxFailures = 0 THEN 0 ELSE MaxFailures - 1) + Cardinality(Logins) + errors

(* A login is granted only if its password was the user's, and the user    *)
(* enabled, at some time between the question to the throttle and the      *)
(* grant: a password change or a disable-user may come too late for it.    *)
GrantedWasValid ==
    \A l \in Logins : (pc[l] = "finish" \/ (pc[l] = "idle" /\ outcome[l] = "granted")) => l \in valid

(* A block ends, whatever is tried while it lasts. *)
BlockEnds == (block > 0) ~> (block = 0)
=============================================================================
