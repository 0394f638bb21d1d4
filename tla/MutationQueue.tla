---------------------------- MODULE MutationQueue ----------------------------
(***************************************************************************)
(* The table of pending mutations and the background workers that replay   *)
(* it on the upstream IMAP servers.                                        *)
(*                                                                         *)
(* A mutation is identified with its idempotency key: the key covers the   *)
(* account, the mailbox, the type and the payload, and the column is       *)
(* UNIQUE, so a mutation has at most one row for as long as its mailbox    *)
(* exists.  A worker pass (flush_pending_mutations_once) visits the        *)
(* enabled accounts in id order, connects, and replays what is due in      *)
(* creation order.  Every row update is a statement of its own, so a       *)
(* worker can stop, and another worker can run, between any two of them.   *)
(***************************************************************************)
EXTENDS Integers, Sequences, FiniteSets

CONSTANTS
    Workers,        \* background workers, one per server process
    Accounts,       \* account ids: a finite set of integers
    Mutations,      \* idempotency keys clients may queue
    AccountOf,      \* the account of each mutation
    Poison,         \* mutations the upstream server always refuses
    Unreachable,    \* accounts whose upstream server never accepts us
    Pausable,       \* accounts an administrator may pause and resume
    Deletable,      \* accounts an administrator may delete
    Interval,       \* worker period (60 s in the code)
    MaxDelay,       \* longest back-off (300 s in the code)
    AttemptCap,     \* attempts are counted up to here; see Bump
    MaxFailures,    \* bound on the failures and the delays of upstream servers
    MaxAborts,      \* bound on crashes and database errors of workers
    MaxDeletes      \* bound on mutations dropped with their mailbox

ASSUME QueueAssumption ==
    /\ Accounts \subseteq Nat
    /\ IsFiniteSet(Mutations)
    /\ AccountOf \in [Mutations -> Accounts]
    /\ Poison \subseteq Mutations
    /\ Unreachable \subseteq Accounts
    /\ Pausable \subseteq Accounts
    /\ Deletable \subseteq Accounts
    /\ Interval \in Nat \ {0}
    /\ MaxDelay \in Nat \ {0}
    /\ AttemptCap \in Nat \ {0} /\ 2^AttemptCap >= MaxDelay
    /\ MaxFailures \in Nat /\ MaxAborts \in Nat /\ MaxDeletes \in Nat

VARIABLES
    status,     \* pending_mutations.status; "absent" before the INSERT
    attempts,   \* pending_mutations.attempts
    delay,      \* time until next_attempt_at, 0 when it is NULL or past
    created,    \* created_at, as the rank of the INSERT
    inserted,   \* how many rows were ever inserted
    effects,    \* how often the upstream server carried the mutation out
    enabled,    \* accounts with disabled_at IS NULL
    gone,       \* accounts deleted from the table
    pc,         \* where each worker is
    timer,      \* time to the next tick of each worker's interval
    todo,       \* accounts the worker's pass still has to visit
    batch,      \* due mutations the worker listed and has not finished,
                \* the one it works on first
    snapshot,   \* attempts as the worker read them when it listed
    failures, aborts, deletes   \* uses of the bounds

rows == <<status, attempts, delay, created, inserted>>
admin == <<enabled, gone>>
pass == <<todo, batch, snapshot>>
budget == <<failures, aborts, deletes>>
vars == <<rows, effects, admin, pc, timer, pass, budget>>

Statuses == {"absent", "pending", "in_flight", "failed", "succeeded", "deleted"}
Points == {"idle", "account", "list", "next", "apply", "succeed", "fail"}

(* The state has the shape of the table, of MutationStatus and of the      *)
(* local variables of a worker pass.                                       *)
TypeOK ==
    /\ status \in [Mutations -> Statuses]
    /\ attempts \in [Mutations -> 0..AttemptCap]
    /\ delay \in [Mutations -> Int]
    /\ created \in [Mutations -> Nat]
    /\ inserted \in Nat
    /\ effects \in [Mutations -> 0..AttemptCap]
    /\ enabled \subseteq Accounts
    /\ gone \subseteq Accounts
    /\ pc \in [Workers -> Points]
    /\ timer \in [Workers -> 0..Interval]
    /\ todo \in [Workers -> SUBSET Accounts]
    /\ batch \in [Workers -> Seq(Mutations)]
    /\ snapshot \in [Workers -> [Mutations -> 0..AttemptCap]]
    /\ failures \in Nat /\ aborts \in Nat /\ deletes \in Nat

-----------------------------------------------------------------------------
Lesser(a, b) == IF a < b THEN a ELSE b

(* Mutation of RetryDelay: the delay does not grow. *)
FlatDelay(n) == 1

(* retry_delay: two to the number of attempts, the exponent capped at ten. *)
RetryDelay(n) == Lesser(2^Lesser(n, 10), MaxDelay)

(* The number of attempts only selects the delay, and every delay past     *)
(* AttemptCap is MaxDelay: the model stops counting there.                 *)
Bump(n) == IF n < AttemptCap THEN n + 1 ELSE n

Present(m) == status[m] \notin {"absent", "deleted"}

(* Mutation of Due: the status is not looked at. *)
DueInAnyStatus(m, a) == AccountOf[m] = a /\ Present(m) /\ delay[m] = 0

(* list_due_pending_mutations for account a. *)
Due(m, a) ==
    /\ AccountOf[m] = a
    /\ status[m] \in {"pending", "failed"}
    /\ delay[m] = 0

(* Mutation of InOrder: ORDER BY created_at DESC. *)
Reversed(s) == \A i, j \in DOMAIN s : i < j => created[s[i]] > created[s[j]]

(* The rows of S, ORDER BY created_at ASC. *)
InOrder(s) == \A i, j \in DOMAIN s : i < j => created[s[i]] < created[s[j]]
Listings(S) ==
    {s \in [1..Cardinality(S) -> S] : {s[i] : i \in DOMAIN s} = S /\ InOrder(s)}

Current(w) == Head(batch[w])

(* ORDER BY id ASC: the account the pass visits next. *)
FirstAccount(S) == CHOOSE a \in S : \A b \in S : a <= b
Account(w) == FirstAccount(todo[w])

Init ==
    /\ status = [m \in Mutations |-> "absent"]
    /\ attempts = [m \in Mutations |-> 0]
    /\ delay = [m \in Mutations |-> 0]
    /\ created = [m \in Mutations |-> 0]
    /\ inserted = 0
    /\ effects = [m \in Mutations |-> 0]
    /\ enabled = Accounts
    /\ gone = {}
    /\ pc = [w \in Workers |-> "idle"]
    /\ timer = [w \in Workers |-> 0]
    /\ todo = [w \in Workers |-> {}]
    /\ batch = [w \in Workers |-> <<>>]
    /\ snapshot = [w \in Workers |-> [m \in Mutations |-> 0]]
    /\ failures = 0 /\ aborts = 0 /\ deletes = 0

-----------------------------------------------------------------------------
(* enqueue_mutation: the INSERT of one row.  A second INSERT of the same   *)
(* key fails on the UNIQUE column and changes nothing.                     *)
Enqueue(m) ==
    /\ status[m] = "absent" /\ AccountOf[m] \notin gone
    /\ status' = [status EXCEPT ![m] = "pending"]
    /\ inserted' = inserted + 1
    /\ created' = [created EXCEPT ![m] = inserted + 1]
    /\ UNCHANGED <<attempts, delay, effects, admin, pc, timer, pass, budget>>

(* The mailbox of m is deleted and its rows go with it (ON DELETE CASCADE). *)
CascadeDelete(m) ==
    /\ Present(m) /\ deletes < MaxDeletes
    /\ status' = [status EXCEPT ![m] = "deleted"]
    /\ deletes' = deletes + 1
    /\ UNCHANGED <<attempts, delay, created, inserted, effects, admin, pc, timer, pass,
                   failures, aborts>>

(* disable_mail_account and enable_mail_account (pause-sync, resume-sync). *)
Pause(a) ==
    /\ a \in (Pausable \cap enabled) \ gone
    /\ enabled' = enabled \ {a}
    /\ UNCHANGED <<rows, effects, gone, pc, timer, pass, budget>>

Resume(a) ==
    /\ a \in (Pausable \ enabled) \ gone
    /\ enabled' = enabled \cup {a}
    /\ UNCHANGED <<rows, effects, gone, pc, timer, pass, budget>>

(* delete_mail_account, whose rows the foreign keys delete with it. *)
DeleteAccount(a) ==
    /\ a \in Deletable \ gone
    /\ gone' = gone \cup {a}
    /\ enabled' = enabled \ {a}
    /\ status' = [m \in Mutations |->
                     IF AccountOf[m] = a /\ Present(m) THEN "deleted" ELSE status[m]]
    /\ UNCHANGED <<attempts, delay, created, inserted, effects, pc, timer, pass, budget>>

-----------------------------------------------------------------------------
(* The pass returns: its local variables are gone, the rows stay. *)
Return(w) ==
    /\ pc' = [pc EXCEPT ![w] = "idle"]
    /\ todo' = [todo EXCEPT ![w] = {}]
    /\ batch' = [batch EXCEPT ![w] = <<>>]
    /\ snapshot' = [snapshot EXCEPT ![w] = [m \in Mutations |-> 0]]

Goto(w, point) == pc' = [pc EXCEPT ![w] = point]

(* The interval fires and the worker reads the enabled accounts. *)
StartPass(w) ==
    /\ pc[w] = "idle" /\ timer[w] = 0
    /\ timer' = [timer EXCEPT ![w] = Interval]
    /\ todo' = [todo EXCEPT ![w] = enabled]
    /\ Goto(w, "account")
    /\ UNCHANGED <<rows, effects, admin, batch, snapshot, budget>>

EndPass(w) ==
    /\ pc[w] = "account" /\ todo[w] = {}
    /\ Return(w)
    /\ UNCHANGED <<rows, effects, admin, timer, budget>>

(* The account was deleted since the pass listed it. *)
SkipAccount(w) ==
    /\ pc[w] = "account" /\ todo[w] # {} /\ Account(w) \in gone
    /\ todo' = [todo EXCEPT ![w] = @ \ {Account(w)}]
    /\ UNCHANGED <<rows, effects, admin, pc, timer, batch, snapshot, budget>>

Connect(w) ==
    /\ pc[w] = "account" /\ todo[w] # {} /\ Account(w) \notin gone \cup Unreachable
    /\ Goto(w, "list")
    /\ UNCHANGED <<rows, effects, admin, timer, pass, budget>>

(* Connecting or authenticating fails: the error leaves the loop over the  *)
(* accounts, not just this account's round.                                *)
ConnectFails(w) ==
    /\ pc[w] = "account" /\ todo[w] # {} /\ Account(w) \notin gone
    /\ IF Account(w) \in Unreachable
       THEN UNCHANGED failures
       ELSE failures < MaxFailures /\ failures' = failures + 1
    /\ Return(w)
    /\ UNCHANGED <<rows, effects, admin, timer, aborts, deletes>>

ListDue(w) ==
    /\ pc[w] = "list"
    /\ \E s \in Listings({m \in Mutations : Due(m, Account(w))}) :
           batch' = [batch EXCEPT ![w] = s]
    /\ snapshot' = [snapshot EXCEPT ![w] = attempts]
    /\ Goto(w, "next")
    /\ UNCHANGED <<rows, effects, admin, timer, todo, budget>>

(* The loop is done and the client logs out. *)
Logout(w) ==
    /\ pc[w] = "next" /\ batch[w] = <<>>
    /\ todo' = [todo EXCEPT ![w] = @ \ {Account(w)}]
    /\ snapshot' = [snapshot EXCEPT ![w] = [m \in Mutations |-> 0]]
    /\ Goto(w, "account")
    /\ UNCHANGED <<rows, effects, admin, timer, batch, budget>>

(* update_pending_mutation: an UPDATE by id alone, whatever the row's      *)
(* status has become, with the attempts the worker read when it listed.    *)
UpdateRow(w, m, st, wait) ==
    /\ Present(m)
    /\ status' = [status EXCEPT ![m] = st]
    /\ attempts' = [attempts EXCEPT ![m] = Bump(snapshot[w][m])]
    /\ delay' = [delay EXCEPT ![m] = wait]
    /\ UNCHANGED <<created, inserted>>

MarkInFlight(w) ==
    /\ pc[w] = "next" /\ batch[w] # <<>>
    /\ UpdateRow(w, Current(w), "in_flight", 0)
    /\ Goto(w, "apply")
    /\ UNCHANGED <<effects, admin, timer, pass, budget>>

(* A row update that finds no row is an error, and ends the pass. *)
RowGone(w) ==
    /\ pc[w] \in {"next", "succeed", "fail"} /\ batch[w] # <<>>
    /\ ~Present(Current(w))
    /\ Return(w)
    /\ UNCHANGED <<rows, effects, admin, timer, budget>>

(* The upstream server carries the mutation out and says so. *)
Replay(w) ==
    /\ pc[w] = "apply" /\ Current(w) \notin Poison
    /\ effects' = [effects EXCEPT ![Current(w)] = Bump(@)]
    /\ Goto(w, "succeed")
    /\ UNCHANGED <<rows, admin, timer, pass, budget>>

(* The server carries it out and the answer is lost, or is one the client  *)
(* rejects (a COPY without COPYUID).                                       *)
ReplayAnswerLost(w) ==
    /\ pc[w] = "apply" /\ Current(w) \notin Poison
    /\ failures < MaxFailures
    /\ failures' = failures + 1
    /\ effects' = [effects EXCEPT ![Current(w)] = Bump(@)]
    /\ Goto(w, "fail")
    /\ UNCHANGED <<rows, admin, timer, pass, aborts, deletes>>

(* Mutation of ReplayRefused: the refusal is taken for an answer. *)
RefusalSwallowed(w) ==
    /\ pc[w] = "apply" /\ failures < MaxFailures
    /\ failures' = failures + 1
    /\ Goto(w, "succeed")
    /\ UNCHANGED <<rows, effects, admin, timer, pass, aborts, deletes>>

(* The server refuses, or is not reached. *)
ReplayRefused(w) ==
    /\ pc[w] = "apply"
    /\ IF Current(w) \in Poison
       THEN UNCHANGED failures
       ELSE failures < MaxFailures /\ failures' = failures + 1
    /\ Goto(w, "fail")
    /\ UNCHANGED <<rows, effects, admin, timer, pass, aborts, deletes>>

MarkSucceeded(w) ==
    /\ pc[w] = "succeed"
    /\ UpdateRow(w, Current(w), "succeeded", 0)
    /\ batch' = [batch EXCEPT ![w] = Tail(@)]
    /\ Goto(w, "next")
    /\ UNCHANGED <<effects, admin, timer, todo, snapshot, budget>>

(* Mutation of MarkFailed: the error returns before the row is updated. *)
ReturnUnmarked(w) ==
    /\ pc[w] = "fail"
    /\ Return(w)
    /\ UNCHANGED <<rows, effects, admin, timer, budget>>

(* The failed row backs off, and the error ends the pass. *)
MarkFailed(w) ==
    /\ pc[w] = "fail"
    /\ UpdateRow(w, Current(w), "failed", RetryDelay(Bump(snapshot[w][Current(w)])))
    /\ Return(w)
    /\ UNCHANGED <<effects, admin, timer, budget>>

(* The process dies and is restarted (its interval then fires at once), or *)
(* a statement or the logout fails and the error ends the pass.            *)
Abort(w) ==
    /\ pc[w] # "idle" /\ aborts < MaxAborts
    /\ aborts' = aborts + 1
    /\ Return(w)
    /\ \/ timer' = [timer EXCEPT ![w] = 0]
       \/ UNCHANGED timer
    /\ UNCHANGED <<rows, effects, admin, failures, deletes>>

(* A unit of time.  An idle worker whose interval is over starts first.  A *)
(* pass takes less than a unit, except when the upstream server is slow.   *)
CountDown(n) == IF n > 0 THEN n - 1 ELSE n
Tick ==
    /\ \A w \in Workers : pc[w] = "idle" => timer[w] > 0
    /\ IF \A w \in Workers : pc[w] = "idle"
       THEN UNCHANGED failures
       ELSE failures < MaxFailures /\ failures' = failures + 1
    /\ timer' = [w \in Workers |-> CountDown(timer[w])]
    /\ delay' = [m \in Mutations |-> CountDown(delay[m])]
    /\ UNCHANGED <<status, attempts, created, inserted, effects, admin, pc, pass,
                   aborts, deletes>>

-----------------------------------------------------------------------------
WorkerStep(w) ==
    \/ StartPass(w) \/ EndPass(w) \/ SkipAccount(w) \/ Connect(w) \/ ConnectFails(w)
    \/ ListDue(w) \/ Logout(w) \/ MarkInFlight(w) \/ RowGone(w)
    \/ Replay(w) \/ ReplayAnswerLost(w) \/ ReplayRefused(w)
    \/ MarkSucceeded(w) \/ MarkFailed(w)

Next ==
    \/ \E m \in Mutations : Enqueue(m) \/ CascadeDelete(m)
    \/ \E a \in Accounts : Pause(a) \/ Resume(a) \/ DeleteAccount(a)
    \/ \E w \in Workers : WorkerStep(w) \/ Abort(w)
    \/ Tick

Spec == Init /\ [][Next]_vars

(* Tokio keeps polling a worker that can run and its interval keeps        *)
(* firing.  Clients, administrators and crashes owe us nothing.            *)
FairSpec == Spec /\ WF_vars(Tick) /\ \A w \in Workers : WF_vars(WorkerStep(w))
-----------------------------------------------------------------------------
(* A row says succeeded only for a mutation the upstream server carried    *)
(* out: flush_pending_mutations writes Succeeded only on the path where    *)
(* the replay returned Ok, whatever other workers and restarts did to the  *)
(* row in between.                                                         *)
SucceededWasReplayed ==
    \A m \in Mutations : status[m] = "succeeded" => effects[m] > 0

(* Replay keeps the order of the client's commands up to retries: while a  *)
(* mutation is replayed, no earlier mutation of its account is still       *)
(* waiting for its first attempt (ORDER BY created_at, and the pass stops  *)
(* at the first error).                                                    *)
NotOvertaken ==
    \A w \in Workers : pc[w] = "apply" =>
        \A n \in Mutations :
            (AccountOf[n] = AccountOf[Current(w)] /\ status[n] = "pending")
                => created[n] > created[Current(w)]

(* A row in flight has a worker that will settle it, except for the one    *)
(* row that each crash or database error can leave behind; such a row is   *)
(* never due again.                                                        *)
Owned(m) ==
    \E w \in Workers : pc[w] \in {"apply", "succeed", "fail"} /\ Current(w) = m
Stranded(m) == status[m] = "in_flight" /\ ~Owned(m)
StrandedOnlyByAbort == Cardinality({m \in Mutations : Stranded(m)}) <= aborts

(* What a row means to the ledger: see MutationLedger. *)
LedgerPhase ==
    [m \in Mutations |-> CASE status[m] = "absent" -> "none"
                           [] status[m] = "succeeded" -> "done"
                           [] status[m] = "deleted" -> "cancelled"
                           [] OTHER -> "queued"]
LedgerDelivered == [m \in Mutations |-> effects[m] > 0]
Ledger == INSTANCE MutationLedger WITH phase <- LedgerPhase, delivered <- LedgerDelivered

(* With one worker the queue implements the ledger. *)
ImplementsLedger == Ledger!Spec

(* Every queued mutation the server accepts is eventually replayed, also   *)
(* behind one that the server refuses for ever: the back-off of the        *)
(* refused one outgrows the worker's period, and the passes in between     *)
(* reach the others.  It is not replayed if it is deleted, if its account  *)
(* is paused, or if a crash stranded it in flight.                         *)
Delivered ==
    \A m \in Mutations \ Poison :
        status[m] = "pending" ~>
            \/ status[m] \in {"succeeded", "deleted"}
            \/ Stranded(m)
            \/ AccountOf[m] \notin enabled
=============================================================================
