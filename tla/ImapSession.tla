----------------------------- MODULE ImapSession -----------------------------
(***************************************************************************)
(* The IMAP connections of one server process: the state of each session   *)
(* from the greeting to the teardown, the mailboxes the sessions select,   *)
(* create, rename and delete, the rows they leave in the table sessions    *)
(* and the gauge of authenticated sessions.                                *)
(*                                                                         *)
(* A command of a connection is a step; LOGIN and the teardown, which      *)
(* touch shared state several times, are several.  Commands that change    *)
(* nothing of this (CAPABILITY, LIST, FETCH, refused commands) are left    *)
(* out.                                                                    *)
(***************************************************************************)
EXTENDS Integers, FiniteSets

CONSTANTS
    Conns,          \* connections, each made once
    Accounts,       \* mail accounts
    Users,          \* what a login can yield: accounts, and users without one
    None,           \* nobody
    Names,          \* mailbox names
    Acceptor,       \* does the plaintext listener offer STARTTLS?
    MaxId,          \* bound on mailbox ids
    MaxFailures     \* bound on failures of the database

ASSUME SessionAssumption ==
    /\ Accounts \subseteq Users /\ None \notin Users
    /\ IsFiniteSet(Conns) /\ Acceptor \in BOOLEAN
    /\ MaxId \in Nat /\ MaxFailures \in Nat

VARIABLES
    phase,          \* where the task of the connection is
    state,          \* ImapSession.state
    who,            \* ImapSession.authenticated
    name,           \* the mailbox named in state SelectedMailbox
    readOnly,       \* and its read_only
    snapshot,       \* selected_mailbox_snapshot: {} or {[account, id]}
    counted,        \* auth_counted
    recorded,       \* session_record_created
    tls,            \* tls_active
    starttls,       \* starttls_available
    plain,          \* is the transport in the clear?
    joining,        \* the context activate_authenticated_session was given
    mailboxes,      \* the table: records [id, account, name]
    nextId,
    sessions,       \* the row of each connection in the table sessions
    gauge,          \* authenticated_sessions
    expunged,       \* history: [by, owner] of each CLOSE and EXPUNGE
    failures

login == <<who, counted, recorded, joining>>
selection == <<name, readOnly, snapshot>>
transport == <<tls, starttls, plain>>
table == <<mailboxes, nextId>>
vars == <<phase, state, login, selection, transport, table, sessions, gauge, expunged, failures>>

Phases == {"new", "ready", "recording", "closing", "leaving", "ended"}
States == {"NotAuthenticated", "Authenticated", "SelectedMailbox", "Logout"}

(* The state has the shape of ImapSession and of the tables. *)
TypeOK ==
    /\ phase \in [Conns -> Phases]
    /\ state \in [Conns -> States]
    /\ who \in [Conns -> Users \cup {None}] /\ joining \in [Conns -> Users \cup {None}]
    /\ name \in [Conns -> Names \cup {None}]
    /\ readOnly \in [Conns -> BOOLEAN] /\ counted \in [Conns -> BOOLEAN]
    /\ recorded \in [Conns -> BOOLEAN] /\ tls \in [Conns -> BOOLEAN]
    /\ starttls \in [Conns -> BOOLEAN] /\ plain \in [Conns -> BOOLEAN]
    /\ \A c \in Conns : /\ snapshot[c] \subseteq [account : Accounts \cup {None}, id : Nat]
                        /\ phase[c] = "ready" =>
                               ((state[c] = "SelectedMailbox") <=> (snapshot[c] # {}))
    /\ mailboxes \subseteq [id : 1..MaxId, account : Accounts, name : Names]
    /\ nextId \in 1..(MaxId + 1)
    /\ sessions \in [Conns -> {"none", "connected", "disconnected"}]
    /\ gauge \in Int
    /\ expunged \subseteq [by : Users \cup {None}, owner : Accounts]
    /\ failures \in 0..MaxFailures

Init ==
    /\ phase = [c \in Conns |-> "new"]
    /\ state = [c \in Conns |-> "NotAuthenticated"]
    /\ who = [c \in Conns |-> None] /\ joining = [c \in Conns |-> None]
    /\ name = [c \in Conns |-> None]
    /\ readOnly = [c \in Conns |-> FALSE]
    /\ snapshot = [c \in Conns |-> {}]
    /\ counted = [c \in Conns |-> FALSE] /\ recorded = [c \in Conns |-> FALSE]
    /\ tls = [c \in Conns |-> FALSE] /\ plain = [c \in Conns |-> TRUE]
    /\ starttls = [c \in Conns |-> FALSE]
    /\ mailboxes = {} /\ nextId = 1
    /\ sessions = [c \in Conns |-> "none"]
    /\ gauge = 0
    /\ expunged = {}
    /\ failures = 0

-----------------------------------------------------------------------------
(* find_mailbox: there is at most one. *)
Find(a, n) == {b \in mailboxes : b.account = a /\ b.name = n}

HasAccount(c) == who[c] \in Accounts
Selected(c) == state[c] = "SelectedMailbox"
Ready(c) == phase[c] = "ready"

(* Leaving SelectedMailbox. *)
Deselect(c) ==
    /\ snapshot' = [snapshot EXCEPT ![c] = {}]
    /\ name' = [name EXCEPT ![c] = None]
    /\ readOnly' = [readOnly EXCEPT ![c] = FALSE]

(* The loop over the commands ends.  What the teardown does not read is    *)
(* forgotten at once.                                                      *)
EndLoop(c) ==
    /\ phase' = [phase EXCEPT ![c] = "closing"]
    /\ tls' = [tls EXCEPT ![c] = FALSE]
    /\ starttls' = [starttls EXCEPT ![c] = FALSE]
    /\ plain' = [plain EXCEPT ![c] = TRUE]
    /\ Deselect(c)

(* A connection is accepted by the plaintext or by the TLS listener. *)
Connect(c, encrypted) ==
    /\ phase[c] = "new"
    /\ phase' = [phase EXCEPT ![c] = "ready"]
    /\ starttls' = [starttls EXCEPT ![c] = Acceptor /\ ~encrypted]
    /\ tls' = [tls EXCEPT ![c] = encrypted]
    /\ plain' = [plain EXCEPT ![c] = ~encrypted]
    /\ UNCHANGED <<state, login, selection, table, sessions, gauge, expunged, failures>>

(* The branch of handle_connection that upgrades the transport. *)
AcceptsStarttls(c) ==
    /\ Acceptor /\ plain[c] /\ ~tls[c] /\ starttls[c]
    /\ state[c] = "NotAuthenticated"

Starttls(c) ==
    /\ Ready(c) /\ AcceptsStarttls(c)
    /\ plain' = [plain EXCEPT ![c] = FALSE]
    /\ tls' = [tls EXCEPT ![c] = TRUE]
    /\ starttls' = [starttls EXCEPT ![c] = FALSE]
    /\ UNCHANGED <<phase, state, login, selection, table, sessions, gauge, expunged, failures>>

-----------------------------------------------------------------------------
(* activate_authenticated_session, up to the INSERT: the session is        *)
(* counted, once.                                                          *)
Activate(c, u) ==
    /\ joining' = [joining EXCEPT ![c] = u]
    /\ gauge' = IF counted[c] THEN gauge ELSE gauge + 1
    /\ counted' = [counted EXCEPT ![c] = TRUE]
    /\ phase' = [phase EXCEPT ![c] = "recording"]
    /\ UNCHANGED <<state, who, recorded, selection, transport, table, sessions, expunged, failures>>

(* LOGIN with the right password; in any state. *)
Login(c, u) ==
    /\ Ready(c)
    /\ Activate(c, u)

(* AUTHENTICATE, only before a login. *)
Authenticate(c, u) ==
    /\ Ready(c) /\ state[c] = "NotAuthenticated"
    /\ Activate(c, u)

(* Mutation of Enter: the selection of the previous login is kept. *)
EnterSelected(c) ==
    /\ who' = [who EXCEPT ![c] = joining[c]]
    /\ joining' = [joining EXCEPT ![c] = None]
    /\ state' = [state EXCEPT ![c] = IF Selected(c) THEN @ ELSE "Authenticated"]
    /\ phase' = [phase EXCEPT ![c] = "ready"]
    /\ UNCHANGED <<counted, selection>>

Enter(c) ==
    /\ who' = [who EXCEPT ![c] = joining[c]]
    /\ joining' = [joining EXCEPT ![c] = None]
    /\ state' = [state EXCEPT ![c] = "Authenticated"]
    /\ phase' = [phase EXCEPT ![c] = "ready"]
    /\ Deselect(c)
    /\ UNCHANGED counted

(* create_session, unless an earlier login made the row.  Errors are       *)
(* ignored: of the database, which may come after the row is written, and  *)
(* then, at the next login, of the UNIQUE connection_id.                   *)
CreateSession(c) ==
    /\ phase[c] = "recording"
    /\ \/ /\ ~recorded[c] /\ sessions[c] = "none"
          /\ sessions' = [sessions EXCEPT ![c] = "connected"]
          /\ recorded' = [recorded EXCEPT ![c] = TRUE]
          /\ UNCHANGED failures
       \/ /\ ~recorded[c] /\ sessions[c] = "none" /\ failures < MaxFailures
          /\ \E row \in {"none", "connected"} : sessions' = [sessions EXCEPT ![c] = row]
          /\ failures' = failures + 1
          /\ UNCHANGED recorded
       \/ /\ recorded[c] \/ sessions[c] # "none"
          /\ UNCHANGED <<sessions, recorded, failures>>
    /\ Enter(c)
    /\ UNCHANGED <<transport, table, gauge, expunged>>

-----------------------------------------------------------------------------
(* SELECT and EXAMINE.  Without an account there is nothing to look up and *)
(* an empty placeholder, mailbox 0, is selected.                           *)
Select(c, n, examine) ==
    /\ Ready(c)
    /\ snapshot' \in {[snapshot EXCEPT ![c] = {[account |-> x.account, id |-> x.id]}] :
           x \in IF HasAccount(c) THEN Find(who[c], n) ELSE {[account |-> None, id |-> 0]}}
    /\ state' = [state EXCEPT ![c] = "SelectedMailbox"]
    /\ name' = [name EXCEPT ![c] = n]
    /\ readOnly' = [readOnly EXCEPT ![c] = examine]
    /\ UNCHANGED <<phase, login, transport, table, sessions, gauge, expunged, failures>>

Unselect(c) ==
    /\ Ready(c) /\ Selected(c)
    /\ state' = [state EXCEPT ![c] = "Authenticated"]
    /\ Deselect(c)
    /\ UNCHANGED <<phase, login, transport, table, sessions, gauge, expunged, failures>>

(* The messages marked \Deleted of mailbox id are deleted, if it exists. *)
Expunging(c, id) ==
    expunged' = expunged \cup
        {[by |-> who[c], owner |-> b.account] : b \in {b \in mailboxes : b.id = id}}

(* CLOSE goes by the id of the snapshot ... *)
Close(c) ==
    /\ Ready(c) /\ Selected(c)
    /\ IF readOnly[c]
       THEN UNCHANGED expunged
       ELSE \E s \in snapshot[c] : Expunging(c, s.id)
    /\ state' = [state EXCEPT ![c] = "Authenticated"]
    /\ Deselect(c)
    /\ UNCHANGED <<phase, login, transport, table, sessions, gauge, failures>>

(* ... and may fail after some of the messages, which ends the connection. *)
CloseFails(c) ==
    /\ Ready(c) /\ Selected(c) /\ ~readOnly[c]
    /\ \E s \in snapshot[c] : s.id > 0 /\ Expunging(c, s.id)
    /\ EndLoop(c)
    /\ UNCHANGED <<state, login, table, sessions, gauge, failures>>

(* EXPUNGE looks the name up again, as STORE, COPY and FETCH do. *)
Expunge(c) ==
    /\ Ready(c) /\ HasAccount(c) /\ Selected(c) /\ ~readOnly[c]
    /\ \E b \in Find(who[c], name[c]) : Expunging(c, b.id)
    /\ UNCHANGED <<phase, state, login, selection, transport, table, sessions, gauge, failures>>

-----------------------------------------------------------------------------
Create(c, n) ==
    /\ Ready(c) /\ HasAccount(c) /\ nextId <= MaxId
    /\ Find(who[c], n) = {}
    /\ mailboxes' = mailboxes \cup {[id |-> nextId, account |-> who[c], name |-> n]}
    /\ nextId' = nextId + 1
    /\ UNCHANGED <<phase, state, login, selection, transport, sessions, gauge, expunged, failures>>

(* DELETE of a mailbox, whoever has selected it. *)
Delete(c, n) ==
    /\ Ready(c) /\ HasAccount(c) /\ Find(who[c], n) # {}
    /\ mailboxes' = mailboxes \ Find(who[c], n)
    /\ UNCHANGED <<phase, state, login, selection, transport, nextId, sessions, gauge, expunged,
                   failures>>

(* RENAME.  Of the sessions that have selected the mailbox only the one    *)
(* that renames it learns the new name.                                    *)
Rename(c, n, new) ==
    /\ Ready(c) /\ HasAccount(c)
    /\ Find(who[c], new) = {} /\ Find(who[c], n) # {}
    /\ mailboxes' = (mailboxes \ Find(who[c], n)) \cup
                        {[id |-> b.id, account |-> b.account, name |-> new] : b \in Find(who[c], n)}
    /\ name' = [name EXCEPT ![c] = IF Selected(c) /\ @ = n THEN new ELSE @]
    /\ UNCHANGED <<phase, state, login, readOnly, snapshot, transport, nextId, sessions, gauge,
                   expunged, failures>>

-----------------------------------------------------------------------------
(* Mutation of Logout: auth_counted stays set. *)
LogoutCounted(c) ==
    /\ Ready(c)
    /\ gauge' = IF counted[c] THEN gauge - 1 ELSE gauge
    /\ state' = [state EXCEPT ![c] = "Logout"]
    /\ EndLoop(c)
    /\ UNCHANGED <<who, counted, recorded, joining, table, sessions, expunged, failures>>

(* LOGOUT, and the loop over the commands ends. *)
Logout(c) ==
    /\ Ready(c)
    /\ gauge' = IF counted[c] THEN gauge - 1 ELSE gauge
    /\ counted' = [counted EXCEPT ![c] = FALSE]
    /\ state' = [state EXCEPT ![c] = "Logout"]
    /\ EndLoop(c)
    /\ UNCHANGED <<who, recorded, joining, table, sessions, expunged, failures>>

(* Mutation of Break: an error returns at once. *)
BreakOff(c) ==
    /\ Ready(c)
    /\ phase' = [phase EXCEPT ![c] = "leaving"]
    /\ UNCHANGED <<state, login, selection, transport, table, sessions, gauge, expunged, failures>>

(* The client is gone, or an error (of the transport, of the TLS           *)
(* handshake, of the database) leaves the loop.                            *)
Break(c) ==
    /\ Ready(c)
    /\ EndLoop(c)
    /\ UNCHANGED <<state, login, table, sessions, gauge, expunged, failures>>

(* record_disconnected, whose failure is ignored; counted in failures. *)
RecordDisconnected(c) ==
    /\ phase[c] = "closing"
    /\ phase' = [phase EXCEPT ![c] = "leaving"]
    /\ \/ /\ sessions' = [sessions EXCEPT ![c] = IF recorded[c] THEN "disconnected" ELSE @]
          /\ UNCHANGED failures
       \/ /\ recorded[c] /\ failures < MaxFailures
          /\ failures' = failures + 1 /\ UNCHANGED sessions
    /\ UNCHANGED <<state, login, selection, transport, table, gauge, expunged>>

(* The end of handle_connection; the session is dropped. *)
Leave(c) ==
    /\ phase[c] = "leaving"
    /\ gauge' = IF counted[c] THEN gauge - 1 ELSE gauge
    /\ phase' = [phase EXCEPT ![c] = "ended"]
    /\ state' = [state EXCEPT ![c] = "NotAuthenticated"]
    /\ who' = [who EXCEPT ![c] = None]
    /\ counted' = [counted EXCEPT ![c] = FALSE]
    /\ recorded' = [recorded EXCEPT ![c] = FALSE]
    /\ Deselect(c)
    /\ UNCHANGED <<joining, transport, table, sessions, expunged, failures>>

-----------------------------------------------------------------------------
Next == \E c \in Conns :
    \/ \E b \in BOOLEAN : Connect(c, b)
    \/ Starttls(c)
    \/ \E u \in Users : Login(c, u) \/ Authenticate(c, u)
    \/ CreateSession(c)
    \/ \E n \in Names, b \in BOOLEAN : Select(c, n, b)
    \/ Unselect(c) \/ Close(c) \/ CloseFails(c) \/ Expunge(c)
    \/ \E n \in Names : Create(c, n) \/ Delete(c, n)
    \/ \E n, new \in Names : Rename(c, n, new)
    \/ Logout(c) \/ Break(c) \/ RecordDisconnected(c) \/ Leave(c)

Spec == Init /\ [][Next]_vars

-----------------------------------------------------------------------------
(* The gauge is the number of connections that are logged in and have      *)
(* neither logged out nor ended: a second LOGIN, a LOGOUT followed by the  *)
(* teardown and an error at any point count once.                          *)
GaugeExact ==
    gauge = Cardinality({c \in Conns :
        /\ state[c] # "Logout"
        /\ who[c] # None \/ joining[c] # None})

(* A connection that ended leaves no row that says it is connected, unless *)
(* the database failed.                                                    *)
RowsClosed ==
    Cardinality({c \in Conns : phase[c] = "ended" /\ sessions[c] = "connected"}) <= failures

(* CLOSE, by the id it remembers, and EXPUNGE, by the name it looks up,    *)
(* expunge only mailboxes of the account the session is logged in to,      *)
(* whatever was renamed, deleted or selected under an earlier login.       *)
ExpungesOwn == \A e \in expunged : e.by = e.owner
=============================================================================
