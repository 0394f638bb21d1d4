---------------------------- MODULE MCMailboxSync ----------------------------
(* Workloads of MailboxSync for TLC. *)
EXTENDS MailboxSync

One == {CHOOSE m \in Messages : TRUE}

Workload(delivered, appended, n, m, k) ==
    [deliver |-> delivered, append |-> appended, unfit |-> {}, quota |-> Null,
     resets |-> n, stores |-> m, failures |-> k]

(* No appends: a change of the UIDVALIDITY with a flag change or with a    *)
(* failure, a flag change with a failure, a message that does not parse,   *)
(* or a quota that is used up; or appends with a failure.                  *)
MCWorkloads ==
    {Workload(One, {}, 1, 1, 0),
     Workload(Messages, {}, 1, 0, 1),
     Workload(Messages, {}, 0, 1, 1),
     [Workload(Messages, {}, 0, 0, 1) EXCEPT !.unfit = One],
     [Workload(Messages, {}, 1, 0, 0) EXCEPT !.quota = 2],
     Workload(One, Appended, 0, 0, 1)}

(* Deliveries and appends, and nothing that goes wrong. *)
MCQuiet == {Workload(One, Appended, 0, 0, 0)}
=============================================================================
