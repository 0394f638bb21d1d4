-------------------------- MODULE MCMailboxCommands --------------------------
(* Three sessions, one command each, on an inbox of two messages, the      *)
(* second marked \Deleted, and an empty archive.  A statement fails, or two *)
(* sessions meet a sync of the inbox.                                      *)
EXTENDS MailboxCommands, TLC
CONSTANTS inbox, archive, old, doomed, posted, s1, s2, s3

MCRow(uid, msg, flags) ==
    [box |-> inbox, uid |-> uid, msg |-> msg, flags |-> flags,
     base |-> flags, wanted |-> flags]
MCFirstRows == {MCRow(1, old, {}), MCRow(2, doomed, {"Deleted"})}

MCStore(verb, op, flag) == [verb |-> verb, box |-> inbox, op |-> op, flag |-> flag]
MCCopy(verb, from, to) == [verb |-> verb, box |-> from, to |-> to]
MCOn(verb) == [verb |-> verb, box |-> inbox]

MCAppend == [verb |-> "APPEND", box |-> inbox, msg |-> posted]
MCMove == MCCopy("MOVE", inbox, archive)
MCSeen(verb) == MCStore(verb, "+", "Seen")
MCGiven(x, y, z) == [cmd |-> s1 :> x @@ s2 :> y @@ s3 :> z, due |-> {}, breaks |-> 1]
MCSynced(x, y) ==
    [cmd |-> s1 :> x @@ s2 :> y @@ s3 :> [verb |-> "CLOSE", box |-> archive],
     due |-> {inbox}, breaks |-> 0]

MCWorkloads == {
    MCGiven(MCSeen("STORE"), MCMove, MCAppend),
    MCGiven(MCMove, MCOn("EXPUNGE"), MCCopy("COPY", inbox, inbox)),
    MCGiven(MCSeen("STORE"), MCStore("STORE", "-", "Deleted"), MCOn("CLOSE")),
    MCGiven(MCSeen("UID STORE"), MCOn("EXPUNGE set"), MCCopy("COPY", inbox, archive)),
    MCGiven(MCSeen("UID STORE"), MCStore("UID STORE", "+", "Deleted"), MCOn("UID EXPUNGE")),
    MCSynced(MCSeen("STORE"), MCAppend),
    MCSynced(MCMove, MCOn("EXPUNGE"))}
=============================================================================
