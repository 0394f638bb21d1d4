---------------------------- MODULE UpstreamWire ----------------------------
(***************************************************************************)
(* How the upstream client reads the answer to a command.  The connection  *)
(* is the sequence of lines still to be read.  A line is [kind, tag, note] *)
(* where kind is plus, untagged, tagged or other; tag is the tag of a      *)
(* tagged line and, for any other line, that of the command the server     *)
(* sends it for; note is OK or NO for a tagged line, and tells a FETCH     *)
(* literal and a capability list from other untagged data.                 *)
(*                                                                         *)
(* A reader returns [result, line, data, rest]: ok, no (the server refused *)
(* the command) or err (an unexpected line, or the end of the stream), the *)
(* tagged line it ends with, the data it took and the lines it left.       *)
(***************************************************************************)
EXTENDS Naturals, SequencesExt

NoLine == [kind |-> "none", tag |-> 0, note |-> "none"]
IsTagged(line, tag) == line.kind = "tagged" /\ line.tag = tag
After(lines, i) == SubSeq(lines, i + 1, Len(lines))
Failed(lines, i) == [result |-> "err", line |-> NoLine, data |-> <<>>, rest |-> After(lines, i)]

(* ensure_ok *)
Answered(lines, i, data) ==
    [result |-> IF lines[i].note = "OK" THEN "ok" ELSE "no", line |-> lines[i],
     data |-> data, rest |-> After(lines, i)]

(* Mutation of SendCommand: any tagged line ends the command. *)
SendCommandAny(lines, tag) ==
    LET i == SelectInSeq(lines, LAMBDA l : l.kind \notin {"plus", "untagged"})
    IN  IF i = 0 THEN Failed(lines, Len(lines))
        ELSE IF lines[i].kind # "tagged" THEN Failed(lines, i)
        ELSE Answered(lines, i, SelectSeq(SubSeq(lines, 1, i), LAMBDA l : l.kind = "untagged"))

(* send_command: untagged lines are collected, continuations are set       *)
(* aside, and any other line than the command's own answer is an error.    *)
SendCommand(lines, tag) ==
    LET i == SelectInSeq(lines, LAMBDA l : l.kind \notin {"plus", "untagged"})
    IN  IF i = 0 THEN Failed(lines, Len(lines))
        ELSE IF ~IsTagged(lines[i], tag) THEN Failed(lines, i)
        ELSE Answered(lines, i, SelectSeq(SubSeq(lines, 1, i), LAMBDA l : l.kind = "untagged"))

(* The last loop of APPEND, AUTHENTICATE and FETCH: lines are skipped up   *)
(* to the command's own answer.                                            *)
SkipToAnswer(lines, tag) ==
    LET i == SelectInSeq(lines, LAMBDA l : IsTagged(l, tag))
    IN  IF i = 0 THEN Failed(lines, Len(lines)) ELSE Answered(lines, i, <<>>)

(* append_with_internal_date and authenticate_sasl: the payload is sent    *)
(* after a continuation.                                                   *)
AppendMessage(lines, tag) ==
    LET i == SelectInSeq(lines, LAMBDA l : l.kind = "plus" \/ IsTagged(l, tag))
    IN  IF i = 0 THEN Failed(lines, Len(lines))
        ELSE IF lines[i].kind = "plus" THEN SkipToAnswer(After(lines, i), tag)
        ELSE Answered(lines, i, <<>>)

(* uid_fetch_rfc822: the last literal before the answer is the body. *)
FetchMessage(lines, tag) ==
    LET end == SkipToAnswer(lines, tag)
        bodies == SelectSeq(SubSeq(lines, 1, Len(lines) - Len(end.rest)),
                            LAMBDA l : l.kind = "untagged" /\ l.note = "literal")
    IN  IF end.result = "ok" /\ bodies = <<>> THEN [end EXCEPT !.result = "err"]
        ELSE [end EXCEPT !.data = IF bodies = <<>> THEN <<>> ELSE <<Last(bodies)>>]

Read(how, lines, tag) ==
    CASE how = "command" -> SendCommand(lines, tag)
      [] how = "append" -> AppendMessage(lines, tag)
      [] how = "fetch" -> FetchMessage(lines, tag)

(* Two commands on one connection: the second reads what the first left.   *)
Converse(first, second, lines) ==
    LET a == Read(first, lines, 1)
    IN  <<a, Read(second, a.rest, 2)>>

(* A server answers commands in order: a line for the second follows the   *)
(* answer to the first, which is the last line for it.                     *)
InOrder(lines) ==
    \A i \in DOMAIN lines :
        /\ lines[i].tag = 2 => \E j \in 1..(i - 1) : IsTagged(lines[j], 1)
        /\ lines[i].kind = "tagged" =>
              \A j \in (i + 1)..Len(lines) : lines[j].tag > lines[i].tag
=============================================================================
