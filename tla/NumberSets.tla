----------------------------- MODULE NumberSets -----------------------------
(***************************************************************************)
(* Message sets: how the server reads the set of a FETCH, STORE, COPY,     *)
(* MOVE or EXPUNGE, how it reads the UID criterion of a SEARCH, which      *)
(* messages of a mailbox it takes them to mean, and how it writes one      *)
(* (ESEARCH ALL).                                                          *)
(*                                                                         *)
(* A set is a sequence of parts, and a part is <<n>> or <<n, m>>, where n  *)
(* and m are numbers, the star or text that is no number.  A mailbox is    *)
(* the sequence of its local uids, in ascending order.                     *)
(***************************************************************************)
EXTENDS Integers, FiniteSetsExt, SequencesExt

Star == -1
Junk == -2

Ascending(S) == SetToSortSeq(S, <)

(* A range may be written backwards; a part with text is skipped. *)
ParsePart(part, max) ==
    LET expand(t) == IF t = Star THEN max ELSE t
        ends == {expand(t) : t \in ToSet(part)}
    IN  IF Junk \in ToSet(part) THEN {} ELSE Min(ends)..Max(ends)

(* parse_number_set: sorted, without duplicates, positive. *)
ParseNumberSet(set, max) ==
    Ascending({n \in UNION {ParsePart(set[i], max) : i \in DOMAIN set} : n > 0})

(* format_number_set: runs of consecutive numbers become ranges. *)
FormatNumberSet(values) ==
    LET extend(parts, v) ==
            IF parts # <<>> /\ v = Last(parts)[2] + 1
            THEN [parts EXCEPT ![Len(parts)][2] = v]
            ELSE Append(parts, <<v, v>>)
    IN  FoldLeft(extend, <<>>, Ascending(ToSet(values)))

-----------------------------------------------------------------------------
MaxUid(uids) == IF uids = <<>> THEN 0 ELSE Last(uids)

(* resolve_sequence_views and resolve_sequence_targets: the numbers of the *)
(* set with the messages at these positions.                               *)
ResolveSequence(set, uids) ==
    LET numbers == SelectSeq(ParseNumberSet(set, Len(uids)), LAMBDA n : n <= Len(uids))
    IN  [i \in DOMAIN numbers |-> <<numbers[i], uids[numbers[i]]>>]

(* resolve_uid_views and resolve_uid_targets. *)
ResolveUids(set, uids) ==
    LET wanted == ToSet(ParseNumberSet(set, MaxUid(uids)))
    IN  SelectSeq(uids, LAMBDA u : u \in wanted)

(* sequence_number_for_local_uid and sequence_number_for_view; 0 for none. *)
SequenceNumber(uids, uid) == SelectInSeq(uids, LAMBDA u : u = uid)

-----------------------------------------------------------------------------
(* The UID criterion of SEARCH reads its set in its own way: a star is 1   *)
(* at the start of a range and the largest number at its end, and a lone   *)
(* star or text is an error.                                               *)
LargestUid == 1000

ParseUidSetFails(set) ==
    \E i \in DOMAIN set : Junk \in ToSet(set[i]) \/ set[i] = <<Star>>

(* parse_uid_set and UidSet::push *)
ParseUidSet(set) ==
    {LET from == IF set[i][1] = Star THEN 1 ELSE set[i][1]
         to == IF Last(set[i]) = Star THEN LargestUid ELSE Last(set[i])
     IN  <<Min({from, to}), Max({from, to})>> : i \in DOMAIN set}

UidSetContains(ranges, uid) == \E r \in ranges : r[1] <= uid /\ uid <= r[2]

-----------------------------------------------------------------------------
(* What RFC 3501 takes a set to mean: a star is the largest number in use, *)
(* and the order of the ends of a range does not matter.                   *)
Denotes(set, max, n) ==
    \E i \in DOMAIN set :
        LET end(t) == IF t = Star THEN max ELSE t
            a == end(set[i][1])
            b == end(Last(set[i]))
        IN  Junk \notin ToSet(set[i]) /\ n \in Min({a, b})..Max({a, b})
=============================================================================
