--------------------------- MODULE FetchSections ----------------------------
(***************************************************************************)
(* What FETCH returns of a message and what STORE makes of its flags: the  *)
(* sections of the raw text (BODY[HEADER], BODY[TEXT], the header fields), *)
(* partial ranges, the MIME parts and their numbers.                       *)
(*                                                                         *)
(* The raw text is a sequence of symbols: a line break, a blank, a run of  *)
(* text, or a field, which is a name with its colon and value.             *)
(***************************************************************************)
EXTENDS Integers, FiniteSetsExt, SequencesExt

CRLF == 0
Blank == 1
Text == 2
Fields == {11, 12}

(* The place of the first blank line; 0 for none. *)
BlankLine(raw) ==
    LET at == {i \in 1..(Len(raw) - 1) : raw[i] = CRLF /\ raw[i + 1] = CRLF}
    IN  IF at = {} THEN 0 ELSE Min(at)

(* split_rfc822: the headers keep the break of their last line. *)
Split(raw) ==
    LET i == BlankLine(raw)
    IN  IF i = 0 THEN [headers |-> raw, body |-> <<>>]
        ELSE [headers |-> SubSeq(raw, 1, i), body |-> SubSeq(raw, i + 2, Len(raw))]

(* Mutation of HeaderBlocks: a folded line is a block of its own. *)
HeaderBlocksUnfolded(headers) ==
    LET starts == {1} \cup {i + 1 : i \in {j \in 1..(Len(headers) - 1) : headers[j] = CRLF}}
        order == SetToSortSeq(starts, <)
        closed == [k \in 1..(Len(order) - 1) |-> SubSeq(headers, order[k], order[k + 1] - 2)]
        last == SubSeq(headers, Last(order), Len(headers))
    IN  SelectSeq(Append(closed, last), LAMBDA b : b # <<>>)

(* header_blocks: a block for each field with its folded lines.  Headers   *)
(* that end in a break have their last block twice, the second time with   *)
(* the break.                                                              *)
HeaderBlocks(headers) ==
    LET starts == {1} \cup {i + 1 : i \in {j \in 1..(Len(headers) - 1) :
                                headers[j] = CRLF /\ headers[j + 1] # Blank}}
        order == SetToSortSeq(starts, <)
        closed == [k \in 1..(Len(order) - 1) |-> SubSeq(headers, order[k], order[k + 1] - 2)]
        last == SubSeq(headers, Last(order), Len(headers))
        ended == IF last # <<>> /\ Last(last) = CRLF THEN <<Front(last)>> ELSE <<>>
    IN  SelectSeq(closed \o ended \o <<last>>, LAMBDA b : b # <<>>)

(* header_name: what stands before the first colon of the first line. *)
HeaderName(block) ==
    LET line == SubSeq(block, 1, Min({i \in DOMAIN block : block[i] = CRLF} \cup {Len(block) + 1}) - 1)
        colon == SelectInSeq(line, LAMBDA c : c \in Fields)
        from == SelectInSeq(line, LAMBDA c : c # Blank)
    IN  IF colon = 0 THEN <<>> ELSE SubSeq(line, from, colon)

(* select_header_blocks: HEADER.FIELDS and HEADER.FIELDS.NOT *)
SelectHeaderBlocks(headers, names, not) ==
    LET chosen == SelectSeq(HeaderBlocks(headers), LAMBDA b : (HeaderName(b) \in names) # not)
    IN  FlattenSeq([i \in DOMAIN chosen |-> chosen[i] \o <<CRLF>>]) \o <<CRLF>>

(* raw_fetch_bytes *)
RawFetchBytes(raw, section) ==
    CASE section.kind = "full" -> raw
      [] section.kind \in {"header", "mime"} -> Split(raw).headers \o <<CRLF>>
      [] section.kind = "text" -> Split(raw).body
      [] section.kind = "fields" -> SelectHeaderBlocks(Split(raw).headers, section.names, section.not)

(* apply_partial, and the range read of the object store *)
ApplyPartial(bytes, offset, count) ==
    IF offset >= Len(bytes) THEN <<>>
    ELSE SubSeq(bytes, offset + 1, Min({offset + count, Len(bytes)}))

-----------------------------------------------------------------------------
(* The MIME parts.  A part is [kind, subs]: a leaf, a multipart, or an     *)
(* embedded message whose only sub is its content.  A record of the part   *)
(* table is <<path, at>>, where at is the place of the part in the tree.   *)
RECURSIVE BuildPartTree(_, _, _)
BuildLeafPart(path, at) == <<<<path, at>>>>
BuildMessagePart(part, path, at) ==
    <<<<path, at>>>> \o BuildPartTree(part.subs[1], Append(path, 1), Append(at, 1))
BuildPartTree(part, path, at) ==
    CASE part.kind = "message" -> BuildMessagePart(part, path, at)
      [] part.kind = "leaf" -> BuildLeafPart(path, at)
      [] part.kind = "multipart" ->
            FlattenSeq([i \in DOMAIN part.subs |->
                BuildPartTree(part.subs[i], Append(path, i), Append(at, i))])

(* parse_message: the parts of a message. *)
MimeParts(message) == BuildPartTree(message, <<1>>, <<>>)

(* BODY[number]: the place of the part found, {} for none. *)
FetchPart(message, number) ==
    {r[2] : r \in {q \in ToSet(MimeParts(message)) : q[1] = <<1>> \o number}}

(* The number of each part by RFC 3501: the content of an embedded message *)
(* continues its number, with a 1 unless it is a multipart.                *)
RECURSIVE Numbered(_, _, _)
Numbered(part, number, at) ==
    CASE part.kind = "leaf" -> {<<number, at>>}
      [] part.kind = "message" ->
            {<<number, at>>} \cup
            Numbered(part.subs[1],
                     IF part.subs[1].kind = "multipart" THEN number ELSE Append(number, 1),
                     Append(at, 1))
      [] part.kind = "multipart" ->
            UNION {Numbered(part.subs[i], Append(number, i), Append(at, i)) : i \in DOMAIN part.subs}

(* A multipart inside an embedded message. *)
RECURSIVE NestedMultipart(_)
NestedMultipart(part) ==
    \/ part.kind = "message" /\ part.subs[1].kind = "multipart"
    \/ \E i \in DOMAIN part.subs : NestedMultipart(part.subs[i])

-----------------------------------------------------------------------------
(* STORE.  A flag is <<name, spelling>>; spellings of one name are alike.  *)
Has(flags, flag) == \E i \in DOMAIN flags : flags[i][1] = flag[1]

(* dedupe_flags, and the addition of flags *)
AddFlags(flags, added) ==
    FoldLeft(LAMBDA out, f : IF Has(out, f) THEN out ELSE Append(out, f), flags, added)

(* apply_store_flags *)
ApplyStoreFlags(current, mode, requested) ==
    CASE mode = "replace" -> AddFlags(<<>>, requested)
      [] mode = "add" -> AddFlags(current, requested)
      [] mode = "remove" -> SelectSeq(current, LAMBDA f : ~Has(requested, f))
=============================================================================
