------------------------------ MODULE Answers -------------------------------
(***************************************************************************)
(* The pure parts of the server and of the upstream client, asked one      *)
(* question at a time: a step chooses an input of one of them, within the  *)
(* bounds given by the constants, and keeps the answer.  The properties    *)
(* compare the answer with what the protocol or the rest of the code       *)
(* expects of it.                                                          *)
(***************************************************************************)
EXTENDS SearchCriteria, Threads

CT == INSTANCE CommandText
FS == INSTANCE FetchSections
UW == INSTANCE UpstreamWire

CONSTANTS
    MaxParts,      \* parts of a message set
    MaxNumber,     \* largest number in a set, and uid of a mailbox
    MaxTerms,      \* tokens of a SEARCH command
    MaxThread,     \* messages of a THREAD
    MaxRaw,        \* symbols of a raw message
    MaxDepth,      \* depth of a MIME tree
    MaxName,       \* characters of a name, a pattern or a string
    MaxLines       \* lines read from upstream

ASSUME BoundsPositive ==
    {MaxParts, MaxNumber, MaxTerms, MaxThread, MaxRaw, MaxDepth, MaxName, MaxLines, MaxHits} \subseteq Nat \ {0}

VARIABLES asked, answer
vars == <<asked, answer>>

UpTo(S, n) == BoundedSeq(S, n)
Idle == asked.kind = "none"
Reply(question, result) == asked' = question /\ answer' = result

Init == asked = [kind |-> "none"] /\ answer = <<>>

-----------------------------------------------------------------------------
(* Message sets.  A token may be zero or past the end of the mailbox. *)
Tokens == (0..MaxNumber) \cup {Star, Junk}
Parts == UNION {[1..k -> Tokens] : k \in 1..2}

AskSet ==
    /\ Idle
    /\ \E set \in UpTo(Parts, MaxParts), present \in SUBSET (1..MaxNumber) :
          LET uids == Ascending(present)
          IN  Reply([kind |-> "set", set |-> set, uids |-> uids],
                    [numbers |-> ResolveSequence(set, uids), uids |-> ResolveUids(set, uids),
                     fails |-> ParseUidSetFails(set),
                     search |-> IF ParseUidSetFails(set) THEN {}
                                ELSE {u \in present : UidSetContains(ParseUidSet(set), u)}])

AskFormat ==
    /\ Idle
    /\ \E found \in SUBSET (1..(MaxNumber + 2)) :
          Reply([kind |-> "format", found |-> Ascending(found)], ESearch(Ascending(found)))

-----------------------------------------------------------------------------
(* SEARCH and SORT, on a mailbox in which every criterion below holds of   *)
(* some messages and not of others.                                        *)
Mail(uid, flags, size, internal, sent, created, words, subject) ==
    [uid |-> uid, flags |-> flags, keywords |-> {}, size |-> size, internal |-> internal,
     sent |-> sent, created |-> created, words |-> words, subject |-> subject]
Mailbox == <<Mail(1, {"Seen"}, 1, 1, 2, 3, {"w"}, 2),
             Mail(2, {}, 2, 2, NoDate, 3, {"v"}, 1),
             Mail(4, {"Seen", "Flagged"}, 3, NoDate, 1, 2, {"v", "w"}, 2),
             Mail(5, {"Flagged", "work"}, 2, 3, 3, 3, {}, 1)>>
Recent == 2

Criteria ==
    {[key |-> k] : k \in {"NOT", "OR", "RECENT", "OLD", "NEW"}}
        \cup {[key |-> "UID", set |-> <<<<2, 4>>>>], [key |-> "UID", set |-> <<<<5>>, <<1>>>>]}
        \cup {[key |-> k, word |-> "w"] : k \in {"TEXT", "other"}}
        \cup {[key |-> "HEADER", word |-> "w", indexed |-> b] : b \in BOOLEAN}
        \cup {[key |-> "FLAG", mark |-> "Seen"], [key |-> "UNFLAG", mark |-> "Flagged"]}
        \cup {[key |-> k, mark |-> "work"] : k \in {"KEYWORD", "UNKEYWORD"}}
        \cup {[key |-> "LARGER", n |-> 1], [key |-> "LARGER", n |-> 2], [key |-> "SMALLER", n |-> 3]}
        \cup {[key |-> k, n |-> 2] : k \in {"BEFORE", "ON", "SINCE", "SENTBEFORE", "SENTON", "SENTSINCE"}}
        \cup {[key |-> "BEFORE", n |-> 3], [key |-> "ALL"]}

(* The longest commands have a NOT or an OR: of plain criteria, one fewer  *)
(* merge in every way.                                                     *)
Commands ==
    {c \in UpTo(Criteria, MaxTerms) :
        Len(c) = MaxTerms => \E i \in DOMAIN c : c[i].key \in {"NOT", "OR"}}

(* What was ingested into the index: the mailbox, before or after one of   *)
(* its name in another account, or without a message that was copied.      *)
Own == [i \in DOMAIN Mailbox |-> [uid |-> Mailbox[i].uid, words |-> Mailbox[i].words]]
Foreign == <<[uid |-> 2, words |-> {"w"}], [uid |-> 3, words |-> {"v"}]>>
Ingested == {Own, Own \o Foreign, Foreign \o Own, SubSeq(Own, 1, 3)}
Indexed(documents) == FoldLeft(IndexMessage, [u \in {} |-> {}], documents)

AskSearch ==
    /\ Idle
    /\ \E tokens \in Commands :
          LET terms == ParseTerms(tokens, 1)
              query == ParseQuery(terms)
          IN  IF ParseFails(terms)
              THEN Reply([kind |-> "search", terms |-> terms], <<>>)
              ELSE \E index \in IF AsksIndex(query) THEN {Indexed(d) : d \in Ingested} ELSE {Indexed(Own)} :
                   \E top \in TopDocs(index, query) :
                      Reply([kind |-> "search", terms |-> terms, index |-> index],
                            ExecuteSearch(Mailbox, top, Recent, query))

AskSort ==
    /\ Idle
    /\ \E found \in SUBSET {1, 2, 4, 5}, reverse \in BOOLEAN,
          keys \in UpTo({"DATE", "SIZE", "ARRIVAL", "SUBJECT", "UID"}, 2) :
          Reply([kind |-> "sort", found |-> found, keys |-> keys, reverse |-> reverse],
                ExecuteSort(Mailbox, Ascending(found), keys, reverse))

-----------------------------------------------------------------------------
(* THREAD, on messages with the uids 1 to n in this order. *)
ThreadMail(uid, id, refs, reply, date, subject) ==
    [uid |-> uid, id |-> id, refs |-> refs, reply |-> reply, date |-> date, subject |-> subject]

AskThread ==
    /\ Idle
    /\ \E n \in 1..MaxThread :
       \E ids \in [1..n -> 0..n], named \in [1..n -> UpTo(1..n, 1) \cup {<<1, 2>>, <<MaxThread + 1>>}],
          reply \in UpTo({1}, 1) :
          LET messages == [i \in 1..n |->
                  ThreadMail(i, ids[i], named[i], IF i = n THEN reply ELSE <<>>, n - i, <<>>)]
          IN  Reply([kind |-> "thread", messages |-> messages], References(messages))

AskSubject ==
    /\ Idle
    /\ \E subjects \in [1..MaxThread -> {<<>>, <<1>>, <<Prefix, 1>>, <<Prefix, Prefix, 2>>}],
          dates \in [1..MaxThread -> 1..2] :
          LET messages == [i \in 1..MaxThread |-> ThreadMail(i, NoId, <<>>, <<>>, dates[i], subjects[i])]
          IN  Reply([kind |-> "subject", messages |-> messages], OrderedSubject(messages))

-----------------------------------------------------------------------------
(* FETCH and STORE. *)
Tiles(bytes, count) ==
    FlattenSeq([k \in 1..(Len(bytes) + 1) |-> FS!ApplyPartial(bytes, (k - 1) * count, count)])

AskSection ==
    /\ Idle
    /\ \E raw \in UpTo({FS!CRLF, FS!Blank, FS!Text} \cup FS!Fields, MaxRaw),
          names \in SUBSET {<<f>> : f \in FS!Fields}, count \in 1..3 :
          LET get(section) == FS!RawFetchBytes(raw, section)
          IN  Reply([kind |-> "section", raw |-> raw, names |-> names],
                    [header |-> get([kind |-> "header"]), text |-> get([kind |-> "text"]),
                     fields |-> get([kind |-> "fields", names |-> names, not |-> FALSE]),
                     others |-> get([kind |-> "fields", names |-> names, not |-> TRUE]),
                     tiles |-> Tiles(raw, count)])

RECURSIVE Trees(_)
Trees(depth) ==
    {[kind |-> "leaf", subs |-> <<>>]} \cup
    (IF depth = 0 THEN {}
     ELSE {[kind |-> "multipart", subs |-> s] : s \in UNION {[1..k -> Trees(depth - 1)] : k \in 1..2}}
            \cup {[kind |-> "message", subs |-> <<t>>] : t \in Trees(depth - 1)})

AskParts ==
    /\ Idle
    /\ \E message \in Trees(MaxDepth) :
          Reply([kind |-> "parts", message |-> message],
                [paths |-> FS!MimeParts(message),
                 found |-> {<<n[1], FS!FetchPart(message, n[1])>> :
                                n \in FS!Numbered(message, <<>>, <<>>)}])

SomeFlags == (1..2) \X {"upper", "lower"}

AskStore ==
    /\ Idle
    /\ \E current \in UpTo(SomeFlags, 2), requested \in UpTo(SomeFlags, 2),
          mode \in {"replace", "add", "remove"} :
          /\ Len(current) = 2 => current[1][1] # current[2][1]
          /\ Reply([kind |-> "store", current |-> current, requested |-> requested, mode |-> mode],
                   FS!ApplyStoreFlags(current, mode, requested))

-----------------------------------------------------------------------------
(* The text of commands, and of upstream lines. *)
Strings == UpTo({"a", CT!Blank, CT!Dquote, CT!Backslash}, MaxName)

AskWords ==
    /\ Idle
    /\ \E args \in UpTo(Strings, 2) :
          Reply([kind |-> "words", args |-> args],
                CT!Tokenize(CT!Join([i \in DOMAIN args |-> CT!Quote(args[i])])))

Items == {<<"F">>, <<"B", "[", "]">>, <<"B", "[", "a", " ", "(", "a", " ", "a", ")", "]">>}

AskItems ==
    /\ Idle
    /\ \E items \in UpTo(Items, 3) :
          Reply([kind |-> "items", items |-> items],
                CT!FetchItems(CT!Tokenize(<<"(">> \o CT!Join(items) \o <<")">>)))

AskListName ==
    /\ Idle
    /\ \E name \in Strings :
          Reply([kind |-> "listname", name |-> name],
                CT!ListName(<<"*", " ", "L", " ", "(", ")", " ">> \o CT!Quote(name)))

AskPattern ==
    /\ Idle
    /\ \E pattern \in UpTo({"a", "A", "/", "*", "%"}, MaxName), name \in UpTo({"a", "A", "/"}, MaxName) :
          Reply([kind |-> "pattern", pattern |-> pattern, name |-> name],
                CT!PatternMatches(pattern, 1, name, 1))

Lines == {[kind |-> k, tag |-> t, note |-> "none"] : k \in {"plus", "other"}, t \in 1..2}
            \cup {[kind |-> "untagged", tag |-> t, note |-> n] : t \in 1..2, n \in {"data", "literal"}}
            \cup {[kind |-> "tagged", tag |-> t, note |-> n] : t \in 1..2, n \in {"OK", "NO"}}

AskUpstream ==
    /\ Idle
    /\ \E first, second \in {"command", "append", "fetch"}, lines \in UpTo(Lines, MaxLines) :
          /\ UW!InOrder(lines)
          /\ Reply([kind |-> "upstream", first |-> first, second |-> second],
                   UW!Converse(first, second, lines))

Next ==
    \/ AskSet \/ AskFormat \/ AskSearch \/ AskSort \/ AskThread \/ AskSubject
    \/ AskSection \/ AskParts \/ AskStore
    \/ AskWords \/ AskItems \/ AskListName \/ AskPattern \/ AskUpstream

Spec == Init /\ [][Next]_vars

-----------------------------------------------------------------------------
(* A message set selects exactly the messages it denotes, in ascending     *)
(* order, by position or by uid, whatever its parts overlap, repeat, write *)
(* backwards or spell wrongly (parse_number_set, resolve_sequence_views,   *)
(* resolve_uid_views).                                                     *)
SetsResolve ==
    asked.kind = "set" =>
        LET uids == asked.uids
            there == Ascending({n \in DOMAIN uids : Denotes(asked.set, Len(uids), n)})
        IN  /\ answer.numbers = [i \in DOMAIN there |-> <<there[i], uids[there[i]]>>]
            /\ answer.uids = SelectSeq(uids, LAMBDA u : Denotes(asked.set, MaxUid(uids), u))

(* SEARCH UID and UID FETCH, which read a set with different code, agree   *)
(* on every set without a star that SEARCH accepts (parse_uid_set against  *)
(* parse_number_set).                                                      *)
SearchAgreesWithFetch ==
    asked.kind = "set" /\ ~answer.fails /\ (\A i \in DOMAIN asked.set : Star \notin ToSet(asked.set[i]))
        => answer.search = ToSet(answer.uids)

(* The set written into ESEARCH ALL reads back as the uids it was written  *)
(* for, and MIN, MAX and COUNT agree with it                               *)
(* (format_number_set, format_esearch_summary).                            *)
FormatReadsBack ==
    asked.kind = "format" =>
        LET back == ParseNumberSet(answer.all, MaxNumber + 2)
        IN  /\ back = asked.found
            /\ answer.count = Len(back)
            /\ \A n \in answer.min : n = back[1]
            /\ \A n \in answer.max : n = Last(back)

(* SEARCH finds the messages its criteria mean by RFC 3501, for every      *)
(* nesting of NOT and OR and every way criteria are merged into one query, *)
(* except for the criteria that Faithful sets aside; with a text or a UID  *)
(* criterion only if the index can answer for the mailbox, without them    *)
(* whatever the index holds (ImapSearchParser, merge_query_fields,         *)
(* execute_search, mailbox_index).                                         *)
SearchMeans ==
    asked.kind = "search" /\ ~ParseFails(asked.terms) =>
        LET query == ParseQuery(asked.terms)
            newest == RecentUids(Mailbox, Recent)
        IN  Faithful(asked.terms) /\ (AsksIndex(query) => IndexTells(Mailbox, asked.index, query)) =>
                ToSet(answer) = {m.uid : m \in {x \in ToSet(Mailbox) :
                    \A i \in DOMAIN asked.terms : Means(asked.terms[i], x, newest)}}

(* SORT returns every message found once, ordered by the keys in the order *)
(* given and then by uid, and REVERSE is the exact reverse (execute_sort,  *)
(* compare_sort_rows).                                                     *)
SortedAsAsked ==
    asked.kind = "sort" =>
        LET row(uid) == CHOOSE m \in ToSet(Mailbox) : m.uid = uid
            rank(uid) == [i \in DOMAIN asked.keys |-> SortKey(row(uid), asked.keys[i])] \o <<uid>>
        IN  /\ ToSet(answer) = asked.found
            /\ Len(answer) = Cardinality(asked.found)
            /\ \A i, j \in DOMAIN answer :
                  i < j => IF asked.reverse THEN SeqLess(rank(answer[j]), rank(answer[i]))
                           ELSE SeqLess(rank(answer[i]), rank(answer[j]))

(* When Message-IDs are distinct, THREAD REFERENCES shows every message    *)
(* once and each below its parent; only messages whose references run in a *)
(* circle are missing, and only when there is another message              *)
(* (thread_references, build_thread_node).                                 *)
ThreadsKeepMessages ==
    asked.kind = "thread" =>
        LET messages == asked.messages
            distinct == \A i, j \in DOMAIN messages :
                            i # j => messages[i].id = NoId \/ messages[i].id # messages[j].id
            sound == {m \in ToSet(messages) : ~Circular(messages, m)}
            shown == Shown(answer)
        IN  distinct /\ sound # {} =>
                /\ ToSet(shown) = {m.uid : m \in sound} /\ Len(shown) = Cardinality(sound)
                /\ Edges(answer) = {<<NodeOf(messages, ParentId(messages, m)).uid, m.uid>> :
                                        m \in {x \in sound : ParentId(messages, x) # NoId}}

(* THREAD ORDEREDSUBJECT puts two messages into one thread exactly if      *)
(* their subjects are equal without prefixes, shows each once, and starts  *)
(* each thread with its oldest message (thread_ordered_subject).           *)
SubjectsPartition ==
    asked.kind = "subject" =>
        LET message(uid) == asked.messages[uid]
            subject(uid) == NormalSubject(message(uid).subject)
        IN  /\ IsInjective(Shown(answer)) /\ Len(Shown(answer)) = Len(asked.messages)
            /\ \A i, j \in DOMAIN answer :
                  subject(answer[i].uid) = subject(answer[j].uid) => i = j
            /\ \A e \in Edges(answer) : /\ subject(e[1]) = subject(e[2])
                                        /\ message(e[1]).date <= message(e[2]).date

(* BODY[HEADER] and BODY[TEXT] together are the message, wherever its      *)
(* first blank line is (split_rfc822, raw_fetch_bytes).                    *)
HeaderAndTextAreWhole ==
    asked.kind = "section" /\ FS!BlankLine(asked.raw) # 0 =>
        answer.header \o answer.text = asked.raw

(* A header field, with its folded lines, is in the answer to              *)
(* HEADER.FIELDS if it was named and in that to HEADER.FIELDS.NOT if it    *)
(* was not, and never in both (header_blocks, select_header_blocks).       *)
FieldsSplit ==
    asked.kind = "section" =>
        LET headers == FS!Split(asked.raw).headers
            starts(i) == headers[i] # FS!Blank /\ (i = 1 \/ headers[i - 1] = FS!CRLF)
            within(block, bytes) ==
                \E i \in 0..(Len(bytes) - Len(block)) : SubSeq(bytes, i + 1, i + Len(block)) = block
            wellFormed == \A i \in DOMAIN headers : headers[i] \in FS!Fields <=> starts(i)
        IN  wellFormed => \A i, j \in DOMAIN headers :
                LET block == SubSeq(headers, i, j)
                IN  starts(i) /\ i < j /\ headers[j] = FS!CRLF /\ (j = Len(headers) \/ starts(j + 1))
                    /\ (\A k \in (i + 1)..j : ~starts(k))
                        => /\ within(block, answer.fields) <=> <<headers[i]>> \in asked.names
                           /\ within(block, answer.others) <=> <<headers[i]>> \notin asked.names

(* Consecutive partial FETCHes of any size return the whole, without a gap *)
(* or an overlap, and nothing past its end (apply_partial).                *)
PartialsTile == asked.kind = "section" => answer.tiles = asked.raw

(* No two MIME parts of a message have one path, and in a multipart        *)
(* message BODY[n] is the part IMAP numbers n, unless an embedded message  *)
(* is itself a multipart (build_part_tree, load_raw_fetch_bytes).          *)
PartsAsNumbered ==
    asked.kind = "parts" =>
        /\ \A i, j \in DOMAIN answer.paths : answer.paths[i][1] = answer.paths[j][1] => i = j
        /\ asked.message.kind = "multipart" /\ ~FS!NestedMultipart(asked.message) =>
              answer.found = {<<n[1], {n[2]}>> : n \in FS!Numbered(asked.message, <<>>, <<>>)}

(* STORE leaves the flags that the mode asks for, none of them twice,      *)
(* however they are spelled (apply_store_flags, dedupe_flags).             *)
StoreAsAsked ==
    asked.kind = "store" =>
        LET names(flags) == {flags[i][1] : i \in DOMAIN flags}
        IN  /\ \A i, j \in DOMAIN answer : answer[i][1] = answer[j][1] => i = j
            /\ names(answer) =
                  CASE asked.mode = "replace" -> names(asked.requested)
                    [] asked.mode = "add" -> names(asked.current) \cup names(asked.requested)
                    [] asked.mode = "remove" -> names(asked.current) \ names(asked.requested)

(* Quoted arguments reach a command handler unchanged, with blanks, quotes *)
(* and backslashes, and the items of a FETCH are cut where they end        *)
(* (tokenize, quote_imap_string, parse_fetch_items).                       *)
WordsReadBack ==
    /\ asked.kind = "words" => answer = asked.args
    /\ asked.kind = "items" /\ asked.items # <<>> => answer = asked.items

(* The name of a mailbox is read from an upstream LIST line as it was      *)
(* quoted, if it has no blank (parse_list_mailbox_name, unquote).          *)
ListNameReadsBack ==
    asked.kind = "listname" /\ CT!Blank \notin ToSet(asked.name) => answer = asked.name

(* LIST matches a name exactly if the pattern can be laid over it, a       *)
(* percent sign never across a delimiter (imap_list_pattern_matches).      *)
PatternMeans ==
    asked.kind = "pattern" => answer = CT!Divides(asked.pattern, asked.name)

(* With a server that answers in order, a command is never ended by the    *)
(* answer to another one; the data taken for it is its own, except that a  *)
(* FETCH may take a literal left over by a command that failed             *)
(* (send_command, append_with_internal_date, uid_fetch_rfc822).            *)
AnswersAreOwn ==
    asked.kind = "upstream" =>
        \A c \in 1..2 :
            answer[c].result # "err" =>
                /\ answer[c].line.tag = c
                /\ \A i \in DOMAIN answer[c].data :
                      \/ answer[c].data[i].tag = c
                      \/ c = 2 /\ asked.second = "fetch" /\ answer[1].result = "err"

-----------------------------------------------------------------------------
(* The answers that name messages of a mailbox name the right ones, once   *)
(* and in order: message sets and the sets written back, SEARCH, SORT and  *)
(* THREAD (the statements above about sets, criteria and threads).         *)
RightMessages ==
    /\ SetsResolve /\ SearchAgreesWithFetch /\ FormatReadsBack
    /\ SearchMeans /\ SortedAsAsked
    /\ ThreadsKeepMessages /\ SubjectsPartition

(* The answers about one message give it as it is: its sections and        *)
(* partials put together are the message, a part is found under its        *)
(* number, and STORE leaves the flags asked for (load_raw_fetch_bytes,     *)
(* apply_partial, collect_mime_parts, apply_store_flags).                  *)
RightContents ==
    /\ HeaderAndTextAreWhole /\ FieldsSplit /\ PartialsTile /\ PartsAsNumbered
    /\ StoreAsAsked

(* What is written as text reads back as what was meant: words, item       *)
(* lists, mailbox names, and the patterns that select them (quote,         *)
(* unquote, tokenize, imap_list_pattern_matches).                          *)
TextReadsBack == WordsReadBack /\ ListNameReadsBack /\ PatternMeans
=============================================================================
