--------------------------- MODULE SearchCriteria ---------------------------
(***************************************************************************)
(* SEARCH and SORT: how the criteria of a command become a query, and      *)
(* which messages of the mailbox the query selects, in which order.        *)
(*                                                                         *)
(* A token of a command is a record whose key is NOT, OR or a criterion    *)
(* with its argument.  A message is [uid, flags, keywords, size, internal, *)
(* sent, created, words]: the dates are days, with NoDate for a missing    *)
(* one, and words are those of the text and of the header that the         *)
(* criteria ask about.  Ingest and APPEND leave keywords empty and STORE   *)
(* writes a keyword into flags.                                            *)
(***************************************************************************)
EXTENDS NumberSets

CONSTANT MaxHits    \* documents the index returns at most (1000 in the code)

NoDate == 0

(* SearchQuery::all.  An option is the empty set or a singleton.  The text *)
(* is the set of the words of the query string: the index takes their      *)
(* disjunction.                                                            *)
All == [text |-> {}, uids |-> {}, recent |-> FALSE, old |-> FALSE, header |-> {},
        required |-> {}, forbidden |-> {}, keywords |-> {}, unkeywords |-> {}, larger |-> {}, smaller |-> {},
        before |-> {}, on |-> {}, since |-> {},
        sentBefore |-> {}, sentOn |-> {}, sentSince |-> {}, expr |-> <<>>]

(* The query of a single criterion (parse_term).  HEADER asks the envelope *)
(* and, for the fields it has, the index; NEW is RECENT and not seen; SEEN *)
(* and its like are FLAG and UNFLAG here.  A word that is no criterion (a  *)
(* sequence set, DRAFT, a parenthesis) is taken for a text.                *)
Fragment(t) ==
    CASE t.key = "ALL"        -> All
      [] t.key = "UID"        -> [All EXCEPT !.uids = {ParseUidSet(t.set)}]
      [] t.key = "TEXT"       -> [All EXCEPT !.text = {t.word}]
      [] t.key = "HEADER"     -> [All EXCEPT !.text = IF t.indexed THEN {t.word} ELSE {},
                                             !.header = {t.word}]
      [] t.key = "RECENT"     -> [All EXCEPT !.recent = TRUE]
      [] t.key = "OLD"        -> [All EXCEPT !.old = TRUE]
      [] t.key = "NEW"        -> [All EXCEPT !.recent = TRUE, !.forbidden = {"Seen"}]
      [] t.key = "FLAG"       -> [All EXCEPT !.required = {t.mark}]
      [] t.key = "UNFLAG"     -> [All EXCEPT !.forbidden = {t.mark}]
      [] t.key = "KEYWORD"    -> [All EXCEPT !.keywords = {t.mark}]
      [] t.key = "UNKEYWORD"  -> [All EXCEPT !.unkeywords = {t.mark}]
      [] t.key = "LARGER"     -> [All EXCEPT !.larger = {t.n}]
      [] t.key = "SMALLER"    -> [All EXCEPT !.smaller = {t.n}]
      [] t.key = "BEFORE"     -> [All EXCEPT !.before = {t.n}]
      [] t.key = "ON"         -> [All EXCEPT !.on = {t.n}]
      [] t.key = "SINCE"      -> [All EXCEPT !.since = {t.n}]
      [] t.key = "SENTBEFORE" -> [All EXCEPT !.sentBefore = {t.n}]
      [] t.key = "SENTON"     -> [All EXCEPT !.sentOn = {t.n}]
      [] t.key = "SENTSINCE"  -> [All EXCEPT !.sentSince = {t.n}]
      [] OTHER                -> [All EXCEPT !.text = {t.word}]

(* Of two bounds the stricter one is kept. *)
HigherOf(a, b) == IF a \cup b = {} THEN {} ELSE {Max(a \cup b)}
LowerOf(a, b) == IF a \cup b = {} THEN {} ELSE {Min(a \cup b)}
FirstOf(a, b) == IF a # {} THEN a ELSE b

(* merge_query_fields: criteria side by side.  The ranges of two UID       *)
(* criteria are put together.                                              *)
Merge(a, b) ==
    [text |-> a.text \cup b.text,
     uids |-> IF a.uids \cup b.uids = {} THEN {} ELSE {UNION (a.uids \cup b.uids)},
     recent |-> a.recent \/ b.recent, old |-> a.old \/ b.old, header |-> a.header \cup b.header,
     required |-> a.required \cup b.required, forbidden |-> a.forbidden \cup b.forbidden,
     keywords |-> a.keywords \cup b.keywords, unkeywords |-> a.unkeywords \cup b.unkeywords,
     larger |-> HigherOf(a.larger, b.larger),
     smaller |-> LowerOf(a.smaller, b.smaller),
     before |-> LowerOf(a.before, b.before), on |-> FirstOf(a.on, b.on),
     since |-> HigherOf(a.since, b.since),
     sentBefore |-> LowerOf(a.sentBefore, b.sentBefore), sentOn |-> FirstOf(a.sentOn, b.sentOn),
     sentSince |-> HigherOf(a.sentSince, b.sentSince), expr |-> a.expr]

-----------------------------------------------------------------------------
(* The parser: parse_term reads a term at a position and gives its tree    *)
(* and the position after it; <<>> for a command that ends too early.      *)
RECURSIVE ParseTerm(_, _)
ParseTerm(tokens, i) ==
    IF i > Len(tokens) THEN <<>>
    ELSE CASE tokens[i].key = "NOT" ->
                LET inner == ParseTerm(tokens, i + 1)
                IN  IF inner = <<>> THEN <<>>
                    ELSE <<[key |-> "NOT", of |-> <<inner[1]>>], inner[2]>>
           [] tokens[i].key = "OR" ->
                LET left == ParseTerm(tokens, i + 1)
                    right == IF left = <<>> THEN <<>> ELSE ParseTerm(tokens, left[2])
                IN  IF right = <<>> THEN <<>>
                    ELSE <<[key |-> "OR", of |-> <<left[1], right[1]>>], right[2]>>
           [] OTHER ->
                IF tokens[i].key = "UID" /\ ParseUidSetFails(tokens[i].set) THEN <<>>
                ELSE <<tokens[i], i + 1>>

(* A term that is no NOT and no OR is SearchExpr::Leaf. *)
IsLeaf(t) == t.key \notin {"NOT", "OR"}

(* ImapSearchParser::parse: the terms of a command, one after the other. *)
RECURSIVE ParseTerms(_, _)
ParseTerms(tokens, i) ==
    IF i > Len(tokens) THEN <<>>
    ELSE LET t == ParseTerm(tokens, i)
         IN  IF t = <<>> THEN <<[key |-> "error"]>>
             ELSE <<t[1]>> \o ParseTerms(tokens, t[2])

ParseFails(terms) == \E i \in DOMAIN terms : terms[i].key = "error"

(* Mutation of ParseQuery: of several NOT and OR only the last is kept. *)
ParseQueryLast(terms) ==
    LET merge(q, t) == IF IsLeaf(t) THEN Merge(q, Fragment(t)) ELSE [q EXCEPT !.expr = <<t>>]
    IN  FoldLeft(merge, All, terms)

(* Plain criteria are merged into one query; NOT and OR are kept beside it. *)
ParseQuery(terms) ==
    LET merge(q, t) == IF IsLeaf(t) THEN Merge(q, Fragment(t)) ELSE [q EXCEPT !.expr = Append(@, t)]
    IN  FoldLeft(merge, All, terms)

-----------------------------------------------------------------------------
InternalDay(m) == IF m.internal # NoDate THEN m.internal ELSE m.created
SentDay(m) == IF m.sent # NoDate THEN m.sent ELSE InternalDay(m)

(* matches_search_leaf and matches_header_filters *)
MatchesLeaf(m, q) ==
    /\ \A ranges \in q.uids : UidSetContains(ranges, m.uid)
    /\ q.required \subseteq m.flags
    /\ q.forbidden \cap m.flags = {}
    /\ q.keywords \subseteq m.keywords
    /\ q.unkeywords \cap m.keywords = {}
    /\ q.header \subseteq m.words
    /\ \A n \in q.larger : m.size > n
    /\ \A n \in q.smaller : m.size < n
    /\ \A d \in q.before : InternalDay(m) < d
    /\ \A d \in q.on : InternalDay(m) = d
    /\ \A d \in q.since : InternalDay(m) >= d
    /\ \A d \in q.sentBefore : SentDay(m) < d
    /\ \A d \in q.sentOn : SentDay(m) = d
    /\ \A d \in q.sentSince : SentDay(m) >= d

(* matches_search_expr *)
RECURSIVE MatchesExpr(_, _)
MatchesExpr(m, t) ==
    CASE t.key = "NOT" -> ~MatchesExpr(m, t.of[1])
      [] t.key = "OR" -> \E i \in 1..2 : MatchesExpr(m, t.of[i])
      [] OTHER -> MatchesLeaf(m, Fragment(t))

(* The index of a mailbox: the words of one document for each uid.  It is  *)
(* found by the name of the mailbox alone: mailboxes of the same name in   *)
(* several accounts are ingested into one index, and the document ingested *)
(* last for a uid replaces the earlier one.                                *)
IndexMessage(index, document) ==
    [u \in DOMAIN index \cup {document.uid} |->
        IF u = document.uid THEN document.words ELSE index[u]]

(* The documents with one of the words (external: tantivy with its default *)
(* operator), and those of them that the search may be limited to.         *)
Matching(index, q) == {u \in DOMAIN index : q.text = {} \/ q.text \cap index[u] # {}}
TopDocs(index, q) ==
    kSubset(Min({MaxHits, Cardinality(Matching(index, q))}), Matching(index, q))

(* search_flat: the uid filter is applied to the limited result. *)
IndexSearch(top, q) == {u \in top : \A ranges \in q.uids : UidSetContains(ranges, u)}

(* recent_mailbox_uids: the newest messages, as many as the mailbox counts. *)
RecentUids(messages, count) ==
    {messages[i].uid : i \in {j \in DOMAIN messages : j > Len(messages) - count}}

(* The index is asked only for a text or a UID criterion, and never when   *)
(* there is an OR or a NOT.                                                *)
AsksIndex(q) == q.expr = <<>> /\ (q.text # {} \/ q.uids # {})

(* execute_search: the uids found, in ascending order.  A uid that the     *)
(* index returns and the mailbox has not is dropped.                       *)
ExecuteSearch(messages, top, recent, q) ==
    LET candidates == IF AsksIndex(q)
                      THEN {m \in ToSet(messages) : m.uid \in IndexSearch(top, q)}
                      ELSE ToSet(messages)
        newest == RecentUids(messages, recent)
    IN  Ascending({m.uid : m \in {c \in candidates :
            /\ q.recent => c.uid \in newest
            /\ q.old => c.uid \notin newest
            /\ MatchesLeaf(c, q)
            /\ \A i \in DOMAIN q.expr : MatchesExpr(c, q.expr[i])}})

-----------------------------------------------------------------------------
(* SORT.  A key is the name of a column; subject and addresses are ranks.  *)
SortDate(m) == SentDay(m)
SortKey(m, key) ==
    CASE key = "DATE" -> SortDate(m)
      [] key = "SIZE" -> m.size
      [] key = "ARRIVAL" -> m.created
      [] key = "SUBJECT" -> m.subject
      [] key = "UID" -> m.uid

(* compare_sort_rows: the first key that differs decides, else the uid. *)
RowLess(keys, m, n) ==
    LET differ == {i \in DOMAIN keys : SortKey(m, keys[i]) # SortKey(n, keys[i])}
    IN  IF differ = {} THEN m.uid < n.uid
        ELSE SortKey(m, keys[Min(differ)]) < SortKey(n, keys[Min(differ)])

(* execute_sort: REVERSE turns the whole order round. *)
ExecuteSort(messages, found, keys, reverse) ==
    LET rows == SelectSeq(messages, LAMBDA m : m.uid \in ToSet(found))
        sorted == SortSeq(rows, LAMBDA m, n : IF reverse THEN RowLess(keys, n, m)
                                              ELSE RowLess(keys, m, n))
    IN  [i \in DOMAIN sorted |-> sorted[i].uid]

(* ESEARCH: COUNT, MIN, MAX (none of an empty result) and ALL. *)
ESearch(found) ==
    [count |-> Len(found),
     min |-> IF found = <<>> THEN {} ELSE {Min(ToSet(found))},
     max |-> IF found = <<>> THEN {} ELSE {Max(ToSet(found))},
     all |-> FormatNumberSet(found)]

-----------------------------------------------------------------------------
(* What RFC 3501 takes a term to mean for a message. *)
RECURSIVE Means(_, _, _)
Means(t, m, newest) ==
    CASE t.key = "NOT" -> ~Means(t.of[1], m, newest)
      [] t.key = "OR" -> Means(t.of[1], m, newest) \/ Means(t.of[2], m, newest)
      [] t.key = "ALL" -> TRUE
      [] t.key = "UID" -> Denotes(t.set, LargestUid, m.uid)
      [] t.key \in {"TEXT", "HEADER"} -> t.word \in m.words
      [] t.key = "RECENT" -> m.uid \in newest
      [] t.key = "OLD" -> m.uid \notin newest
      [] t.key = "NEW" -> m.uid \in newest /\ "Seen" \notin m.flags
      [] t.key = "FLAG" -> t.mark \in m.flags
      [] t.key = "UNFLAG" -> t.mark \notin m.flags
      [] t.key = "LARGER" -> m.size > t.n
      [] t.key = "SMALLER" -> m.size < t.n
      [] t.key = "BEFORE" -> InternalDay(m) < t.n
      [] t.key = "ON" -> InternalDay(m) = t.n
      [] t.key = "SINCE" -> InternalDay(m) >= t.n
      [] t.key = "SENTBEFORE" -> SentDay(m) < t.n
      [] t.key = "SENTON" -> SentDay(m) = t.n
      [] t.key = "SENTSINCE" -> SentDay(m) >= t.n

RECURSIVE Keys(_)
Keys(t) == {t.key} \cup (IF IsLeaf(t) THEN {} ELSE UNION {Keys(t.of[i]) : i \in DOMAIN t.of})

(* The commands for which the query keeps that meaning: a text criterion   *)
(* stands alone and beside no OR or NOT, RECENT, OLD and NEW are not under *)
(* one, UID, ON and SENTON are not repeated, and there is no KEYWORD,      *)
(* UNKEYWORD or word that is no criterion.                                 *)
Faithful(terms) ==
    LET leaves == SelectSeq(terms, IsLeaf)
        trees == SelectSeq(terms, LAMBDA t : ~IsLeaf(t))
        often(keys) == Cardinality({i \in DOMAIN leaves : leaves[i].key \in keys})
    IN  /\ often({"TEXT"}) = 0 \/ (often({"TEXT", "HEADER"}) = 1 /\ trees = <<>>)
        /\ \A i \in DOMAIN trees : Keys(trees[i]) \cap {"TEXT", "RECENT", "OLD", "NEW"} = {}
        /\ \A key \in {"UID", "ON", "SENTON"} : often({key}) <= 1
        /\ \A i \in DOMAIN terms : Keys(terms[i]) \cap {"KEYWORD", "UNKEYWORD", "other"} = {}

(* When the index can answer for the mailbox: it has the mailbox's own     *)
(* document for each of its messages, and the limit cuts nothing off.      *)
IndexTells(messages, index, q) ==
    /\ \A m \in ToSet(messages) : m.uid \in DOMAIN index /\ index[m.uid] = m.words
    /\ Cardinality(Matching(index, q)) <= MaxHits
=============================================================================
