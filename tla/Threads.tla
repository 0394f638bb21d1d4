------------------------------- MODULE Threads ------------------------------
(***************************************************************************)
(* THREAD: how messages are put into a forest by subject or by references. *)
(*                                                                         *)
(* A message is a record [uid, id, refs, reply, date, subject]: id is its  *)
(* Message-ID (NoId for none), refs and reply are the ids of References    *)
(* and In-Reply-To, and subject is the sequence of its words, where Prefix *)
(* stands for re:, fw: or fwd:.  A node is [uid, date, subject, children]. *)
(***************************************************************************)
EXTENDS Naturals, FiniteSetsExt, SequencesExt

NoId == 0
Prefix == 0

(* normalize_thread_subject drops the prefixes at the start. *)
NormalSubject(subject) ==
    LET first == SelectInSeq(subject, LAMBDA w : w # Prefix)
    IN  IF first = 0 THEN <<>> ELSE SubSeq(subject, first, Len(subject))

(* The order of texts, and of the keys of a sort. *)
SeqLess(s, t) ==
    \/ IsStrictPrefix(s, t)
    \/ \E i \in DOMAIN s \cap DOMAIN t : s[i] < t[i] /\ \A j \in 1..(i - 1) : s[j] = t[j]

Node(m, children) ==
    [uid |-> m.uid, date |-> m.date, subject |-> NormalSubject(m.subject), children |-> children]

(* thread_ordered_subject: a thread for each subject, in the order of the  *)
(* subjects, with the oldest message as the parent of all others.          *)
OrderedSubject(messages) ==
    LET group(s) == SortSeq(SelectSeq(messages, LAMBDA m : NormalSubject(m.subject) = s),
                            LAMBDA m, n : SeqLess(<<m.date, m.uid>>, <<n.date, n.uid>>))
        subjects == SetToSortSeq({NormalSubject(messages[i].subject) : i \in DOMAIN messages},
                                 SeqLess)
        thread(g) == Node(g[1], [i \in 1..(Len(g) - 1) |-> Node(g[i + 1], <<>>)])
    IN  [i \in DOMAIN subjects |-> thread(group(subjects[i]))]

-----------------------------------------------------------------------------
Ids(messages) == {messages[i].id : i \in DOMAIN messages} \ {NoId}

(* node_by_id: the last message with an id stands for it. *)
NodeOf(messages, id) == messages[SelectLastInSeq(messages, LAMBDA m : m.id = id)]

(* The last of References, else the last of In-Reply-To, if it is the id   *)
(* of another message of the result.                                       *)
ParentId(messages, m) ==
    LET named == IF m.refs # <<>> THEN m.refs ELSE m.reply
    IN  IF m.id = NoId \/ named = <<>> \/ Last(named) = m.id \/ Last(named) \notin Ids(messages)
        THEN NoId ELSE Last(named)

(* child_ids_by_parent, in the order of the messages. *)
ChildIds(messages, id) ==
    LET kids == SelectSeq(messages, LAMBDA m : ParentId(messages, m) = id)
    IN  [i \in DOMAIN kids |-> kids[i].id]

HasParent(messages, id) ==
    \E i \in DOMAIN messages : messages[i].id = id /\ ParentId(messages, messages[i]) # NoId

(* By date, then subject, then uid. *)
NodeLess(a, b) ==
    \/ a.date < b.date
    \/ a.date = b.date /\ SeqLess(a.subject, b.subject)
    \/ a.date = b.date /\ a.subject = b.subject /\ a.uid < b.uid

(* build_thread_node and sort_thread_nodes: an id met again on the way     *)
(* down ends the descent.                                                  *)
RECURSIVE BuildNode(_, _, _)
BuildNode(messages, id, visited) ==
    LET kids == ChildIds(messages, id)
        nodes == [i \in DOMAIN kids |-> BuildNode(messages, kids[i], visited \cup {id})]
    IN  Node(NodeOf(messages, id),
             IF id \in visited THEN <<>> ELSE SortSeq(nodes, NodeLess))

(* thread_references: the roots are the messages without an id and those   *)
(* whose id has no parent; without any, every id is a root.                *)
References(messages) ==
    LET roots == SelectSeq(messages, LAMBDA m : m.id = NoId \/ ~HasParent(messages, m.id))
        ids == SetToSortSeq(Ids(messages), <)
        root(m) == IF m.id = NoId THEN Node(m, <<>>) ELSE BuildNode(messages, m.id, {})
    IN  SortSeq(IF roots # <<>>
                THEN [i \in DOMAIN roots |-> root(roots[i])]
                ELSE [i \in DOMAIN ids |-> BuildNode(messages, ids[i], {})], NodeLess)

-----------------------------------------------------------------------------
(* The uids of a forest, each as often as it is shown. *)
RECURSIVE Shown(_)
Shown(forest) ==
    FlattenSeq([i \in DOMAIN forest |-> <<forest[i].uid>> \o Shown(forest[i].children)])

(* <<parent, child>> for every edge of a forest. *)
RECURSIVE Edges(_)
Edges(forest) ==
    UNION {{<<forest[i].uid, c.uid>> : c \in ToSet(forest[i].children)}
              \cup Edges(forest[i].children) : i \in DOMAIN forest}

(* The ids met on the way up from an id; it ends in a circle if it never   *)
(* ends.                                                                   *)
RECURSIVE Ancestors(_, _, _)
Ancestors(messages, id, n) ==
    LET p == ParentId(messages, NodeOf(messages, id))
    IN  IF n = 0 \/ p = NoId THEN {id} ELSE {id} \cup Ancestors(messages, p, n - 1)
Circular(messages, m) ==
    /\ m.id # NoId
    /\ \A a \in Ancestors(messages, m.id, Len(messages)) :
          ParentId(messages, NodeOf(messages, a)) # NoId
=============================================================================
