---------------------------- MODULE CommandText -----------------------------
(***************************************************************************)
(* The text of commands and answers: how a command line is cut into words, *)
(* how a FETCH item list is cut into items, how strings are quoted and     *)
(* unquoted, how the name of a mailbox is read from an upstream LIST line, *)
(* and which names a LIST pattern matches.                                 *)
(*                                                                         *)
(* A text is a sequence of characters.                                     *)
(***************************************************************************)
EXTENDS Integers, FiniteSetsExt, SequencesExt

Blank == " "
Dquote == "\""
Backslash == "\\"

(* quote and quote_imap_string *)
Quote(text) ==
    LET escape(c) == IF c \in {Dquote, Backslash} THEN <<Backslash, c>> ELSE <<c>>
    IN  <<Dquote>> \o FlattenSeq([i \in DOMAIN text |-> escape(text[i])]) \o <<Dquote>>

(* tokenize, inside quotes: the word and the place after the closing       *)
(* quote, or after the end of a text that is never closed.                 *)
RECURSIVE QuotedFrom(_, _)
QuotedFrom(text, i) ==
    IF i > Len(text) THEN <<<<>>, i>>
    ELSE IF text[i] = Dquote THEN <<<<>>, i + 1>>
    ELSE LET at == IF text[i] = Backslash THEN i + 1 ELSE i
             rest == QuotedFrom(text, at + 1)
         IN  IF at > Len(text) THEN <<<<>>, at>> ELSE <<<<text[at]>> \o rest[1], rest[2]>>

Deeper(depth, c, open, close) ==
    IF c = open THEN depth + 1 ELSE IF c = close /\ depth > 0 THEN depth - 1 ELSE depth

(* tokenize, outside quotes: a word ends at a blank outside all            *)
(* parentheses and brackets.                                               *)
RECURSIVE BareFrom(_, _, _, _)
BareFrom(text, i, parens, brackets) ==
    IF i > Len(text) \/ (text[i] = Blank /\ parens = 0 /\ brackets = 0) THEN <<<<>>, i>>
    ELSE LET rest == BareFrom(text, i + 1, Deeper(parens, text[i], "(", ")"),
                              Deeper(brackets, text[i], "[", "]"))
         IN  <<<<text[i]>> \o rest[1], rest[2]>>

RECURSIVE TokenizeFrom(_, _)
TokenizeFrom(text, i) ==
    IF i > Len(text) THEN <<>>
    ELSE IF text[i] = Blank THEN TokenizeFrom(text, i + 1)
    ELSE LET word == IF text[i] = Dquote THEN QuotedFrom(text, i + 1) ELSE BareFrom(text, i, 0, 0)
         IN  <<word[1]>> \o TokenizeFrom(text, word[2])

Tokenize(text) == TokenizeFrom(text, 1)

(* Words with one blank between each two. *)
Join(words) ==
    FlattenSeq([i \in DOMAIN words |-> IF i = 1 THEN words[i] ELSE <<Blank>> \o words[i]])

-----------------------------------------------------------------------------
(* parse_fetch_items: one pair of parentheses is taken off, and the rest   *)
(* is cut at the blanks outside quotes, parentheses and brackets.          *)
RECURSIVE ItemsFrom(_, _, _, _, _, _)
ItemsFrom(text, i, current, parens, brackets, quoted) ==
    IF i > Len(text) THEN IF current = <<>> THEN <<>> ELSE <<current>>
    ELSE IF text[i] = Blank /\ ~quoted /\ parens = 0 /\ brackets = 0
    THEN (IF current = <<>> THEN <<>> ELSE <<current>>) \o ItemsFrom(text, i + 1, <<>>, 0, 0, FALSE)
    ELSE ItemsFrom(text, i + 1, Append(current, text[i]),
                   IF quoted THEN parens ELSE Deeper(parens, text[i], "(", ")"),
                   IF quoted THEN brackets ELSE Deeper(brackets, text[i], "[", "]"),
                   quoted # (text[i] = Dquote))

Trim(text) ==
    LET kept == {i \in DOMAIN text : text[i] # Blank}
    IN  IF kept = {} THEN <<>> ELSE SubSeq(text, Min(kept), Max(kept))

(* What an empty list asks for, a word for each item. *)
DefaultItems == <<<<"FLAGS">>, <<"UID">>, <<"RFC822.SIZE">>, <<"ENVELOPE">>, <<"BODYSTRUCTURE">>>>

FetchItems(args) ==
    LET joined == Trim(Join(args))
        opened == IF joined # <<>> /\ joined[1] = "(" THEN Tail(joined) ELSE joined
        inner == IF opened # <<>> /\ Last(opened) = ")" THEN Front(opened) ELSE opened
        items == ItemsFrom(inner, 1, <<>>, 0, 0, FALSE)
    IN  IF items = <<>> THEN DefaultItems ELSE items

-----------------------------------------------------------------------------
(* Mutation of Unquote: a backslash is kept. *)
UnquotePlain(text) ==
    IF Len(text) >= 2 /\ text[1] = Dquote /\ Last(text) = Dquote
    THEN SubSeq(text, 2, Len(text) - 1) ELSE text

(* unquote, in the upstream client: text that is not in quotes is kept. *)
Unquote(text) ==
    LET inner == SubSeq(text, 2, Len(text) - 1)
        read(acc, c) == IF ~acc.escaped /\ c = Backslash THEN [acc EXCEPT !.escaped = TRUE]
                        ELSE [out |-> Append(acc.out, c), escaped |-> FALSE]
    IN  IF Len(text) >= 2 /\ text[1] = Dquote /\ Last(text) = Dquote
        THEN FoldLeft(read, [out |-> <<>>, escaped |-> FALSE], inner).out
        ELSE text

(* parse_list_mailbox_name: what follows the last blank of the line. *)
ListName(line) ==
    Unquote(SubSeq(line, SelectLastInSeq(line, LAMBDA c : c = Blank) + 1, Len(line)))

-----------------------------------------------------------------------------
Delimiter == "/"
Lower(c) == IF c = "A" THEN "a" ELSE c

(* imap_list_pattern_matches: a star stands for any text, a percent sign   *)
(* for any text without the delimiter.                                     *)
RECURSIVE PatternMatches(_, _, _, _)
PatternMatches(pattern, p, name, n) ==
    IF p > Len(pattern) THEN n > Len(name)
    ELSE CASE pattern[p] = "*" ->
                \E next \in n..(Len(name) + 1) : PatternMatches(pattern, p + 1, name, next)
           [] pattern[p] = "%" ->
                \/ PatternMatches(pattern, p + 1, name, n)
                \/ /\ n <= Len(name)
                   /\ name[n] # Delimiter
                   /\ PatternMatches(pattern, p, name, n + 1)
           [] OTHER ->
                /\ n <= Len(name)
                /\ Lower(pattern[p]) = Lower(name[n])
                /\ PatternMatches(pattern, p + 1, name, n + 1)

(* The same, said at once: the name is cut into as many pieces as the      *)
(* pattern has characters, and each piece is what its character allows.    *)
Divides(pattern, name) ==
    \E cut \in [1..(Len(pattern) + 1) -> 0..Len(name)] :
        /\ cut[1] = 0 /\ cut[Len(pattern) + 1] = Len(name)
        /\ \A p \in DOMAIN pattern :
              LET piece == SubSeq(name, cut[p] + 1, cut[p + 1])
              IN  /\ cut[p] <= cut[p + 1]
                  /\ pattern[p] = "%" => Delimiter \notin ToSet(piece)
                  /\ pattern[p] \notin {"*", "%"} =>
                        Len(piece) = 1 /\ Lower(piece[1]) = Lower(pattern[p])
=============================================================================
