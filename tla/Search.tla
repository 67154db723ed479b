------------------------------- MODULE Search -------------------------------
(* Search.  The query language of internal/search, from the units of a query's text to the
   transactions it matches: a unit is a parenthesis, an operator word or a term, perhaps with a
   dash in front; what a term says of a transaction is data.  Then a search: the query as it is
   typed, and searchTransactions, which reads the whole ledger page by page while transactions
   come and go, and filters what it read. *)
EXTENDS Integers, Sequences, FiniteSets, TLC

CONSTANTS
  Term,       \* name |-> the field, operator and operands of a term
  Lower,      \* text |-> its lower case
  Joined,     \* <<key, value>> of a label |-> the text key:value
  Substrings  \* <<needle, text>>, both in lower case, where the text holds the needle

Contains(text, needle) == <<Lower[needle], Lower[text]>> \in Substrings

-----------------------------------------------------------------------------
(* Terms. *)

Compare(a, op, b) == CASE op = "=" -> a = b  [] op = "!=" -> a # b
                       [] op = ">" -> a > b  [] op = ">=" -> a >= b
                       [] op = "<" -> a < b  [] op = "<=" -> a <= b

\* A bound of a range is a sequence, empty where the side is open; amounts may be swapped.
InRange(a, lo, hi) == (lo # << >> => a >= lo[1]) /\ (hi # << >> => a <= hi[1])
AmountPred(t, a) ==
  IF t.op # ".." THEN Compare(a, t.op, t.value)
  ELSE IF t.lo # << >> /\ t.hi # << >> /\ t.lo[1] > t.hi[1] THEN InRange(a, t.hi, t.lo)
  ELSE InRange(a, t.lo, t.hi)

\* A partial date is the period [from, until).
Within(d, p) == p.from <= d /\ d < p.until
\* What is after a period is what is after its first day.
DatePredByStart(t, d) ==
  LET p == t.value IN
  CASE t.op = ".." -> (t.lo # << >> => d >= t.lo[1].from) /\ (t.hi # << >> => d < t.hi[1].until)
    [] t.op = "="  -> Within(d, p)
    [] t.op = "!=" -> ~Within(d, p)
    [] t.op = ">"  -> d > p.from
    [] t.op = ">=" -> d >= p.from
    [] t.op = "<"  -> d < p.from
    [] t.op = "<=" -> d < p.until
DatePred(t, d) ==
  LET p == t.value IN
  CASE t.op = ".." -> (t.lo # << >> => d >= t.lo[1].from) /\ (t.hi # << >> => d < t.hi[1].until)
    [] t.op = "="  -> Within(d, p)
    [] t.op = "!=" -> ~Within(d, p)
    [] t.op = ">"  -> d >= p.until
    [] t.op = ">=" -> d >= p.from
    [] t.op = "<"  -> d < p.from
    [] t.op = "<=" -> d < p.until

\* Labels and extensions; keys are stored in lower case.
EqPred(t, map) ==
  LET key == Lower[t.key]  there == key \in DOMAIN map
  IN CASE t.op = "has" -> there
       [] t.op = "="   -> there /\ Lower[map[key]] = Lower[t.value]
       [] t.op = "!="  -> ~there \/ Lower[map[key]] # Lower[t.value]
       [] t.op = "~"   -> there /\ Contains(map[key], t.value)

\* The edges that a transaction asserts; `related` looks at both directions.
RelPred(t, edges) == \E e \in edges : /\ e.direction = "outbound" /\ e.kind = Lower[t.key]
                                      /\ t.op = "=" => e.target = t.value
RelatedPred(t, edges) == \E e \in edges : e.target = t.value

\* A bare term looks at a label's key, its value and the two joined; an extension is not joined.
FreeText(r) == r.texts \cup UNION {{k, r.labels[k], Joined[<<k, r.labels[k]>>]} : k \in DOMAIN r.labels}
                       \cup UNION {{k, r.extensions[k]} : k \in DOMAIN r.extensions}

Pred(t, r) ==
  CASE t.field = ""        -> \E s \in FreeText(r) : Contains(s, t.value)
    [] t.field = "text"    -> \E s \in r.texts : Contains(s, t.value)
    [] t.field = "amount"  -> AmountPred(t, r.amount)
    [] t.field = "date"    -> DatePred(t, r.date)
    [] t.field = "pending" -> r.pending = t.value
    [] t.field = "label"   -> EqPred(t, r.labels)
    [] t.field = "ext"     -> EqPred(t, r.extensions)
    [] t.field = "rel"     -> RelPred(t, r.edges)
    [] t.field = "related" -> RelatedPred(t, r.edges)

\* A term whose operand is empty or does not parse is an error of the query.
Bad(name) == Term[name].field = "bad"

-----------------------------------------------------------------------------
(* The lexer and the recursive descent.  What is left of a query is a sequence of tokens, what
   it means the set of records it matches; leaf gives that of each term. *)

Token(kind) == [kind |-> kind, term |-> "none"]
Classify(unit) == (IF unit.dash THEN <<Token("not")>> ELSE << >>)
                    \o (IF unit.kind = "dash" THEN <<Token("not")>> ELSE <<[kind |-> unit.kind, term |-> unit.term]>>)
RECURSIVE Lex(_)
Lex(units) == IF units = << >> THEN << >> ELSE Classify(units[1]) \o Lex(Tail(units))

Fail == [ok |-> FALSE, match |-> {}, rest |-> << >>]
Parsed(match, rest) == [ok |-> TRUE, match |-> match, rest |-> rest]
Next_(toks) == IF toks = << >> THEN "eof" ELSE toks[1].kind

RECURSIVE ParseOr(_, _, _), OrRest(_, _, _), ParseAnd(_, _, _), AndRest(_, _, _), ParseNot(_, _, _), ParsePrimary(_, _, _)

ParsePrimary(toks, all, leaf) ==
  CASE Next_(toks) = "(" ->
         LET p == ParseOr(Tail(toks), all, leaf)
         IN IF p.ok /\ Next_(p.rest) = ")" THEN Parsed(p.match, Tail(p.rest)) ELSE Fail
    [] Next_(toks) = "term" -> IF Bad(toks[1].term) THEN Fail ELSE Parsed(leaf[toks[1].term], Tail(toks))
    [] OTHER -> Fail

\* A dash negates the rest of the conjunction.
ParseNotAll(toks, all, leaf) ==
  IF Next_(toks) # "not" THEN ParsePrimary(toks, all, leaf)
  ELSE LET p == ParseAnd(Tail(toks), all, leaf) IN IF p.ok THEN Parsed(all \ p.match, p.rest) ELSE Fail

ParseNot(toks, all, leaf) ==
  IF Next_(toks) # "not" THEN ParsePrimary(toks, all, leaf)
  ELSE LET p == ParseNot(Tail(toks), all, leaf) IN IF p.ok THEN Parsed(all \ p.match, p.rest) ELSE Fail

AndRest(left, all, leaf) ==
  IF ~left.ok \/ Next_(left.rest) \notin {"and", "term", "not", "("} THEN left
  ELSE LET p == ParseNot(IF Next_(left.rest) = "and" THEN Tail(left.rest) ELSE left.rest, all, leaf)
       IN IF p.ok THEN AndRest(Parsed(left.match \cap p.match, p.rest), all, leaf) ELSE Fail
ParseAnd(toks, all, leaf) == AndRest(ParseNot(toks, all, leaf), all, leaf)

OrRest(left, all, leaf) ==
  IF ~left.ok \/ Next_(left.rest) # "or" THEN left
  ELSE LET p == ParseAnd(Tail(left.rest), all, leaf)
       IN IF p.ok THEN OrRest(Parsed(left.match \cup p.match, p.rest), all, leaf) ELSE Fail
ParseOr(toks, all, leaf) == OrRest(ParseAnd(toks, all, leaf), all, leaf)

\* A query is the set of records it matches, among all; a blank one matches everything.
Parse(toks, all, leaf) ==
  IF toks = << >> THEN Parsed(all, << >>)
  ELSE LET p == ParseOr(toks, all, leaf) IN IF p.ok /\ p.rest = << >> THEN p ELSE Fail

-----------------------------------------------------------------------------
(* The grammar of the package comment, as what each way of deriving a sequence means. *)

RECURSIVE Meanings(_, _, _, _)
Meanings(rule, s, all, leaf) ==
  CASE rule = "or" ->
         Meanings("and", s, all, leaf) \cup
         UNION {{a \cup b : a \in Meanings("or", SubSeq(s, 1, i - 1), all, leaf),
                            b \in Meanings("and", SubSeq(s, i + 1, Len(s)), all, leaf)} : i \in {i \in DOMAIN s : s[i].kind = "or"}}
    [] rule = "and" ->
         Meanings("not", s, all, leaf) \cup
         UNION {{a \cap b : a \in Meanings("and", SubSeq(s, 1, i - 1), all, leaf),
                            b \in Meanings("not", SubSeq(s, IF s[i].kind = "and" THEN i + 1 ELSE i, Len(s)), all, leaf)} : i \in DOMAIN s \ {1}}
    [] rule = "not" ->
         Meanings("primary", s, all, leaf) \cup
         (IF s # << >> /\ s[1].kind = "not" THEN {all \ a : a \in Meanings("not", Tail(s), all, leaf)} ELSE {})
    [] rule = "primary" ->
         CASE Len(s) = 1 /\ s[1].kind = "term" -> IF Bad(s[1].term) THEN {} ELSE {leaf[s[1].term]}
           [] Len(s) > 2 /\ s[1].kind = "(" /\ s[Len(s)].kind = ")" -> Meanings("or", SubSeq(s, 2, Len(s) - 1), all, leaf)
           [] OTHER -> {}

-----------------------------------------------------------------------------
(* A request: the query, and the read of the ledger it filters. *)

CONSTANTS
  Rows, Content,           \* transactions, the newest first: what they say, but for the edges of others
  Edges,                   \* row |-> the edges it asserts, each a kind and a target
  Units,                   \* what may be typed next
  Batch, Limit, Offset,    \* the page of the ledger, and of the answer
  MaxUnits, MaxWrites      \* bounds

VARIABLES
  typed,    \* the units of the query
  ledger,   \* the transactions there are
  search,   \* the request: where it is, its query, the rows read and the answer
  writes
vars == <<typed, ledger, search, writes>>

NoSearch == [pc |-> "idle", toks |-> << >>, read |-> << >>, there |-> {}, all |-> {}, page |-> << >>, total |-> 0, removed |-> FALSE]

\* ORDER BY date DESC, id.
RECURSIVE Ordered(_)
Ordered(S) == IF S = {} THEN << >>
              ELSE LET r == CHOOSE r \in S : \A q \in S : r <= q IN <<r>> \o Ordered(S \ {r})
Slice(s, offset, limit) == LET from == IF offset > Len(s) THEN Len(s) ELSE offset
                               to == IF Len(s) < from + limit THEN Len(s) ELSE from + limit
                           IN SubSeq(s, from + 1, to)

\* Only the edges that a transaction asserts itself.
OutboundIndex(r, read) ==
  {[kind |-> e.kind, target |-> e.target, direction |-> "outbound"] : e \in IF r \in read THEN Edges[r] ELSE {}}
\* Each edge read is an entry of its subject and one of its target.
RelationshipIndex(r, read) ==
  {[kind |-> e.kind, target |-> e.target, direction |-> "outbound"] : e \in IF r \in read THEN Edges[r] ELSE {}}
    \cup UNION {{[kind |-> e.kind, target |-> q, direction |-> "inbound"] : e \in {e \in Edges[q] : e.target = r}} : q \in read}
SearchRecord(r, read) == Content[r] @@ [edges |-> RelationshipIndex(r, read)]
Leaf(read) == [n \in DOMAIN Term |-> {r \in read : ~Bad(n) /\ Pred(Term[n], SearchRecord(r, read))}]
Matched(toks, read) == Parse(toks, read, Leaf(read))

-----------------------------------------------------------------------------
Type(u) ==
  /\ search.pc = "idle" /\ Len(typed) < MaxUnits /\ typed' = Append(typed, u)
  /\ UNCHANGED <<ledger, search, writes>>

\* A query that does not parse is refused.
Begin ==
  /\ search.pc = "idle" /\ Matched(Lex(typed), {}).ok
  /\ search' = [NoSearch EXCEPT !.pc = "read", !.toks = Lex(typed), !.there = ledger, !.all = ledger]
  /\ UNCHANGED <<typed, ledger, writes>>

\* allTransactions: the next batch, at the offset of the batches so far.
ReadPage ==
  /\ search.pc = "read"
  /\ LET page == Slice(Ordered(ledger), Len(search.read), Batch)
     IN search' = [search EXCEPT !.read = @ \o page, !.pc = IF Len(page) < Batch THEN "match" ELSE "read"]
  /\ UNCHANGED <<typed, ledger, writes>>
ReadFails ==
  /\ search.pc = "read" /\ search' = NoSearch
  /\ UNCHANGED <<typed, ledger, writes>>

ReadSet == {search.read[i] : i \in DOMAIN search.read}
Answer ==
  /\ search.pc = "match"
  /\ LET hits == SelectSeq(search.read, LAMBDA r : r \in Matched(search.toks, ReadSet).match)
     IN search' = [search EXCEPT !.pc = "done", !.total = Len(hits), !.page = Slice(hits, Offset, Limit)]
  /\ UNCHANGED <<typed, ledger, writes>>

Write(r) ==
  /\ writes < MaxWrites /\ writes' = writes + 1 /\ search.pc \notin {"match", "done"}
  /\ ledger' = IF r \in ledger THEN ledger \ {r} ELSE ledger \cup {r}
  /\ search' = IF search.pc = "idle" THEN search
               ELSE [search EXCEPT !.there = @ \cap ledger', !.all = @ \cup ledger', !.removed = @ \/ r \in ledger]
  /\ UNCHANGED typed

Init == typed = << >> /\ ledger \in SUBSET Rows /\ search = NoSearch /\ writes = 0

Next == (\E u \in Units : Type(u)) \/ Begin \/ ReadPage \/ ReadFails \/ Answer \/ \E r \in Rows : Write(r)

-----------------------------------------------------------------------------
(* Properties. *)

\* The parser takes what the grammar derives, refuses what it does not, and means what the
\* one derivation means.
GrammarKept ==
  LET toks == Lex(typed)  p == Matched(toks, Rows)
  IN search.pc = "idle" /\ toks # << >> =>
       Meanings("or", toks, Rows, Leaf(Rows)) = IF p.ok THEN {p.match} ELSE {}

\* Of any record, the comparisons of an amount or a date with one operand hold as an order
\* does: one of <, = and >, and != , <= and >= are what they say of them.
OrderKept ==
  \A field \in {"amount", "date"} : \A r \in Rows : \A n \in DOMAIN Term :
    Term[n].field = field /\ Term[n].op = "=" =>
      LET Is(op) == Pred([Term[n] EXCEPT !.op = op], Content[r])
      IN /\ Cardinality({op \in {"<", "=", ">"} : Is(op)}) = 1
         /\ Is("!=") = ~Is("=") /\ Is("<=") = ~Is(">") /\ Is(">=") = ~Is("<")

\* A search finds every match that was there from its start to its end, unless a row was
\* removed under its pages, and nothing that was not there at some time; an edge is seen
\* from both its ends.
SearchIsWhole ==
  search.pc = "done" =>
    /\ ReadSet \subseteq search.all
    /\ ~search.removed => search.there \subseteq ReadSet
    /\ search.there = search.all =>
         /\ search.total = Cardinality(Matched(search.toks, ledger).match)
         /\ \A r \in ledger : \A n \in DOMAIN Term :
              Term[n].field = "related" => (r \in Leaf(ReadSet)[n] <=>
                \/ \E e \in Edges[r] : e.target = Term[n].value
                \/ Term[n].value \in ledger /\ \E e \in Edges[Term[n].value] : e.target = r)
=============================================================================
