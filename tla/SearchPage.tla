----------------------------- MODULE SearchPage -----------------------------
(* The dashboard's Search page: all transactions are read once, and queries are matched against
   them in the browser.  The last query that ran is kept there, and runs again when the page is
   next opened and has read what it needs. *)
EXTENDS Integers, Sequences, FiniteSets, SequencesExt

CONSTANTS
  Rows,      \* the server's rows, a sequence of [account, label]
  NameOf,    \* the name of each account
  Labels,    \* what a row's label may be edited to
  Queries,   \* that parse: [field, value]; field "all" lists everything
  MaxRuns, MaxOpens   \* bounds

VARIABLES
  stored,    \* the query kept in the browser: [active, query]
  page,      \* the page while it is open
  wanted,    \* what it has asked for and not received: "txns", "accounts"
  early,     \* the user searched or cleared before both had come
  counts     \* [runs, opens]
vars == <<stored, page, wanted, early, counts>>

Bad == [field |-> "(", value |-> "none"]
Empty == [field |-> "all", value |-> "none"]
NotStored == [active |-> FALSE, query |-> Empty]
Closed == [open |-> FALSE, allTxns |-> << >>, loaded |-> FALSE, byID |-> FALSE, query |-> Empty, autoRun |-> FALSE, didAutoRun |-> FALSE,
           searched |-> FALSE, parseErr |-> FALSE, results |-> << >>, ran |-> Empty, edited |-> FALSE, cleared |-> FALSE]

TypeOK ==
  /\ stored.query \in Queries \cup {Bad, Empty} /\ page.query \in Queries \cup {Bad, Empty}
  /\ wanted \subseteq {"txns", "accounts"} /\ ToSet(page.results) \subseteq DOMAIN page.allTxns

\* An account that is not known goes by its id.
AccountName(p, account) == IF p.byID THEN NameOf[account] ELSE account
ToRecord(p, r) == [label |-> r.label, account |-> AccountName(p, r.account)]
Match(q, record) == q.field = "all" \/ record[q.field] = q.value
Matches(p, q) == SelectSeq([i \in DOMAIN p.allTxns |-> i], LAMBDA i : Match(q, ToRecord(p, p.allTxns[i])))

\* The query is kept before it is parsed; one that does not parse leaves the results there were.
RunSearch(p) ==
  /\ stored' = [active |-> TRUE, query |-> p.query]
  /\ page' = IF p.query = Bad THEN [p EXCEPT !.searched = TRUE, !.parseErr = TRUE]
             ELSE [p EXCEPT !.searched = TRUE, !.parseErr = FALSE, !.results = Matches(p, p.query), !.ran = p.query,
                            !.edited = FALSE, !.cleared = FALSE]
BothLoaded(p) == p.loaded /\ p.byID
TxnsLoaded(p) == p.loaded
Ready(p) == BothLoaded(p)
MaybeAutoRun(p) ==
  IF p.autoRun /\ ~p.didAutoRun /\ Ready(p) THEN RunSearch([p EXCEPT !.didAutoRun = TRUE])
  ELSE page' = p /\ UNCHANGED stored
AutoRunDue == page.autoRun /\ ~page.didAutoRun

-----------------------------------------------------------------------------
OnMount ==
  /\ ~page.open /\ counts.opens < MaxOpens /\ counts' = [counts EXCEPT !.opens = @ + 1]
  /\ page' = [Closed EXCEPT !.open = TRUE, !.query = stored.query, !.autoRun = stored.active]
  /\ wanted' = {"txns", "accounts"} /\ early' = FALSE
  /\ UNCHANGED stored
Leave ==
  /\ page.open /\ page' = Closed /\ wanted' = {} /\ early' = FALSE
  /\ UNCHANGED <<stored, counts>>
LoadTransactions ==
  /\ "txns" \in wanted /\ wanted' = wanted \ {"txns"}
  /\ \/ MaybeAutoRun([page EXCEPT !.loaded = TRUE, !.allTxns = Rows])
     \/ page' = [page EXCEPT !.loaded = TRUE] /\ UNCHANGED stored
  /\ UNCHANGED <<early, counts>>
LoadAccounts ==
  /\ "accounts" \in wanted /\ wanted' = wanted \ {"accounts"}
  /\ \/ MaybeAutoRun([page EXCEPT !.byID = TRUE])
     \/ UNCHANGED <<page, stored>>
  /\ UNCHANGED <<early, counts>>
OnQueryInput(q) ==
  /\ page.open /\ page.query # q /\ counts.runs < MaxRuns
  /\ page' = [page EXCEPT !.query = q]
  /\ UNCHANGED <<stored, wanted, early, counts>>
OnRun ==
  /\ page.open /\ counts.runs < MaxRuns /\ counts' = [counts EXCEPT !.runs = @ + 1]
  /\ RunSearch(page) /\ early' = IF page.query = Bad THEN early ELSE wanted # {}
  /\ UNCHANGED wanted
OnClear ==
  /\ page.open /\ counts.runs < MaxRuns /\ counts' = [counts EXCEPT !.runs = @ + 1]
  /\ page' = [page EXCEPT !.query = Empty, !.results = << >>, !.searched = FALSE, !.parseErr = FALSE, !.cleared = TRUE]
  /\ stored' = NotStored /\ early' = (early \/ AutoRunDue)
  /\ UNCHANGED wanted
\* A label edited in the results changes the row that is searched next.
EditLabel(i, l) ==
  /\ i \in ToSet(page.results) /\ page.allTxns[i].label # l
  /\ page' = [page EXCEPT !.allTxns[i].label = l, !.edited = TRUE]
  /\ UNCHANGED <<stored, wanted, early, counts>>

Init == stored = NotStored /\ page = Closed /\ wanted = {} /\ early = FALSE /\ counts = [runs |-> 0, opens |-> 0]
Next ==
  \/ OnMount \/ Leave \/ LoadTransactions \/ LoadAccounts \/ OnRun \/ OnClear
  \/ \E q \in Queries \cup {Bad, Empty} : OnQueryInput(q)
  \/ \E i \in DOMAIN page.allTxns, l \in Labels : EditLabel(i, l)
Spec == Init /\ [][Next]_vars

-----------------------------------------------------------------------------
\* What is listed is what the query that ran matches, with the accounts by their names, however the
\* page's two requests were answered.
ResultsMatch == page.searched /\ BothLoaded(page) /\ ~page.edited /\ ~early /\ ~page.cleared =>
                  page.results = Matches(page, page.ran) \/ (page.parseErr /\ page.results = << >>)
\* A kept search has run again by the time the page has both, unless it was cleared; once.
RunsAgain == page.open /\ page.autoRun /\ wanted = {} /\ page.loaded /\ page.byID /\ page.allTxns # << >> => page.didAutoRun
\* A search that was cleared lists nothing and is not kept, until another runs.
StaysCleared == page.cleared /\ ~early => page.results = << >> /\ (page.searched => page.parseErr)
=============================================================================
