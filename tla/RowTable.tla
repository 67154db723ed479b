------------------------------ MODULE RowTable ------------------------------
(* The table of transactions of the dashboard's Transactions and Search pages: rows sorted by a
   column, shown a page at a time.  The rows are replaced by the page that hosts the table. *)
EXTENDS Integers, Sequences, SequencesExt, FiniteSets

CONSTANTS
  Rows,       \* [id, date, account, text, amount]; each is ordered as the page compares it
  NameOf,     \* the name shown for an account, its id when the account is not known
  Sizes       \* pageSizeOptions

VARIABLES rows, sortCol, sortAsc, pageSize, page
vars == <<rows, sortCol, sortAsc, pageSize, page>>

Columns == {"date", "account", "description", "amount"}
Distinct(s) == \A i, j \in DOMAIN s : i # j => s[i].id # s[j].id

TypeOK ==
  /\ rows \in BoundedSeq(Rows, Cardinality(Rows)) /\ Distinct(rows)
  /\ sortCol \in Columns /\ sortAsc \in BOOLEAN /\ pageSize \in Sizes /\ page \in Nat

Key(r, col) == CASE col = "account" -> NameOf[r.account]
                 [] col = "description" -> r.text
                 [] col = "amount" -> r.amount
                 [] col = "date" -> r.date
\* Dates that are equal fall back on the id, in either direction.
LessTxn(a, b) == IF sortCol = "date" /\ a.date = b.date THEN a.id < b.id
                 ELSE IF sortAsc THEN Key(a, sortCol) < Key(b, sortCol) ELSE Key(a, sortCol) > Key(b, sortCol)

\* A stable sort: of two rows that compare equal, the one that was first stays first.
RankOf(i) == 1 + Cardinality({j \in DOMAIN rows : LessTxn(rows[j], rows[i]) \/ (j < i /\ ~LessTxn(rows[i], rows[j]))})
Sorted == [n \in DOMAIN rows |-> rows[CHOOSE i \in DOMAIN rows : RankOf(i) = n]]

PageCountFloor(n) == IF n \div pageSize > 1 THEN n \div pageSize ELSE 1
PageCountOf(n) == IF (n + pageSize - 1) \div pageSize > 1 THEN (n + pageSize - 1) \div pageSize ELSE 1
PageCount == PageCountOf(Len(rows))
Clamp(p) == IF p > PageCount - 1 THEN PageCount - 1 ELSE IF p < 0 THEN 0 ELSE p
PageOf(p) == LET start == Clamp(p) * pageSize
                 end == IF start + pageSize > Len(rows) THEN Len(rows) ELSE start + pageSize
             IN SubSeq(Sorted, start + 1, end)

\* The pager's buttons: the first page, the last, the one shown and its neighbours; 0 stands for
\* an ellipsis.
Pager ==
  LET shown == Clamp(page)  last == PageCount - 1
      lo == IF shown - 1 < 0 THEN 0 ELSE shown - 1
      hi == IF shown + 1 > last THEN last ELSE shown + 1
  IN (IF lo > 0 THEN <<1>> ELSE << >>) \o (IF lo > 1 THEN <<0>> ELSE << >>)
     \o [n \in 1 .. hi - lo + 1 |-> lo + n]
     \o (IF hi < last - 1 THEN <<0>> ELSE << >>) \o (IF hi < last THEN <<last + 1>> ELSE << >>)

-----------------------------------------------------------------------------
\* fetchTransactions, runSearch: the rows of a new filter, from their first page.
Adopt(s) ==
  /\ rows' = s /\ page' = 0
  /\ UNCHANGED <<sortCol, sortAsc, pageSize>>
DefaultAsc(col) == col \in {"account", "description"}
ToggleSort(col) ==
  /\ rows # << >>
  /\ sortCol' = col
  /\ sortAsc' = IF sortCol = col THEN ~sortAsc ELSE DefaultAsc(col)
  /\ page' = 0
  /\ UNCHANGED <<rows, pageSize>>
OnPageSizeChange(n) ==
  /\ pageSize' = n /\ page' = 0
  /\ UNCHANGED <<rows, sortCol, sortAsc>>
\* A button of the footer, which is there when the rows take more than one page.
GoToPage(p) ==
  /\ rows # << >> /\ PageCount > 1 /\ Clamp(p) # page
  /\ page' = Clamp(p)
  /\ UNCHANGED <<rows, sortCol, sortAsc, pageSize>>
Footer == {Clamp(page) - 1, Clamp(page) + 1} \cup {Pager[i] - 1 : i \in {j \in DOMAIN Pager : Pager[j] # 0}}

Init == rows = << >> /\ sortCol = "date" /\ sortAsc = FALSE /\ pageSize \in Sizes /\ page = 0
Next == \/ \E s \in {t \in BoundedSeq(Rows, Cardinality(Rows)) : Distinct(t)} : Adopt(s)
        \/ \E col \in Columns : ToggleSort(col)
        \/ \E n \in Sizes : OnPageSizeChange(n)
        \/ \E p \in Footer : GoToPage(p)
Spec == Init /\ [][Next]_vars

-----------------------------------------------------------------------------
\* The pages one after another are the sorted rows: none is on two pages, none on no page, and the
\* page shown has rows when there are rows.
PagesCover ==
  /\ FlattenSeq([p \in 1 .. PageCount |-> PageOf(p - 1)]) = Sorted
  /\ {Sorted[n] : n \in DOMAIN Sorted} = {rows[i] : i \in DOMAIN rows}
  /\ rows # << >> => PageOf(page) # << >>
\* No row is shown above one that its column puts before it.
InOrder == \A m, n \in DOMAIN Sorted : m < n => ~LessTxn(Sorted[n], Sorted[m])
\* The pager lists its pages in order, once each, with an ellipsis wherever pages are left out, and
\* the first, the shown and the last are always among them.
PagerWhole ==
  /\ {1, Clamp(page) + 1, PageCount} \subseteq {Pager[i] : i \in DOMAIN Pager}
  /\ \A i \in 1 .. Len(Pager) - 1 :
       IF Pager[i] = 0 THEN i > 1 /\ Pager[i + 1] > Pager[i - 1] + 1
       ELSE Pager[i + 1] \in {0, Pager[i] + 1}
=============================================================================
