-------------------------- MODULE TransactionsPage --------------------------
(* The dashboard's Transactions page in one browser: its account filter, the labels edited in the
   table, and the form for manual rows.  Every request runs beside the page and its answer is
   dispatched to it when it comes, so answers may come in another order than they were sent. *)
EXTENDS Integers, Sequences, FiniteSets, Functions, TLC

CONSTANTS
  Accounts, Ids, AccountOf,   \* rows that may exist, 1 .. n in the order the API lists them
  Synced,                     \* those a source owns
  Keys, NormalKey,            \* label keys as typed, and as the server stores them
  Batch,                      \* rows of one request of a list
  MaxCalls                    \* bound

VARIABLES
  rows,    \* the server's: id -> [labels, text]
  txns,    \* the page's rows: id -> [labels, text]
  page,    \* [filter, loading, err, vocab, typing]: typing is the row whose label input is open
  form,    \* the modal: [open, id, text, saving]; id 0 creates
  calls,   \* requests in the order they were sent
  strayed  \* an answer overtook another, a list was read while rows were written, a write's answer was lost
vars == <<rows, txns, page, form, calls, strayed>>

All == "all"
Gone == [kind |-> "none", pc |-> "done"]
NoForm == [open |-> FALSE, id |-> 0, text |-> 0, saving |-> FALSE]
LabelSets == UNION {[D -> {1}] : D \in SUBSET Keys}

TypeOK ==
  /\ DOMAIN rows \subseteq Ids /\ DOMAIN txns \subseteq Ids
  /\ page.filter \in Accounts \cup {All} /\ page.typing \in Ids \cup {0}
  /\ \A i \in DOMAIN txns : txns[i].labels \in LabelSets
  /\ \A n \in DOMAIN calls : calls[n].pc \in {"sent", "served", "failed", "done"}

Open == {n \in DOMAIN calls : calls[n].pc # "done"}
Sent(n, kind) == calls[n].pc = "sent" /\ calls[n].kind = kind
Ended(n, kind) == calls[n].pc \in {"served", "failed"} /\ calls[n].kind = kind
Set(n, call) == [calls EXCEPT ![n] = call]
Calls(cs, news) == Len(cs) + Len(news) <= MaxCalls /\ calls' = cs \o news
ListOf(filter) == [kind |-> "list", pc |-> "sent", filter |-> filter, got |-> << >>, offset |-> 0, turn |-> 0]
Reload(filter) == <<ListOf(filter)>>

\* The order in which the server served the calls whose answers are still to come.
Turn == 1 + CHOOSE t \in 0 .. MaxCalls : /\ \A n \in Open : calls[n].turn <= t
                                         /\ t = 0 \/ \E n \in Open : calls[n].turn = t
Torn == \E m \in Open : calls[m].kind = "list" /\ calls[m].pc = "sent" /\ calls[m].offset > 0
Overtakes(n) == \E m \in Open \ {n} : calls[m].turn > 0 /\ calls[m].turn < calls[n].turn

-----------------------------------------------------------------------------
(* The list. *)

OnAccountChange(a) ==
  /\ a # page.filter /\ Calls(calls, Reload(a))
  /\ page' = [page EXCEPT !.filter = a, !.loading = TRUE]
  /\ txns' = << >>
  /\ UNCHANGED <<rows, form, strayed>>
OfFilter(f) == {i \in DOMAIN rows : f = All \/ AccountOf[i] = f}
\* allTransactions: a page of rows by offset, until one is short.
ServeList(n) ==
  /\ Sent(n, "list")
  /\ LET c == calls[n]
         ids == OfFilter(c.filter)
         Place(i) == Cardinality({j \in ids : j <= i})
         some == {i \in ids : Place(i) > c.offset /\ Place(i) <= c.offset + Batch}
         got == [i \in some |-> rows[i]] @@ c.got
     IN calls' = Set(n, IF Cardinality(some) < Batch THEN [c EXCEPT !.pc = "served", !.got = got, !.turn = Turn]
                        ELSE [c EXCEPT !.got = got, !.offset = @ + Batch])
  /\ UNCHANGED <<rows, txns, page, form, strayed>>
\* The answer is taken for whatever filter the page has by now.
Listed(n) ==
  /\ Ended(n, "list")
  /\ page' = [page EXCEPT !.loading = FALSE, !.err = (calls[n].pc = "failed")]
  /\ txns' = IF calls[n].pc = "failed" THEN txns ELSE calls[n].got
  /\ calls' = Set(n, Gone)
  /\ strayed' = (strayed \/ calls[n].pc = "failed" \/ Overtakes(n) \/ \E m \in Open : m < n /\ calls[m].kind = "list")
  /\ UNCHANGED <<rows, form>>

-----------------------------------------------------------------------------
(* Labels. *)

\* The cell opens its input; a blur, Escape or another row closes it.
OnLabelsCellClick(i) ==
  /\ i \in DOMAIN txns /\ page.typing # i
  /\ page' = [page EXCEPT !.typing = i]
  /\ UNCHANGED <<rows, txns, form, calls, strayed>>
OnLabelBlur ==
  /\ page.typing # 0
  /\ page' = [page EXCEPT !.typing = 0]
  /\ UNCHANGED <<rows, txns, form, calls, strayed>>
\* The row shows the new set at once, and the whole set is sent.
SaveLabels(i, next) ==
  /\ i \in DOMAIN txns
  /\ LET others == {n \in Open : calls[n].kind = "labels" /\ calls[n].id = i}
     IN Calls([n \in DOMAIN calls |-> IF n \in others THEN [calls[n] EXCEPT !.mixed = TRUE] ELSE calls[n]],
              <<[kind |-> "labels", pc |-> "sent", id |-> i, next |-> next, prev |-> txns[i].labels, got |-> << >>,
                 mixed |-> others # {}, turn |-> 0]>>)
  /\ txns' = [txns EXCEPT ![i].labels = next]
  /\ page' = [page EXCEPT !.vocab = @ \cup DOMAIN next]
  /\ UNCHANGED <<rows, form, strayed>>
\* The set is the row's plus one key; a repeated key replaces its value.
AddLabel(i, k) == page.typing = i /\ i \in DOMAIN txns /\ SaveLabels(i, txns[i].labels @@ [x \in {k} |-> 1])
RemoveLabel(i, k) == i \in DOMAIN txns /\ k \in DOMAIN txns[i].labels /\ SaveLabels(i, Restrict(txns[i].labels, DOMAIN txns[i].labels \ {k}))
Normalize(labels) == [k \in {NormalKey[x] : x \in DOMAIN labels} |-> 1]
ServeLabels(n) ==
  /\ Sent(n, "labels")
  /\ LET c == calls[n]
     IN IF c.id \in DOMAIN rows
        THEN /\ rows' = [rows EXCEPT ![c.id].labels = Normalize(c.next)]
             /\ calls' = Set(n, [c EXCEPT !.pc = "served", !.got = Normalize(c.next), !.turn = Turn])
        ELSE calls' = Set(n, [c EXCEPT !.pc = "failed"]) /\ UNCHANGED rows
  /\ strayed' = (strayed \/ Torn)
  /\ UNCHANGED <<txns, page, form>>
\* The server's set replaces the row's; a failure puts back the one from before.
KeepsOptimistic(c, shown) == shown
Settles(c, shown) == IF c.pc = "failed" THEN c.prev ELSE c.got
LabelsSaved(n) ==
  /\ Ended(n, "labels")
  /\ LET c == calls[n]
     IN /\ txns' = IF c.id \in DOMAIN txns THEN [txns EXCEPT ![c.id].labels = Settles(c, @)] ELSE txns
        /\ page' = IF c.pc = "failed" THEN [page EXCEPT !.err = TRUE] ELSE [page EXCEPT !.vocab = @ \cup DOMAIN c.got]
        /\ strayed' = (strayed \/ Overtakes(n) \/ (c.pc = "failed" /\ c.mixed))
  /\ calls' = Set(n, Gone)
  /\ UNCHANGED <<rows, form>>

-----------------------------------------------------------------------------
(* The form of a manual transaction. *)

\* Only a row that no source owns has the buttons to edit and delete it.
Offered(i) == i \in DOMAIN txns \ Synced
\* It opens on the row as the page shows it, or empty for a new one.
OpenForm(i) ==
  /\ i = 0 \/ Offered(i)
  /\ form' = [form EXCEPT !.open = TRUE, !.id = i, !.text = IF i = 0 THEN 1 ELSE 3 - txns[i].text]
  /\ UNCHANGED <<rows, txns, page, calls, strayed>>
CloseTransactionEditor ==
  /\ form.open /\ form' = [form EXCEPT !.open = FALSE]
  /\ UNCHANGED <<rows, txns, page, calls, strayed>>
OnSaveTransaction ==
  /\ form.open /\ ~form.saving
  /\ Calls(calls, <<[kind |-> "save", pc |-> "sent", id |-> form.id, text |-> form.text, turn |-> 0]>>)
  /\ form' = [form EXCEPT !.saving = TRUE]
  /\ UNCHANGED <<rows, txns, page, strayed>>
ServeSave(n) ==
  /\ Sent(n, "save")
  /\ LET c == calls[n]
     IN \/ /\ c.id = 0
           /\ \E i \in Ids \ (DOMAIN rows \cup Synced) : rows' = rows @@ [x \in {i} |-> [labels |-> << >>, text |-> c.text]]
           /\ calls' = Set(n, [c EXCEPT !.pc = "served", !.turn = Turn])
        \/ /\ c.id \in DOMAIN rows
           /\ rows' = [rows EXCEPT ![c.id].text = c.text]
           /\ calls' = Set(n, [c EXCEPT !.pc = "served", !.turn = Turn])
        \/ /\ c.id \notin DOMAIN rows \cup {0}
           /\ calls' = Set(n, [c EXCEPT !.pc = "failed"]) /\ UNCHANGED rows
  /\ strayed' = (strayed \/ Torn)
  /\ UNCHANGED <<txns, page, form>>
\* A save closes the form and reads the table anew; a failure leaves the form to be corrected.
TransactionSaved(n) ==
  /\ Ended(n, "save")
  /\ IF calls[n].pc = "failed"
     THEN /\ calls' = Set(n, Gone) /\ form' = [form EXCEPT !.saving = FALSE]
          /\ UNCHANGED <<txns, page>>
     ELSE /\ Calls(Set(n, Gone), Reload(page.filter)) /\ form' = [form EXCEPT !.saving = FALSE, !.open = FALSE]
          /\ txns' = << >> /\ page' = [page EXCEPT !.loading = TRUE]
  /\ strayed' = (strayed \/ Overtakes(n))
  /\ UNCHANGED rows
OnDeleteTransaction(i) ==
  /\ Offered(i)
  /\ Calls(calls, <<[kind |-> "delete", pc |-> "sent", id |-> i, turn |-> 0]>>)
  /\ UNCHANGED <<rows, txns, page, form, strayed>>
ServeDelete(n) ==
  /\ Sent(n, "delete")
  /\ IF calls[n].id \in DOMAIN rows
     THEN rows' = Restrict(rows, DOMAIN rows \ {calls[n].id}) /\ calls' = Set(n, [calls[n] EXCEPT !.pc = "served", !.turn = Turn])
     ELSE calls' = Set(n, [calls[n] EXCEPT !.pc = "failed"]) /\ UNCHANGED rows
  /\ strayed' = (strayed \/ Torn)
  /\ UNCHANGED <<txns, page, form>>
TransactionDeleted(n) ==
  /\ Ended(n, "delete")
  /\ IF calls[n].pc = "failed"
     THEN calls' = Set(n, Gone) /\ page' = [page EXCEPT !.err = TRUE] /\ UNCHANGED txns
     ELSE /\ Calls(Set(n, Gone), Reload(page.filter))
          /\ txns' = << >> /\ page' = [page EXCEPT !.loading = TRUE]
  /\ strayed' = (strayed \/ Overtakes(n))
  /\ UNCHANGED <<rows, form>>

-----------------------------------------------------------------------------
\* A request fails before the server has it, or its answer is lost on the way back.
Fail(n) ==
  /\ calls[n].pc \in {"sent", "served"}
  /\ calls' = Set(n, [calls[n] EXCEPT !.pc = "failed"])
  /\ strayed' = (strayed \/ calls[n].pc = "served")
  /\ UNCHANGED <<rows, txns, page, form>>

Init ==
  /\ rows \in UNION {[D -> {[labels |-> << >>, text |-> 1]}] : D \in {Ids \ {i} : i \in Ids}}
  /\ txns = << >> /\ page = [filter |-> All, loading |-> TRUE, err |-> FALSE, vocab |-> {}, typing |-> 0]
  /\ form = NoForm /\ calls = Reload(All) /\ strayed = FALSE
Next ==
  \/ \E a \in Accounts \cup {All} : OnAccountChange(a)
  \/ \E i \in Ids : OnLabelsCellClick(i) \/ OnDeleteTransaction(i)
  \/ \E i \in Ids, k \in Keys : AddLabel(i, k) \/ RemoveLabel(i, k)
  \/ \E i \in Ids \cup {0} : OpenForm(i)
  \/ OnLabelBlur \/ CloseTransactionEditor \/ OnSaveTransaction
  \/ \E n \in DOMAIN calls :
       \/ ServeList(n) \/ ServeLabels(n) \/ ServeSave(n) \/ ServeDelete(n) \/ Fail(n)
       \/ Listed(n) \/ LabelsSaved(n) \/ TransactionSaved(n) \/ TransactionDeleted(n)
Spec == Init /\ [][Next]_vars

-----------------------------------------------------------------------------
\* When every request was answered, in the order the server served them, the table shows the
\* server's rows of its filter, with the server's labels.
ShowsTheServer == Open = {} /\ ~strayed => txns = [i \in OfFilter(page.filter) |-> rows[i]]
\* While a list is on its way the table is empty or the page says it is loading, and when none is it
\* does not wait for one.
WaitsForAList == page.loading => \E n \in Open : calls[n].kind = "list"
\* A form is saved once: no second request for it is sent while the first is out.
SavedOnce == Cardinality({n \in Open : calls[n].kind = "save"}) <= 1
=============================================================================
