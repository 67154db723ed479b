------------------------------ MODULE RulesPage ------------------------------
(* The dashboard's Rules page in one browser tab: the list, the form that creates or edits a rule, the
   switch of a row and its removal.  The Webhooks page edits its list in the same way. *)
EXTENDS Integers, Sequences, FiniteSets, Functions, TLC

CONSTANTS Queries, Bad, MaxId, MaxCalls   \* queries, those that do not parse; bounds

VARIABLES
  server,   \* id -> [query, on], and the last id given
  rules,    \* the page's list: id -> [query, on]
  form,     \* [open, id, query, on, saving]; id 0 creates
  calls,    \* requests in the order they were sent
  told,     \* id -> the query of the last save that was answered with success
  strayed   \* two requests about one rule, or a list and a write, were under way at once, or an answer was lost
vars == <<server, rules, form, calls, told, strayed>>

Shut == [open |-> FALSE, id |-> 0, query |-> "none", on |-> TRUE, saving |-> FALSE]
Rule == [query : Queries, on : BOOLEAN]

TypeOK ==
  /\ DOMAIN server.rules \subseteq 1 .. server.last /\ \A i \in DOMAIN server.rules : server.rules[i] \in Rule
  /\ \A i \in DOMAIN rules : rules[i] \in Rule
  /\ form.id \in 0 .. MaxId

Gone == [kind |-> "none", pc |-> "done"]
Open == {n \in DOMAIN calls : calls[n].pc # "done"}
Sent(n, kind) == calls[n].pc = "sent" /\ calls[n].kind = kind
Ended(n, kind) == calls[n].pc \in {"served", "failed"} /\ calls[n].kind = kind
Set(n, call) == [calls EXCEPT ![n] = call]
Calls(call) == Len(calls) < MaxCalls /\ calls' = Append(calls, call)
\* Another request is under way that a new one about rule i may cross.
Crosses(i) == \E n \in Open : calls[n].kind = "list" \/ i = 0 \/ calls[n].id \in {0, i} \/ calls[n].kind = "delete"
-----------------------------------------------------------------------------
\* The page is mounted and asks for the list.
FetchRules == [kind |-> "list", pc |-> "sent", got |-> << >>]
ServeList(n) ==
  /\ Sent(n, "list") /\ calls' = Set(n, [calls[n] EXCEPT !.pc = "served", !.got = server.rules])
  /\ UNCHANGED <<server, rules, form, told, strayed>>
Listed(n) ==
  /\ Ended(n, "list") /\ calls' = Set(n, Gone)
  /\ rules' = IF calls[n].pc = "failed" THEN rules ELSE calls[n].got
  /\ strayed' = (strayed \/ calls[n].pc = "failed")
  /\ UNCHANGED <<server, form, told>>

OnNewRule ==
  /\ form' = [Shut EXCEPT !.open = TRUE, !.query = "", !.saving = form.saving]
  /\ UNCHANGED <<server, rules, calls, told, strayed>>
OnEdit(i) ==
  /\ i \in DOMAIN rules
  /\ form' = [open |-> TRUE, id |-> i, query |-> rules[i].query, on |-> rules[i].on, saving |-> form.saving]
  /\ UNCHANGED <<server, rules, calls, told, strayed>>
OnQueryInput(q) ==
  /\ form.open /\ form.query # q /\ form' = [form EXCEPT !.query = q]
  /\ UNCHANGED <<server, rules, calls, told, strayed>>
OnCancel ==
  /\ form.open /\ form' = [Shut EXCEPT !.saving = form.saving]
  /\ UNCHANGED <<server, rules, calls, told, strayed>>

\* One save at a time, of a query that parses.
OnSave ==
  /\ form.open /\ ~form.saving /\ form.query \notin Bad \cup {""}
  /\ Calls([kind |-> "save", pc |-> "sent", id |-> form.id, rule |-> [query |-> form.query, on |-> form.on]])
  /\ form' = [form EXCEPT !.saving = TRUE]
  /\ strayed' = (strayed \/ Crosses(form.id))
  /\ UNCHANGED <<server, rules, told>>
\* The switch sends the whole row as the page has it.
FormRow(i) == [query |-> IF form.open /\ form.query \in Queries THEN form.query ELSE rules[i].query, on |-> ~rules[i].on]
ToggledRow(i) == [rules[i] EXCEPT !.on = ~@]
OnToggleEnabled(i) ==
  /\ i \in DOMAIN rules /\ Calls([kind |-> "save", pc |-> "sent", id |-> i, rule |-> ToggledRow(i)] @@ [toggle |-> TRUE])
  /\ strayed' = (strayed \/ Crosses(i))
  /\ UNCHANGED <<server, rules, form, told>>
Toggle(c) == "toggle" \in DOMAIN c
\* A rule that is gone cannot be updated.
ServeSave(n) ==
  /\ Sent(n, "save")
  /\ LET c == calls[n]
         i == IF c.id = 0 THEN server.last + 1 ELSE c.id
     IN /\ i <= MaxId
        /\ IF c.id # 0 /\ c.id \notin DOMAIN server.rules
           THEN calls' = Set(n, [c EXCEPT !.pc = "failed"]) /\ UNCHANGED server
           ELSE /\ server' = [rules |-> (i :> c.rule) @@ server.rules, last |-> IF c.id = 0 THEN i ELSE server.last]
                /\ calls' = Set(n, [c EXCEPT !.pc = "served"] @@ [as |-> i])
  /\ UNCHANGED <<rules, form, told, strayed>>
\* upsertRule, and whatever form is open by now is closed.
Saved(n) ==
  /\ Ended(n, "save") /\ calls' = Set(n, Gone)
  /\ LET c == calls[n]
         ok == c.pc = "served"
     IN /\ rules' = IF ok THEN (c.as :> c.rule) @@ rules ELSE rules
        /\ form' = IF Toggle(c) THEN form ELSE IF ok THEN Shut ELSE [form EXCEPT !.saving = FALSE]
        /\ told' = IF ok /\ ~Toggle(c) THEN (c.as :> c.rule.query) @@ told ELSE told
  /\ UNCHANGED <<server, strayed>>

OnDelete(i) ==
  /\ i \in DOMAIN rules /\ Calls([kind |-> "delete", pc |-> "sent", id |-> i, prev |-> rules])
  /\ rules' = Restrict(rules, DOMAIN rules \ {i})
  /\ strayed' = (strayed \/ Open # {})
  /\ UNCHANGED <<server, form, told>>
ServeDelete(n) ==
  /\ Sent(n, "delete")
  /\ server' = [server EXCEPT !.rules = Restrict(@, DOMAIN @ \ {calls[n].id})]
  /\ calls' = Set(n, [calls[n] EXCEPT !.pc = "served"])
  /\ UNCHANGED <<rules, form, told, strayed>>
\* A removal that failed puts back the list from before it.
LeftOut(c) == rules
AfterDelete(c) == IF c.pc = "failed" THEN c.prev ELSE rules
Deleted(n) ==
  /\ Ended(n, "delete") /\ calls' = Set(n, Gone) /\ rules' = AfterDelete(calls[n])
  /\ UNCHANGED <<server, form, told, strayed>>

\* A request fails before the server has it, or its answer is lost.
Fail(n) ==
  /\ calls[n].pc \in {"sent", "served"} /\ calls' = Set(n, [calls[n] EXCEPT !.pc = "failed"])
  /\ strayed' = (strayed \/ calls[n].pc = "served")
  /\ UNCHANGED <<server, rules, form, told>>

Init ==
  /\ \E q \in Queries \ Bad : server = [rules |-> (1 :> [query |-> q, on |-> TRUE]), last |-> 1]
  /\ rules = << >> /\ form = Shut /\ calls = <<FetchRules>> /\ told = << >> /\ strayed = FALSE
Next ==
  \/ OnNewRule \/ OnCancel \/ OnSave
  \/ \E q \in Queries : OnQueryInput(q)
  \/ \E i \in DOMAIN rules : OnEdit(i) \/ OnToggleEnabled(i) \/ OnDelete(i)
  \/ \E n \in DOMAIN calls : ServeList(n) \/ Listed(n) \/ ServeSave(n) \/ Saved(n) \/ ServeDelete(n) \/ Deleted(n) \/ Fail(n)
Spec == Init /\ [][Next]_vars

-----------------------------------------------------------------------------
\* Once every answer has come, the page lists the server's rules as they are, unless two requests
\* that concern one rule crossed.
ListsTheRules == Open = {} /\ ~strayed => rules = server.rules
\* A rule runs with the query of the last save the page was told succeeded: a switch, a removal or
\* another rule's save does not put an older one back.
KeepsWhatWasSaved == Open = {} /\ ~strayed => \A i \in DOMAIN server.rules \cap DOMAIN told : server.rules[i].query = told[i]
=============================================================================
