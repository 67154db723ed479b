----------------------------- MODULE PluginPage -----------------------------
(* The dashboard's page of a plugin: one component is reused from plugin to plugin, renders the document
   the plugin's hook returns, and sends its buttons and forms to the plugin.  The hooks are external. *)
EXTENDS Integers, Sequences, FiniteSets

CONSTANTS Plugins, MaxValue, MaxCalls   \* a document is its plugin and the value its form shows; bounds

VARIABLES
  value,    \* what each plugin has saved
  view,     \* the component: [name, doc, loading, err, acting, edit]: edit is what the user typed, 0 nothing
  calls,    \* requests in the order they were sent
  left,     \* a page was left while its action was under way
  strayed   \* a document was rendered before an action that was answered first, or an answer was lost
vars == <<value, view, calls, left, strayed>>

NoDoc == [of |-> "none", value |-> 0]
NoView == [name |-> "none", doc |-> NoDoc, loading |-> FALSE, err |-> FALSE, acting |-> FALSE, edit |-> 0]
Loaded == view.doc # NoDoc

TypeOK ==
  /\ value \in [Plugins -> 0 .. MaxValue] /\ view.name \in Plugins \cup {"none"}
  /\ view.doc.of \in Plugins \cup {"none"} /\ view.doc.value \in 0 .. MaxValue

Gone == [kind |-> "none", pc |-> "done"]
Open == {n \in DOMAIN calls : calls[n].pc # "done"}
Sent(n, kind) == calls[n].pc = "sent" /\ calls[n].kind = kind
Ended(n, kind) == calls[n].pc \in {"served", "failed"} /\ calls[n].kind = kind
Set(n, call) == [calls EXCEPT ![n] = call]
Calls(call) == Len(calls) < MaxCalls /\ calls' = Append(calls, call)
Rendered(p) == [of |-> p, value |-> value[p]]
\* Calls the plugin has answered, of which another answer comes first.
Served(p) == {n \in Open : calls[n].pc = "served" /\ calls[n].name = p}
-----------------------------------------------------------------------------
\* adoptRoute: everything of the page before is cleared, but for the action under way.
AdoptRoute(p) ==
  /\ view.name # p
  /\ view' = [NoView EXCEPT !.name = p, !.loading = TRUE, !.acting = view.acting]
  /\ Calls([kind |-> "render", pc |-> "sent", name |-> p, doc |-> NoDoc])
  /\ left' = (left \/ view.acting)
  /\ UNCHANGED <<value, strayed>>
ServeRender(n) ==
  /\ Sent(n, "render") /\ calls' = Set(n, [calls[n] EXCEPT !.pc = "served", !.doc = Rendered(calls[n].name)])
  /\ UNCHANGED <<value, view, left, strayed>>
\* An answer for the plugin that was left is dropped.
AnyPage(c) == TRUE
StillOn(c) == c.name = view.name
LoadPage(n) ==
  /\ Ended(n, "render") /\ calls' = Set(n, Gone)
  /\ LET c == calls[n]
     IN /\ view' = IF ~StillOn(c) THEN view
                   ELSE IF c.pc = "failed" THEN [view EXCEPT !.loading = FALSE, !.err = TRUE]
                   ELSE [view EXCEPT !.loading = FALSE, !.err = FALSE, !.doc = c.doc]
        /\ strayed' = (strayed \/ c.pc = "failed" \/ Served(c.name) \ {n} # {})
  /\ UNCHANGED <<value, left>>

\* A field shows what the user typed, or else what the plugin rendered.
FieldValue == IF view.edit # 0 THEN view.edit ELSE view.doc.value
Type(v) ==
  /\ Loaded /\ view.edit # v /\ view' = [view EXCEPT !.edit = v]
  /\ UNCHANGED <<value, calls, left, strayed>>
\* One action at a time, whichever the button.
OnAction ==
  /\ Loaded /\ ~view.acting
  /\ Calls([kind |-> "action", pc |-> "sent", name |-> view.name, param |-> FieldValue, doc |-> NoDoc])
  /\ view' = [view EXCEPT !.acting = TRUE, !.err = FALSE]
  /\ UNCHANGED <<value, left, strayed>>
ServeAction(n) ==
  /\ Sent(n, "action") /\ value' = [value EXCEPT ![calls[n].name] = calls[n].param]
  /\ calls' = Set(n, [calls[n] EXCEPT !.pc = "served", !.doc = [of |-> calls[n].name, value |-> calls[n].param]])
  /\ UNCHANGED <<view, left, strayed>>
\* A failed save keeps what the user typed; a successful one shows the plugin's own values again.
ActionAnswered(n) ==
  /\ Ended(n, "action") /\ calls' = Set(n, Gone)
  /\ LET c == calls[n]
     IN /\ view' = IF ~StillOn(c) THEN view
                   ELSE IF c.pc = "failed" THEN [view EXCEPT !.acting = FALSE, !.err = TRUE]
                   ELSE [view EXCEPT !.acting = FALSE, !.doc = c.doc, !.edit = 0]
        /\ strayed' = (strayed \/ Served(c.name) \ {n} # {})
  /\ UNCHANGED <<value, left>>

\* A request fails before the plugin's hook runs, or its answer is lost.
Fail(n) ==
  /\ calls[n].pc \in {"sent", "served"} /\ calls' = Set(n, [calls[n] EXCEPT !.pc = "failed"])
  /\ strayed' = (strayed \/ calls[n].pc = "served")
  /\ UNCHANGED <<value, view, left>>

Init == value = [p \in Plugins |-> 0] /\ view = NoView /\ calls = << >> /\ left = FALSE /\ strayed = FALSE
Next ==
  \/ OnAction \/ \E p \in Plugins : AdoptRoute(p)
  \/ \E v \in 1 .. MaxValue : Type(v)
  \/ \E n \in DOMAIN calls : ServeRender(n) \/ LoadPage(n) \/ ServeAction(n) \/ ActionAnswered(n) \/ Fail(n)
Spec == Init /\ [][Next]_vars

-----------------------------------------------------------------------------
\* The document shown is of the plugin whose page it is.
OwnDocument == Loaded => view.doc.of = view.name
\* Once every answer has come, the page shows what its plugin has saved.
ShowsSaved == Open = {} /\ Loaded /\ ~strayed /\ ~left => view.doc.value = value[view.name]
\* The buttons are off only while an action is under way, unless a page was left during one: its
\* answer is then dropped, and they stay off on every page after it.
ButtonsComeBack == view.acting /\ ~left => \E n \in Open : calls[n].kind = "action"
=============================================================================
