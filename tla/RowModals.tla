----------------------------- MODULE RowModals -----------------------------
(* The modals of one row of the dashboard's tables: its history or provenance, and its
   relationships, which can be added and removed there.  A modal is closed, or opened for another
   row, while its requests are out. *)
EXTENDS Integers, Sequences, FiniteSets

CONSTANTS
  Ids,       \* the transactions of the server
  Loaded,    \* those of the page's table
  Strangers, \* ids of no transaction
  MaxCalls, MaxTyped   \* bounds

VARIABLES
  edges,   \* the server's, of one kind: pairs <<owner, target>>
  viewer,  \* the history or provenance modal: [id, of, loading, err], id 0 when it is closed
  modal,   \* the relationships modal: [id, edges, loading, err, kind, target, state, gen, submitting]
  shown,   \* the outbound edges each row of the table counts
  calls,   \* requests in the order they were sent
  strayed  \* a neighbourhood overtook a later one, a write's answer was lost or came to another row's modal
vars == <<edges, viewer, modal, shown, calls, strayed>>

NoViewer == [id |-> 0, of |-> 0, loading |-> FALSE, err |-> FALSE]
NoModal == [id |-> 0, edges |-> {}, loading |-> FALSE, err |-> FALSE, kind |-> FALSE, target |-> 0, state |-> "", gen |-> 0, submitting |-> FALSE]

TypeOK ==
  /\ edges \subseteq Ids \X Ids /\ \A i \in Loaded : shown[i] \subseteq Ids
  /\ viewer.id \in Loaded \cup {0} /\ modal.id \in Loaded \cup {0}
  /\ modal.state \in {"", "checking", "found", "missing"} /\ modal.target \in Ids \cup Strangers \cup {0}

Gone == [kind |-> "none", pc |-> "done"]
Open == {n \in DOMAIN calls : calls[n].pc # "done"}
Sent(n, kind) == calls[n].pc = "sent" /\ calls[n].kind = kind
Ended(n, kind) == calls[n].pc \in {"served", "failed"} /\ calls[n].kind = kind
Set(n, call) == [calls EXCEPT ![n] = call]
Calls(cs, new) == Len(cs) < MaxCalls /\ calls' = Append(cs, new)
Call(kind, id) == [kind |-> kind, pc |-> "sent", id |-> id]
Overtakes(n) == \E m \in Open : m < n /\ calls[m].kind = calls[n].kind /\ calls[m].id = calls[n].id

Around(i) == {e \in edges : i \in {e[1], e[2]}}
Outbound(i, some) == {e[2] : e \in {f \in some : f[1] = i}}

-----------------------------------------------------------------------------
(* History and provenance. *)

OpenHistory(i) ==
  /\ Calls(calls, Call("view", i))
  /\ viewer' = [id |-> i, of |-> 0, loading |-> TRUE, err |-> FALSE]
  /\ UNCHANGED <<edges, modal, shown, strayed>>
CloseHistory ==
  /\ viewer.id # 0 /\ viewer' = NoViewer
  /\ UNCHANGED <<edges, modal, shown, calls, strayed>>
ServeView(n) ==
  /\ Sent(n, "view") /\ calls' = Set(n, [calls[n] EXCEPT !.pc = "served"])
  /\ UNCHANGED <<edges, viewer, modal, shown, strayed>>
AnyViewer(id) == viewer.id # 0
IsOpenFor(id) == viewer.id = id
HistoryRead(n) ==
  /\ Ended(n, "view") /\ calls' = Set(n, Gone)
  /\ viewer' = IF ~IsOpenFor(calls[n].id) THEN viewer
               ELSE IF calls[n].pc = "failed" THEN [viewer EXCEPT !.loading = FALSE, !.err = TRUE]
               ELSE [viewer EXCEPT !.loading = FALSE, !.of = calls[n].id]
  /\ UNCHANGED <<edges, modal, shown, strayed>>

-----------------------------------------------------------------------------
(* Relationships. *)

ResetForm(m) == [m EXCEPT !.kind = FALSE, !.target = 0, !.state = "", !.gen = @ + 1, !.submitting = FALSE]
OpenRelationships(i) ==
  /\ Calls(calls, Call("edges", i))
  /\ modal' = ResetForm([modal EXCEPT !.id = i, !.edges = {}, !.err = FALSE, !.loading = TRUE])
  /\ UNCHANGED <<edges, viewer, shown, strayed>>
CloseRelationships ==
  /\ modal.id # 0
  /\ modal' = ResetForm([modal EXCEPT !.id = 0, !.edges = {}, !.err = FALSE, !.loading = FALSE])
  /\ UNCHANGED <<edges, viewer, shown, calls, strayed>>
ServeEdges(n) ==
  /\ Sent(n, "edges")
  /\ calls' = Set(n, [kind |-> "edges", pc |-> "served", id |-> calls[n].id, got |-> Around(calls[n].id)])
  /\ UNCHANGED <<edges, viewer, modal, shown, strayed>>
\* The row's own count follows the neighbourhood that was read.
SyncRowOutbound(i, got) == [shown EXCEPT ![i] = Outbound(i, got)]
LoadedRelationships(n) ==
  /\ Ended(n, "edges") /\ calls' = Set(n, Gone)
  /\ IF modal.id # calls[n].id THEN UNCHANGED <<modal, shown, strayed>>
     ELSE IF calls[n].pc = "failed" THEN modal' = [modal EXCEPT !.loading = FALSE, !.err = TRUE] /\ UNCHANGED <<shown, strayed>>
     ELSE /\ modal' = [modal EXCEPT !.loading = FALSE, !.edges = calls[n].got]
          /\ shown' = SyncRowOutbound(modal.id, calls[n].got)
          /\ strayed' = (strayed \/ Overtakes(n))
  /\ UNCHANGED <<edges, viewer>>

\* The edges and the form are there once the neighbourhood was read.
Content == modal.id # 0 /\ ~modal.loading /\ ~modal.err
OnKindInput ==
  /\ Content /\ ~modal.kind
  /\ modal' = [modal EXCEPT !.kind = TRUE]
  /\ UNCHANGED <<edges, viewer, shown, calls, strayed>>
\* A row of the table is known to exist; any other id is asked for, once the typing has paused.
OnTargetInput(t) ==
  /\ Content /\ modal.gen < MaxTyped
  /\ LET typed == [modal EXCEPT !.target = t, !.gen = @ + 1]
     IN CASE t = 0 -> modal' = [typed EXCEPT !.state = ""] /\ UNCHANGED calls
          [] t \in Loaded -> modal' = [typed EXCEPT !.state = "found"] /\ UNCHANGED calls
          [] OTHER -> /\ modal' = [typed EXCEPT !.state = "checking"]
                      /\ Calls(calls, [kind |-> "check", pc |-> "pause", id |-> t, gen |-> modal.gen + 1])
  /\ UNCHANGED <<edges, viewer, shown, strayed>>
NotClosed(c) == modal.id # 0
Current(c) == modal.gen = c.gen /\ modal.target = c.id
CheckTarget(n) ==
  /\ calls[n].kind = "check" /\ calls[n].pc = "pause"
  /\ calls' = IF Current(calls[n]) THEN Set(n, [calls[n] EXCEPT !.pc = "sent"]) ELSE Set(n, Gone)
  /\ UNCHANGED <<edges, viewer, modal, shown, strayed>>
ServeCheck(n) ==
  /\ Sent(n, "check") /\ calls' = Set(n, [calls[n] EXCEPT !.pc = "served"])
  /\ UNCHANGED <<edges, viewer, modal, shown, strayed>>
\* A lookup that fails blocks nothing: the server checks the target again.
TargetChecked(n) ==
  /\ Ended(n, "check") /\ calls' = Set(n, Gone)
  /\ modal' = IF ~Current(calls[n]) THEN modal
              ELSE [modal EXCEPT !.state = IF calls[n].pc = "failed" THEN "" ELSE IF calls[n].id \in Ids THEN "found" ELSE "missing"]
  /\ UNCHANGED <<edges, viewer, shown, strayed>>

CanAdd == Content /\ modal.kind /\ modal.target # 0 /\ modal.state \notin {"missing", "checking"} /\ ~modal.submitting
SubmitAdd ==
  /\ CanAdd
  /\ Calls(calls, [kind |-> "create", pc |-> "sent", id |-> modal.id, target |-> modal.target])
  /\ modal' = [modal EXCEPT !.submitting = TRUE]
  /\ UNCHANGED <<edges, viewer, shown, strayed>>
\* A relationship to itself or to no transaction is refused.
ServeCreate(n) ==
  /\ Sent(n, "create")
  /\ LET c == calls[n]
     IN IF c.target \in Ids \ {c.id}
        THEN edges' = edges \cup {<<c.id, c.target>>} /\ calls' = Set(n, [c EXCEPT !.pc = "served"])
        ELSE calls' = Set(n, [c EXCEPT !.pc = "failed"]) /\ UNCHANGED edges
  /\ UNCHANGED <<viewer, modal, shown, strayed>>
Added(n) ==
  /\ Ended(n, "create")
  /\ IF modal.id # calls[n].id THEN calls' = Set(n, Gone) /\ modal' = [modal EXCEPT !.submitting = FALSE]
     ELSE IF calls[n].pc = "failed" THEN calls' = Set(n, Gone) /\ modal' = [modal EXCEPT !.submitting = FALSE]
     ELSE Calls(Set(n, Gone), Call("edges", modal.id)) /\ modal' = ResetForm([modal EXCEPT !.loading = TRUE])
  /\ strayed' = (strayed \/ modal.id \notin {0, calls[n].id})
  /\ UNCHANGED <<edges, viewer, shown>>

\* An inbound edge is the other row's to remove.
RemoveEdge(e) ==
  /\ Content /\ e \in modal.edges
  /\ Calls(calls, [kind |-> "delete", pc |-> "sent", id |-> modal.id, edge |-> e])
  /\ UNCHANGED <<edges, viewer, modal, shown, strayed>>
ServeDelete(n) ==
  /\ Sent(n, "delete")
  /\ edges' = edges \ {calls[n].edge} /\ calls' = Set(n, [calls[n] EXCEPT !.pc = "served"])
  /\ UNCHANGED <<viewer, modal, shown, strayed>>
Removed(n) ==
  /\ Ended(n, "delete")
  /\ IF modal.id # calls[n].id THEN calls' = Set(n, Gone) /\ UNCHANGED modal
     ELSE IF calls[n].pc = "failed" THEN calls' = Set(n, Gone) /\ modal' = [modal EXCEPT !.err = TRUE]
     ELSE Calls(Set(n, Gone), Call("edges", modal.id)) /\ modal' = [modal EXCEPT !.loading = TRUE]
  /\ strayed' = (strayed \/ modal.id \notin {0, calls[n].id})
  /\ UNCHANGED <<edges, viewer, shown>>

\* A request fails before the server has it, or its answer is lost.
Fail(n) ==
  /\ calls[n].pc \in {"sent", "served"} /\ calls' = Set(n, [calls[n] EXCEPT !.pc = "failed"])
  /\ strayed' = (strayed \/ (calls[n].pc = "served" /\ calls[n].kind \in {"create", "delete"}))
  /\ UNCHANGED <<edges, viewer, modal, shown>>

Init ==
  /\ edges \in {{}} \cup {{<<i, j>>} : i \in Ids, j \in Loaded} /\ \A e \in edges : e[1] # e[2]
  /\ viewer = NoViewer /\ modal = NoModal /\ shown = [i \in Loaded |-> Outbound(i, edges)]
  /\ calls = << >> /\ strayed = FALSE
Next ==
  \/ \E i \in Loaded : OpenHistory(i) \/ OpenRelationships(i)
  \/ CloseHistory \/ CloseRelationships \/ OnKindInput \/ SubmitAdd
  \/ \E t \in Ids \cup Strangers \cup {0} : OnTargetInput(t)
  \/ \E e \in modal.edges : RemoveEdge(e)
  \/ \E n \in DOMAIN calls :
       \/ ServeView(n) \/ ServeEdges(n) \/ ServeCheck(n) \/ ServeCreate(n) \/ ServeDelete(n) \/ Fail(n)
       \/ HistoryRead(n) \/ LoadedRelationships(n) \/ CheckTarget(n) \/ TargetChecked(n) \/ Added(n) \/ Removed(n)
Spec == Init /\ [][Next]_vars

-----------------------------------------------------------------------------
\* A modal never shows what belongs to another row, and what it shows loading is on its way.
OwnRow ==
  /\ viewer.of \in {0, viewer.id}
  /\ modal.id # 0 => \A e \in modal.edges : modal.id \in {e[1], e[2]}
  /\ viewer.loading => \E n \in Open : calls[n].kind = "view" /\ calls[n].id = viewer.id
  /\ modal.loading => \E n \in Open : calls[n].kind = "edges" /\ calls[n].id = modal.id
\* What the form says of the target is of the id that is typed, whichever lookups are still out,
\* and a form that waits for a lookup has one.
TargetKnown ==
  /\ modal.state = "found" => modal.target \in Ids
  /\ modal.state = "missing" => modal.target \in Strangers
  /\ modal.state = "checking" => \E n \in Open : calls[n].kind = "check" /\ Current(calls[n])
\* With every answer in, an open modal shows its row's relationships as the server has them, and the
\* row counts those it owns.
NeighbourhoodShown ==
  Open = {} /\ ~strayed /\ Content => modal.edges = Around(modal.id) /\ shown[modal.id] = Outbound(modal.id, edges)
=============================================================================
