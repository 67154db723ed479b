---------------------------- MODULE ApiKeysPanel ----------------------------
(* The API keys in the dashboard's settings, in one browser tab: the list, the key that is created and
   shown once, and the row that disappears before the server has revoked its key. *)
EXTENDS Integers, Sequences, FiniteSets, SequencesExt

CONSTANTS MaxKeys, MaxCalls   \* keys are numbered as they are minted; bounds

VARIABLES
  server,   \* [keys, minted]: those in force, newest first, and the last number given
  panel,    \* [open, list, creating, new]: new is the key shown once
  calls,    \* requests in the order they were sent
  strayed   \* the list was read while a key changed, a revocation failed while another change was
            \* under way, or an answer was lost
vars == <<server, panel, calls, strayed>>

Closed == [open |-> FALSE, list |-> << >>, creating |-> FALSE, new |-> 0]

TypeOK ==
  /\ ToSet(server.keys) \subseteq 1 .. server.minted /\ server.minted <= MaxKeys
  /\ ToSet(panel.list) \subseteq 1 .. server.minted /\ panel.new \in 0 .. server.minted

Gone == [kind |-> "none", pc |-> "done"]
Open == {n \in DOMAIN calls : calls[n].pc # "done"}
Sent(n, kind) == calls[n].pc = "sent" /\ calls[n].kind = kind
Ended(n, kind) == calls[n].pc \in {"served", "failed"} /\ calls[n].kind = kind
Set(n, call) == [calls EXCEPT ![n] = call]
Calls(call) == Len(calls) < MaxCalls /\ calls' = Append(calls, call)
Listing == \E n \in Open : calls[n].kind = "list"
Others(n) == Open \ {n} # {}
-----------------------------------------------------------------------------
OnMount ==
  /\ ~panel.open /\ panel' = [Closed EXCEPT !.open = TRUE] /\ Calls([kind |-> "list", pc |-> "sent", got |-> << >>])
  /\ UNCHANGED <<server, strayed>>
ServeList(n) ==
  /\ Sent(n, "list") /\ calls' = Set(n, [calls[n] EXCEPT !.pc = "served", !.got = server.keys])
  /\ UNCHANGED <<server, panel, strayed>>
LoadApiKeys(n) ==
  /\ Ended(n, "list") /\ calls' = Set(n, Gone)
  /\ panel' = IF calls[n].pc = "failed" THEN panel ELSE [panel EXCEPT !.list = calls[n].got]
  /\ strayed' = (strayed \/ calls[n].pc = "failed" \/ Others(n))
  /\ UNCHANGED server

\* One key is created at a time; the key that was shown is gone.
OnCreateApiKey ==
  /\ panel.open /\ ~panel.creating /\ Calls([kind |-> "create", pc |-> "sent", id |-> 0])
  /\ panel' = [panel EXCEPT !.creating = TRUE, !.new = 0]
  /\ strayed' = (strayed \/ Listing)
  /\ UNCHANGED server
ServeCreate(n) ==
  /\ Sent(n, "create") /\ server.minted < MaxKeys
  /\ server' = [keys |-> <<server.minted + 1>> \o server.keys, minted |-> server.minted + 1]
  /\ calls' = Set(n, [calls[n] EXCEPT !.pc = "served", !.id = server.minted + 1])
  /\ UNCHANGED <<panel, strayed>>
Created(n) ==
  /\ Ended(n, "create") /\ calls' = Set(n, Gone)
  /\ panel' = IF calls[n].pc = "failed" THEN [panel EXCEPT !.creating = FALSE]
              ELSE [panel EXCEPT !.creating = FALSE, !.new = calls[n].id, !.list = <<calls[n].id>> \o @]
  /\ UNCHANGED <<server, strayed>>

\* The row goes at once; if the revocation fails the rows are put back as they were.
OnRevokeApiKey(id) ==
  /\ id \in ToSet(panel.list)
  /\ Calls([kind |-> "revoke", pc |-> "sent", id |-> id, prev |-> panel.list])
  /\ panel' = [panel EXCEPT !.list = Remove(@, id)]
  /\ strayed' = (strayed \/ Listing)
  /\ UNCHANGED server
ServeRevoke(n) ==
  /\ Sent(n, "revoke") /\ calls' = Set(n, [calls[n] EXCEPT !.pc = "served"])
  /\ server' = [server EXCEPT !.keys = Remove(@, calls[n].id)]
  /\ UNCHANGED <<panel, strayed>>
\* The row stays away whatever the answer.
LeftOut(c) == panel.list
AfterRevoke(c) == IF c.pc = "failed" THEN c.prev ELSE panel.list
Revoked(n) ==
  /\ Ended(n, "revoke") /\ calls' = Set(n, Gone)
  /\ panel' = [panel EXCEPT !.list = AfterRevoke(calls[n])]
  /\ strayed' = (strayed \/ (calls[n].pc = "failed" /\ ToSet(panel.list) # ToSet(calls[n].prev) \ {calls[n].id}) \/ (calls[n].pc = "failed" /\ Others(n)))
  /\ UNCHANGED server

\* A request fails before the server has it, or its answer is lost.
Fail(n) ==
  /\ calls[n].pc \in {"sent", "served"} /\ calls' = Set(n, [calls[n] EXCEPT !.pc = "failed"])
  /\ strayed' = (strayed \/ calls[n].pc = "served")
  /\ UNCHANGED <<server, panel>>

Init == server = [keys |-> <<1>>, minted |-> 1] /\ panel = Closed /\ calls = << >> /\ strayed = FALSE
Next ==
  \/ OnMount \/ OnCreateApiKey \/ \E id \in 1 .. MaxKeys : OnRevokeApiKey(id)
  \/ \E n \in DOMAIN calls : ServeList(n) \/ LoadApiKeys(n) \/ ServeCreate(n) \/ Created(n) \/ ServeRevoke(n) \/ Revoked(n) \/ Fail(n)
Spec == Init /\ [][Next]_vars

-----------------------------------------------------------------------------
\* Once every answer has come, the keys listed are those that open the API, newest first: none that
\* was revoked, and none missing that still does.
ListsTheKeys == panel.open /\ Open = {} /\ ~strayed => panel.list = server.keys
=============================================================================
