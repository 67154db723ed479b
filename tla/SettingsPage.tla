---------------------------- MODULE SettingsPage ----------------------------
(* The dashboard's settings in one browser tab: a setting saved or reset, the banner that a restart is
   due, and the restart it asks for.  What the server does with a setting is Settings. *)
EXTENDS Integers, Sequences, FiniteSets

CONSTANTS Keys, Values, MaxCalls   \* settings, what each may be set to; a bound on the requests

VARIABLES
  server,   \* [stored, boot, exec]: the overrides, what the process runs with, a re-exec is due
  page,     \* [open, loaded, items, restart, busy]: busy is the setting being saved
  prompt,   \* the restart banner: "no", "asked", "waiting" for the server to come back, "failed"
  calls,    \* requests in the order they were sent
  strayed   \* the answer of a save or of a restart was lost, or a save came after its page was gone
vars == <<server, page, prompt, calls, strayed>>

None == "none"   \* no override: the configuration's own value
Unloaded == [k \in Keys |-> None]
Closed == [open |-> FALSE, loaded |-> FALSE, items |-> Unloaded, restart |-> FALSE, busy |-> FALSE]

TypeOK ==
  /\ server.stored \in [Keys -> Values \cup {None}] /\ server.boot \in [Keys -> Values \cup {None}]
  /\ page.items \in [Keys -> Values \cup {None}] /\ prompt \in {"no", "asked", "waiting", "failed"}

Gone == [kind |-> "none", pc |-> "done"]
Open == {n \in DOMAIN calls : calls[n].pc # "done"}
Sent(n, kind) == calls[n].pc = "sent" /\ calls[n].kind = kind
Ended(n, kind) == calls[n].pc \in {"served", "failed"} /\ calls[n].kind = kind
Set(n, call) == [calls EXCEPT ![n] = call]
Calls(call) == Len(calls) < MaxCalls /\ calls' = Append(calls, call)
Asked == [kind |-> "list", pc |-> "sent"]

RestartRequired(stored) == stored # server.boot
-----------------------------------------------------------------------------
\* A page that is opened or loaded again drops what was under way and reads the settings.
Opens(cs) ==
  /\ page' = [Closed EXCEPT !.open = TRUE] /\ prompt' = "no"
  /\ Len(cs) < MaxCalls /\ calls' = Append([n \in DOMAIN cs |-> IF cs[n].kind = "save" /\ cs[n].pc = "sent" THEN [cs[n] EXCEPT !.pc = "adrift"] ELSE Gone], Asked)
OnMount == (~page.open \/ prompt = "failed") /\ Opens(calls) /\ UNCHANGED <<server, strayed>>
ServeList(n) ==
  /\ Sent(n, "list")
  /\ calls' = Set(n, [kind |-> "list", pc |-> "served", items |-> server.stored, restart |-> RestartRequired(server.stored)])
  /\ UNCHANGED <<server, page, prompt, strayed>>
\* The rows are shown, and can be edited, only once they were read.
LoadSettings(n) ==
  /\ Ended(n, "list") /\ calls' = Set(n, Gone)
  /\ page' = IF calls[n].pc = "failed" THEN page
             ELSE [page EXCEPT !.loaded = TRUE, !.items = calls[n].items, !.restart = calls[n].restart]
  /\ UNCHANGED <<server, prompt, strayed>>

\* One setting is saved or reset at a time, of all of them.
AnyTime == page.loaded
Free == page.loaded /\ ~page.busy
SaveSetting(k, v) ==
  /\ Free /\ page.items[k] # v
  /\ Calls([kind |-> "save", pc |-> "sent", key |-> k, value |-> v])
  /\ page' = [page EXCEPT !.busy = TRUE]
  /\ UNCHANGED <<server, prompt, strayed>>
\* The answer has the setting as it is now stored, and whether a restart is due for all of them.
ServeSave(n) ==
  /\ calls[n].kind = "save" /\ calls[n].pc \in {"sent", "adrift"}
  /\ LET c == calls[n]
         stored == [server.stored EXCEPT ![c.key] = c.value]
     IN /\ server' = [server EXCEPT !.stored = stored]
        /\ calls' = IF c.pc = "adrift" THEN Set(n, Gone)
                    ELSE Set(n, [kind |-> "save", pc |-> "served", key |-> c.key, value |-> c.value, restart |-> RestartRequired(stored)])
        /\ strayed' = (strayed \/ c.pc = "adrift")
  /\ UNCHANGED <<page, prompt>>
AdoptSetting(n) ==
  /\ Ended(n, "save") /\ calls' = Set(n, Gone)
  /\ LET c == calls[n]
     IN page' = IF c.pc = "failed" THEN [page EXCEPT !.busy = FALSE]
                ELSE [page EXCEPT !.busy = FALSE, !.items[c.key] = c.value, !.restart = c.restart]
  /\ UNCHANGED <<server, prompt, strayed>>
-----------------------------------------------------------------------------
\* The banner's button, which is there while a restart is due and none was asked for.
StartRestart ==
  /\ page.open /\ page.restart /\ prompt = "no" /\ prompt' = "asked"
  /\ Calls([kind |-> "restart", pc |-> "sent"])
  /\ UNCHANGED <<server, page, strayed>>
\* The server answers first and replaces itself a moment later.
ServeRestart(n) ==
  /\ Sent(n, "restart") /\ calls' = Set(n, [calls[n] EXCEPT !.pc = "served"])
  /\ server' = [server EXCEPT !.exec = TRUE]
  /\ UNCHANGED <<page, prompt, strayed>>
RestartAnswered(n) ==
  /\ Ended(n, "restart") /\ calls' = Set(n, Gone)
  /\ prompt' = IF calls[n].pc = "failed" THEN "failed" ELSE "waiting"
  /\ UNCHANGED <<server, page, strayed>>
\* The new process reads the overrides; requests of the old one die with it.  If the re-exec fails
\* the old process goes on.
Restart(ok) ==
  /\ server.exec
  /\ server' = IF ok THEN [server EXCEPT !.exec = FALSE, !.boot = server.stored] ELSE [server EXCEPT !.exec = FALSE]
  /\ calls' = IF ~ok THEN calls
              ELSE [n \in DOMAIN calls |-> IF calls[n].pc = "adrift" THEN Gone
                                           ELSE IF calls[n].pc = "sent" THEN [calls[n] EXCEPT !.pc = "failed"] ELSE calls[n]]
  /\ UNCHANGED <<page, prompt, strayed>>
\* The page waits out the moment before the re-exec, and is loaded again when a server answers.
ReloadAtOnce == prompt = "waiting"
BackUp == prompt = "waiting" /\ ~server.exec
ReloadWhenBack == BackUp /\ Opens(calls) /\ UNCHANGED <<server, strayed>>
\* No server answered within the minute, long after the re-exec.
GiveUp == /\ BackUp /\ prompt' = "failed"
          /\ UNCHANGED <<server, page, calls, strayed>>

\* A request fails before the server has it, or its answer is lost.
Fail(n) ==
  /\ calls[n].pc \in {"sent", "served"} /\ calls' = Set(n, [calls[n] EXCEPT !.pc = "failed"])
  /\ strayed' = (strayed \/ (calls[n].pc = "served" /\ calls[n].kind # "list"))
  /\ UNCHANGED <<server, page, prompt>>

Init ==
  /\ server = [stored |-> Unloaded, boot |-> Unloaded, exec |-> FALSE] /\ page = Closed
  /\ prompt = "no" /\ calls = << >> /\ strayed = FALSE
Next ==
  \/ OnMount \/ StartRestart \/ ReloadWhenBack \/ GiveUp \/ \E ok \in BOOLEAN : Restart(ok)
  \/ \E k \in Keys, v \in Values \cup {None} : SaveSetting(k, v)
  \/ \E n \in DOMAIN calls : ServeList(n) \/ LoadSettings(n) \/ ServeSave(n) \/ AdoptSetting(n) \/ ServeRestart(n)
                             \/ RestartAnswered(n) \/ Fail(n)
Spec == Init /\ [][Next]_vars

-----------------------------------------------------------------------------
\* Once every answer has come, the page shows what is stored, and its banner is there exactly when the
\* process runs with other settings.
ShowsStored ==
  Open = {} /\ page.loaded /\ prompt = "no" /\ ~strayed =>
    page.items = server.stored /\ (page.restart <=> RestartRequired(server.stored))
=============================================================================
