------------------------------ MODULE Session ------------------------------
(* The dashboard's sign-in: tabs of one browser, which share what the browser keeps, the probe each
   makes when it opens, the login screen, and the token minted or revoked in the settings.  The
   server's side is the gate of Access. *)
EXTENDS Integers, Sequences, FiniteSets

CONSTANTS Tabs, MaxTokens, MaxCalls   \* tokens are numbered as they are minted; bounds

VARIABLES
  server,   \* the token in force, 0 when there is none, and the last one minted
  kept,     \* the token in the browser's local storage
  tab,      \* each tab
  calls,    \* requests in the order they were sent
  strayed   \* the token changed while another change or a login was under way, a login was answered when
            \* no token was in force any more, or a new token's answer was lost
vars == <<server, kept, tab, calls, strayed>>

Shut == [open |-> FALSE, token |-> 0, checked |-> FALSE, required |-> FALSE, authed |-> FALSE, busy |-> FALSE, logging |-> FALSE, new |-> 0]
Tokens == 0 .. MaxTokens + 1   \* the last is one that was never minted

TypeOK ==
  /\ server.token \in Tokens /\ kept \in Tokens
  /\ \A t \in Tabs : tab[t].token \in Tokens /\ tab[t].new \in Tokens

Gone == [kind |-> "none", pc |-> "done"]
Open == {n \in DOMAIN calls : calls[n].pc # "done"}
Of(n, kind) == calls[n].pc # "done" /\ calls[n].kind = kind
Set(n, call) == [calls EXCEPT ![n] = call]
NoAnswer == [required |-> FALSE, authed |-> FALSE, token |-> 0]
Call(kind, t, token) == [kind |-> kind, pc |-> "sent", tab |-> t, token |-> token, ans |-> NoAnswer]
Send(kind, t, token) == Len(calls) < MaxCalls /\ calls' = Append(calls, Call(kind, t, token))
Become(t, r) == tab' = [tab EXCEPT ![t] = r]
Drop(cs, t) == [n \in DOMAIN cs |-> IF cs[n].pc # "done" /\ cs[n].tab = t THEN [cs[n] EXCEPT !.tab = 0] ELSE cs[n]]
\* A page that is left hears no more of its requests.
Page(token) == [Shut EXCEPT !.open = TRUE, !.token = token]

-----------------------------------------------------------------------------
\* A tab opens, or is loaded again, with the token that is kept, and asks whether it will do.
LoadChrome(t) ==
  /\ Len(calls) < MaxCalls
  /\ Become(t, Page(kept))
  /\ calls' = Append(Drop(calls, t), Call("auth", t, kept))
  /\ UNCHANGED <<server, kept, strayed>>
Accepted(token) == server.token = 0 \/ token = server.token
Status(token) == [required |-> server.token # 0, authed |-> Accepted(token), token |-> 0]
ServeAuth(n) ==
  /\ calls[n].pc = "sent" /\ calls[n].kind \in {"auth", "login"}
  /\ calls' = Set(n, [calls[n] EXCEPT !.pc = "served", !.ans = Status(calls[n].token)])
  /\ strayed' = (strayed \/ (calls[n].kind = "login" /\ server.token = 0))
  /\ UNCHANGED <<server, kept, tab>>
\* Without an answer the page opens: it is the server that guards what it shows.
LoadAuth(n) ==
  /\ Of(n, "auth") /\ calls[n].pc # "sent" /\ calls' = Set(n, Gone)
  /\ LET c == calls[n]
     IN IF c.tab = 0 THEN UNCHANGED tab
        ELSE Become(c.tab, IF c.pc = "failed" THEN [tab[c.tab] EXCEPT !.checked = TRUE, !.required = FALSE, !.authed = TRUE]
                           ELSE [tab[c.tab] EXCEPT !.checked = TRUE, !.required = c.ans.required, !.authed = c.ans.authed])
  /\ UNCHANGED <<server, kept, strayed>>

\* renderShell: nothing until the probe is answered, then the login screen or the page.
Waiting(t) == tab[t].open /\ ~tab[t].checked
AtLogin(t) == tab[t].open /\ tab[t].checked /\ tab[t].required /\ ~tab[t].authed
Inside(t) == tab[t].open /\ tab[t].checked /\ ~AtLogin(t)

SubmitLogin(t, token) ==
  /\ AtLogin(t) /\ ~tab[t].logging /\ token # 0
  /\ Send("login", t, token) /\ Become(t, [tab[t] EXCEPT !.logging = TRUE])
  /\ UNCHANGED <<server, kept, strayed>>
AnyAnswer(c) == c.pc # "failed"
GoodAnswer(c) == c.pc # "failed" /\ c.ans.authed
LoginAnswers(c) == GoodAnswer(c)
\* A token that is accepted is kept, and the tab is loaded again with it.
LoggedIn(n) ==
  /\ Of(n, "login") /\ calls[n].pc # "sent"
  /\ LET c == calls[n]
     IN IF c.tab = 0 THEN calls' = Set(n, Gone) /\ UNCHANGED <<kept, tab>>
        ELSE IF ~LoginAnswers(c) THEN calls' = Set(n, Gone) /\ Become(c.tab, [tab[c.tab] EXCEPT !.logging = FALSE]) /\ UNCHANGED kept
        ELSE /\ Len(calls) < MaxCalls /\ kept' = c.token /\ Become(c.tab, Page(c.token))
             /\ calls' = Append(Drop(Set(n, Gone), c.tab), Call("auth", c.tab, c.token))
  /\ UNCHANGED <<server, strayed>>

-----------------------------------------------------------------------------
(* The security panel. *)

Changing == \E m \in Open : calls[m].kind \in {"mint", "revoke"}
Entering == \E m \in Open : calls[m].kind = "login"
MintToken(t) ==
  /\ Inside(t) /\ ~tab[t].busy
  /\ Send("mint", t, tab[t].token) /\ Become(t, [tab[t] EXCEPT !.busy = TRUE, !.new = 0])
  /\ strayed' = (strayed \/ Changing)
  /\ UNCHANGED <<server, kept>>
OnRevokeToken(t) ==
  /\ Inside(t) /\ ~tab[t].busy /\ tab[t].required
  /\ Send("revoke", t, tab[t].token) /\ Become(t, [tab[t] EXCEPT !.busy = TRUE, !.new = 0])
  /\ strayed' = (strayed \/ Changing)
  /\ UNCHANGED <<server, kept>>
ServeToken(n) ==
  /\ calls[n].pc = "sent" /\ calls[n].kind \in {"mint", "revoke"}
  /\ LET c == calls[n]
     IN IF ~Accepted(c.token) THEN calls' = Set(n, [c EXCEPT !.pc = "failed"]) /\ UNCHANGED server
        ELSE IF c.kind = "revoke" THEN server' = [server EXCEPT !.token = 0] /\ calls' = Set(n, [c EXCEPT !.pc = "served"])
        ELSE /\ server.minted < MaxTokens
             /\ server' = [token |-> server.minted + 1, minted |-> server.minted + 1]
             /\ calls' = Set(n, [c EXCEPT !.pc = "served", !.ans.token = server.minted + 1])
  /\ strayed' = (strayed \/ Entering)
  /\ UNCHANGED <<kept, tab>>
\* The page takes the token without loading again, which would hide the token it shows.
AdoptToken(r, token) == [r EXCEPT !.token = token, !.required = (token # 0), !.authed = TRUE, !.checked = TRUE, !.busy = FALSE, !.new = token]
TokenSet(n) ==
  /\ calls[n].kind \in {"mint", "revoke"} /\ calls[n].pc \in {"served", "failed"} /\ calls' = Set(n, Gone)
  /\ LET c == calls[n]
     IN IF c.tab = 0 THEN UNCHANGED <<kept, tab>>
        ELSE IF c.pc = "failed" THEN Become(c.tab, [tab[c.tab] EXCEPT !.busy = FALSE]) /\ UNCHANGED kept
        ELSE kept' = c.ans.token /\ Become(c.tab, AdoptToken(tab[c.tab], c.ans.token))
  /\ strayed' = (strayed \/ (calls[n].tab = 0 /\ calls[n].pc # "failed"))
  /\ UNCHANGED server

Fail(n) ==
  /\ calls[n].pc \notin {"done", "failed"} /\ calls' = Set(n, [calls[n] EXCEPT !.pc = "failed"])
  /\ strayed' = (strayed \/ (calls[n].pc # "sent" /\ calls[n].kind \in {"mint", "revoke"}))
  /\ UNCHANGED <<server, kept, tab>>

Init == /\ server = [token |-> 0, minted |-> 0] /\ kept = 0 /\ tab = [t \in Tabs |-> Shut] /\ calls = << >> /\ strayed = FALSE
Next ==
  \/ \E t \in Tabs : LoadChrome(t) \/ MintToken(t) \/ OnRevokeToken(t) \/ \E token \in Tokens : SubmitLogin(t, token)
  \/ \E n \in DOMAIN calls : ServeAuth(n) \/ LoadAuth(n) \/ LoggedIn(n) \/ ServeToken(n) \/ TokenSet(n) \/ Fail(n)
Spec == Init /\ [][Next]_vars

-----------------------------------------------------------------------------
\* The browser keeps a token only when the server has taken it.
KeptWasTaken == ~strayed => kept <= server.minted
\* With every answer in, the browser keeps the token in force, so that whoever opens the dashboard
\* next is not asked for a token that only this browser was told.
KeptIsCurrent == Open = {} /\ ~strayed /\ server.token # 0 => kept = server.token
\* A page that shows a token it was just given stays in, and no page with the token in force is at
\* the login screen.
NotThrownOut ==
  \A t \in Tabs : AtLogin(t) => tab[t].new = 0 /\ (~strayed /\ server.token # 0 => tab[t].token # server.token)
=============================================================================
