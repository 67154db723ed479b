-------------------------- MODULE SimplefinSource --------------------------
(* The SimpleFIN source's access URL: stored, else configured, else claimed for
   a setup token that the bridge honours once.  Requests set it while a fetch
   resolves it; the process may stop between any two steps, and a bridge that has
   given up a token may not be heard.

   A URL is named for where it comes from. *)
EXTENDS Integers, FiniteSets

CONSTANTS
  ConfigURL,   \* the access URL of the configuration, or None
  SetupToken,  \* the setup token of the configuration, or None
  Pasted,      \* access URLs and setup tokens that users paste
  IsURL,       \* whether each pasted credential is an access URL
  Callers,     \* the engine's fetch, one at a time, and requests
  Lookbacks,   \* the days of history a fetch may ask for, 0 for all
  Skews,       \* days that the bridge's clock may be ahead of ours
  MaxCalls, MaxStops  \* bounds on calls and stops of the process

None == "none"
MaxLookback == 89  \* days
BridgeLimit == 90  \* days that a bridge serves

VARIABLES
  url,      \* the access URL in the secret store
  call,     \* each caller: where it is, what it was given, what it holds
  claims,   \* how often the bridge has been asked to claim each token with success
  asked,    \* the days the last fetch asked the bridge for, by the bridge's clock
  answered, \* the last credential a user was told is set
  calls, stops,
  mixed,    \* calls have overlapped
  wasted    \* the tokens the bridge has given up for nothing: the URL was not heard or not stored
vars == <<url, call, claims, asked, answered, calls, stops, mixed, wasted>>

IdleCall == [pc |-> "idle", input |-> None, holds |-> None]
Free(c) == call[c].pc = "idle"
Goto(c, r) == call' = [call EXCEPT ![c] = r]
\* The token whose URL a call holds and has yet to store.
Holding(c) == IF call[c].pc = "store" /\ call[c].holds \in DOMAIN claims THEN {call[c].holds} ELSE {}

Begins(c, r) ==
  /\ Free(c) /\ calls < MaxCalls /\ calls' = calls + 1
  /\ mixed' = (mixed \/ \E d \in Callers : ~Free(d))
  /\ Goto(c, r)

-----------------------------------------------------------------------------
(* The bridge. *)

\* Claim: the bridge gives the URL of a token once.
CanClaim(token) == claims[token] = 0

-----------------------------------------------------------------------------
(* A fetch. *)

\* What a fetch does when the store has no URL: nothing, the configured URL, or a claim.
Unset == IF ConfigURL # None THEN [pc |-> "store", input |-> None, holds |-> ConfigURL]
         ELSE IF SetupToken # None THEN [pc |-> "claim", input |-> None, holds |-> SetupToken]
         ELSE IdleCall

\* A resolution that prefers what the configuration has.
ResolveAccessURLOver(c) ==
  /\ Begins(c, IF ConfigURL # None \/ SetupToken # None THEN Unset ELSE [IdleCall EXCEPT !.pc = "fetch", !.holds = url])
  /\ UNCHANGED <<url, claims, asked, answered, stops, wasted>>

\* resolveAccessURL up to the claim; the read may fail.
ResolveAccessURL(c) ==
  /\ Begins(c, IF url # None THEN [IdleCall EXCEPT !.pc = "fetch", !.holds = url] ELSE Unset)
  /\ UNCHANGED <<url, claims, asked, answered, stops, wasted>>

\* The claim of a setup token, for a fetch or for a request.  It ends with the URL; or with
\* the token spent and no URL, when the call times out or the body cannot be read or is
\* empty; or with the token untouched, when it is refused or the bridge is not reached.
Claim(c) ==
  /\ call[c].pc = "claim" /\ UNCHANGED <<url, asked, answered, calls, stops, mixed>>
  /\ LET token == call[c].holds  Spend == CanClaim(token) /\ claims' = [claims EXCEPT ![token] = 1]
     IN  \/ Spend /\ wasted' = wasted /\ Goto(c, [call[c] EXCEPT !.pc = "store"])
         \/ Spend /\ wasted' = wasted \cup {token} /\ Goto(c, IdleCall)
         \/ UNCHANGED <<claims, wasted>> /\ Goto(c, IdleCall)

\* A fetch that uses what it resolved and keeps it to itself.
StoreResolvedUnsaved(c) ==
  /\ call[c].pc = "store" /\ call[c].input = None
  /\ Goto(c, [call[c] EXCEPT !.pc = "fetch"])
  /\ UNCHANGED <<url, claims, asked, answered, calls, stops, mixed, wasted>>

\* A fetch stores what it resolved: a failure is only logged.
StoreResolved(c) ==
  /\ call[c].pc = "store" /\ call[c].input = None
  /\ \/ url' = call[c].holds /\ wasted' = wasted
     \/ url' = url /\ wasted' = wasted \cup Holding(c)
  /\ Goto(c, [call[c] EXCEPT !.pc = "fetch"])
  /\ UNCHANGED <<claims, asked, answered, calls, stops, mixed>>

\* The window as it is asked for.
FetchWindowWide(c) ==
  /\ call[c].pc = "fetch"
  /\ \E days \in Lookbacks, skew \in Skews : asked' = IF days = 0 THEN 0 ELSE days + skew
  /\ Goto(c, IdleCall) /\ UNCHANGED <<url, claims, answered, calls, stops, mixed, wasted>>

\* client.Fetch: the window is held a day inside the bridge's limit; a fetch of everything names no start.
FetchWindow(c) ==
  /\ call[c].pc = "fetch"
  /\ \E days \in Lookbacks, skew \in Skews :
       asked' = IF days = 0 THEN 0 ELSE (IF days > MaxLookback THEN MaxLookback ELSE days) + skew
  /\ Goto(c, IdleCall) /\ UNCHANGED <<url, claims, answered, calls, stops, mixed, wasted>>

-----------------------------------------------------------------------------
(* A request. *)

\* SetCredential: an access URL is stored as it is, a setup token is claimed first.
SetCredential(c, p) ==
  /\ Begins(c, [pc |-> IF IsURL[p] THEN "store" ELSE "claim", input |-> p, holds |-> p])
  /\ UNCHANGED <<url, claims, asked, answered, stops, wasted>>

\* It is answered once the URL is in the store, or refused.
StorePasted(c) ==
  /\ call[c].pc = "store" /\ call[c].input # None
  /\ \/ url' = call[c].holds /\ answered' = call[c].input /\ wasted' = wasted
     \/ UNCHANGED <<url, answered>> /\ wasted' = wasted \cup Holding(c)
  /\ Goto(c, IdleCall)
  /\ UNCHANGED <<claims, asked, calls, stops, mixed>>

\* CredentialConfigured.
CredentialConfigured == url # None \/ ConfigURL # None \/ SetupToken # None

-----------------------------------------------------------------------------
\* The process stops: calls are lost, the store is not.
Stop ==
  /\ stops < MaxStops /\ stops' = stops + 1
  /\ call' = [c \in Callers |-> IdleCall]
  /\ wasted' = wasted \cup UNION {Holding(c) : c \in Callers}
  /\ UNCHANGED <<url, claims, asked, answered, calls, mixed>>

Init ==
  /\ url = None /\ call = [c \in Callers |-> IdleCall]
  /\ claims = [p \in Pasted \cup {SetupToken} |-> 0]
  /\ asked = 0 /\ answered = None /\ calls = 0 /\ stops = 0 /\ mixed = FALSE /\ wasted = {}

Next ==
  \/ \E c \in Callers :
       \/ ResolveAccessURL(c) \/ Claim(c) \/ StoreResolved(c) \/ FetchWindow(c)
       \/ \E p \in Pasted : SetCredential(c, p)
       \/ StorePasted(c)
  \/ Stop

Spec == Init /\ [][Next]_vars

-----------------------------------------------------------------------------
\* Every variable has its type.
TypeOK ==
  /\ url \in Pasted \cup {ConfigURL, SetupToken, None}
  /\ \A c \in Callers : call[c].pc \in {"idle", "claim", "store", "fetch"}
  /\ claims \in [Pasted \cup {SetupToken} -> 0 .. 1] /\ wasted \subseteq DOMAIN claims

\* A bridge is never asked for more days than it serves.  Where calls do not overlap, what a
\* user was told is set stays until it is set again, whatever fails or stops meanwhile.  And
\* once the bridge has given up a token for a URL that was heard and stored, a URL stays in
\* the store, so that no fetch claims again; until it is stored, a call holds it.
AccessKept ==
  /\ asked <= BridgeLimit
  /\ ~mixed => (answered # None => url = answered)
  /\ \A p \in DOMAIN claims : claims[p] > 0 /\ p \notin wasted =>
       url # None \/ \E c \in Callers : p \in Holding(c)

=============================================================================
