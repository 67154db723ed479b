------------------------------- MODULE Egress -------------------------------
(* The network of a plugin: netGate.do and its dialer, while names resolve anew, the
   operator changes grants and the manifest changes its hosts.  A tick of the clock is
   the time in which the budget grows by one request. *)
EXTENDS Integers, Sequences, FiniteSets

CONSTANTS
  Hosts, Addresses, Public,  \* names; what they resolve to, and which of that is globally routable
  Rate, MaxRedirects, LogSize,
  MaxClock, MaxFetches, MaxLoads, MaxChanges   \* bounds

VARIABLES
  clock,
  dns,       \* host |-> the addresses it has now, the first first
  allow,     \* the manifest's hosts
  grants,    \* the stored private grants
  gate,      \* the instance's gate: its hosts, grants and budget
  req,       \* the fetch under way
  conns,     \* the connections of the last fetch: the host and the address, and the gate's grants and hosts
  admitted,  \* the times at which this gate has let a request pass
  log,       \* the ring: the fetches in the order in which they ended, the newest last
  made       \* [fetches, ended, loads, changes]
vars == <<clock, dns, allow, grants, gate, req, conns, admitted, log, made>>

NoReq == [pc |-> "idle", host |-> "none", hops |-> 0, ips |-> << >>]
GateOf(a, g) == [allow |-> a, grants |-> g, tokens |-> Rate, last |-> clock]
Lists == {<< >>} \cup {<<a>> : a \in Addresses} \cup {<<a, b>> : a, b \in Addresses}

TypeOK ==
  /\ clock \in 0 .. MaxClock /\ dns \in [Hosts -> Lists] /\ allow \subseteq Hosts /\ grants \subseteq Hosts
  /\ gate.tokens \in 0 .. Rate /\ req.pc \in {"idle", "resolve", "dial", "wait"} /\ req.hops \in 0 .. MaxRedirects
  /\ Len(log) <= LogSize

-----------------------------------------------------------------------------
(* do. *)

Record == LET l == Append(log, made.ended + 1) IN IF Len(l) > LogSize THEN Tail(l) ELSE l
Ended == req' = NoReq /\ made' = [made EXCEPT !.ended = @ + 1] /\ log' = Record
Refused == made' = [made EXCEPT !.fetches = @ + 1, !.ended = @ + 1] /\ log' = Record

RefillAll(t) == t.tokens + (clock - t.last)
Refill(t) == IF t.tokens + (clock - t.last) > Rate THEN Rate ELSE t.tokens + (clock - t.last)

\* A request that is malformed, or names a host that is not declared, ends before it counts.
FetchRefused(h) ==
  /\ req.pc = "idle" /\ made.fetches < MaxFetches /\ h \notin gate.allow
  /\ Refused /\ UNCHANGED <<clock, dns, allow, grants, gate, req, conns, admitted>>
FetchLimited(h) ==
  /\ req.pc = "idle" /\ made.fetches < MaxFetches /\ h \in gate.allow /\ Refill(gate) < 1
  /\ gate' = [gate EXCEPT !.tokens = Refill(gate), !.last = clock]
  /\ Refused /\ UNCHANGED <<clock, dns, allow, grants, req, conns, admitted>>
Fetch(h) ==
  /\ req.pc = "idle" /\ made.fetches < MaxFetches /\ h \in gate.allow /\ Refill(gate) >= 1
  /\ gate' = [gate EXCEPT !.tokens = Refill(gate) - 1, !.last = clock]
  /\ req' = [NoReq EXCEPT !.pc = "resolve", !.host = h] /\ conns' = {}
  /\ made' = [made EXCEPT !.fetches = @ + 1] /\ admitted' = Append(admitted, clock)
  /\ UNCHANGED <<clock, dns, allow, grants, log>>

\* dialContext: the host again, its addresses now, and the first of them that may be dialled and answers.
Resolve ==
  /\ req.pc = "resolve" /\ req.host \in gate.allow /\ dns[req.host] # << >>
  /\ req' = [req EXCEPT !.pc = "dial", !.ips = dns[req.host]]
  /\ UNCHANGED <<clock, dns, allow, grants, gate, conns, admitted, log, made>>
IpAllowed(host, ip) == ip \in Public \/ host \in gate.grants
\* The host is dialled by its name.
Repinned(r) == IF dns[r.host] = << >> THEN r.ips[1] ELSE dns[r.host][1]
Dialled(r) == r.ips[1]
Dial ==
  /\ req.pc = "dial" /\ req.ips # << >> /\ IpAllowed(req.host, req.ips[1])
  /\ conns' = conns \cup {[hop |-> req.hops, host |-> req.host, ip |-> Dialled(req), allow |-> gate.allow, grants |-> gate.grants]}
  /\ req' = [req EXCEPT !.pc = "wait"]
  /\ UNCHANGED <<clock, dns, allow, grants, gate, admitted, log, made>>
NextAddress ==
  /\ req.pc = "dial" /\ req.ips # << >> /\ req' = [req EXCEPT !.ips = Tail(@)]
  /\ UNCHANGED <<clock, dns, allow, grants, gate, conns, admitted, log, made>>

\* checkRedirect: the request that is to follow is the hops-th after the first.
Redirect(h) ==
  /\ req.pc = "wait" /\ req.hops + 1 < MaxRedirects /\ h \in gate.allow
  /\ req' = [req EXCEPT !.pc = "resolve", !.hops = @ + 1, !.host = h, !.ips = << >>]
  /\ UNCHANGED <<clock, dns, allow, grants, gate, conns, admitted, log, made>>
RedirectRefused(h) ==
  /\ req.pc = "wait" /\ (h \notin gate.allow \/ req.hops + 1 >= MaxRedirects) /\ Ended
  /\ UNCHANGED <<clock, dns, allow, grants, gate, conns, admitted>>
Answered ==
  /\ req.pc = "wait" /\ Ended /\ UNCHANGED <<clock, dns, allow, grants, gate, conns, admitted>>
\* No address, no answer in time, or a body that cannot be read.
Fails ==
  /\ req.pc # "idle" /\ (req.pc = "dial" => req.ips = << >>) /\ Ended
  /\ UNCHANGED <<clock, dns, allow, grants, gate, conns, admitted>>

-----------------------------------------------------------------------------
(* The gate is made when the plugin is loaded: enabled with other grants, or updated. *)

GrantsRefused(g) == g # {} /\ ~(g \subseteq allow)
Loaded(a, g) == gate' = GateOf(a, g) /\ admitted' = << >> /\ made' = [made EXCEPT !.loads = @ + 1]
Idle == req.pc = "idle" /\ made.loads < MaxLoads
SetEnabled(g) ==
  /\ Idle /\ ~GrantsRefused(g) /\ grants' = g /\ Loaded(allow, g)
  /\ UNCHANGED <<clock, dns, allow, req, conns, log>>
Update(a) ==
  /\ Idle /\ a # {} /\ allow' = a /\ Loaded(a, grants)
  /\ UNCHANGED <<clock, dns, grants, req, conns, log>>

Tick ==
  /\ clock < MaxClock /\ clock' = clock + 1
  /\ UNCHANGED <<dns, allow, grants, gate, req, conns, admitted, log, made>>
Rename(h, ips) ==
  /\ made.changes < MaxChanges /\ dns' = [dns EXCEPT ![h] = ips] /\ made' = [made EXCEPT !.changes = @ + 1]
  /\ UNCHANGED <<clock, allow, grants, gate, req, conns, admitted, log>>

Init ==
  /\ clock = 0 /\ dns = [h \in Hosts |-> <<CHOOSE a \in Public : TRUE>>] /\ allow \in SUBSET Hosts \ {{}} /\ grants = {}
  /\ gate = GateOf(allow, {}) /\ req = NoReq /\ conns = {} /\ admitted = << >> /\ log = << >>
  /\ made = [fetches |-> 0, ended |-> 0, loads |-> 0, changes |-> 0]

Next ==
  \/ \E h \in Hosts : FetchRefused(h) \/ FetchLimited(h) \/ Fetch(h) \/ Redirect(h) \/ RedirectRefused(h)
  \/ Resolve \/ Dial \/ NextAddress \/ Answered \/ Fails
  \/ \E g \in SUBSET Hosts : SetEnabled(g) \/ Update(g)
  \/ Tick \/ \E h \in Hosts : \E ips \in Lists : Rename(h, ips)

Spec == Init /\ [][Next]_vars

-----------------------------------------------------------------------------
(* Properties. *)

\* A connection goes to a declared host, at an address that is public or of a host the operator
\* granted, whatever names come to mean and wherever an answer redirects.
DeclaredOnly == \A c \in conns : c.host \in c.allow /\ (c.ip \in Public \/ c.host \in c.grants) /\ c.hop < MaxRedirects

\* In any stretch of time a gate lets pass no more requests than its budget and what that grew by.
WithinRate ==
  \A i, j \in DOMAIN admitted : i <= j => j - i + 1 <= Rate + (admitted[j] - admitted[i])

\* Every fetch leaves one entry, and the ring holds the newest of them in order.
AllLogged ==
  /\ made.ended = made.fetches - (IF req.pc = "idle" THEN 0 ELSE 1)
  /\ Len(log) = IF made.ended < LogSize THEN made.ended ELSE LogSize
  /\ \A i \in DOMAIN log : log[i] = made.ended - Len(log) + i
=============================================================================
