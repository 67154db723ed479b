--------------------------- MODULE InboundWebhook ---------------------------
(* The inbound webhook source and the two open routes of the sources: deliveries
   that senders sign, beside rotations of the secret, and sign-ins that come back
   from a provider with the state they were given.

   A secret is a number, 0 for none; a delivery is the secret it is signed with,
   its time and its rows, each named by an id or by its content. *)
EXTENDS Integers, FiniteSets, Sequences

CONSTANTS
  Senders,    \* deliveries under way
  Batches,    \* the rows a delivery may carry: sets of [key, content], key None when the sender has none
  Tolerance,  \* timestampTolerance
  Types,      \* source types with a sign-in
  States,     \* anti-CSRF states
  StateLife,  \* how long a state is good for
  Callbacks,  \* callbacks under way
  MaxSecret, MaxClock, MaxDeliveries  \* bounds

None == "none"

VARIABLES
  secret,    \* the signing secret in the store
  clock,
  delivery,  \* each delivery: where it is, what it says, the secret it is checked against
  sent,      \* deliveries begun
  taken,     \* the deliveries accepted: what they said, the secret and the time when they came
  table,     \* the rows they made, by id
  pending,   \* oauthStates: the type each state was issued for, and until when
  issued,    \* the states ever issued
  callback,  \* each callback: where it is, its type and state
  exchanged  \* the sign-ins that reached the exchange
hookVars == <<secret, delivery, sent, taken, table>>
oauthVars == <<pending, issued, callback, exchanged>>
vars == <<clock, hookVars, oauthVars>>

-----------------------------------------------------------------------------
(* Deliveries. *)

IdleDelivery == [pc |-> "idle", signed |-> 0, ts |-> 0, rows |-> {}, secret |-> 0, came |-> 0]

\* RotateSecret, and SetCredential with a secret of the operator's.
RotateSecret == secret < MaxSecret /\ secret' = secret + 1 /\ UNCHANGED <<clock, delivery, sent, taken, table, oauthVars>>

\* A delivery comes, signed with any secret and dated at any time.
HandleSourceIngest(s) ==
  /\ delivery[s].pc = "idle" /\ sent < MaxDeliveries /\ sent' = sent + 1
  /\ \E k \in 0 .. MaxSecret, ts \in 0 .. MaxClock, rows \in Batches :
       delivery' = [delivery EXCEPT ![s] = [pc |-> "came", signed |-> k, ts |-> ts, rows |-> rows,
                                            secret |-> 0, came |-> secret]]
  /\ UNCHANGED <<clock, secret, taken, table, oauthVars>>

\* Receive reads the secret, or fails to.
StoredSecret(s) ==
  /\ delivery[s].pc = "came"
  /\ \/ delivery' = [delivery EXCEPT ![s].pc = "read", ![s].secret = secret]
     \/ delivery' = [delivery EXCEPT ![s] = IdleDelivery]
  /\ UNCHANGED <<clock, secret, sent, taken, table, oauthVars>>

\* A check that does not ask for a secret.
VerifyOpen(d) == d.signed = d.secret /\ clock - d.ts \in -Tolerance .. Tolerance

\* verify: dated within the tolerance on either side, and signed with the secret that was read.
Verify(d) == d.secret # 0 /\ d.signed = d.secret /\ clock - d.ts \in -Tolerance .. Tolerance

\* Rows all named by when they come.
NormalizeAnew(rows) == {[id |-> <<sent, r.content>>, content |-> r.content] : r \in rows}

\* normalize: a row keeps the key its sender gave, or is named by what it says.
Normalize(rows) == {[id |-> IF r.key # None THEN r.key ELSE r.content, content |-> r.content] : r \in rows}

\* Receive after its read.  A delivery that says nothing is a ping, accepted with no rows; one with
\* rows replaces those with the same ids, the batch's last where two have one.
Receive(s) ==
  /\ delivery[s].pc = "read"
  /\ delivery' = [delivery EXCEPT ![s] = IdleDelivery]
  /\ UNCHANGED <<clock, secret, sent, oauthVars>>
  /\ LET d == delivery[s]  rows == Normalize(d.rows)
     IN  IF Verify(d)
         THEN /\ taken' = taken \cup {[signed |-> d.signed, rows |-> d.rows, ts |-> d.ts, came |-> d.came, until |-> secret]}
              /\ \E pick \in {p \in SUBSET rows : /\ {r.id : r \in p} = {r.id : r \in rows}
                                                  /\ \A q, r \in p : q.id = r.id => q = r} :
                   table' = {r \in table : \A q \in pick : q.id # r.id} \cup pick
         ELSE UNCHANGED <<taken, table>>

-----------------------------------------------------------------------------
(* Sign-ins. *)

IdleCallback == [pc |-> "idle", typ |-> None, state |-> None]

\* handleSourceOAuthStart: issue.
Issue(typ) ==
  /\ \E st \in States \ issued :
       /\ issued' = issued \cup {st}
       /\ pending' = pending \cup {[state |-> st, typ |-> typ, expires |-> clock + StateLife]}
  /\ UNCHANGED <<clock, hookVars, callback, exchanged>>

\* A consume that leaves the state for another.
ConsumeKeep(c, typ, st) ==
  /\ callback[c].pc = "idle"
  /\ LET p == {q \in pending : q.state = st}
     IN  /\ callback' = [callback EXCEPT ![c] =
               IF \E q \in p : clock <= q.expires /\ q.typ = typ THEN [pc |-> "exchange", typ |-> typ, state |-> st] ELSE @]
         /\ pending' = pending
  /\ UNCHANGED <<clock, hookVars, issued, exchanged>>

\* handleSourceOAuthCallback up to the exchange: the state is consumed whatever comes of it.
Consume(c, typ, st) ==
  /\ callback[c].pc = "idle"
  /\ LET p == {q \in pending : q.state = st}
     IN  /\ callback' = [callback EXCEPT ![c] =
               IF \E q \in p : clock <= q.expires /\ q.typ = typ THEN [pc |-> "exchange", typ |-> typ, state |-> st] ELSE @]
         /\ pending' = pending \ p
  /\ UNCHANGED <<clock, hookVars, issued, exchanged>>

\* The exchange of the code: it stores the credential, or the browser is sent back with an error.
OAuthExchange(c) ==
  /\ callback[c].pc = "exchange"
  /\ \/ exchanged' = Append(exchanged, <<callback[c].typ, callback[c].state>>)
     \/ exchanged' = exchanged
  /\ callback' = [callback EXCEPT ![c] = IdleCallback]
  /\ UNCHANGED <<clock, hookVars, pending, issued>>

\* A restart forgets the states; a user has to start again.
Restart ==
  /\ pending' = {} /\ callback' = [c \in Callbacks |-> IdleCallback]
  /\ delivery' = [s \in Senders |-> IdleDelivery]
  /\ UNCHANGED <<clock, secret, sent, taken, table, issued, exchanged>>

Tick == clock < MaxClock /\ clock' = clock + 1 /\ UNCHANGED <<hookVars, oauthVars>>

Init ==
  /\ secret = 0 /\ clock = 0 /\ delivery = [s \in Senders |-> IdleDelivery] /\ sent = 0 /\ taken = {} /\ table = {}
  /\ pending = {} /\ issued = {} /\ callback = [c \in Callbacks |-> IdleCallback] /\ exchanged = << >>

Next ==
  \/ RotateSecret \/ Tick \/ Restart
  \/ \E s \in Senders : HandleSourceIngest(s) \/ StoredSecret(s) \/ Receive(s)
  \/ \E typ \in Types : Issue(typ)
  \/ \E c \in Callbacks, typ \in Types, st \in States : Consume(c, typ, st)
  \/ \E c \in Callbacks : OAuthExchange(c)

Spec == Init /\ [][Next]_vars

-----------------------------------------------------------------------------
\* Every variable has its type.
TypeOK ==
  /\ secret \in 0 .. MaxSecret /\ clock \in 0 .. MaxClock
  /\ \A s \in Senders : delivery[s].pc \in {"idle", "came", "read"}
  /\ \A c \in Callbacks : callback[c].pc \in {"idle", "exchange"}

\* A delivery is taken only if it was signed with a secret in force between when it came and when
\* it was taken; every row it brought is there, and a delivery sent again adds none.
SignedOnly ==
  /\ \A d \in taken : d.signed > 0 /\ d.signed \in d.came .. d.until /\ d.ts <= clock + Tolerance
  /\ LET carried == UNION {d.rows : d \in taken}
     IN  /\ {r.content : r \in table} \subseteq {r.content : r \in carried}
         /\ \A r \in carried : r.key = None => \E q \in table : q.content = r.content
         /\ Cardinality(table) = Cardinality({IF r.key # None THEN r.key ELSE r.content : r \in carried})

\* A sign-in is exchanged only under a state that was issued for its type, and one only.
StateUsedOnce ==
  /\ \A i, j \in DOMAIN exchanged : exchanged[i][2] = exchanged[j][2] => i = j
  /\ \A c \in Callbacks : callback[c].pc = "exchange" =>
       /\ callback[c].state \in issued
       /\ \A i \in DOMAIN exchanged : exchanged[i][2] # callback[c].state

=============================================================================
