------------------------------- MODULE Access -------------------------------
(* Who may call what: the dashboard token of the Guard, API keys with a scope,
   and the gate of each tier of routes.  A gate asks the Guard twice and the
   table of keys once, and the credentials may change between any two of these.

   The Guard writes the store and its cache under its lock, which its readers
   wait for, so a change of the token is one step. *)
EXTENDS Naturals, FiniteSets, TLAPS

CONSTANTS
  ConfigToken,  \* the token of the configuration, or None
  Tokens,       \* tokens that users set
  ApiKeys,      \* API keys
  Requests,     \* requests under way at once
  MaxRequests, MaxStops  \* bounds on the requests and on stops of the process

None == "none"
Scopes == {"read", "read_write"}

VARIABLES
  stored,  \* the token in the secret store
  cached,  \* the Guard's copy
  keys,    \* the scope of each API key in the table, None if it has no row
  req,     \* each request: where it is, its operation, its bearer, how it ended
  could,   \* the requests that had a right to their operation at some time
  always,  \* those that had it all the time, under the same token
  count, stops,
  answered, \* the token that the last answered change left
  lost      \* a write reached the store although it failed
vars == <<stored, cached, keys, req, could, always, count, stops, answered, lost>>

-----------------------------------------------------------------------------
(* The Guard, the keys and the tiers. *)

Active == IF ConfigToken # None THEN ConfigToken ELSE cached
Required == Active # None
Valid(bearer) == Required /\ bearer = Active

\* A read key suffices for reads, a read_write key for both.
Satisfies(scope, need) == scope = "read_write" \/ need = "read"

\* Router: the operations with a part here, each in the tier of its group.
TierOf == [get |-> "read", put |-> "write", setToken |-> "token", clearToken |-> "token",
           mint |-> "configured", revoke |-> "configured"]
Ops == DOMAIN TierOf

\* What the tiers promise, given the credentials as they are.
Right(op, bearer) ==
  \/ ~Required /\ TierOf[op] # "configured"
  \/ Valid(bearer)
  \/ /\ TierOf[op] \in {"read", "write"} /\ bearer \in ApiKeys
     /\ keys[bearer] # None /\ (TierOf[op] = "write" => keys[bearer] = "read_write")

IdleReq == [pc |-> "idle", op |-> "get", bearer |-> None]
Running == {r \in Requests : req[r].pc # "idle"}
At(r, pc) == req' = [req EXCEPT ![r].pc = pc]

\* Every step after the request's first adds to what is known of its rights.
Watch == /\ could' = {r \in Running' : r \in could \/ Right(req[r].op, req[r].bearer)'}
         /\ always' = {r \in always \cap Running' : Active' = Active /\ Right(req[r].op, req[r].bearer)'}

-----------------------------------------------------------------------------
(* The gates: requireToken, requireConfiguredToken, and scopeGate of requireRead
   and requireWrite. *)

Begin(r, op, bearer) ==
  /\ req[r].pc = "idle" /\ count < MaxRequests /\ count' = count + 1
  /\ req' = [req EXCEPT ![r] = [pc |-> "gate", op |-> op, bearer |-> bearer]]
  /\ could' = IF Right(op, bearer) THEN could \cup {r} ELSE could \ {r}
  /\ always' = IF Right(op, bearer) THEN always \cup {r} ELSE always \ {r}
  /\ UNCHANGED <<stored, cached, keys, stops, answered, lost>>

credentials == <<stored, cached, keys, count, stops, answered, lost>>

\* A gate that leaves every tier open without a token.
AskRequiredOpen(r) ==
  /\ req[r].pc = "gate"
  /\ At(r, IF Required THEN "valid" ELSE "admitted")
  /\ UNCHANGED <<credentials, could, always>>

\* Without a token the gates are open, but that of the configured tier is closed.
AskRequired(r) ==
  /\ req[r].pc = "gate"
  /\ At(r, IF Required THEN "valid" ELSE IF TierOf[req[r].op] = "configured" THEN "refused" ELSE "admitted")
  /\ UNCHANGED <<credentials, could, always>>

\* The bearer is the dashboard token; or it may be an API key where those are accepted.
AskValid(r) ==
  /\ req[r].pc = "valid"
  /\ At(r, IF Valid(req[r].bearer) THEN "admitted"
           ELSE IF TierOf[req[r].op] \in {"read", "write"} THEN "key" ELSE "refused")
  /\ UNCHANGED <<credentials, could, always>>

\* A gate that asks for a key of any scope.
AskKeyAny(r) ==
  /\ req[r].pc = "key"
  /\ At(r, IF req[r].bearer \in ApiKeys /\ keys[req[r].bearer] # None THEN "admitted" ELSE "refused")
  /\ UNCHANGED <<credentials, could, always>>

\* verifyAPIKey; a read that fails is a key that is not there.
AskKey(r) ==
  LET b == req[r].bearer
  IN  /\ req[r].pc = "key"
      /\ \/ /\ b \in ApiKeys /\ keys[b] # None /\ Satisfies(keys[b], TierOf[req[r].op])
            /\ At(r, "admitted")
         \/ /\ ~(b \in ApiKeys /\ keys[b] # None /\ Satisfies(keys[b], TierOf[req[r].op]))
            /\ At(r, "refused")
      /\ UNCHANGED <<credentials, could, always>>

-----------------------------------------------------------------------------
(* What admitted requests do to the credentials. *)

Done(r) == req' = [req EXCEPT ![r] = IdleReq]

\* A change of the token that leaves the cache for the next start.
WriteTokenUncached(r, t) ==
  /\ ConfigToken = None
  /\ stored' = t /\ answered' = t
  /\ Done(r) /\ UNCHANGED <<cached, keys, count, stops, lost>> /\ Watch

\* SetToken and ClearToken under the lock: the store, then the cache.
WriteToken(r, t) ==
  /\ ConfigToken = None
  /\ stored' = t /\ cached' = t /\ answered' = t
  /\ Done(r) /\ UNCHANGED <<keys, count, stops, lost>> /\ Watch

\* The store answers with an error after it has written, or before.
WriteTokenFails(r, t) ==
  /\ ConfigToken = None
  /\ \/ UNCHANGED <<stored, lost>>
     \/ stored' = t /\ lost' = TRUE
  /\ Done(r) /\ UNCHANGED <<cached, keys, count, stops, answered>> /\ Watch

HandleSetToken(r) == /\ req[r].pc = "admitted" /\ req[r].op = "setToken"
                     /\ \E t \in Tokens : WriteToken(r, t) \/ WriteTokenFails(r, t)

HandleClearToken(r) == /\ req[r].pc = "admitted" /\ req[r].op = "clearToken"
                       /\ WriteToken(r, None) \/ WriteTokenFails(r, None)

\* createApiKey: a key that was never minted, with the scope that is asked for.
CreateApiKey(r) ==
  /\ req[r].pc = "admitted" /\ req[r].op = "mint"
  /\ \E k \in ApiKeys, s \in Scopes : keys[k] = None /\ keys' = [keys EXCEPT ![k] = s]
  /\ Done(r) /\ UNCHANGED <<stored, cached, count, stops, answered, lost>> /\ Watch

RevokeApiKey(r) ==
  /\ req[r].pc = "admitted" /\ req[r].op = "revoke"
  /\ \E k \in ApiKeys : keys' = [keys EXCEPT ![k] = None]
  /\ Done(r) /\ UNCHANGED <<stored, cached, count, stops, answered, lost>> /\ Watch

\* Every other request, one that a configured token refuses, and one that was refused.
Answer(r) ==
  /\ \/ req[r].pc = "refused"
     \/ req[r].pc = "admitted" /\ (req[r].op \in {"get", "put"} \/ ConfigToken # None)
  /\ Done(r) /\ could' = could \ {r} /\ always' = always \ {r} /\ UNCHANGED credentials

\* New: a stop at any time; the next start reads the stored token once.
Restart ==
  /\ stops < MaxStops /\ stops' = stops + 1
  /\ cached' = stored /\ answered' = stored /\ lost' = FALSE
  /\ req' = [r \in Requests |-> IdleReq] /\ could' = {} /\ always' = {}
  /\ UNCHANGED <<stored, keys, count>>

Init ==
  /\ stored \in {None} \cup Tokens /\ cached = stored /\ answered = stored /\ lost = FALSE
  /\ keys \in [ApiKeys -> {None} \cup Scopes]
  /\ req = [r \in Requests |-> IdleReq] /\ could = {} /\ always = {} /\ count = 0 /\ stops = 0

Next == \/ \E r \in Requests : \/ \E op \in Ops, b \in Tokens \cup ApiKeys \cup {None} : Begin(r, op, b)
                               \/ AskRequired(r) \/ AskValid(r) \/ AskKey(r)
                               \/ HandleSetToken(r) \/ HandleClearToken(r) \/ CreateApiKey(r) \/ RevokeApiKey(r) \/ Answer(r)
        \/ Restart

-----------------------------------------------------------------------------
TypeOK == /\ {stored, cached, answered} \subseteq Tokens \cup {None} /\ keys \in [ApiKeys -> Scopes \cup {None}]
          /\ \A r \in Requests : req[r].pc \in {"idle", "gate", "valid", "key", "admitted", "refused"}

\* A request is admitted only if it had the right to its operation at some time on its way,
\* and refused only if it lacked it at some time or the token changed under it: an API
\* key never reaches what provisions credentials, and nothing does without a token.
GatesHold ==
  \A r \in Requests : /\ req[r].pc = "admitted" => r \in could
                      /\ req[r].pc = "refused" => r \notin always

\* The Guard answers from its copy what the store holds and what the last change was
\* answered with, unless a write that failed reached the store.
TokenKept == ~lost => cached = stored /\ cached = answered

Spec == Init /\ [][Next]_vars

-----------------------------------------------------------------------------
(***************************************************************************)
(* Both hold for any tokens, keys and number of requests.  A gate decides  *)
(* with what it read before, so the proof says of a request on its way     *)
(* what is still true of the credentials: as long as nothing changed under *)
(* it, a token is required where the gate found one, and the bearer is not *)
(* that token where the gate went on to ask for a key.                     *)
(***************************************************************************)
Pcs == {"idle", "gate", "valid", "key", "admitted", "refused"}
Bearers == Tokens \cup ApiKeys \cup {None}

Typed ==
  /\ stored \in Tokens \cup {None} /\ cached \in Tokens \cup {None} /\ answered \in Tokens \cup {None}
  /\ keys \in [ApiKeys -> Scopes \cup {None}]
  /\ req \in [Requests -> [pc : Pcs, op : Ops, bearer : Bearers]]
  /\ could \subseteq Requests /\ always \subseteq Requests

HasRight(r) == Right(req[r].op, req[r].bearer)
TakesKeys(r) == TierOf[req[r].op] \in {"read", "write"}

GateOf(r) ==
  /\ req[r].pc # "idle" /\ HasRight(r) => r \in could
  /\ r \in always => HasRight(r)
  /\ req[r].pc \in {"valid", "key"} /\ r \in always => Required
  /\ req[r].pc = "key" => TakesKeys(r) /\ (r \in always => ~Valid(req[r].bearer))
  /\ req[r].pc = "admitted" => r \in could
  /\ req[r].pc = "refused" => r \notin always

GateInv == Typed /\ TokenKept /\ \A r \in Requests : GateOf(r)

\* Every gate decides with the credentials as they are, and a step of one request leaves the others.
LEMMA GateStep ==
  ASSUME GateInv, NEW r \in Requests, AskRequired(r) \/ AskValid(r) \/ AskKey(r)
  PROVE  GateInv'
<1>1. PICK pc \in Pcs : At(r, pc)
  BY DEF AskRequired, AskValid, AskKey, Pcs
<1>2. UNCHANGED <<credentials, could, always>>
  BY DEF AskRequired, AskValid, AskKey
<1>3. /\ req'[r] = [req[r] EXCEPT !.pc = pc] /\ \A q \in Requests \ {r} : req'[q] = req[q]
      /\ req[r] \in [pc : Pcs, op : Ops, bearer : Bearers]
      /\ req' \in [Requests -> [pc : Pcs, op : Ops, bearer : Bearers]]
  BY <1>1 DEF At, GateInv, Typed
<1>4. req'[r].pc = pc /\ req'[r].op = req[r].op /\ req'[r].bearer = req[r].bearer
  BY <1>3
<1>5. Typed' /\ TokenKept'
  BY <1>2, <1>3 DEF GateInv, Typed, TokenKept, credentials
<1>6. /\ Required' = Required /\ \A b : Valid(b)' = Valid(b)
      /\ \A op, b : Right(op, b)' = Right(op, b)
  BY <1>2 DEF credentials, Required, Active, Valid, Right
<1>7. \A q \in Requests : HasRight(q)' = HasRight(q) /\ TakesKeys(q)' = TakesKeys(q)
  BY <1>3, <1>4, <1>6 DEF HasRight, TakesKeys
<1>8. \A q \in Requests \ {r} : GateOf(q)'
  BY <1>2, <1>3, <1>6, <1>7 DEF GateInv, GateOf
<1>9. req[r].pc # "idle" /\ GateOf(r)
  BY DEF AskRequired, AskValid, AskKey, GateInv
<1>10. /\ pc \in {"valid", "key"} /\ r \in always => Required
       /\ pc = "key" => TakesKeys(r) /\ (r \in always => ~Valid(req[r].bearer))
       /\ pc = "admitted" => HasRight(r)
       /\ pc = "refused" => r \notin always
  <2>1. CASE AskRequired(r)
    <3>1. pc = (IF Required THEN "valid" ELSE IF TierOf[req[r].op] = "configured" THEN "refused" ELSE "admitted")
      BY <1>1, <1>3, <1>4, <2>1 DEF AskRequired, At, GateInv, Typed
    <3>2. QED
      BY <1>9, <3>1 DEF GateOf, HasRight, Right, Valid
  <2>2. CASE AskValid(r)
    <3>1. /\ pc = (IF Valid(req[r].bearer) THEN "admitted" ELSE IF TakesKeys(r) THEN "key" ELSE "refused")
          /\ req[r].pc = "valid"
      BY <1>3, <1>4, <2>2 DEF AskValid, At, GateInv, Typed, TakesKeys
    <3>2. QED
      BY <1>9, <3>1 DEF GateOf, HasRight, Right, TakesKeys
  <2>3. CASE AskKey(r)
    <3> DEFINE b == req[r].bearer
               Fits == b \in ApiKeys /\ keys[b] # None /\ Satisfies(keys[b], TierOf[req[r].op])
    <3>1. req[r].pc = "key" /\ ((pc = "admitted" /\ Fits) \/ (pc = "refused" /\ ~Fits))
      <4>1. req[r].pc = "key" /\ ((At(r, "admitted") /\ Fits) \/ (At(r, "refused") /\ ~Fits))
        BY <2>3 DEF AskKey
      <4>2. \A x : At(r, x) => req'[r].pc = x
        BY <1>3 DEF At, GateInv, Typed
      <4>3. QED
        BY <1>4, <4>1, <4>2
    <3>2. TakesKeys(r) /\ (r \in always => HasRight(r) /\ Required /\ ~Valid(b))
      BY <1>9, <3>1 DEF GateOf
    <3>3. Fits => HasRight(r)
      BY <3>2 DEF HasRight, Right, TakesKeys, Satisfies
    <3>4. HasRight(r) /\ Required /\ ~Valid(b) => Fits
      BY <3>2 DEF HasRight, Right, TakesKeys, Satisfies
    <3>5. QED
      BY <3>1, <3>2, <3>3, <3>4
  <2>4. QED
    BY <2>1, <2>2, <2>3
<1>11. GateOf(r)'
  BY <1>2, <1>4, <1>6, <1>7, <1>9, <1>10 DEF GateOf
<1>12. QED
  BY <1>5, <1>8, <1>11 DEF GateInv

\* A change of the credentials is seen by every request on its way: who gains a right has had it, who
\* loses one, or has the token change, no longer has had it all the time.
LEMMA WatchStep ==
  ASSUME GateInv, NEW r \in Requests, Done(r), Watch, Typed', TokenKept'
  PROVE  GateInv'
<1>1. /\ req'[r] = IdleReq /\ \A q \in Requests \ {r} : req'[q] = req[q]
  BY DEF Done, GateInv, Typed
<1>2. r \notin Running' /\ Running' \subseteq Running
  BY <1>1 DEF Running, IdleReq
<1>3. \A q \in Requests : q # r /\ req[q].pc # "idle" => q \in Running'
  BY <1>1 DEF Running
<1>4. ASSUME NEW q \in Requests \ {r}
      PROVE  GateOf(q)'
  <2>1. GateOf(q) /\ req'[q] = req[q] /\ HasRight(q)' = Right(req[q].op, req[q].bearer)'
    BY <1>1 DEF GateInv, HasRight
  <2>2. req[q].pc # "idle" => (q \in could' <=> q \in could \/ HasRight(q)')
    BY <1>3, <2>1 DEF Watch, HasRight
  <2>3. q \in always' => q \in always /\ Active' = Active /\ HasRight(q)'
    BY <2>1 DEF Watch, HasRight
  <2>4. Active' = Active => Required' = Required /\ Valid(req[q].bearer)' = Valid(req[q].bearer)
    BY <2>1 DEF Required, Valid
  <2>5. TakesKeys(q)' = TakesKeys(q)
    BY <2>1 DEF TakesKeys
  <2>6. QED
    BY <2>1, <2>2, <2>3, <2>4, <2>5 DEF GateOf
<1>5. GateOf(r)'
  BY <1>1, <1>2 DEF GateOf, IdleReq, Watch
<1>6. QED
  BY <1>4, <1>5 DEF GateInv

\* A step that leaves the credentials, and of the others' requests everything.
LEMMA OwnStep ==
  ASSUME GateInv, NEW r \in Requests, UNCHANGED <<stored, cached, keys, answered, lost>>,
         req' \in [Requests -> [pc : Pcs, op : Ops, bearer : Bearers]],
         \A q \in Requests \ {r} : req'[q] = req[q],
         could' \subseteq Requests, always' \subseteq Requests,
         \A q \in Requests \ {r} : (q \in could' <=> q \in could) /\ (q \in always' <=> q \in always),
         GateOf(r)'
  PROVE  GateInv'
<1>1. Typed' /\ TokenKept'
  BY DEF GateInv, Typed, TokenKept
<1>2. /\ Required' = Required /\ \A b : Valid(b)' = Valid(b)
      /\ \A op, b : Right(op, b)' = Right(op, b)
  BY DEF Required, Active, Valid, Right
<1>3. ASSUME NEW q \in Requests \ {r}
      PROVE  GateOf(q)'
  <2>1. req'[q] = req[q] /\ GateOf(q) /\ HasRight(q)' = HasRight(q) /\ TakesKeys(q)' = TakesKeys(q)
    BY <1>2 DEF GateInv, HasRight, TakesKeys
  <2>2. QED
    BY <1>2, <2>1 DEF GateOf
<1>4. QED
  BY <1>1, <1>3 DEF GateInv

LEMMA AccessStep ==
  ASSUME GateInv, [Next]_vars
  PROVE  GateInv'
<1>1. Typed /\ TokenKept /\ req \in [Requests -> [pc : Pcs, op : Ops, bearer : Bearers]]
      /\ could \subseteq Requests /\ always \subseteq Requests
  BY DEF GateInv, Typed
<1>2. IdleReq \in [pc : Pcs, op : Ops, bearer : Bearers]
  BY DEF IdleReq, Pcs, Bearers, Ops, TierOf
<1>3. ASSUME NEW r \in Requests, Done(r)
      PROVE  /\ req' \in [Requests -> [pc : Pcs, op : Ops, bearer : Bearers]]
             /\ req'[r] = IdleReq /\ \A q \in Requests \ {r} : req'[q] = req[q]
  BY <1>1, <1>2, <1>3 DEF Done
<1>4. ASSUME NEW r \in Requests, NEW op \in Ops, NEW b \in Tokens \cup ApiKeys \cup {None}, Begin(r, op, b)
      PROVE  GateInv'
  <2>1. /\ req' = [req EXCEPT ![r] = [pc |-> "gate", op |-> op, bearer |-> b]]
        /\ could' = (IF Right(op, b) THEN could \cup {r} ELSE could \ {r})
        /\ always' = (IF Right(op, b) THEN always \cup {r} ELSE always \ {r})
        /\ UNCHANGED <<stored, cached, keys, answered, lost>>
    BY <1>4 DEF Begin
  <2>2. [pc |-> "gate", op |-> op, bearer |-> b] \in [pc : Pcs, op : Ops, bearer : Bearers]
    BY DEF Pcs, Bearers
  <2>3. /\ req' \in [Requests -> [pc : Pcs, op : Ops, bearer : Bearers]]
        /\ req'[r] = [pc |-> "gate", op |-> op, bearer |-> b] /\ \A q \in Requests \ {r} : req'[q] = req[q]
    BY <1>1, <2>1, <2>2
  <2>4. req'[r].pc = "gate" /\ req'[r].op = op /\ req'[r].bearer = b
    BY <2>3
  <2>5. Right(op, b)' = Right(op, b)
    BY <2>1 DEF Right, Required, Valid, Active
  <2>6. GateOf(r)'
    BY <2>1, <2>4, <2>5 DEF GateOf, HasRight
  <2>7. could' \subseteq Requests /\ always' \subseteq Requests
    BY <1>1, <2>1
  <2>8. \A q \in Requests \ {r} : (q \in could' <=> q \in could) /\ (q \in always' <=> q \in always)
    BY <2>1
  <2>9. QED
    BY <2>1, <2>3, <2>6, <2>7, <2>8, OwnStep
<1>5. ASSUME NEW r \in Requests, NEW t \in Tokens \cup {None}, WriteToken(r, t) \/ WriteTokenFails(r, t)
      PROVE  GateInv'
  <2>1. Done(r) /\ Watch /\ keys' = keys
    BY <1>5 DEF WriteToken, WriteTokenFails
  <2>2. could' \subseteq Requests /\ always' \subseteq Requests
    BY <1>1, <2>1 DEF Watch, Running
  <2>3. /\ stored' \in Tokens \cup {None} /\ cached' \in Tokens \cup {None} /\ answered' \in Tokens \cup {None}
    BY <1>1, <1>5 DEF WriteToken, WriteTokenFails, Typed
  <2>4. TokenKept'
    BY <1>1, <1>5 DEF WriteToken, WriteTokenFails, TokenKept
  <2>5. Typed'
    BY <1>1, <1>3, <2>1, <2>2, <2>3 DEF Typed
  <2>6. QED
    BY <2>1, <2>4, <2>5, WatchStep
<1>6. ASSUME NEW r \in Requests, CreateApiKey(r) \/ RevokeApiKey(r)
      PROVE  GateInv'
  <2>1. Done(r) /\ Watch /\ UNCHANGED <<stored, cached, answered, lost>>
    BY <1>6 DEF CreateApiKey, RevokeApiKey
  <2>2. could' \subseteq Requests /\ always' \subseteq Requests
    BY <1>1, <2>1 DEF Watch, Running
  <2>3. keys' \in [ApiKeys -> Scopes \cup {None}]
    BY <1>1, <1>6 DEF CreateApiKey, RevokeApiKey, Typed
  <2>4. Typed' /\ TokenKept'
    BY <1>1, <1>3, <2>1, <2>2, <2>3 DEF Typed, TokenKept
  <2>5. QED
    BY <2>1, <2>4, WatchStep
<1>7. ASSUME NEW r \in Requests, Answer(r)
      PROVE  GateInv'
  <2>1. Done(r) /\ could' = could \ {r} /\ always' = always \ {r} /\ UNCHANGED <<stored, cached, keys, answered, lost>>
    BY <1>7 DEF Answer, credentials
  <2>2. GateOf(r)'
    BY <1>3, <2>1 DEF GateOf, IdleReq
  <2>3. could' \subseteq Requests /\ always' \subseteq Requests
        /\ \A q \in Requests \ {r} : (q \in could' <=> q \in could) /\ (q \in always' <=> q \in always)
    BY <1>1, <2>1
  <2>4. QED
    BY <1>3, <2>1, <2>2, <2>3, OwnStep
<1>8. CASE Restart
  <2>1. /\ cached' = stored /\ answered' = stored /\ UNCHANGED <<stored, keys>>
        /\ req' = [r \in Requests |-> IdleReq] /\ could' = {} /\ always' = {}
    BY <1>8 DEF Restart
  <2>2. Typed' /\ TokenKept'
    BY <1>1, <1>2, <2>1 DEF Typed, TokenKept
  <2>3. \A r \in Requests : GateOf(r)'
    BY <2>1 DEF GateOf, IdleReq
  <2>4. QED
    BY <2>2, <2>3 DEF GateInv
<1>9. CASE UNCHANGED vars
  <2>1. Typed' /\ TokenKept'
    BY <1>1, <1>9 DEF vars, Typed, TokenKept
  <2>2. \A r \in Requests : GateOf(r)' = GateOf(r)
    BY <1>9 DEF vars, GateOf, HasRight, TakesKeys, Right, Required, Valid, Active
  <2>3. QED
    BY <2>1, <2>2 DEF GateInv
<1>10. QED
  BY <1>4, <1>5, <1>6, <1>7, <1>8, <1>9, GateStep DEF Next, HandleSetToken, HandleClearToken

LEMMA AccessAlways == Spec => []GateInv
<1>1. Init => GateInv
  <2> SUFFICES ASSUME Init PROVE GateInv
    OBVIOUS
  <2>1. IdleReq \in [pc : Pcs, op : Ops, bearer : Bearers]
    BY DEF IdleReq, Pcs, Bearers, Ops, TierOf
  <2>2. Typed /\ TokenKept
    BY <2>1 DEF Init, Typed, TokenKept
  <2>3. \A r \in Requests : GateOf(r)
    BY DEF Init, GateOf, IdleReq
  <2>4. QED
    BY <2>2, <2>3 DEF GateInv
<1>2. QED
  BY <1>1, AccessStep, PTL DEF Spec

\* A request is admitted only with a right it had on its way, and refused only without one it had all the
\* way, whatever tokens are set and keys are minted and revoked between the questions a gate asks
\* (requireRead, requireWrite, requireToken, requireConfiguredToken).
THEOREM GatesAlwaysHold == Spec => []GatesHold
<1>1. GateInv => GatesHold
  BY DEF GateInv, GateOf, GatesHold
<1>2. QED
  BY <1>1, AccessAlways, PTL

\* What the Guard answers from memory is what the store holds, through failed writes that did not reach it and
\* through stops (SetToken, ClearToken, New).
THEOREM TokenIsKept == Spec => [](TypeOK /\ TokenKept)
<1>1. GateInv => TypeOK /\ TokenKept
  BY DEF GateInv, Typed, TypeOK, TokenKept, Pcs
<1>2. QED
  BY <1>1, AccessAlways, PTL

=============================================================================
