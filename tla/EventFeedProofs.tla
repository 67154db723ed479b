--------------------------- MODULE EventFeedProofs ---------------------------
(*************************************************************************)
(* Theorems about EventFeed, for every value of its constants: the       *)
(* stream is in order however often a client reconnects, and with one    *)
(* writer it has no gap; sequences are fresh on either backend; and the  *)
(* cursor read leaves nothing out where sequences are committed in       *)
(* order, on SQLite or with one writer. Then what the browser keeps of   *)
(* its sign-in, as an instance of Session.                               *)
(*************************************************************************)
EXTENDS EventFeed, FiniteSetTheorems, WellFoundedInduction, TLAPS

-----------------------------------------------------------------------------
(***************************************************************************)
(* Sequences and sets of numbers.                                          *)
(***************************************************************************)
\* What a sequence holds once e is appended.
LEMMA AppendHolds ==
    ASSUME NEW S, NEW s \in Seq(S), NEW e \in S
    PROVE  /\ Append(s, e) \in Seq(S)
           /\ Len(Append(s, e)) = Len(s) + 1 /\ Len(s) \in Nat
           /\ \A i \in 1 .. Len(s) : Append(s, e)[i] = s[i]
           /\ Append(s, e)[Len(s) + 1] = e
           /\ ToSet(Append(s, e)) = ToSet(s) \cup {e}
<1> DEFINE t == Append(s, e)
<1>1. /\ t \in Seq(S) /\ Len(t) = Len(s) + 1 /\ Len(s) \in Nat
      /\ \A i \in 1 .. Len(s) : t[i] = s[i]
      /\ t[Len(s) + 1] = e
  OBVIOUS
<1>2. DOMAIN t = 1 .. Len(s) + 1 /\ DOMAIN s = 1 .. Len(s)
  BY <1>1
<1> HIDE DEF t
<1>3. ToSet(t) \subseteq ToSet(s) \cup {e}
  <2>1. ASSUME NEW i \in DOMAIN t PROVE t[i] \in ToSet(s) \cup {e}
    <3>1. i \in 1 .. Len(s) \/ i = Len(s) + 1
      BY <1>1, <1>2
    <3>2. QED
      BY <3>1, <1>1, <1>2 DEF ToSet
  <2>2. QED
    BY <2>1 DEF ToSet
<1>4. ToSet(s) \cup {e} \subseteq ToSet(t)
  <2>1. ASSUME NEW i \in DOMAIN s PROVE s[i] \in ToSet(t)
    BY <1>1, <1>2 DEF ToSet
  <2>2. e \in ToSet(t)
    BY <1>1, <1>2 DEF ToSet
  <2>3. QED
    BY <2>1, <2>2 DEF ToSet
<1>5. QED
  BY <1>1, <1>3, <1>4 DEF t

\* What a sequence without its head holds.
LEMMA TailHolds ==
    ASSUME NEW S, NEW s \in Seq(S), s # <<>>
    PROVE  /\ Head(s) \in S /\ Tail(s) \in Seq(S) /\ Len(Tail(s)) = Len(s) - 1
           /\ ToSet(Tail(s)) \subseteq ToSet(s)
<1>1. /\ Head(s) \in S /\ Tail(s) \in Seq(S) /\ Len(Tail(s)) = Len(s) - 1 /\ Len(s) \in Nat
      /\ \A i \in 1 .. Len(Tail(s)) : Tail(s)[i] = s[i + 1] /\ i + 1 \in 1 .. Len(s)
  OBVIOUS
<1>2. DOMAIN Tail(s) = 1 .. Len(Tail(s)) /\ DOMAIN s = 1 .. Len(s)
  BY <1>1
<1>3. QED
  BY <1>1, <1>2 DEF ToSet

LEMMA EmptyHolds == ToSet(<<>>) = {} /\ Len(<<>>) = 0 /\ \A S : <<>> \in Seq(S)
BY DEF ToSet

\* A set of numbers below n has a greatest and a least.
LEMMA Extremes ==
    ASSUME NEW n \in Nat, NEW S, S \subseteq 0 .. n, S # {}
    PROVE  /\ Max(S) \in S /\ \A s \in S : s <= Max(S)
           /\ Min(S) \in S /\ \A s \in S : Min(S) <= s
<1> DEFINE U == {n - s : s \in S}
<1>1. \A s \in S : s \in Nat /\ n - s \in Nat
  OBVIOUS
<1>2. U \subseteq Nat /\ U # {} /\ S \subseteq Nat
  BY <1>1
<1>3. PICK u \in U : \A v \in U : ~(<<v, u>> \in OpToRel(<, Nat))
  BY <1>2, NatLessThanWellFounded, WFMin
<1>4. PICK m \in S : \A v \in S : ~(<<v, m>> \in OpToRel(<, Nat))
  BY <1>2, NatLessThanWellFounded, WFMin
<1>5. PICK g \in S : u = n - g
  OBVIOUS
<1>6. \A s \in S : s <= g /\ m <= s
  <2>1. ASSUME NEW s \in S PROVE ~(n - s < n - g) /\ ~(s < m)
    <3>1. n - s \in U /\ n - s \in Nat /\ n - g \in Nat /\ s \in Nat /\ m \in Nat
      BY <1>1
    <3>2. QED
      BY <1>3, <1>4, <1>5, <3>1 DEF OpToRel
  <2>2. QED
    BY <1>1, <2>1
<1>7. \E x \in S : \A y \in S : x >= y
  BY <1>1, <1>6
<1>8. \E x \in S : \A y \in S : x =< y
  BY <1>1, <1>6
<1>9. Max(S) \in S /\ \A y \in S : Max(S) >= y
  BY <1>7 DEF Max
<1>10. Min(S) \in S /\ \A y \in S : Min(S) =< y
  BY <1>8 DEF Min
<1>11. QED
  BY <1>1, <1>9, <1>10

\* The part of a finite set that has fewer than n of it on one side is closed towards that side.
LEMMA FewerOnOneSide ==
    ASSUME NEW B, IsFiniteSet(B), NEW A, A \subseteq B, NEW n \in Nat, Cardinality(B) < n
    PROVE  Cardinality(A) < n
<1>1. IsFiniteSet(A) /\ Cardinality(A) <= Cardinality(B)
  BY FS_Subset
<1>2. Cardinality(A) \in Nat /\ Cardinality(B) \in Nat
  BY <1>1, FS_CardinalityType
<1>3. QED
  BY <1>1, <1>2

-----------------------------------------------------------------------------
(***************************************************************************)
(* The log.  On SQLite what a transaction has inserted are the numbers     *)
(* after the counter, and one transaction at a time inserts; on Postgres   *)
(* they are numbers the counter has already passed.                        *)
(***************************************************************************)
LogTyped ==
    /\ committed \subseteq Sequence /\ horizon \in Nat /\ top \in Nat
    /\ wstate \in [Writers -> {"idle", "tx", "committed", "publishing"}]
    /\ rec \in [Writers -> Seq(Sequence)]

InTx(w) == wstate[w] = "tx"

LogInv ==
    /\ LogTyped
    /\ \A s \in committed : s <= top
    /\ \A w \in Writers : wstate[w] = "idle" => rec[w] = <<>>
    /\ \A w \in Writers : wstate[w] \in {"committed", "publishing"} => ToSet(rec[w]) \subseteq committed
    /\ Backend = "sqlite" => \A w \in Writers : InTx(w) =>
         /\ \A i \in 1 .. Len(rec[w]) : rec[w][i] = top + i
         /\ \A v \in Writers \ {w} : InTx(v) => rec[v] = <<>> \/ rec[w] = <<>>
    /\ Backend # "sqlite" => \A w \in Writers : \A s \in ToSet(rec[w]) : s <= top
    /\ SequencesFresh

\* The sequences of a transaction on SQLite, as a set.
LEMMA SqliteRows ==
    ASSUME LogInv, Backend = "sqlite", NEW w \in Writers, InTx(w)
    PROVE  \A s \in ToSet(rec[w]) : top < s /\ s <= top + Len(rec[w])
<1>1. rec[w] \in Seq(Sequence) /\ DOMAIN rec[w] = 1 .. Len(rec[w]) /\ Len(rec[w]) \in Nat /\ top \in Nat
  BY DEF LogInv, LogTyped
<1>2. \A i \in 1 .. Len(rec[w]) : rec[w][i] = top + i
  BY DEF LogInv
<1>3. QED
  BY <1>1, <1>2 DEF ToSet

\* A sequence of no length is the empty one.
LEMMA NoneLeft ==
    ASSUME NEW S, NEW q \in Seq(S), Len(q) = 0
    PROVE  q = <<>>
OBVIOUS

\* Every step of a writer keeps the log's shape.
LEMMA WriterLog ==
    ASSUME LogInv, NEW w \in Writers, WriterStep(w)
    PROVE  LogInv'
<1> DEFINE sq == Backend = "sqlite"
<1>1. /\ LogTyped /\ SequencesFresh
      /\ \A v \in Writers : rec[v] \in Seq(Sequence) /\ Len(rec[v]) \in Nat
      /\ w \in DOMAIN rec /\ w \in DOMAIN wstate /\ top \in Nat /\ \A s \in committed : s \in Nat /\ s # 0
  BY DEF LogInv, LogTyped, Sequence
<1>2. CASE Begin(w)
  <2>1. /\ wstate' = [wstate EXCEPT ![w] = "tx"] /\ UNCHANGED <<committed, horizon, top, rec>> /\ rec[w] = <<>>
    BY <1>2 DEF Begin, LogInv
  <2>2. /\ wstate'[w] = "tx" /\ \A v \in Writers \ {w} : wstate'[v] = wstate[v]
        /\ wstate' \in [Writers -> {"idle", "tx", "committed", "publishing"}]
    BY <1>1, <2>1 DEF LogTyped
  <2>3. ToSet(rec[w]) = {} /\ Len(rec[w]) = 0
    BY <2>1, EmptyHolds
  <2>4. SequencesFresh'
    BY <2>1, <2>2, <2>3 DEF LogInv, SequencesFresh
  <2>5. QED
    BY <2>1, <2>2, <2>3, <2>4 DEF LogInv, LogTyped, InTx
<1>3. CASE Emit(w)
  <2> DEFINE n == NextSeq(w)
  <2>1. /\ InTx(w) /\ MayInsert(w) /\ rec' = [rec EXCEPT ![w] = Append(@, n)]
        /\ top' = IF sq THEN top ELSE top + 1
        /\ UNCHANGED <<committed, horizon, wstate>>
    BY <1>3 DEF Emit, InTx
  <2>2. n = (IF sq THEN top + Len(rec[w]) + 1 ELSE top + 1) /\ n \in Sequence /\ top < n
    BY <1>1 DEF NextSeq, Sequence
  <2> HIDE DEF n
  <2>3. /\ rec'[w] = Append(rec[w], n) /\ \A v \in Writers \ {w} : rec'[v] = rec[v]
        /\ rec'[w] \in Seq(Sequence) /\ rec' \in [Writers -> Seq(Sequence)]
        /\ ToSet(rec'[w]) = ToSet(rec[w]) \cup {n}
    BY <1>1, <2>1, <2>2, AppendHolds DEF LogTyped
  <2>4. /\ Len(rec'[w]) = Len(rec[w]) + 1 /\ rec'[w][Len(rec[w]) + 1] = n
        /\ \A i \in 1 .. Len(rec[w]) : rec'[w][i] = rec[w][i]
    BY <1>1, <2>2, <2>3, AppendHolds
  <2>5. ASSUME NEW v \in Writers \ {w} PROVE n \notin ToSet(rec[v])
    <3>1. CASE sq /\ InTx(v)
      BY <2>1, <3>1, EmptyHolds DEF MayInsert, InTx
    <3>2. CASE sq /\ ~InTx(v)
      <4>1. ToSet(rec[v]) \subseteq committed
        BY <3>2, EmptyHolds DEF LogInv, LogTyped, InTx
      <4>2. QED
        BY <1>1, <2>2, <4>1 DEF LogInv
    <3>3. CASE ~sq
      <4>1. \A s \in ToSet(rec[v]) : s \in Nat /\ s <= top
        BY <1>1, <3>3 DEF ToSet, Sequence, LogInv
      <4>2. QED
        BY <1>1, <2>2, <4>1
    <3>4. QED
      BY <3>1, <3>2, <3>3
  <2>6. n \notin committed
    BY <1>1, <2>2 DEF LogInv
  <2>7. SequencesFresh'
    BY <1>1, <2>1, <2>3, <2>5, <2>6 DEF SequencesFresh, InTx
  <2>8. sq => \A v \in Writers : InTx(v)' =>
                /\ \A i \in 1 .. Len(rec'[v]) : rec'[v][i] = top' + i
                /\ \A u \in Writers \ {v} : InTx(u)' => rec'[u] = <<>> \/ rec'[v] = <<>>
    <3> SUFFICES ASSUME sq, NEW v \in Writers, InTx(v)'
                 PROVE  /\ \A i \in 1 .. Len(rec'[v]) : rec'[v][i] = top' + i
                        /\ \A u \in Writers \ {v} : InTx(u)' => rec'[u] = <<>> \/ rec'[v] = <<>>
      OBVIOUS
    <3>1. \A u \in Writers \ {w} : InTx(u)' => rec'[u] = <<>>
      BY <2>1, <2>3 DEF MayInsert, InTx
    <3>2. CASE v = w
      <4>1. \A i \in 1 .. Len(rec[w]) : rec[w][i] = top + i
        BY <2>1 DEF LogInv
      <4>2. ASSUME NEW i \in 1 .. Len(rec'[w]) PROVE rec'[w][i] = top' + i
        <5>1. i \in 1 .. Len(rec[w]) \/ i = Len(rec[w]) + 1
          BY <1>1, <2>4
        <5>2. QED
          BY <1>1, <2>1, <2>2, <2>4, <4>1, <5>1
      <4>3. QED
        BY <3>1, <3>2, <4>2
    <3>3. CASE v # w
      BY <3>1, <3>3, EmptyHolds
    <3>4. QED
      BY <3>2, <3>3
  <2>9. ~sq => \A v \in Writers : \A s \in ToSet(rec'[v]) : s <= top'
    <3> SUFFICES ASSUME ~sq, NEW v \in Writers, NEW s \in ToSet(rec'[v]) PROVE s <= top'
      OBVIOUS
    <3>1. s \in ToSet(rec[v]) \/ s = n
      BY <2>3
    <3>2. \A t \in ToSet(rec[v]) : t \in Nat /\ t <= top
      BY <1>1 DEF ToSet, Sequence, LogInv
    <3>3. top' = top + 1 /\ n = top + 1
      BY <2>1, <2>2
    <3>4. QED
      BY <1>1, <3>1, <3>2, <3>3
  <2>10. /\ \A v \in Writers : wstate'[v] = "idle" => rec'[v] = <<>>
         /\ \A v \in Writers : wstate'[v] \in {"committed", "publishing"} => ToSet(rec'[v]) \subseteq committed
         /\ \A s \in committed : s <= top'
    BY <1>1, <2>1, <2>3 DEF LogInv, InTx
  <2>11. LogTyped'
    BY <1>1, <2>1, <2>3 DEF LogTyped
  <2>12. QED
    BY <2>1, <2>7, <2>8, <2>9, <2>10, <2>11 DEF LogInv
<1>4. CASE Commit(w)
  <2>1. /\ InTx(w) /\ committed' = committed \cup ToSet(rec[w])
        /\ top' = IF sq THEN top + Len(rec[w]) ELSE top
        /\ wstate' = [wstate EXCEPT ![w] = IF rec[w] = <<>> THEN "idle" ELSE "committed"]
        /\ UNCHANGED <<horizon, rec>>
    BY <1>4 DEF Commit, InTx
  <2>2. /\ wstate'[w] = (IF rec[w] = <<>> THEN "idle" ELSE "committed")
        /\ \A v \in Writers \ {w} : wstate'[v] = wstate[v]
        /\ wstate' \in [Writers -> {"idle", "tx", "committed", "publishing"}]
    BY <1>1, <2>1 DEF LogTyped
  <2>3. ToSet(rec[w]) \subseteq Sequence
    BY <1>1 DEF ToSet
  <2>4. \A s \in ToSet(rec[w]) : s <= top'
    BY <2>1, SqliteRows DEF LogInv
  <2>5. \A s \in committed' : s <= top'
    <3>1. top <= top' /\ top' \in Nat
      BY <1>1, <2>1
    <3>2. \A s \in committed : s <= top'
      BY <1>1, <3>1 DEF LogInv
    <3>3. QED
      BY <2>1, <2>4, <3>2
  <2>6. SequencesFresh'
    BY <1>1, <2>1, <2>2 DEF SequencesFresh
  <2>7. sq => \A v \in Writers : InTx(v)' =>
                /\ \A i \in 1 .. Len(rec'[v]) : rec'[v][i] = top' + i
                /\ \A u \in Writers \ {v} : InTx(u)' => rec'[u] = <<>> \/ rec'[v] = <<>>
    <3> SUFFICES ASSUME sq, NEW v \in Writers, InTx(v)'
                 PROVE  /\ \A i \in 1 .. Len(rec[v]) : rec[v][i] = top' + i
                        /\ \A u \in Writers \ {v} : InTx(u)' => rec[u] = <<>> \/ rec[v] = <<>>
      BY <2>1
    <3>1. v # w /\ InTx(v) /\ \A u \in Writers : InTx(u)' => InTx(u)
      BY <2>2 DEF InTx
    <3>2. rec[v] = <<>> \/ rec[w] = <<>>
      BY <2>1, <3>1 DEF LogInv
    <3>3. rec[w] = <<>> => top' = top
      BY <1>1, <2>1, EmptyHolds
    <3>4. QED
      BY <3>1, <3>2, <3>3, EmptyHolds DEF LogInv
  <2>8. /\ \A v \in Writers : wstate'[v] = "idle" => rec'[v] = <<>>
        /\ \A v \in Writers : wstate'[v] \in {"committed", "publishing"} => ToSet(rec'[v]) \subseteq committed'
        /\ ~sq => \A v \in Writers : \A s \in ToSet(rec'[v]) : s <= top'
    BY <2>1, <2>2 DEF LogInv
  <2>9. LogTyped'
    <3>1. top' \in Nat
      BY <1>1, <2>1
    <3>2. QED
      BY <1>1, <2>1, <2>2, <2>3, <3>1 DEF LogTyped
  <2>10. QED
    BY <2>5, <2>6, <2>7, <2>8, <2>9 DEF LogInv
<1>5. ASSUME NEW q \in Seq(Sequence), NEW to \in {"idle", "tx", "committed", "publishing"}, to # "tx",
             ToSet(q) \subseteq ToSet(rec[w]), to = "idle" => q = <<>>,
             to # "idle" => wstate[w] \in {"committed", "publishing"},
             rec' = [rec EXCEPT ![w] = q], wstate' = [wstate EXCEPT ![w] = to],
             UNCHANGED <<committed, horizon, top>>
      PROVE  LogInv'
  <2>1. /\ wstate'[w] = to /\ rec'[w] = q
        /\ \A v \in Writers \ {w} : wstate'[v] = wstate[v] /\ rec'[v] = rec[v]
    BY <1>1, <1>5 DEF LogTyped
  <2>2. LogTyped'
    BY <1>1, <1>5 DEF LogTyped
  <2>3. SequencesFresh'
    BY <1>1, <1>5, <2>1 DEF SequencesFresh
  <2>4. \A v \in Writers : InTx(v)' => v # w /\ InTx(v) /\ rec'[v] = rec[v]
    BY <1>5, <2>1 DEF InTx
  <2>5. sq => \A v \in Writers : InTx(v)' =>
                /\ \A i \in 1 .. Len(rec'[v]) : rec'[v][i] = top' + i
                /\ \A u \in Writers \ {v} : InTx(u)' => rec'[u] = <<>> \/ rec'[v] = <<>>
    BY <1>5, <2>4 DEF LogInv
  <2>6. /\ \A v \in Writers : wstate'[v] = "idle" => rec'[v] = <<>>
        /\ \A v \in Writers : wstate'[v] \in {"committed", "publishing"} => ToSet(rec'[v]) \subseteq committed'
        /\ ~sq => \A v \in Writers : \A s \in ToSet(rec'[v]) : s <= top'
    BY <1>5, <2>1 DEF LogInv
  <2>7. QED
    BY <1>5, <2>2, <2>3, <2>5, <2>6 DEF LogInv
<1>6. CASE Rollback(w)
  BY <1>5, <1>6, EmptyHolds DEF Rollback
<1>7. CASE Publish(w)
  <2>1. /\ rec[w] # <<>> /\ rec' = [rec EXCEPT ![w] = Tail(rec[w])] /\ UNCHANGED <<committed, horizon, top>>
        /\ wstate[w] \in {"committed", "publishing"}
        /\ wstate' = [wstate EXCEPT ![w] = IF Len(rec[w]) = 1 THEN "idle" ELSE "publishing"]
    BY <1>7 DEF Publish
  <2>2. /\ Tail(rec[w]) \in Seq(Sequence) /\ ToSet(Tail(rec[w])) \subseteq ToSet(rec[w])
        /\ Len(Tail(rec[w])) = Len(rec[w]) - 1
    BY <1>1, <2>1, TailHolds
  <2>3. Len(rec[w]) = 1 => Tail(rec[w]) = <<>>
    <3>1. Len(rec[w]) = 1 => Len(Tail(rec[w])) = 0
      BY <2>2
    <3>2. QED
      BY <2>2, <3>1, NoneLeft
  <2> DEFINE q == Tail(rec[w])
             to == IF Len(rec[w]) = 1 THEN "idle" ELSE "publishing"
  <2>4. to \in {"idle", "publishing"} /\ (to = "idle" => q = <<>>)
    BY <2>3
  <2>5. rec' = [rec EXCEPT ![w] = q] /\ wstate' = [wstate EXCEPT ![w] = to]
    BY <2>1
  <2>6. q \in Seq(Sequence) /\ ToSet(q) \subseteq ToSet(rec[w])
    BY <2>2
  <2> HIDE DEF q, to
  <2>7. QED
    BY <1>5, <2>1, <2>4, <2>5, <2>6
<1>8. QED
  BY <1>2, <1>3, <1>4, <1>6, <1>7 DEF WriterStep

\* The handlers and the cursor reads leave the log alone.
LEMMA FeedLeavesLog ==
    /\ \A c \in SseClients : ClientStep(c) \/ HandlerStep(c) => UNCHANGED logVars /\ UNCHANGED pollVars
    /\ \A q \in PollClients : Poll(q) \/ PollNewest(q) => UNCHANGED eventVars /\ UNCHANGED sseVars
<1>1. ASSUME NEW c \in SseClients
      PROVE  ClientStep(c) \/ HandlerStep(c) => UNCHANGED logVars /\ UNCHANGED pollVars
  BY DEF ClientStep, HandlerStep, Connect, Disconnect, StreamReplayRead, StreamReplayWrite, StreamReceive,
         StreamDropped, StreamReturn, eventVars
<1>2. ASSUME NEW q \in PollClients
      PROVE  Poll(q) \/ PollNewest(q) => UNCHANGED eventVars /\ UNCHANGED sseVars
  BY DEF Poll, PollNewest
<1>3. QED
  BY <1>1, <1>2

\* No step loses the log's shape.
LEMMA LogStep ==
    ASSUME LogInv, [Next]_vars
    PROVE  LogInv'
<1>1. CASE UNCHANGED logVars
  BY <1>1 DEF logVars, LogInv, LogTyped, SequencesFresh, InTx
<1>2. CASE EventStep
  <2>1. Shutdown => UNCHANGED logVars
    BY DEF Shutdown
  <2>2. BusClose => UNCHANGED logVars
    BY DEF BusClose
  <2>3. ASSUME NEW h \in log, Prune(h)
        PROVE  LogInv'
    <3>1. horizon' \in Nat /\ UNCHANGED <<committed, top, wstate, rec>>
      BY <2>3 DEF Prune, log, LogInv, LogTyped, Sequence
    <3>2. QED
      BY <3>1 DEF LogInv, LogTyped, SequencesFresh, InTx
  <2>4. QED
    BY <1>1, <1>2, <2>1, <2>2, <2>3, WriterLog DEF EventStep
<1>3. CASE EventCrash
  <2>1. /\ wstate' = [w \in Writers |-> "idle"] /\ rec' = [w \in Writers |-> <<>>]
        /\ UNCHANGED <<committed, horizon, top>>
    BY <1>3 DEF EventCrash
  <2>2. \A w \in Writers : wstate'[w] = "idle" /\ rec'[w] = <<>> /\ ToSet(rec'[w]) = {}
    BY <2>1, EmptyHolds
  <2>3. LogTyped'
    BY <2>1, EmptyHolds DEF LogInv, LogTyped
  <2>4. SequencesFresh'
    BY <2>2 DEF SequencesFresh
  <2>5. QED
    BY <2>1, <2>2, <2>3, <2>4 DEF LogInv, InTx
<1>4. CASE UNCHANGED vars
  BY <1>1, <1>4 DEF vars, eventVars
<1>5. CASE \/ \E c \in SseClients : ClientStep(c) \/ HandlerStep(c)
           \/ \E q \in PollClients : Poll(q) \/ PollNewest(q)
  <2>1. UNCHANGED logVars
    BY <1>5, FeedLeavesLog DEF eventVars
  <2>2. QED
    BY <1>1, <2>1
<1>6. QED
  BY <1>2, <1>3, <1>4, <1>5 DEF Next

LEMMA LogInit == Init => LogInv
<1> SUFFICES ASSUME Init PROVE LogInv
  OBVIOUS
<1>1. /\ committed = {} /\ horizon = 0 /\ top = 0
      /\ wstate = [w \in Writers |-> "idle"] /\ rec = [w \in Writers |-> <<>>]
  BY DEF Init, EventInit
<1>2. \A w \in Writers : wstate[w] = "idle" /\ rec[w] = <<>> /\ ToSet(rec[w]) = {}
  BY <1>1, EmptyHolds
<1>3. LogTyped
  BY <1>1, EmptyHolds DEF LogTyped
<1>4. SequencesFresh
  BY <1>2 DEF SequencesFresh
<1>5. QED
  BY <1>1, <1>2, <1>3, <1>4 DEF LogInv, InTx

LEMMA LogAlways == Spec => []LogInv
BY LogInit, LogStep, PTL DEF Spec

\* A sequence is never given out twice, on either backend, with any number of writers, whatever rolls back, is
\* pruned or is lost in a crash (Recorder.Emit over the table's counter).
THEOREM SequencesAreFresh == Spec => []SequencesFresh
<1>1. LogInv => SequencesFresh
  BY DEF LogInv
<1>2. QED
  BY <1>1, LogAlways, PTL

-----------------------------------------------------------------------------
(***************************************************************************)
(* The stream.  lastSent is what the client saw last, over all its         *)
(* connections; what the replay still holds lies above it, and outside of  *)
(* the replay nothing is held, so whichever event comes next extends the   *)
(* frames upwards.                                                         *)
(***************************************************************************)
FeedTyped ==
    /\ chan \in [Subscribers -> Seq(Sequence)]
    /\ fpc \in [SseClients -> FeedStates]
    /\ lastSent \in [SseClients -> Nat]
    /\ frames \in [SseClients -> Seq(Sequence)]
    /\ fpage \in [SseClients -> SUBSET Sequence]

Rising(q) == \A i, j \in DOMAIN q : i < j => q[i] < q[j]

StreamOf(c) ==
    /\ Rising(frames[c]) /\ lastSent[c] = Seen(c)
    /\ \A s \in fpage[c] : lastSent[c] < s
    /\ fpc[c] \notin {"page", "lastpage"} => fpage[c] = {}

StreamInv == FeedTyped /\ \A c \in SseClients : StreamOf(c)

\* Events that rise to their last still do with a later one.
LEMMA RisingAppend ==
    ASSUME NEW q \in Seq(Sequence), Rising(q), NEW e \in Sequence,
           (IF q = <<>> THEN 0 ELSE Last(q)) < e
    PROVE  Rising(Append(q, e)) /\ Append(q, e) # <<>> /\ Last(Append(q, e)) = e
<1> DEFINE t == Append(q, e)
<1>1. /\ t \in Seq(Sequence) /\ Len(t) = Len(q) + 1 /\ Len(q) \in Nat /\ t[Len(q) + 1] = e
      /\ \A i \in 1 .. Len(q) : t[i] = q[i]
  BY AppendHolds
<1>2. DOMAIN t = 1 .. Len(q) + 1 /\ DOMAIN q = 1 .. Len(q) /\ \A i \in 1 .. Len(q) : q[i] \in Nat
  BY <1>1 DEF Sequence
<1> HIDE DEF t
<1>3. \A i \in 1 .. Len(q) : q[i] < e
  <2> SUFFICES ASSUME NEW i \in 1 .. Len(q) PROVE q[i] < e
    OBVIOUS
  <2>1. q # <<>> /\ q[Len(q)] < e
    BY EmptyHolds, <1>1 DEF Last
  <2>2. i = Len(q) \/ i < Len(q)
    BY <1>1
  <2>3. i < Len(q) => q[i] < q[Len(q)]
    BY <1>1, <1>2 DEF Rising
  <2>4. Len(q) \in 1 .. Len(q) /\ e \in Nat
    BY <1>1 DEF Sequence
  <2>5. q[i] \in Nat /\ q[Len(q)] \in Nat
    BY <1>2, <2>4
  <2>6. CASE i = Len(q)
    BY <2>1, <2>6
  <2>7. CASE i < Len(q)
    BY <2>1, <2>3, <2>4, <2>5, <2>7
  <2>8. QED
    BY <2>2, <2>6, <2>7
<1>4. ASSUME NEW i \in DOMAIN t, NEW j \in DOMAIN t, i < j
      PROVE  t[i] < t[j]
  <2>1. i \in 1 .. Len(q) /\ (j = Len(q) + 1 \/ j \in 1 .. Len(q))
    BY <1>1, <1>2, <1>4
  <2>2. j \in 1 .. Len(q) => q[i] < q[j]
    BY <1>2, <1>4, <2>1 DEF Rising
  <2>3. QED
    BY <1>1, <1>3, <2>1, <2>2
<1>5. t # <<>> /\ Last(t) = e
  BY <1>1, EmptyHolds DEF Last
<1>6. QED
  BY <1>4, <1>5 DEF Rising, t

\* A step that writes e, which is above what c saw, and leaves of the page what is above e.
LEMMA WriteKeeps ==
    ASSUME StreamInv, NEW c \in SseClients, NEW e \in Sequence, Seen(c) < e, Write(c, e),
           chan' \in [Subscribers -> Seq(Sequence)], fpc' \in [SseClients -> FeedStates],
           NEW P \in SUBSET Sequence, fpage' = [fpage EXCEPT ![c] = P], \A s \in P : e < s,
           \A d \in SseClients \ {c} : fpc'[d] = fpc[d],
           fpc'[c] \notin {"page", "lastpage"} => P = {}
    PROVE  StreamInv'
<1>1. /\ frames'[c] = Append(frames[c], e) /\ lastSent'[c] = e /\ fpage'[c] = P
      /\ \A d \in SseClients \ {c} : frames'[d] = frames[d] /\ lastSent'[d] = lastSent[d] /\ fpage'[d] = fpage[d]
  BY DEF StreamInv, FeedTyped, Write
<1>2. frames[c] \in Seq(Sequence) /\ Rising(frames[c]) /\ e \in Nat
  BY DEF StreamInv, FeedTyped, StreamOf, Sequence
<1>3. Append(frames[c], e) \in Seq(Sequence)
  BY <1>2
<1>4. Rising(frames'[c]) /\ frames'[c] # <<>> /\ Last(frames'[c]) = e
  BY <1>1, <1>2, RisingAppend DEF Seen
<1>5. FeedTyped'
  BY <1>2, <1>3 DEF StreamInv, FeedTyped, Write
<1>6. StreamOf(c)'
  BY <1>1, <1>4 DEF StreamOf, Seen
<1>7. \A d \in SseClients \ {c} : StreamOf(d)'
  BY <1>1 DEF StreamInv, StreamOf, Seen
<1>8. QED
  BY <1>5, <1>6, <1>7 DEF StreamInv

\* A step that writes nothing and holds P of the page.
LEMMA QuietKeeps ==
    ASSUME StreamInv, NEW c \in SseClients, UNCHANGED frames,
           lastSent' = lastSent \/ lastSent' = [lastSent EXCEPT ![c] = Seen(c)],
           chan' \in [Subscribers -> Seq(Sequence)], fpc' \in [SseClients -> FeedStates],
           NEW P \in SUBSET Sequence, fpage' = [fpage EXCEPT ![c] = P], \A s \in P : lastSent[c] < s,
           \A d \in SseClients \ {c} : fpc'[d] = fpc[d],
           fpc'[c] \notin {"page", "lastpage"} => P = {}
    PROVE  StreamInv'
<1>1. lastSent[c] = Seen(c) /\ lastSent \in [SseClients -> Nat]
  BY DEF StreamInv, StreamOf, FeedTyped
<1>2. lastSent' = lastSent
  BY <1>1
<1>3. fpage'[c] = P /\ \A d \in SseClients \ {c} : fpage'[d] = fpage[d]
  BY DEF StreamInv, FeedTyped
<1>4. FeedTyped'
  BY <1>2 DEF StreamInv, FeedTyped
<1>5. QED
  BY <1>2, <1>3, <1>4 DEF StreamInv, StreamOf, Seen

\* What is on the bus is events: a subscriber's channel holds sequences.
LEMMA BusTyped ==
    ASSUME LogInv, StreamInv, EventStep \/ EventCrash
    PROVE  chan' \in [Subscribers -> Seq(Sequence)]
<1>1. chan \in [Subscribers -> Seq(Sequence)]
  BY DEF StreamInv, FeedTyped
<1>2. ASSUME NEW w \in Writers, WriterStep(w)
      PROVE  chan' \in [Subscribers -> Seq(Sequence)]
  <2>1. CASE Publish(w)
    <3>1. FanOut(Head(rec[w])) /\ Head(rec[w]) \in Sequence
      BY <2>1, TailHolds DEF Publish, LogInv, LogTyped
    <3>2. \A c \in Subscribers : Append(chan[c], Head(rec[w])) \in Seq(Sequence)
      BY <1>1, <3>1
    <3>3. QED
      BY <1>1, <3>1, <3>2 DEF FanOut
  <2>2. CASE Begin(w) \/ Emit(w) \/ Commit(w) \/ Rollback(w)
    BY <1>1, <2>2 DEF Begin, Emit, Commit, Rollback, busVars
  <2>3. QED
    BY <1>2, <2>1, <2>2 DEF WriterStep
<1>3. CASE Shutdown \/ BusClose \/ \E h \in log : Prune(h)
  BY <1>1, <1>3 DEF Shutdown, BusClose, Prune, busVars
<1>4. CASE EventCrash
  BY <1>4, EmptyHolds DEF EventCrash
<1>5. QED
  BY <1>2, <1>3, <1>4 DEF EventStep

\* No step of a client or of its handler takes a frame back or out of order.
LEMMA HandlerKeeps ==
    ASSUME LogInv, StreamInv, SseClients \subseteq Subscribers, NEW c \in SseClients, ClientStep(c) \/ HandlerStep(c)
    PROVE  StreamInv'
<1>1. /\ chan \in [Subscribers -> Seq(Sequence)] /\ chan[c] \in Seq(Sequence) /\ StreamOf(c)
      /\ fpc \in [SseClients -> FeedStates] /\ fpage \in [SseClients -> SUBSET Sequence] /\ lastSent[c] \in Nat
  BY DEF StreamInv, FeedTyped
<1> DEFINE Moves(to) == to \in FeedStates /\ fpc' = [fpc EXCEPT ![c] = to]
<1>2. ASSUME NEW to, Moves(to)
      PROVE  fpc' \in [SseClients -> FeedStates] /\ fpc'[c] = to /\ \A d \in SseClients \ {c} : fpc'[d] = fpc[d]
  BY <1>1, <1>2
<1>3. \A to : Goto(c, to) /\ to \in FeedStates => Moves(to)
  BY DEF Goto
<1> HIDE DEF Moves
<1>4. fpage = [fpage EXCEPT ![c] = fpage[c]]
  BY <1>1
<1>5. CASE Connect(c)
  <2>1. /\ chan' = [chan EXCEPT ![c] = <<>>] /\ UNCHANGED <<frames, fpage>>
        /\ lastSent' = [lastSent EXCEPT ![c] = Seen(c)] /\ fpc[c] = "away"
    BY <1>5 DEF Connect, Subscribe
  <2>2. \E to \in {"replay", "live"} : Moves(to)
    BY <1>3, <1>5 DEF Connect, FeedStates
  <2>3. PICK to \in {"replay", "live"} : fpc' \in [SseClients -> FeedStates] /\ fpc'[c] = to
                                          /\ \A d \in SseClients \ {c} : fpc'[d] = fpc[d]
    BY <1>2, <2>2
  <2>4. chan' \in [Subscribers -> Seq(Sequence)]
    BY <1>1, <2>1, EmptyHolds
  <2>5. fpage[c] = {}
    BY <1>1, <2>1 DEF StreamOf
  <2>6. fpage' = [fpage EXCEPT ![c] = {}]
    BY <1>4, <2>1, <2>5
  <2>7. QED
    BY <2>1, <2>3, <2>4, <2>6, QuietKeeps
<1>6. CASE Disconnect(c)
  <2>1. Moves("done") /\ fpage' = [fpage EXCEPT ![c] = {}] /\ UNCHANGED <<chan, lastSent, frames>>
    BY <1>3, <1>6 DEF Disconnect, FeedStates, eventVars, busVars
  <2>2. fpc' \in [SseClients -> FeedStates] /\ fpc'[c] = "done" /\ \A d \in SseClients \ {c} : fpc'[d] = fpc[d]
    BY <1>2, <2>1
  <2>3. chan' \in [Subscribers -> Seq(Sequence)] /\ {} \in SUBSET Sequence
    BY <1>1, <2>1
  <2>4. QED
    BY <2>1, <2>2, <2>3, QuietKeeps
<1>7. CASE StreamReplayRead(c)
  <2> DEFINE rows == RowsAfter(lastSent[c], PageSize)
  <2>1. rows \subseteq Sequence /\ \A s \in rows : lastSent[c] < s
    BY <1>1 DEF RowsAfter, log, LogInv, LogTyped, Sequence
  <2>2. fpc[c] = "replay" /\ UNCHANGED <<chan, lastSent, frames>>
    BY <1>7 DEF StreamReplayRead, eventVars, busVars
  <2>3. CASE Goto(c, "done") /\ UNCHANGED fpage
    <3>1. Moves("done")
      BY <1>3, <2>3 DEF FeedStates
    <3>2. fpage[c] = {}
      BY <1>1, <2>2 DEF StreamOf
    <3>3. fpage' = [fpage EXCEPT ![c] = {}]
      BY <1>4, <2>3, <3>2
    <3>4. fpc' \in [SseClients -> FeedStates] /\ fpc'[c] = "done" /\ \A d \in SseClients \ {c} : fpc'[d] = fpc[d]
      BY <1>2, <3>1
    <3>5. chan' \in [Subscribers -> Seq(Sequence)] /\ {} \in SUBSET Sequence
      BY <1>1, <2>2
    <3>6. QED
      BY <2>2, <3>3, <3>4, <3>5, QuietKeeps
  <2>4. CASE fpage' = [fpage EXCEPT ![c] = rows]
             /\ Goto(c, CASE rows = {} -> "live" [] rows # {} /\ Cardinality(rows) < PageSize -> "lastpage"
                          [] OTHER -> "page")
    <3>1. \E to \in {"live", "lastpage", "page"} : Goto(c, to) /\ (to = "live" => rows = {})
      <4>1. CASE rows = {}
        BY <2>4, <4>1
      <4>2. CASE rows # {} /\ Cardinality(rows) < PageSize
        BY <2>4, <4>2
      <4>3. CASE rows # {} /\ ~(Cardinality(rows) < PageSize)
        BY <2>4, <4>3
      <4>4. QED
        BY <4>1, <4>2, <4>3
    <3>2. PICK to \in {"live", "lastpage", "page"} : Moves(to) /\ (to = "live" => rows = {})
      BY <1>3, <3>1 DEF FeedStates
    <3> HIDE DEF rows
    <3>3. QED
      BY <1>1, <1>2, <2>1, <2>2, <2>4, <3>2, QuietKeeps
  <2>5. QED
    BY <1>7, <2>3, <2>4 DEF StreamReplayRead
<1>8. CASE StreamReplayWrite(c)
  <2>1. PICK s \in fpage[c] : IsLeast(s, fpage[c]) /\ Write(c, s) /\ fpage' = [fpage EXCEPT ![c] = fpage[c] \ {s}]
    BY <1>8 DEF StreamReplayWrite
  <2> DEFINE P == fpage[c] \ {s}
  <2>2. fpage[c] \subseteq Sequence /\ s \in Sequence /\ Seen(c) < s /\ P \in SUBSET Sequence /\ fpage'[c] = P
    BY <1>1, <2>1 DEF StreamOf
  <2>3. \A t \in P : s < t
    BY <2>1, <2>2 DEF IsLeast, Sequence
  <2>4. /\ fpc[c] \in {"page", "lastpage"} /\ UNCHANGED chan
        /\ IF P # {} THEN UNCHANGED fpc ELSE Goto(c, IF fpc[c] = "page" THEN "replay" ELSE "live")
    BY <1>8, <2>2 DEF StreamReplayWrite, eventVars, busVars
  <2> HIDE DEF P
  <2>5. /\ fpc' \in [SseClients -> FeedStates] /\ \A d \in SseClients \ {c} : fpc'[d] = fpc[d]
        /\ fpc'[c] \notin {"page", "lastpage"} => P = {}
    <3>1. CASE P # {}
      BY <1>1, <2>4, <3>1
    <3>2. CASE P = {}
      <4>1. Moves(IF fpc[c] = "page" THEN "replay" ELSE "live")
        BY <1>3, <2>4, <3>2 DEF FeedStates
      <4>2. QED
        BY <1>2, <3>2, <4>1
    <3>3. QED
      BY <3>1, <3>2
  <2>6. QED
    BY <1>1, <2>1, <2>2, <2>3, <2>4, <2>5, WriteKeeps DEF P
<1>9. CASE StreamReceive(c)
  <2> DEFINE e == Head(chan[c])
  <2>1. /\ fpc[c] = "live" /\ chan[c] # <<>> /\ chan' = [chan EXCEPT ![c] = Tail(chan[c])] /\ UNCHANGED <<fpc, fpage>>
        /\ IF e <= lastSent[c] THEN UNCHANGED <<frames, lastSent>> ELSE Write(c, e)
    BY <1>9 DEF StreamReceive
  <2>2. Tail(chan[c]) \in Seq(Sequence) /\ e \in Sequence
    BY <1>1, <2>1, TailHolds
  <2> HIDE DEF e
  <2>3. chan' \in [Subscribers -> Seq(Sequence)]
    BY <1>1, <2>1, <2>2
  <2>4. fpage[c] = {} /\ lastSent[c] = Seen(c)
    BY <1>1, <2>1 DEF StreamOf
  <2>5. fpage' = [fpage EXCEPT ![c] = {}] /\ fpc' \in [SseClients -> FeedStates]
    BY <1>1, <1>4, <2>1, <2>4
  <2>6. CASE e <= lastSent[c]
    BY <2>1, <2>3, <2>5, <2>6, QuietKeeps
  <2>7. CASE ~(e <= lastSent[c])
    <3>1. Seen(c) < e
      BY <1>1, <2>2, <2>4, <2>7 DEF Sequence
    <3>2. QED
      BY <2>1, <2>2, <2>3, <2>5, <2>7, <3>1, WriteKeeps
  <2>8. QED
    BY <2>6, <2>7
<1>10. CASE StreamDropped(c) \/ StreamReturn(c)
  <2>1. /\ fpc[c] \in {"live", "done"} /\ UNCHANGED <<lastSent, frames, fpage>>
        /\ \E to \in {"done", "away"} : Moves(to)
        /\ chan' = chan \/ chan' = [chan EXCEPT ![c] = <<>>]
    BY <1>3, <1>10 DEF StreamDropped, StreamReturn, Cancel, FeedStates, eventVars, busVars
  <2>2. fpage[c] = {}
    BY <1>1, <2>1 DEF StreamOf
  <2>3. fpage' = [fpage EXCEPT ![c] = {}]
    BY <1>4, <2>1, <2>2
  <2>4. chan' \in [Subscribers -> Seq(Sequence)]
    BY <1>1, <2>1, EmptyHolds
  <2>5. QED
    BY <1>2, <2>1, <2>3, <2>4, QuietKeeps
<1>11. QED
  BY <1>5, <1>6, <1>7, <1>8, <1>9, <1>10 DEF ClientStep, HandlerStep

\* No step at all does.
LEMMA StreamStep ==
    ASSUME LogInv, StreamInv, SseClients \subseteq Subscribers, [Next]_vars
    PROVE  StreamInv'
<1>1. ASSUME UNCHANGED sseVars, chan' \in [Subscribers -> Seq(Sequence)]
      PROVE  StreamInv'
  BY <1>1 DEF sseVars, StreamInv, FeedTyped, StreamOf, Seen
<1>2. chan \in [Subscribers -> Seq(Sequence)]
  BY DEF StreamInv, FeedTyped
<1>3. CASE EventStep /\ UNCHANGED feedVars
  BY <1>1, <1>3, BusTyped DEF feedVars
<1>4. CASE EventCrash /\ FeedCrash
  <2>1. chan' \in [Subscribers -> Seq(Sequence)]
    BY <1>4, BusTyped
  <2>2. /\ fpc' = [c \in SseClients |-> "away"] /\ fpage' = [c \in SseClients |-> {}]
        /\ UNCHANGED <<lastSent, frames>>
    BY <1>4 DEF FeedCrash
  <2>3. FeedTyped'
    BY <2>1, <2>2 DEF StreamInv, FeedTyped, FeedStates
  <2>4. QED
    BY <2>2, <2>3 DEF StreamInv, StreamOf, Seen
<1>5. CASE \E c \in SseClients : ClientStep(c) \/ HandlerStep(c)
  BY <1>5, HandlerKeeps
<1>6. CASE \E q \in PollClients : Poll(q) \/ PollNewest(q)
  <2>1. UNCHANGED eventVars /\ UNCHANGED sseVars
    BY <1>6, FeedLeavesLog
  <2>2. QED
    BY <1>1, <1>2, <2>1 DEF eventVars, busVars
<1>7. CASE UNCHANGED vars
  BY <1>1, <1>2, <1>7 DEF vars, eventVars, busVars, feedVars
<1>8. QED
  BY <1>3, <1>4, <1>5, <1>6, <1>7 DEF Next

LEMMA StreamInit == Init => StreamInv
<1> SUFFICES ASSUME Init PROVE StreamInv
  OBVIOUS
<1>1. /\ chan = [c \in Subscribers |-> <<>>] /\ fpc = [c \in SseClients |-> "away"]
      /\ lastSent = [c \in SseClients |-> 0] /\ frames = [c \in SseClients |-> <<>>]
      /\ fpage = [c \in SseClients |-> {}]
  BY DEF Init, EventInit, FeedInit
<1>2. FeedTyped
  BY <1>1, EmptyHolds DEF FeedTyped, FeedStates
<1>3. Rising(<<>>)
  BY DEF Rising
<1>4. QED
  BY <1>1, <1>2, <1>3 DEF StreamInv, StreamOf, Seen

\* A client of the stream sees the events in sequence order and none twice, over all its reconnections and the
\* crashes of the process, with any number of writers, either backend and failing reads (handleEventStream).
THEOREM StreamsInOrder ==
    ASSUME SseClients \subseteq Subscribers
    PROVE  Spec => []StreamInOrder
<1>1. Init => LogInv /\ StreamInv
  BY LogInit, StreamInit
<1>2. LogInv /\ StreamInv /\ [Next]_vars => (LogInv /\ StreamInv)'
  BY LogStep, StreamStep
<1>3. StreamInv => StreamInOrder
  BY DEF StreamInv, StreamOf, Rising, StreamInOrder
<1>4. QED
  BY <1>1, <1>2, <1>3, PTL DEF Spec

-----------------------------------------------------------------------------
(***************************************************************************)
(* The cursor read.  Where a transaction's sequences lie above everything  *)
(* committed, what is committed later lies above every cursor.             *)
(***************************************************************************)
\* The events of one transaction are out before those of the next are taken.
OneWriter == \A v, w \in Writers : v = w

\* SQLite's one writing transaction, or one writer.
Serial == Backend = "sqlite" \/ OneWriter

Ahead == \A w \in Writers : InTx(w) => \A s \in ToSet(rec[w]), t \in committed : t < s

PollTyped ==
    /\ cursor \in [PollClients -> Nat]
    /\ from \in [PollClients -> Nat]
    /\ got \in [PollClients -> SUBSET Sequence]

PollInv ==
    /\ PollTyped
    /\ \A q \in PollClients : cursor[q] \in committed \cup {0}
    /\ PollNoGap

\* On SQLite a transaction's sequences lie above the counter.
LEMMA AheadOnSqlite ==
    ASSUME LogInv, Backend = "sqlite"
    PROVE  Ahead
<1> SUFFICES ASSUME NEW w \in Writers, InTx(w), NEW s \in ToSet(rec[w]), NEW t \in committed
             PROVE  t < s
  BY DEF Ahead
<1>1. top < s /\ t <= top
  BY SqliteRows DEF LogInv
<1>2. s \in Nat /\ t \in Nat /\ top \in Nat
  BY DEF LogInv, LogTyped, Sequence, ToSet
<1>3. QED
  BY <1>1, <1>2

\* One writer takes a sequence only above what it committed.
LEMMA AheadAlone ==
    ASSUME LogInv, Ahead, OneWriter, [Next]_vars
    PROVE  Ahead'
<1>1. ASSUME UNCHANGED <<committed, wstate, rec>> PROVE Ahead'
  BY <1>1 DEF Ahead, InTx
<1>2. ASSUME NEW w \in Writers, WriterStep(w)
      PROVE  Ahead'
  <2>1. \A v \in Writers : v = w
    BY DEF OneWriter
  <2>2. wstate \in [Writers -> {"idle", "tx", "committed", "publishing"}] /\ rec \in [Writers -> Seq(Sequence)]
    BY DEF LogInv, LogTyped
  <2>3. CASE Begin(w)
    <3>1. rec' = rec /\ rec[w] = <<>>
      BY <2>3 DEF Begin, LogInv
    <3>2. QED
      BY <2>1, <3>1, EmptyHolds DEF Ahead
  <2>4. CASE Emit(w)
    <3> DEFINE n == NextSeq(w)
    <3>1. /\ InTx(w) /\ rec' = [rec EXCEPT ![w] = Append(@, n)] /\ committed' = committed
      BY <2>4 DEF Emit, InTx
    <3>2. n \in Sequence /\ top < n /\ top \in Nat /\ n \in Nat
      <4>1. Len(rec[w]) \in Nat /\ top \in Nat
        BY <2>2 DEF LogInv, LogTyped
      <4>2. QED
        BY <4>1 DEF NextSeq, Sequence
    <3> HIDE DEF n
    <3>3. ToSet(rec'[w]) = ToSet(rec[w]) \cup {n}
      BY <2>2, <3>1, <3>2, AppendHolds
    <3>4. \A t \in committed : t \in Nat /\ t <= top
      BY DEF LogInv, LogTyped, Sequence
    <3>5. \A t \in committed : t < n
      BY <3>2, <3>4
    <3>6. QED
      BY <2>1, <3>1, <3>3, <3>5 DEF Ahead
  <2>5. CASE Commit(w)
    <3>1. wstate' = [wstate EXCEPT ![w] = IF rec[w] = <<>> THEN "idle" ELSE "committed"]
      BY <2>5 DEF Commit
    <3>2. wstate'[w] # "tx"
      BY <2>2, <3>1
    <3>3. QED
      BY <2>1, <3>2 DEF Ahead, InTx
  <2>6. CASE Rollback(w)
    <3>1. wstate'[w] # "tx"
      BY <2>2, <2>6 DEF Rollback
    <3>2. QED
      BY <2>1, <3>1 DEF Ahead, InTx
  <2>7. CASE Publish(w)
    <3>1. wstate' = [wstate EXCEPT ![w] = IF Len(rec[w]) = 1 THEN "idle" ELSE "publishing"]
      BY <2>7 DEF Publish
    <3>2. wstate'[w] # "tx"
      BY <2>2, <3>1
    <3>3. QED
      BY <2>1, <3>2 DEF Ahead, InTx
  <2>8. QED
    BY <1>2, <2>3, <2>4, <2>5, <2>6, <2>7 DEF WriterStep
<1>3. CASE Shutdown \/ BusClose \/ \E h \in log : Prune(h)
  <2>1. UNCHANGED <<committed, wstate, rec>>
    BY <1>3 DEF Shutdown, BusClose, Prune, logVars
  <2>2. QED
    BY <1>1, <2>1
<1>4. CASE EventCrash
  BY <1>4 DEF EventCrash, Ahead, InTx
<1>5. CASE \/ \E c \in SseClients : ClientStep(c) \/ HandlerStep(c)
           \/ \E q \in PollClients : Poll(q) \/ PollNewest(q)
           \/ UNCHANGED vars
  <2>1. UNCHANGED logVars
    BY <1>5, FeedLeavesLog DEF vars, eventVars
  <2>2. QED
    BY <1>1, <2>1 DEF logVars
<1>6. QED
  BY <1>2, <1>3, <1>4, <1>5 DEF Next, EventStep

\* A page and the tail of the log leave out nothing between their first and their last row.
LEMMA PageWhole ==
    ASSUME LogInv, NEW after \in Nat, NEW s \in RowsAfter(after, PageSize), NEW t \in log, after < t, t <= s
    PROVE  t \in RowsAfter(after, PageSize)
<1> DEFINE rows == {u \in log : u > after}
           B == {u \in rows : u < s}
           A == {u \in rows : u < t}
<1>1. /\ \A u \in log : u \in Nat /\ u <= top
      /\ top \in Nat /\ s \in rows /\ Cardinality(B) < PageSize
  BY DEF LogInv, LogTyped, Sequence, log, RowsAfter
<1>2. B \in SUBSET Nat /\ \A u \in B : u <= top
  BY <1>1
<1>3. IsFiniteSet(B)
  BY <1>1, <1>2, FS_BoundedSetOfNaturals
<1>4. A \subseteq B /\ t \in rows
  BY <1>1
<1> HIDE DEF A, B
<1>5. Cardinality(A) < PageSize
  BY <1>1, <1>3, <1>4, FewerOnOneSide, LogAssumption
<1>6. QED
  BY <1>4, <1>5 DEF A, RowsAfter

LEMMA TailWhole ==
    ASSUME LogInv, NEW s \in log, Cardinality({u \in log : u > s}) < PageSize, NEW t \in log, s <= t
    PROVE  Cardinality({u \in log : u > t}) < PageSize
<1> DEFINE B == {u \in log : u > s}
           A == {u \in log : u > t}
<1>1. (\A u \in log : u \in Nat /\ u <= top) /\ top \in Nat
  BY DEF LogInv, LogTyped, Sequence, log
<1>2. B \in SUBSET Nat /\ \A u \in B : u <= top
  BY <1>1
<1>3. IsFiniteSet(B)
  BY <1>1, <1>2, FS_BoundedSetOfNaturals
<1>4. A \subseteq B
  BY <1>1
<1> HIDE DEF A, B
<1>5. Cardinality(B) < PageSize
  BY DEF B
<1>6. Cardinality(A) < PageSize
  BY <1>3, <1>4, <1>5, FewerOnOneSide, LogAssumption
<1>7. QED
  BY <1>6 DEF A

\* What is committed later lies above every cursor.
LEMMA LogKeeps ==
    ASSUME LogInv, PollInv, UNCHANGED pollVars, committed \subseteq committed',
           \A s \in log' : s \in log \/ (s # 0 /\ s \in Nat /\ \A t \in committed : t < s)
    PROVE  PollInv'
<1>1. PollTyped'
  BY DEF PollInv, PollTyped, pollVars
<1>2. \A q \in PollClients : cursor'[q] \in committed' \cup {0}
  BY DEF PollInv, pollVars
<1>3. ASSUME NEW q \in PollClients, NEW s \in log', from'[q] < s, s <= cursor'[q]
      PROVE  s \in got'[q]
  <2>1. cursor'[q] = cursor[q] /\ from'[q] = from[q] /\ got'[q] = got[q] /\ cursor[q] \in committed \cup {0}
    BY DEF PollInv, pollVars
  <2>2. s \in log
    <3>1. SUFFICES ASSUME s # 0, s \in Nat, \A t \in committed : t < s PROVE FALSE
      OBVIOUS
    <3>2. cursor[q] \in Nat /\ s <= cursor[q] /\ (cursor[q] = 0 \/ cursor[q] < s)
      BY <1>3, <2>1, <3>1 DEF PollInv, PollTyped
    <3>3. QED
      BY <3>1, <3>2
  <2>3. QED
    BY <1>3, <2>1, <2>2 DEF PollInv, PollNoGap
<1>4. QED
  BY <1>1, <1>2, <1>3 DEF PollInv, PollNoGap

LEMMA PollKeeps ==
    ASSUME LogInv, PollInv, NEW q \in PollClients, Poll(q) \/ PollNewest(q)
    PROVE  PollInv'
<1>1. /\ \A s \in log : s \in Nat /\ s # 0 /\ s <= top /\ s \in committed /\ s \in Sequence
      /\ top \in Nat /\ PollTyped /\ cursor[q] \in Nat /\ from[q] \in Nat /\ got[q] \in SUBSET Sequence
  BY DEF LogInv, LogTyped, Sequence, log, PollInv, PollTyped
<1>2. log' = log /\ committed' = committed
  BY FeedLeavesLog DEF eventVars, logVars, log
<1>3. ASSUME NEW c \in Nat, NEW f \in Nat, NEW g \in SUBSET Sequence, c \in committed \cup {0},
             cursor' = [cursor EXCEPT ![q] = c], from' = [from EXCEPT ![q] = f], got' = [got EXCEPT ![q] = g],
             \A s \in log : f < s /\ s <= c => s \in g
      PROVE  PollInv'
  <2>1. /\ cursor'[q] = c /\ from'[q] = f /\ got'[q] = g
        /\ \A p \in PollClients \ {q} : cursor'[p] = cursor[p] /\ from'[p] = from[p] /\ got'[p] = got[p]
    BY <1>1, <1>3 DEF PollTyped
  <2>2. PollTyped'
    BY <1>1, <1>3 DEF PollTyped
  <2>3. QED
    BY <1>2, <1>3, <2>1, <2>2 DEF PollInv, PollNoGap
<1>4. CASE Poll(q)
  <2> DEFINE rows == RowsAfter(cursor[q], PageSize)
  <2>1. /\ rows # {} /\ got' = [got EXCEPT ![q] = got[q] \cup rows] /\ cursor' = [cursor EXCEPT ![q] = Max(rows)]
        /\ from' = from
    BY <1>4 DEF Poll
  <2>2. rows \subseteq log
    BY DEF RowsAfter
  <2>3. rows \subseteq 0 .. top
    BY <1>1, <2>2
  <2>4. Max(rows) \in rows
    BY <1>1, <2>1, <2>3, Extremes
  <2>5. Max(rows) \in Nat /\ Max(rows) \in committed \cup {0} /\ got[q] \cup rows \in SUBSET Sequence
    BY <1>1, <2>2, <2>4
  <2>6. ASSUME NEW s \in log, from[q] < s, s <= Max(rows)
        PROVE  s \in got[q] \cup rows
    <3>1. CASE s <= cursor[q]
      BY <2>6, <3>1 DEF PollInv, PollNoGap
    <3>2. CASE cursor[q] < s
      BY <1>1, <2>4, <2>6, <3>2, PageWhole
    <3>3. QED
      BY <1>1, <3>1, <3>2
  <2>7. from' = [from EXCEPT ![q] = from[q]]
    BY <1>1, <2>1 DEF PollTyped
  <2> HIDE DEF rows
  <2>8. QED
    BY <1>1, <1>3, <2>1, <2>5, <2>6, <2>7
<1>5. CASE PollNewest(q)
  <2> DEFINE rows == {s \in log : Cardinality({t \in log : t > s}) < PageSize}
  <2>1. /\ rows # {} /\ got' = [got EXCEPT ![q] = rows] /\ cursor' = [cursor EXCEPT ![q] = Max(rows)]
        /\ from' = [from EXCEPT ![q] = Min(rows) - 1]
    BY <1>5 DEF PollNewest
  <2>2. rows \subseteq log
    OBVIOUS
  <2>3. rows \subseteq 0 .. top
    BY <1>1, <2>2
  <2>4. Max(rows) \in rows /\ Min(rows) \in rows
    BY <1>1, <2>1, <2>3, Extremes
  <2>5. /\ Max(rows) \in Nat /\ Max(rows) \in committed \cup {0} /\ rows \in SUBSET Sequence
        /\ Min(rows) \in Nat /\ Min(rows) - 1 \in Nat
    BY <1>1, <2>2, <2>4
  <2>6. ASSUME NEW s \in log, Min(rows) - 1 < s, s <= Max(rows)
        PROVE  s \in rows
    <3>1. Min(rows) <= s
      BY <1>1, <2>5, <2>6
    <3>2. QED
      BY <2>4, <3>1, TailWhole
  <2> HIDE DEF rows
  <2>7. QED
    BY <1>3, <2>1, <2>5, <2>6
<1>6. QED
  BY <1>4, <1>5

LEMMA PollStep ==
    ASSUME LogInv, Ahead, PollInv, [Next]_vars
    PROVE  PollInv'
<1>1. ASSUME UNCHANGED pollVars, UNCHANGED <<committed, horizon>> PROVE PollInv'
  BY <1>1, LogKeeps DEF log
<1>2. ASSUME NEW w \in Writers, WriterStep(w), UNCHANGED pollVars
      PROVE  PollInv'
  <2>1. CASE Commit(w)
    <3>1. /\ InTx(w) /\ committed' = committed \cup ToSet(rec[w]) /\ horizon' = horizon
          /\ ToSet(rec[w]) \subseteq Sequence
      BY <2>1 DEF Commit, InTx, LogInv, LogTyped, ToSet
    <3>2. \A s \in log' : s \in log \/ s \in ToSet(rec[w])
      BY <3>1 DEF log
    <3>3. \A s \in ToSet(rec[w]) : s # 0 /\ s \in Nat /\ \A t \in committed : t < s
      BY <3>1 DEF Ahead, Sequence
    <3>4. QED
      BY <1>2, <3>1, <3>2, <3>3, LogKeeps
  <2>2. CASE Begin(w) \/ Emit(w) \/ Rollback(w) \/ Publish(w)
    BY <1>1, <1>2, <2>2 DEF Begin, Emit, Rollback, Publish
  <2>3. QED
    BY <1>2, <2>1, <2>2 DEF WriterStep
<1>3. CASE (Shutdown \/ BusClose) /\ UNCHANGED pollVars
  BY <1>1, <1>3 DEF Shutdown, BusClose, logVars
<1>4. ASSUME NEW h \in log, Prune(h), UNCHANGED pollVars
      PROVE  PollInv'
  <2>1. committed' = committed /\ horizon' = h /\ h > horizon /\ h \in Nat /\ horizon \in Nat
    BY <1>4 DEF Prune, log, LogInv, LogTyped, Sequence
  <2>2. \A s \in committed : s \in Nat
    BY DEF LogInv, LogTyped, Sequence
  <2>3. log' \subseteq log
    <3>1. \A s \in committed : s > h => s > horizon
      BY <2>1, <2>2
    <3>2. log' = {s \in committed : s > h}
      BY <2>1 DEF log
    <3>3. QED
      BY <3>1, <3>2 DEF log
  <2>4. QED
    BY <1>4, <2>1, <2>3, LogKeeps
<1>5. CASE EventCrash /\ FeedCrash
  BY <1>1, <1>5 DEF EventCrash, FeedCrash
<1>6. CASE \E c \in SseClients : ClientStep(c) \/ HandlerStep(c)
  BY <1>1, <1>6, FeedLeavesLog DEF logVars
<1>7. CASE \E q \in PollClients : Poll(q) \/ PollNewest(q)
  BY <1>7, PollKeeps
<1>8. CASE UNCHANGED vars
  BY <1>1, <1>8 DEF vars, eventVars, logVars, feedVars
<1>9. QED
  BY <1>2, <1>3, <1>4, <1>5, <1>6, <1>7, <1>8 DEF Next, EventStep, feedVars

LEMMA PollInit == Init => PollInv /\ Ahead
<1> SUFFICES ASSUME Init PROVE PollInv /\ Ahead
  OBVIOUS
<1>1. /\ cursor = [q \in PollClients |-> 0] /\ from = [q \in PollClients |-> 0] /\ got = [q \in PollClients |-> {}]
      /\ committed = {} /\ wstate = [w \in Writers |-> "idle"]
  BY DEF Init, EventInit, FeedInit
<1>2. QED
  BY <1>1 DEF PollInv, PollTyped, PollNoGap, log, Ahead, InTx

\* A client of GET /events that follows `next` has every event of the log up to its cursor, whatever is pruned
\* or lost in between, with any page size: on SQLite, or with one writer on either backend (listEvents,
\* recentEvents).
THEOREM PollsHaveNoGap ==
    ASSUME Serial
    PROVE  Spec => []PollNoGap
<1>1. CASE Backend = "sqlite"
  <2>1. LogInv => Ahead
    BY <1>1, AheadOnSqlite
  <2>2. Init => PollInv
    BY PollInit
  <2>3. LogInv /\ Ahead /\ PollInv /\ [Next]_vars => PollInv'
    BY PollStep
  <2>4. PollInv => PollNoGap
    BY DEF PollInv
  <2>5. QED
    BY <2>1, <2>2, <2>3, <2>4, LogAlways, PTL DEF Spec
<1>2. CASE OneWriter
  <2>1. LogInv /\ Ahead /\ [Next]_vars => Ahead'
    BY <1>2, AheadAlone
  <2>2. Init => PollInv /\ Ahead
    BY PollInit
  <2>3. LogInv /\ Ahead /\ PollInv /\ [Next]_vars => PollInv'
    BY PollStep
  <2>4. PollInv => PollNoGap
    BY DEF PollInv
  <2>5. QED
    BY <2>1, <2>2, <2>3, <2>4, LogAlways, PTL DEF Spec
<1>3. QED
  BY <1>1, <1>2 DEF Serial

-----------------------------------------------------------------------------
(***************************************************************************)
(* The stream leaves nothing out, with one writer.  What the log gains is  *)
(* above everything it has, and is on the bus, in order, before the next   *)
(* of it; so from the moment a replay has caught up with the log, all that *)
(* a client is owed waits in its channel or is still to be published, or   *)
(* its channel is closed and holds the first part of it.                   *)
(***************************************************************************)
\* w has still to publish what it committed.
Due(w) == wstate[w] \in {"committed", "publishing"}

\* What a writer holds rises, and once committed it is the end of the log.
RecOf(w) ==
    /\ Rising(rec[w])
    /\ Due(w) => \A s \in committed, r \in ToSet(rec[w]) : r <= s => s \in ToSet(rec[w])

\* What waits for c rises, is committed and lies below what is still to be published.
BusOf(c) ==
    /\ Rising(chan[c]) /\ ToSet(chan[c]) \subseteq committed
    /\ \A w \in Writers : Due(w) => \A x \in ToSet(chan[c]), r \in ToSet(rec[w]) : x < r

\* s is still to come to c, which has something earlier or is about to get it.
Owed(c, s) ==
    /\ s \in log /\ lastSent[c] < s /\ s \notin fpage[c]
    /\ frames[c] # <<>> \/ fpage[c] # {} \/ \E x \in ToSet(chan[c]) : x <= s

\* It does so before everything later, unless the channel is closed before.
Comes(c, s) ==
    /\ \A x \in ToSet(chan[c]) : s <= x => s \in ToSet(chan[c])
    /\ open[c] => s \in ToSet(chan[c]) \/ \E w \in Writers : Due(w) /\ s \in ToSet(rec[w])

GapOf(c) ==
    /\ lastSent[c] \in committed \cup {0} /\ fpage[c] \subseteq committed
    /\ frames[c] # <<>> => \A s \in log : Head(frames[c]) <= s /\ s <= lastSent[c] => s \in ToSet(frames[c])
    /\ \A s \in log, p \in fpage[c] : lastSent[c] < s /\ s <= p => s \in fpage[c]
    /\ fpc[c] \in {"lastpage", "live"} => \A s \in log : Owed(c, s) => Comes(c, s)

AllRec == \A w \in Writers : RecOf(w)
AllBus == open \in [Subscribers -> BOOLEAN] /\ \A c \in SseClients : BusOf(c)
AllGap == \A c \in SseClients : GapOf(c)

\* What rises still does without its first.
LEMMA RisingTail ==
    ASSUME NEW q \in Seq(Sequence), Rising(q), q # <<>>
    PROVE  /\ Rising(Tail(q)) /\ \A x \in ToSet(Tail(q)) : Head(q) < x
           /\ ToSet(q) = ToSet(Tail(q)) \cup {Head(q)} /\ Head(q) \in Sequence /\ Tail(q) \in Seq(Sequence)
<1>1. /\ Head(q) \in Sequence /\ Tail(q) \in Seq(Sequence) /\ Len(Tail(q)) = Len(q) - 1 /\ Len(q) \in Nat
      /\ Len(q) # 0 /\ Head(q) = q[1]
      /\ \A i \in 1 .. Len(Tail(q)) : Tail(q)[i] = q[i + 1]
  OBVIOUS
<1>2. DOMAIN Tail(q) = 1 .. Len(Tail(q)) /\ DOMAIN q = 1 .. Len(q)
  BY <1>1
<1>3. ASSUME NEW i \in DOMAIN Tail(q), NEW j \in DOMAIN Tail(q), i < j
      PROVE  Tail(q)[i] < Tail(q)[j]
  <2>1. i + 1 \in DOMAIN q /\ j + 1 \in DOMAIN q /\ i + 1 < j + 1
    BY <1>1, <1>2, <1>3
  <2>2. q[i + 1] < q[j + 1]
    BY <2>1 DEF Rising
  <2>3. QED
    BY <1>1, <1>2, <2>2
<1>4. ASSUME NEW i \in DOMAIN Tail(q)
      PROVE  Head(q) < Tail(q)[i] /\ Tail(q)[i] \in ToSet(q)
  <2>1. i + 1 \in DOMAIN q /\ 1 \in DOMAIN q /\ 1 < i + 1
    BY <1>1, <1>2
  <2>2. q[1] < q[i + 1]
    BY <2>1 DEF Rising
  <2>3. QED
    BY <1>1, <1>2, <2>1, <2>2 DEF ToSet
<1>5. ASSUME NEW i \in DOMAIN q
      PROVE  q[i] \in ToSet(Tail(q)) \cup {Head(q)}
  <2>1. i = 1 \/ i - 1 \in DOMAIN Tail(q)
    BY <1>1, <1>2
  <2>2. i - 1 \in DOMAIN Tail(q) => Tail(q)[i - 1] = q[i]
    BY <1>1, <1>2
  <2>3. QED
    BY <1>1, <2>1, <2>2 DEF ToSet
<1>6. Head(q) \in ToSet(q)
  BY <1>1, <1>2 DEF ToSet
<1>7. ToSet(q) \subseteq ToSet(Tail(q)) \cup {Head(q)}
  BY <1>5 DEF ToSet
<1>8. ToSet(Tail(q)) \subseteq ToSet(q) /\ \A x \in ToSet(Tail(q)) : Head(q) < x
  BY <1>4 DEF ToSet
<1>9. QED
  BY <1>1, <1>3, <1>6, <1>7, <1>8 DEF Rising

\* What rises still does with something above all of it.
LEMMA RisingAbove ==
    ASSUME NEW q \in Seq(Sequence), Rising(q), NEW e \in Sequence, \A x \in ToSet(q) : x < e
    PROVE  Rising(Append(q, e)) /\ Append(q, e) \in Seq(Sequence) /\ ToSet(Append(q, e)) = ToSet(q) \cup {e}
<1>1. (IF q = <<>> THEN 0 ELSE Last(q)) < e
  <2>1. CASE q = <<>>
    BY <2>1 DEF Sequence
  <2>2. CASE q # <<>>
    <3>1. Len(q) \in DOMAIN q
      BY <2>2
    <3>2. Last(q) \in ToSet(q)
      BY <3>1 DEF Last, ToSet
    <3>3. QED
      BY <2>2, <3>2
  <2>3. QED
    BY <2>1, <2>2
<1>2. Rising(Append(q, e))
  BY <1>1, RisingAppend
<1>3. QED
  BY <1>2, AppendHolds

LEMMA Members ==
    ASSUME NEW S, NEW q \in Seq(S)
    PROVE  ToSet(q) \subseteq S
<1>1. DOMAIN q = 1 .. Len(q) /\ \A i \in 1 .. Len(q) : q[i] \in S
  OBVIOUS
<1>2. QED
  BY <1>1 DEF ToSet

LEMMA RisingEmpty == Rising(<<>>) /\ ToSet(<<>>) = {}
BY EmptyHolds DEF Rising

\* The writer holds what it emits in order, and what it committed is the end of the log.
LEMMA RecStep ==
    ASSUME OneWriter, LogInv, Ahead, AllRec, [Next]_vars
    PROVE  AllRec'
<1>1. ASSUME UNCHANGED <<committed, wstate, rec>> PROVE AllRec'
  BY <1>1 DEF AllRec, RecOf, Due
<1>2. ASSUME NEW w \in Writers, WriterStep(w)
      PROVE  AllRec'
  <2>1. \A v \in Writers : v = w
    BY DEF OneWriter
  <2>2. SUFFICES RecOf(w)'
    BY <2>1 DEF AllRec
  <2>3. /\ wstate \in [Writers -> {"idle", "tx", "committed", "publishing"}] /\ rec \in [Writers -> Seq(Sequence)]
        /\ rec[w] \in Seq(Sequence) /\ Len(rec[w]) \in Nat /\ top \in Nat /\ Rising(rec[w])
        /\ DOMAIN rec[w] = 1 .. Len(rec[w]) /\ RecOf(w)
    BY DEF LogInv, LogTyped, AllRec, RecOf
  <2>4. CASE Begin(w) \/ Rollback(w)
    <3>1. ~Due(w)' /\ (rec'[w] = rec[w] \/ rec'[w] = <<>>)
      BY <2>3, <2>4 DEF Begin, Rollback, Due
    <3>2. QED
      BY <2>3, <3>1, RisingEmpty DEF RecOf
  <2>5. CASE Emit(w)
    <3> DEFINE n == NextSeq(w)
    <3>1. InTx(w) /\ rec' = [rec EXCEPT ![w] = Append(rec[w], n)] /\ wstate' = wstate
      BY <2>5 DEF Emit, InTx
    <3>2. n = (IF Backend = "sqlite" THEN top + Len(rec[w]) + 1 ELSE top + 1) /\ n \in Sequence
      BY <2>3 DEF NextSeq, Sequence
    <3> HIDE DEF n
    <3>3. \A x \in ToSet(rec[w]) : x < n
      <4>1. \A x \in ToSet(rec[w]) : x \in Nat
        BY <2>3 DEF ToSet, Sequence
      <4>2. CASE Backend = "sqlite"
        BY <2>3, <3>1, <3>2, <4>1, <4>2, SqliteRows
      <4>3. CASE Backend # "sqlite"
        BY <2>3, <3>2, <4>1, <4>3 DEF LogInv
      <4>4. QED
        BY <4>2, <4>3
    <3>4. Rising(rec'[w])
      BY <2>3, <3>1, <3>2, <3>3, RisingAbove
    <3>5. ~Due(w)'
      BY <3>1 DEF Due, InTx
    <3>6. QED
      BY <3>4, <3>5 DEF RecOf
  <2>6. CASE Commit(w)
    <3>1. InTx(w) /\ rec' = rec /\ committed' = committed \cup ToSet(rec[w])
      BY <2>6 DEF Commit, InTx
    <3>2. \A s \in committed, r \in ToSet(rec[w]) : s < r /\ s \in Nat /\ r \in Nat
      <4>1. \A s \in committed, r \in ToSet(rec[w]) : s < r
        BY <3>1 DEF Ahead
      <4>2. \A s \in committed : s \in Nat
        BY DEF LogInv, LogTyped, Sequence
      <4>3. \A r \in ToSet(rec[w]) : r \in Nat
        BY <2>3, Members DEF Sequence
      <4>4. QED
        BY <4>1, <4>2, <4>3
    <3>3. \A s \in committed', r \in ToSet(rec[w]) : r <= s => s \in ToSet(rec[w])
      BY <3>1, <3>2
    <3>4. QED
      BY <2>3, <3>1, <3>3 DEF RecOf
  <2>7. CASE Publish(w)
    <3>1. Due(w) /\ rec[w] # <<>> /\ rec'[w] = Tail(rec[w]) /\ committed' = committed
      BY <2>3, <2>7 DEF Publish, Due
    <3>2. /\ Rising(Tail(rec[w])) /\ \A x \in ToSet(Tail(rec[w])) : Head(rec[w]) < x
          /\ ToSet(rec[w]) = ToSet(Tail(rec[w])) \cup {Head(rec[w])} /\ Head(rec[w]) \in Sequence
          /\ Tail(rec[w]) \in Seq(Sequence)
      BY <2>3, <3>1, RisingTail
    <3>3. ASSUME NEW s \in committed, NEW r \in ToSet(Tail(rec[w])), r <= s
          PROVE  s \in ToSet(Tail(rec[w]))
      <4>1. s \in ToSet(rec[w])
        BY <2>3, <3>1, <3>2, <3>3 DEF RecOf
      <4>2. s # Head(rec[w])
        <5>1. r \in Nat /\ Head(rec[w]) \in Nat /\ s \in Nat
          BY <3>2, Members DEF Sequence, LogInv, LogTyped
        <5>2. QED
          BY <3>2, <3>3, <5>1
      <4>3. QED
        BY <3>2, <4>1, <4>2
    <3>4. QED
      BY <3>1, <3>2, <3>3 DEF RecOf
  <2>8. QED
    BY <1>2, <2>4, <2>5, <2>6, <2>7 DEF WriterStep
<1>3. CASE Shutdown \/ BusClose \/ \E h \in log : Prune(h)
  <2>1. UNCHANGED <<committed, wstate, rec>>
    BY <1>3 DEF Shutdown, BusClose, Prune, logVars
  <2>2. QED
    BY <1>1, <2>1
<1>4. CASE EventCrash
  BY <1>4, RisingEmpty DEF EventCrash, AllRec, RecOf, Due
<1>5. CASE \/ \E c \in SseClients : ClientStep(c) \/ HandlerStep(c)
           \/ \E q \in PollClients : Poll(q) \/ PollNewest(q)
           \/ UNCHANGED vars
  <2>1. UNCHANGED logVars
    BY <1>5, FeedLeavesLog DEF vars, eventVars
  <2>2. QED
    BY <1>1, <2>1 DEF logVars
<1>6. QED
  BY <1>2, <1>3, <1>4, <1>5 DEF Next, EventStep

\* What the steps of the log and of the bus leave of c's connection.
LEMMA PublishBus ==
    ASSUME LogInv, StreamInv, AllRec, AllBus, NEW w \in Writers, Publish(w),
           NEW c \in SseClients, c \in Subscribers
    PROVE  /\ Due(w) /\ rec[w] # <<>> /\ rec'[w] = Tail(rec[w]) /\ Head(rec[w]) \in committed
           /\ \A x \in ToSet(Tail(rec[w])) : Head(rec[w]) < x
           /\ ToSet(rec[w]) = ToSet(Tail(rec[w])) \cup {Head(rec[w])}
           /\ \A x \in ToSet(chan[c]) : x < Head(rec[w])
           /\ Tail(rec[w]) # <<>> => Due(w)'
           /\ \/ /\ open[c] /\ Rising(chan'[c]) /\ ToSet(chan'[c]) = ToSet(chan[c]) \cup {Head(rec[w])}
              \/ chan'[c] = chan[c] /\ ~open'[c]
<1> DEFINE h == Head(rec[w])
<1>1. /\ rec \in [Writers -> Seq(Sequence)] /\ rec[w] \in Seq(Sequence) /\ Rising(rec[w])
      /\ wstate \in [Writers -> {"idle", "tx", "committed", "publishing"}]
      /\ chan \in [Subscribers -> Seq(Sequence)] /\ chan[c] \in Seq(Sequence) /\ BusOf(c)
  BY DEF LogInv, LogTyped, AllRec, RecOf, StreamInv, FeedTyped, AllBus
<1>2. /\ Due(w) /\ rec[w] # <<>> /\ rec'[w] = Tail(rec[w]) /\ FanOut(h)
      /\ wstate' = [wstate EXCEPT ![w] = IF Len(rec[w]) = 1 THEN "idle" ELSE "publishing"]
  BY <1>1 DEF Publish, Due
<1>3. /\ \A x \in ToSet(Tail(rec[w])) : h < x
      /\ ToSet(rec[w]) = ToSet(Tail(rec[w])) \cup {h} /\ h \in Sequence
  BY <1>1, <1>2, RisingTail
<1>4. h \in committed
  BY <1>2, <1>3 DEF LogInv, Due
<1>5. \A x \in ToSet(chan[c]) : x < h
  BY <1>1, <1>2, <1>3 DEF BusOf
<1>6. Tail(rec[w]) # <<>> => Due(w)'
  <2>1. Tail(rec[w]) \in Seq(Sequence) /\ Len(Tail(rec[w])) = Len(rec[w]) - 1
    BY <1>1, <1>2, TailHolds
  <2>2. Len(rec[w]) = 1 => Tail(rec[w]) = <<>>
    <3>1. Len(rec[w]) = 1 => Len(Tail(rec[w])) = 0
      BY <2>1
    <3>2. QED
      BY <2>1, <3>1, NoneLeft
  <2>3. QED
    BY <1>1, <1>2, <2>2 DEF Due
<1> HIDE DEF h
<1>7. \/ open[c] /\ chan'[c] = Append(chan[c], h)
      \/ chan'[c] = chan[c] /\ ~open'[c]
  BY <1>2 DEF FanOut
<1>8. chan'[c] = Append(chan[c], h) => Rising(chan'[c]) /\ ToSet(chan'[c]) = ToSet(chan[c]) \cup {h}
  BY <1>1, <1>3, <1>5, RisingAbove DEF BusOf
<1>9. QED
  BY <1>2, <1>3, <1>4, <1>5, <1>6, <1>7, <1>8 DEF h

\* The channel of c stays below what is to be published, whoever takes a step.
LEMMA BusStep ==
    ASSUME OneWriter, LogInv, Ahead, StreamInv, AllRec, AllBus, SseClients \subseteq Subscribers, [Next]_vars
    PROVE  AllBus'
<1>1. open' \in [Subscribers -> BOOLEAN]
  <2>1. open \in [Subscribers -> BOOLEAN]
    BY DEF AllBus
  <2>2. CASE EventStep \/ EventCrash
    <3>1. ASSUME NEW w \in Writers, Publish(w)
          PROVE  open' \in [Subscribers -> BOOLEAN]
      BY <3>1 DEF Publish, FanOut
    <3>2. ASSUME NEW w \in Writers, Begin(w) \/ Emit(w) \/ Commit(w) \/ Rollback(w)
          PROVE  open' \in [Subscribers -> BOOLEAN]
      BY <2>1, <3>2 DEF Begin, Emit, Commit, Rollback, busVars
    <3>3. CASE Shutdown \/ BusClose \/ (\E h \in log : Prune(h)) \/ EventCrash
      BY <2>1, <3>3 DEF EventCrash, Shutdown, BusClose, Prune, busVars
    <3>4. QED
      BY <2>2, <3>1, <3>2, <3>3 DEF EventStep, WriterStep
  <2>3. CASE \E d \in SseClients : ClientStep(d) \/ HandlerStep(d)
    BY <2>1, <2>3 DEF ClientStep, HandlerStep, Connect, Disconnect, StreamReplayRead, StreamReplayWrite,
                      StreamReceive, StreamDropped, StreamReturn, Subscribe, Cancel, eventVars, busVars
  <2>4. CASE (\E q \in PollClients : Poll(q) \/ PollNewest(q)) \/ UNCHANGED vars
    BY <2>1, <2>4, FeedLeavesLog DEF vars, eventVars, busVars
  <2>5. QED
    BY <2>2, <2>3, <2>4 DEF Next
<1> SUFFICES ASSUME NEW c \in SseClients PROVE BusOf(c)'
  BY <1>1 DEF AllBus
<1>2. /\ BusOf(c) /\ c \in Subscribers /\ chan \in [Subscribers -> Seq(Sequence)] /\ chan[c] \in Seq(Sequence)
      /\ \A s \in committed : s \in Nat
      /\ wstate \in [Writers -> {"idle", "tx", "committed", "publishing"}] /\ rec \in [Writers -> Seq(Sequence)]
  BY DEF AllBus, StreamInv, FeedTyped, LogInv, LogTyped, Sequence
<1>3. ASSUME Rising(chan'[c]), ToSet(chan'[c]) \subseteq ToSet(chan[c]), committed \subseteq committed',
             \A w \in Writers : Due(w)' => Due(w) /\ ToSet(rec'[w]) \subseteq ToSet(rec[w])
      PROVE  BusOf(c)'
  BY <1>2, <1>3 DEF BusOf
<1>4. ASSUME NEW w \in Writers, WriterStep(w)
      PROVE  BusOf(c)'
  <2>1. \A v \in Writers : v = w
    BY DEF OneWriter
  <2>2. CASE Begin(w) \/ Emit(w) \/ Rollback(w)
    <3>1. /\ ~Due(w)' /\ chan' = chan /\ committed' = committed
      BY <1>2, <2>2 DEF Begin, Emit, Rollback, Due, busVars
    <3>2. QED
      BY <1>2, <1>3, <2>1, <3>1 DEF BusOf
  <2>3. CASE Commit(w)
    <3>1. InTx(w) /\ rec' = rec /\ committed' = committed \cup ToSet(rec[w]) /\ chan' = chan
      BY <2>3 DEF Commit, InTx, busVars
    <3>2. \A s \in committed, r \in ToSet(rec[w]) : s < r
      BY <3>1 DEF Ahead
    <3>3. QED
      BY <1>2, <2>1, <3>1, <3>2 DEF BusOf
  <2>4. CASE Publish(w)
    <3> DEFINE h == Head(rec[w])
    <3>1. committed' = committed
      BY <2>4 DEF Publish
    <3>2. /\ Due(w) /\ rec'[w] = Tail(rec[w]) /\ h \in committed
          /\ \A x \in ToSet(Tail(rec[w])) : h < x
          /\ ToSet(rec[w]) = ToSet(Tail(rec[w])) \cup {h}
          /\ \A x \in ToSet(chan[c]) : x < h
          /\ \/ Rising(chan'[c]) /\ ToSet(chan'[c]) = ToSet(chan[c]) \cup {h}
             \/ chan'[c] = chan[c]
      BY <1>2, <2>4, PublishBus
    <3>3. ToSet(chan'[c]) \subseteq ToSet(chan[c]) \cup {h} /\ Rising(chan'[c])
      BY <1>2, <3>2 DEF BusOf
    <3>4. ToSet(rec[w]) \subseteq committed
      BY <3>2 DEF LogInv, Due
    <3> HIDE DEF h
    <3>5. \A x \in ToSet(chan'[c]), r \in ToSet(rec'[w]) : x < r
      <4>1. \A r \in ToSet(rec'[w]) : h < r /\ r \in Nat /\ h \in Nat
        BY <1>2, <3>2, <3>4
      <4>2. \A x \in ToSet(chan'[c]) : x \in Nat /\ (x < h \/ x = h)
        BY <1>2, <3>2, <3>3 DEF BusOf
      <4>3. QED
        BY <4>1, <4>2
    <3>6. ToSet(chan'[c]) \subseteq committed'
      BY <1>2, <3>1, <3>2, <3>3 DEF BusOf
    <3>7. QED
      BY <2>1, <3>3, <3>5, <3>6 DEF BusOf
  <2>5. QED
    BY <1>4, <2>2, <2>3, <2>4 DEF WriterStep
<1>5. CASE Shutdown \/ BusClose \/ \E h \in log : Prune(h)
  <2>1. UNCHANGED <<committed, wstate, rec, chan>>
    BY <1>5 DEF Shutdown, BusClose, Prune, logVars, busVars
  <2>2. QED
    BY <1>2, <2>1 DEF BusOf, Due
<1>6. CASE EventCrash
  <2>1. chan'[c] = <<>> /\ committed' = committed
    BY <1>2, <1>6 DEF EventCrash
  <2>2. QED
    BY <2>1, RisingEmpty DEF BusOf
<1>7. ASSUME NEW d \in SseClients, ClientStep(d) \/ HandlerStep(d)
      PROVE  BusOf(c)'
  <2>1. UNCHANGED <<committed, wstate, rec>>
    BY <1>7, FeedLeavesLog DEF logVars
  <2>2. \/ chan' = chan \/ chan' = [chan EXCEPT ![d] = <<>>]
        \/ chan[d] # <<>> /\ chan' = [chan EXCEPT ![d] = Tail(chan[d])]
    BY <1>7 DEF ClientStep, HandlerStep, Connect, Disconnect, StreamReplayRead, StreamReplayWrite, StreamReceive,
                StreamDropped, StreamReturn, Subscribe, Cancel, eventVars, busVars
  <2>3. chan'[c] = chan[c] \/ chan'[c] = <<>> \/ (chan[c] # <<>> /\ chan'[c] = Tail(chan[c]))
    BY <1>2, <2>2
  <2>4. Rising(chan'[c]) /\ ToSet(chan'[c]) \subseteq ToSet(chan[c])
    <3>1. CASE chan'[c] = chan[c] \/ chan'[c] = <<>>
      BY <1>2, <3>1, RisingEmpty DEF BusOf
    <3>2. CASE chan[c] # <<>> /\ chan'[c] = Tail(chan[c])
      <4>1. Rising(Tail(chan[c])) /\ ToSet(chan[c]) = ToSet(Tail(chan[c])) \cup {Head(chan[c])}
        BY <1>2, <3>2, RisingTail DEF BusOf
      <4>2. QED
        BY <3>2, <4>1
    <3>3. QED
      BY <2>3, <3>1, <3>2
  <2>5. QED
    BY <1>3, <2>1, <2>4 DEF Due
<1>8. CASE (\E q \in PollClients : Poll(q) \/ PollNewest(q)) \/ UNCHANGED vars
  <2>1. UNCHANGED <<committed, wstate, rec, chan>>
    BY <1>8, FeedLeavesLog DEF vars, eventVars, logVars, busVars
  <2>2. QED
    BY <1>2, <2>1 DEF BusOf, Due
<1>9. QED
  BY <1>4, <1>5, <1>6, <1>7, <1>8 DEF Next, EventStep

\* A step that leaves c's handler and channel, and of the log takes away at most.
LEMMA GapFrame ==
    ASSUME NEW c \in SseClients, GapOf(c), fpc'[c] = fpc[c], lastSent'[c] = lastSent[c], frames'[c] = frames[c],
           fpage'[c] = fpage[c], chan'[c] = chan[c], open'[c] => open[c], log' \subseteq log,
           committed \subseteq committed',
           \A w \in Writers : Due(w) => Due(w)' /\ rec'[w] = rec[w]
    PROVE  GapOf(c)'
<1>1. ASSUME NEW s \in log', Owed(c, s)'
      PROVE  Owed(c, s)
  BY <1>1 DEF Owed
<1>2. ASSUME NEW s, Comes(c, s)
      PROVE  Comes(c, s)'
  BY <1>2 DEF Comes
<1>3. fpc'[c] \in {"lastpage", "live"} => \A s \in log' : Owed(c, s)' => Comes(c, s)'
  BY <1>1, <1>2 DEF GapOf
<1>4. QED
  BY <1>3 DEF GapOf

\* What is committed comes after all that c has, and is due.
LEMMA GapCommit ==
    ASSUME OneWriter, LogInv, Ahead, StreamInv, AllBus, NEW w \in Writers, Commit(w), UNCHANGED feedVars,
           NEW c \in SseClients, GapOf(c)
    PROVE  GapOf(c)'
<1>1. /\ InTx(w) /\ rec' = rec /\ committed' = committed \cup ToSet(rec[w])
      /\ UNCHANGED <<horizon, chan, open, fpc, lastSent, frames, fpage>>
      /\ rec[w] # <<>> => Due(w)'
  BY DEF Commit, InTx, busVars, feedVars, sseVars, LogInv, LogTyped, Due
<1>2. /\ \A s \in committed, r \in ToSet(rec[w]) : s < r
      /\ \A s \in committed : s \in Nat
      /\ \A r \in ToSet(rec[w]) : r \in Nat /\ 0 < r
  <2>1. rec[w] \in Seq(Sequence)
    BY DEF LogInv, LogTyped
  <2>2. \A r \in ToSet(rec[w]) : r \in Nat /\ 0 < r
    BY <2>1, Members DEF Sequence
  <2>3. QED
    BY <1>1, <2>2 DEF Ahead, LogInv, LogTyped, Sequence
<1>3. /\ log \subseteq log' /\ \A s \in log' : s \in log \/ s \in ToSet(rec[w])
      /\ \A s \in log : s \in committed
  BY <1>1 DEF log
<1>4. \A s \in log', p \in committed \cup {0} : s <= p => s \in log
  BY <1>2, <1>3
<1>5. ASSUME NEW s \in log', Owed(c, s)', fpc[c] \in {"lastpage", "live"}
      PROVE  Comes(c, s)'
  <2>1. CASE s \in log
    <3>1. Comes(c, s)
      BY <1>1, <1>5, <2>1 DEF Owed, GapOf
    <3>2. \A v \in Writers : Due(v) => FALSE
      BY <1>1 DEF OneWriter, Due, InTx
    <3>3. QED
      BY <1>1, <3>1, <3>2 DEF Comes
  <2>2. CASE s \in ToSet(rec[w])
    <3>1. \A x \in ToSet(chan[c]) : ~(s <= x)
      BY <1>2, <2>2 DEF AllBus, BusOf
    <3>2. rec[w] # <<>>
      BY <2>2, EmptyHolds
    <3>3. QED
      BY <1>1, <2>2, <3>1, <3>2 DEF Comes
  <2>3. QED
    BY <1>3, <2>1, <2>2
<1>6. QED
  BY <1>1, <1>3, <1>4, <1>5 DEF GapOf

\* What is published was due to c, or is the first it gets; a full channel closes.
LEMMA GapPublish ==
    ASSUME OneWriter, LogInv, StreamInv, AllRec, AllBus, NEW w \in Writers, Publish(w), UNCHANGED feedVars,
           NEW c \in SseClients, c \in Subscribers, GapOf(c)
    PROVE  GapOf(c)'
<1> DEFINE h == Head(rec[w])
           T == ToSet(Tail(rec[w]))
<1>1. /\ UNCHANGED <<committed, horizon, fpc, lastSent, frames, fpage>> /\ log' = log
  BY DEF Publish, feedVars, sseVars, log
<1>2. /\ Due(w) /\ rec'[w] = Tail(rec[w]) /\ h \in committed
      /\ \A x \in T : h < x
      /\ ToSet(rec[w]) = T \cup {h}
      /\ \A x \in ToSet(chan[c]) : x < h
      /\ Tail(rec[w]) # <<>> => Due(w)'
      /\ \/ open[c] /\ ToSet(chan'[c]) = ToSet(chan[c]) \cup {h}
         \/ chan'[c] = chan[c] /\ ~open'[c]
  BY PublishBus
<1>3. \A s \in committed : s \in Nat
  BY DEF LogInv, LogTyped, Sequence
<1>4. \A s \in committed : h <= s => s \in T \cup {h}
  BY <1>2 DEF AllRec, RecOf
<1>5. T \subseteq committed /\ ToSet(chan[c]) \subseteq committed
  BY <1>2 DEF LogInv, Due, AllBus, BusOf
<1>6. T # {} => Tail(rec[w]) # <<>>
  BY EmptyHolds
<1>7. log \subseteq committed
  BY DEF log
<1> HIDE DEF h, T
<1>8. ASSUME NEW s \in log, Owed(c, s)', fpc[c] \in {"lastpage", "live"}
      PROVE  Comes(c, s)'
  <2>1. CASE open[c] /\ ToSet(chan'[c]) = ToSet(chan[c]) \cup {h}
    <3>1. s \in ToSet(chan[c]) \/ s \in T \cup {h}
      <4>1. CASE Owed(c, s)
        <5>1. Comes(c, s)
          BY <1>8, <4>1 DEF GapOf
        <5>2. s \in ToSet(chan[c]) \/ s \in ToSet(rec[w])
          BY <2>1, <5>1 DEF Comes, OneWriter
        <5>3. QED
          BY <1>2, <5>2
      <4>2. CASE ~Owed(c, s)
        <5>1. h <= s
          BY <1>1, <1>8, <2>1, <4>2 DEF Owed
        <5>2. QED
          BY <1>4, <1>7, <5>1
      <4>3. QED
        BY <4>1, <4>2
    <3>2. \A x \in ToSet(chan'[c]) : s <= x => s \in ToSet(chan'[c])
      <4>1. CASE s \in ToSet(chan[c]) \cup {h}
        BY <2>1, <4>1
      <4>2. CASE s \in T
        <5>1. h < s /\ h \in Nat /\ s \in Nat
          BY <1>2, <1>3, <1>7, <4>2
        <5>2. \A x \in ToSet(chan[c]) \cup {h} : x \in Nat /\ x <= h
          BY <1>2, <1>3, <1>5
        <5>3. QED
          BY <2>1, <5>1, <5>2
      <4>3. QED
        BY <3>1, <4>1, <4>2
    <3>3. s \in ToSet(chan'[c]) \/ (Due(w)' /\ s \in ToSet(rec'[w]))
      BY <1>2, <1>6, <2>1, <3>1 DEF T
    <3>4. QED
      BY <3>2, <3>3 DEF Comes
  <2>2. CASE chan'[c] = chan[c] /\ ~open'[c]
    <3>1. Owed(c, s)
      BY <1>1, <1>8, <2>2 DEF Owed
    <3>2. Comes(c, s)
      BY <1>8, <3>1 DEF GapOf
    <3>3. QED
      BY <2>2, <3>2 DEF Comes
  <2>3. QED
    BY <1>2, <2>1, <2>2
<1>9. QED
  BY <1>1, <1>8 DEF GapOf

\* A page that is not full is all the log has above the cursor.
LEMMA ShortPage ==
    ASSUME LogInv, NEW after \in Nat, Cardinality(RowsAfter(after, PageSize)) < PageSize,
           NEW s \in log, after < s
    PROVE  s \in RowsAfter(after, PageSize)
<1> DEFINE all == {u \in log : u > after}
           rows == RowsAfter(after, PageSize)
           R == all \ rows
<1>1. (\A u \in log : u \in Nat /\ u <= top) /\ top \in Nat
  BY DEF LogInv, LogTyped, Sequence, log
<1>2. s \in all
  BY <1>1
<1>3. rows \subseteq all /\ all \subseteq log
  BY DEF RowsAfter
<1>4. SUFFICES ASSUME R # {} PROVE FALSE
  BY <1>2
<1> DEFINE m == Min(R)
           A == {u \in all : u < m}
<1>5. \A u \in all : u = m /\ Cardinality(A) < PageSize => u \in rows
  BY DEF RowsAfter
<1> HIDE DEF all, rows
<1>6. R \subseteq 0 .. top
  BY <1>1, <1>3
<1>7. m \in R /\ \A u \in R : m <= u
  BY <1>1, <1>4, <1>6, Extremes
<1> HIDE DEF m
<1>8. A \subseteq rows
  BY <1>1, <1>3, <1>7
<1>9. IsFiniteSet(rows)
  <2>1. rows \in SUBSET Nat /\ \A u \in rows : u <= top
    BY <1>1, <1>3
  <2>2. QED
    BY <1>1, <2>1, FS_BoundedSetOfNaturals
<1> HIDE DEF A
<1>10. Cardinality(A) < PageSize
  BY <1>8, <1>9, FewerOnOneSide, LogAssumption DEF rows
<1>11. QED
  BY <1>5, <1>7, <1>10

\* The first frame stays the first.
LEMMA HeadStays ==
    ASSUME NEW q \in Seq(Sequence), NEW e \in Sequence
    PROVE  Append(q, e) # <<>> /\ Head(Append(q, e)) = IF q = <<>> THEN e ELSE Head(q)
<1>1. Len(Append(q, e)) = Len(q) + 1 /\ Len(q) \in Nat /\ Head(Append(q, e)) = Append(q, e)[1]
  OBVIOUS
<1>2. CASE q = <<>>
  BY <1>1, <1>2
<1>3. CASE q # <<>>
  <2>1. Len(q) # 0
    BY <1>3, NoneLeft
  <2>2. Append(q, e)[1] = q[1]
    BY <1>1, <2>1
  <2>3. QED
    BY <1>1, <1>3, <2>2
<1>4. QED
  BY <1>2, <1>3

\* A handler that is not about to follow its channel, or no longer, owes nothing.
LEMMA GapQuiet ==
    ASSUME NEW c \in SseClients, GapOf(c), lastSent'[c] = lastSent[c], frames'[c] = frames[c], fpage'[c] = {},
           log' = log, committed' = committed,
           fpc'[c] \in {"lastpage", "live"} => \A s \in log : ~Owed(c, s)'
    PROVE  GapOf(c)'
BY DEF GapOf

\* A step of c's client or handler.
LEMMA GapHandler ==
    ASSUME LogInv, StreamInv, AllBus, SseClients \subseteq Subscribers,
           NEW c \in SseClients, GapOf(c), ClientStep(c) \/ HandlerStep(c)
    PROVE  GapOf(c)'
<1>1. /\ UNCHANGED <<committed, horizon, top, wstate, rec>> /\ log' = log
  BY FeedLeavesLog DEF logVars, log
<1>2. /\ chan \in [Subscribers -> Seq(Sequence)] /\ chan[c] \in Seq(Sequence) /\ c \in Subscribers
      /\ fpc \in [SseClients -> FeedStates] /\ fpage \in [SseClients -> SUBSET Sequence]
      /\ lastSent \in [SseClients -> Nat] /\ frames \in [SseClients -> Seq(Sequence)]
      /\ lastSent[c] \in Nat /\ frames[c] \in Seq(Sequence) /\ fpage[c] \in SUBSET Sequence
      /\ lastSent[c] = Seen(c) /\ \A s \in fpage[c] : lastSent[c] < s
      /\ fpc[c] \notin {"page", "lastpage"} => fpage[c] = {}
      /\ Rising(chan[c]) /\ ToSet(chan[c]) \subseteq committed
  BY DEF StreamInv, FeedTyped, StreamOf, AllBus, BusOf
<1>3. /\ \A s \in committed : s \in Nat /\ s \in Sequence
      /\ log \subseteq committed
  BY DEF LogInv, LogTyped, Sequence, log
<1>4. CASE Connect(c)
  <2>1. /\ chan'[c] = <<>> /\ UNCHANGED <<frames, fpage>> /\ lastSent'[c] = lastSent[c] /\ fpc[c] = "away"
    BY <1>2, <1>4 DEF Connect, Subscribe
  <2>2. fpage[c] = {}
    BY <1>2, <2>1
  <2>3. fpc'[c] = "replay" \/ (fpc'[c] = "live" /\ frames[c] = <<>>)
    BY <1>2, <1>4 DEF Connect, Goto
  <2>4. frames[c] = <<>> => \A s \in log : ~Owed(c, s)'
    BY <2>1, <2>2, EmptyHolds DEF Owed
  <2>5. QED
    BY <1>1, <2>1, <2>2, <2>3, <2>4, GapQuiet
<1>5. CASE Disconnect(c)
  <2>1. fpage'[c] = {} /\ fpc'[c] = "done" /\ UNCHANGED <<frames, lastSent>>
    BY <1>2, <1>5 DEF Disconnect, Goto
  <2>2. QED
    BY <1>1, <2>1, GapQuiet
<1>6. CASE StreamDropped(c) \/ StreamReturn(c)
  <2>1. fpage'[c] = {} /\ fpc'[c] \in {"done", "away"} /\ UNCHANGED <<frames, lastSent>>
    BY <1>2, <1>6 DEF StreamDropped, StreamReturn, Goto
  <2>2. QED
    BY <1>1, <2>1, GapQuiet
<1>7. CASE StreamReplayRead(c)
  <2> DEFINE rows == RowsAfter(lastSent[c], PageSize)
  <2>1. fpc[c] = "replay" /\ UNCHANGED <<chan, open, lastSent, frames>>
    BY <1>7 DEF StreamReplayRead, eventVars, busVars
  <2>2. CASE Goto(c, "done") /\ UNCHANGED fpage
    <3>1. fpage'[c] = {} /\ fpc'[c] = "done"
      BY <1>2, <2>1, <2>2 DEF Goto
    <3>2. QED
      BY <1>1, <2>1, <3>1, GapQuiet
  <2>3. CASE /\ fpage' = [fpage EXCEPT ![c] = rows]
             /\ Goto(c, CASE rows = {} -> "live" [] rows # {} /\ Cardinality(rows) < PageSize -> "lastpage"
                          [] OTHER -> "page")
    <3>1. fpage'[c] = rows
      BY <1>2, <2>3
    <3>2. rows \subseteq log
      BY DEF RowsAfter
    <3>3. \A s \in log, p \in rows : lastSent[c] < s /\ s <= p => s \in rows
      BY <1>2, PageWhole
    <3>4. fpc'[c] \in {"lastpage", "live"} => \A s \in log : lastSent[c] < s => s \in rows
      <4>1. CASE rows = {}
        <5>1. Cardinality(rows) < PageSize
          BY <4>1, FS_EmptySet, LogAssumption
        <5>2. QED
          BY <1>2, <5>1, ShortPage
      <4>2. CASE rows # {} /\ Cardinality(rows) < PageSize
        BY <1>2, <4>2, ShortPage
      <4>3. CASE rows # {} /\ ~(Cardinality(rows) < PageSize)
        BY <1>2, <2>3, <4>3 DEF Goto
      <4>4. QED
        BY <4>1, <4>2, <4>3
    <3> HIDE DEF rows
    <3>5. fpc'[c] \in {"lastpage", "live"} => \A s \in log : ~Owed(c, s)'
      BY <2>1, <3>1, <3>4 DEF Owed
    <3>6. QED
      BY <1>1, <1>3, <2>1, <3>1, <3>2, <3>3, <3>5 DEF GapOf
  <2>4. QED
    BY <1>7, <2>2, <2>3 DEF StreamReplayRead
<1>8. ASSUME NEW e \in committed, Write(c, e), lastSent[c] < e,
             frames[c] # <<>> => \A s \in log : lastSent[c] < s /\ s <= e => s = e
      PROVE  /\ lastSent'[c] = e /\ frames'[c] # <<>>
             /\ \A s \in log : Head(frames'[c]) <= s /\ s <= e => s \in ToSet(frames'[c])
  <2>1. lastSent'[c] = e /\ frames'[c] = Append(frames[c], e) /\ e \in Sequence /\ e \in Nat
    BY <1>2, <1>3, <1>8 DEF Write
  <2>2. ToSet(frames'[c]) = ToSet(frames[c]) \cup {e}
    BY <1>2, <2>1, AppendHolds
  <2>3. frames'[c] # <<>> /\ Head(frames'[c]) = IF frames[c] = <<>> THEN e ELSE Head(frames[c])
    BY <1>2, <2>1, HeadStays
  <2>4. ASSUME NEW s \in log, Head(frames'[c]) <= s, s <= e
        PROVE  s \in ToSet(frames'[c])
    <3>1. s \in Nat
      BY <1>3
    <3>2. CASE frames[c] = <<>>
      BY <2>1, <2>2, <2>3, <2>4, <3>1, <3>2
    <3>3. CASE frames[c] # <<>> /\ s <= lastSent[c]
      BY <2>2, <2>3, <2>4, <3>3 DEF GapOf
    <3>4. CASE frames[c] # <<>> /\ ~(s <= lastSent[c])
      BY <1>2, <1>8, <2>2, <2>4, <3>1, <3>4
    <3>5. QED
      BY <3>2, <3>3, <3>4
  <2>5. QED
    BY <2>1, <2>3, <2>4
<1>9. CASE StreamReplayWrite(c)
  <2>1. PICK e \in fpage[c] : IsLeast(e, fpage[c]) /\ Write(c, e) /\ fpage' = [fpage EXCEPT ![c] = fpage[c] \ {e}]
    BY <1>9 DEF StreamReplayWrite
  <2>2. /\ fpage[c] \subseteq committed /\ e \in committed /\ lastSent[c] < e /\ e \in Nat
        /\ fpage'[c] = fpage[c] \ {e} /\ UNCHANGED <<chan, open>>
        /\ \A s \in fpage[c] : e <= s /\ s \in Nat
    BY <1>2, <1>3, <1>9, <2>1 DEF GapOf, StreamReplayWrite, IsLeast, eventVars, busVars
  <2>3. \A s \in log : lastSent[c] < s /\ s <= e => s = e
    BY <1>3, <2>2 DEF GapOf
  <2>4. /\ lastSent'[c] = e /\ frames'[c] # <<>>
        /\ \A s \in log : Head(frames'[c]) <= s /\ s <= e => s \in ToSet(frames'[c])
    BY <1>8, <2>1, <2>2, <2>3
  <2>5. \A s \in log : e < s => lastSent[c] < s /\ s # e
    BY <1>2, <1>3, <2>2
  <2>6. \A s \in log, p \in fpage'[c] : e < s /\ s <= p => s \in fpage'[c]
    BY <2>2, <2>5 DEF GapOf
  <2>7. fpc'[c] \in {"lastpage", "live"} => fpc[c] = "lastpage"
    BY <1>2, <1>9 DEF StreamReplayWrite, Goto
  <2>8. \A s \in log : Owed(c, s)' => Owed(c, s)
    BY <1>1, <2>2, <2>4, <2>5 DEF Owed
  <2>9. \A s : Comes(c, s) => Comes(c, s)'
    BY <1>1, <2>2 DEF Comes, Due
  <2>10. fpc'[c] \in {"lastpage", "live"} => \A s \in log' : Owed(c, s)' => Comes(c, s)'
    BY <1>1, <2>7, <2>8, <2>9 DEF GapOf
  <2>11. QED
    BY <1>1, <2>2, <2>4, <2>6, <2>10 DEF GapOf
<1>10. CASE StreamReceive(c)
  <2> DEFINE h == Head(chan[c])
             T == ToSet(Tail(chan[c]))
  <2>1. /\ fpc[c] = "live" /\ chan[c] # <<>> /\ chan'[c] = Tail(chan[c]) /\ UNCHANGED <<open, fpc, fpage>>
        /\ IF h <= lastSent[c] THEN UNCHANGED <<frames, lastSent>> ELSE Write(c, h)
        /\ fpage[c] = {}
    BY <1>2, <1>10 DEF StreamReceive
  <2>2. ToSet(chan[c]) = T \cup {h} /\ \A x \in T : h < x
    BY <1>2, <2>1, RisingTail
  <2>3. h \in committed /\ h \in Nat
    BY <1>2, <1>3, <2>2
  <2>4. \A s \in log : Owed(c, s) => Comes(c, s)
    BY <2>1 DEF GapOf
  <2>5. ASSUME NEW s, Comes(c, s), s # h
        PROVE  Comes(c, s)'
    BY <1>1, <2>1, <2>2, <2>5 DEF Comes, Due
  <2> HIDE DEF h
  <2>6. CASE h <= lastSent[c]
    <3>1. UNCHANGED <<frames, lastSent>>
      BY <2>1, <2>6
    <3>2. \A s \in log : Owed(c, s)' => Owed(c, s) /\ s # h
      BY <1>2, <1>3, <2>1, <2>2, <2>3, <2>6, <3>1 DEF Owed
    <3>3. \A s \in log' : Owed(c, s)' => Comes(c, s)'
      BY <1>1, <2>4, <2>5, <3>2
    <3>4. QED
      BY <1>1, <2>1, <3>1, <3>3 DEF GapOf
  <2>7. CASE ~(h <= lastSent[c])
    <3>1. Write(c, h) /\ lastSent[c] < h
      BY <1>2, <2>1, <2>3, <2>7
    <3>2. ASSUME frames[c] # <<>>, NEW s \in log, lastSent[c] < s, s <= h
          PROVE  s = h
      <4>1. Owed(c, s)
        BY <2>1, <3>2 DEF Owed
      <4>2. s \in T \cup {h}
        BY <2>2, <2>4, <3>2, <4>1 DEF Comes
      <4>3. s \in T => h < s
        BY <2>2
      <4>4. s \in Nat
        BY <1>3
      <4>5. QED
        BY <2>3, <3>2, <4>2, <4>3, <4>4
    <3>3. /\ lastSent'[c] = h /\ frames'[c] # <<>>
          /\ \A s \in log : Head(frames'[c]) <= s /\ s <= h => s \in ToSet(frames'[c])
      BY <1>8, <2>3, <3>1, <3>2
    <3>4. ASSUME NEW s \in log, Owed(c, s)'
          PROVE  Owed(c, s) /\ s # h
      <4>1. s \in Nat /\ h < s
        BY <1>3, <3>3, <3>4 DEF Owed
      <4>2. lastSent[c] < s /\ h <= s /\ s # h
        BY <1>2, <2>3, <3>1, <4>1
      <4>3. QED
        BY <2>1, <2>2, <4>2 DEF Owed
    <3>5. \A s \in log' : Owed(c, s)' => Comes(c, s)'
      BY <1>1, <2>4, <2>5, <3>4
    <3>6. QED
      BY <1>1, <2>1, <2>3, <3>3, <3>5 DEF GapOf
  <2>8. QED
    BY <2>6, <2>7
<1>11. QED
  BY <1>4, <1>5, <1>6, <1>7, <1>9, <1>10 DEF ClientStep, HandlerStep

\* A step of another client or of its handler leaves c's connection.
LEMMA OthersLeave ==
    ASSUME StreamInv, AllBus, SseClients \subseteq Subscribers, NEW c \in SseClients, NEW d \in SseClients, d # c,
           ClientStep(d) \/ HandlerStep(d)
    PROVE  /\ fpc'[c] = fpc[c] /\ lastSent'[c] = lastSent[c] /\ frames'[c] = frames[c] /\ fpage'[c] = fpage[c]
           /\ chan'[c] = chan[c] /\ (open'[c] => open[c])
<1> USE DEF StreamInv, FeedTyped
<1>1. open \in [Subscribers -> BOOLEAN]
  BY DEF AllBus
<1>2. CASE Connect(d) \/ Disconnect(d)
  BY <1>1, <1>2 DEF Connect, Disconnect, Subscribe, Goto, eventVars, busVars
<1>3. CASE StreamReplayRead(d) \/ StreamDropped(d) \/ StreamReturn(d)
  BY <1>1, <1>3 DEF StreamReplayRead, StreamDropped, StreamReturn, Cancel, Goto, eventVars, busVars
<1>4. CASE StreamReplayWrite(d) \/ StreamReceive(d)
  BY <1>4 DEF StreamReplayWrite, StreamReceive, Write, Goto, eventVars, busVars
<1>5. QED
  BY <1>2, <1>3, <1>4 DEF ClientStep, HandlerStep

\* What a client has and is to get has no hole, whoever takes a step.
LEMMA GapStep ==
    ASSUME OneWriter, LogInv, Ahead, StreamInv, AllRec, AllBus, AllGap, SseClients \subseteq Subscribers, [Next]_vars
    PROVE  AllGap'
<1> SUFFICES ASSUME NEW c \in SseClients PROVE GapOf(c)'
  BY DEF AllGap
<1>1. GapOf(c) /\ c \in Subscribers
  BY DEF AllGap
<1>2. ASSUME UNCHANGED <<fpc, lastSent, frames, fpage>>, chan'[c] = chan[c], open'[c] => open[c], log' \subseteq log,
             committed \subseteq committed', \A w \in Writers : Due(w) => Due(w)' /\ rec'[w] = rec[w]
      PROVE  GapOf(c)'
  BY <1>1, <1>2, GapFrame
<1>3. ASSUME UNCHANGED <<committed, wstate, rec>>, log' = log, fpc'[c] = fpc[c], lastSent'[c] = lastSent[c],
              frames'[c] = frames[c], fpage'[c] = fpage[c], chan'[c] = chan[c], open'[c] => open[c]
       PROVE  GapOf(c)'
  <2>1. \A w \in Writers : Due(w) => Due(w)' /\ rec'[w] = rec[w]
    BY <1>3 DEF Due
  <2>2. log' \subseteq log /\ committed \subseteq committed'
    BY <1>3
  <2>3. QED
    BY <1>1, <1>3, <2>1, <2>2, GapFrame
<1>4. ASSUME NEW w \in Writers, WriterStep(w), UNCHANGED feedVars
      PROVE  GapOf(c)'
  <2>1. CASE Begin(w) \/ Emit(w) \/ Rollback(w)
    <3>1. /\ ~Due(w) /\ UNCHANGED <<chan, open, committed, horizon>>
      BY <2>1 DEF Begin, Emit, Rollback, Due, busVars
    <3>2. QED
      BY <1>2, <1>4, <3>1 DEF OneWriter, feedVars, sseVars, log
  <2>2. QED
    BY <1>1, <1>4, <2>1, GapCommit, GapPublish DEF WriterStep
<1>5. CASE (Shutdown \/ BusClose \/ \E h \in log : Prune(h)) /\ UNCHANGED feedVars
  <2>1. /\ UNCHANGED <<committed, wstate, rec, chan>> /\ UNCHANGED <<fpc, lastSent, frames, fpage>>
    BY <1>5 DEF Shutdown, BusClose, Prune, logVars, busVars, feedVars, sseVars
  <2>2. open'[c] => open[c]
    BY <1>1, <1>5 DEF Shutdown, BusClose, Prune, busVars
  <2>3. log' \subseteq log
    <3>1. horizon' = horizon \/ (horizon' \in log /\ horizon' > horizon)
      BY <1>5 DEF Shutdown, BusClose, Prune, logVars, log
    <3>2. (\A s \in committed : s \in Nat) /\ horizon \in Nat /\ log \subseteq committed
      BY DEF LogInv, LogTyped, Sequence, log
    <3>3. \A s \in committed : s > horizon' => s > horizon
      BY <3>1, <3>2
    <3>4. QED
      BY <2>1, <3>3 DEF log
  <2>4. QED
    BY <1>2, <2>1, <2>2, <2>3 DEF Due
<1>6. CASE EventCrash /\ FeedCrash
  <2>1. /\ committed' = committed /\ log' = log /\ lastSent'[c] = lastSent[c] /\ frames'[c] = frames[c]
        /\ fpage'[c] = {} /\ fpc'[c] = "away"
    BY <1>6 DEF EventCrash, FeedCrash, log
  <2>2. QED
    BY <1>1, <2>1, GapQuiet
<1>7. ASSUME NEW d \in SseClients, ClientStep(d) \/ HandlerStep(d)
      PROVE  GapOf(c)'
  <2>1. CASE d = c
    BY <1>1, <1>7, <2>1, GapHandler
  <2>2. CASE d # c
    <3>1. UNCHANGED <<committed, horizon, wstate, rec>> /\ log' = log
      BY <1>7, FeedLeavesLog DEF logVars, log
    <3>2. /\ fpc'[c] = fpc[c] /\ lastSent'[c] = lastSent[c] /\ frames'[c] = frames[c] /\ fpage'[c] = fpage[c]
          /\ chan'[c] = chan[c] /\ (open'[c] => open[c])
      BY <1>7, <2>2, OthersLeave
    <3>3. QED
      BY <1>1, <1>3, <3>1, <3>2
  <2>3. QED
    BY <2>1, <2>2
<1>8. CASE (\E q \in PollClients : Poll(q) \/ PollNewest(q)) \/ UNCHANGED vars
  <2>1. UNCHANGED <<committed, horizon, wstate, rec, chan, open, fpc, lastSent, frames, fpage>>
    BY <1>8, FeedLeavesLog DEF vars, eventVars, logVars, busVars, feedVars, sseVars
  <2>2. QED
    BY <1>2, <2>1 DEF log, Due
<1>9. QED
  BY <1>4, <1>5, <1>6, <1>7, <1>8 DEF Next, EventStep

LEMMA GapInit ==
    ASSUME SseClients \subseteq Subscribers, Init
    PROVE  AllRec /\ AllBus /\ AllGap
<1>1. /\ committed = {} /\ rec = [w \in Writers |-> <<>>] /\ wstate = [w \in Writers |-> "idle"]
      /\ chan = [c \in Subscribers |-> <<>>] /\ open = [c \in Subscribers |-> FALSE]
      /\ fpc = [c \in SseClients |-> "away"]
      /\ lastSent = [c \in SseClients |-> 0] /\ frames = [c \in SseClients |-> <<>>]
      /\ fpage = [c \in SseClients |-> {}]
  BY DEF Init, EventInit, FeedInit
<1>2. AllRec
  BY <1>1, RisingEmpty DEF AllRec, RecOf, Due
<1>3. log = {}
  BY <1>1 DEF log
<1>4. AllGap
  BY <1>1, <1>3 DEF AllGap, GapOf
<1>5. AllBus
  BY <1>1, <1>2, RisingEmpty DEF AllBus, BusOf
<1>6. QED
  BY <1>2, <1>4, <1>5

\* A client of the stream has every event of the log between its first frame and its last, over all its
\* reconnections, dropped channels, failed reads, prunes and crashes, with any buffer and page size, on either
\* backend, when one transaction at a time is written and published (handleEventStream: subscribe, then replay
\* from lastSent, then drop what the replay has sent).
THEOREM StreamsHaveNoGap ==
    ASSUME SseClients \subseteq Subscribers, OneWriter
    PROVE  Spec => []StreamNoGap
<1>1. Init => LogInv /\ Ahead /\ StreamInv /\ AllRec /\ AllBus /\ AllGap
  BY LogInit, PollInit, StreamInit, GapInit
<1>2. LogInv /\ Ahead /\ StreamInv /\ AllRec /\ AllBus /\ AllGap /\ [Next]_vars
        => (LogInv /\ Ahead /\ StreamInv /\ AllRec /\ AllBus /\ AllGap)'
  BY LogStep, AheadAlone, StreamStep, RecStep, BusStep, GapStep
<1>3. StreamInv /\ AllGap => StreamNoGap
  BY DEF StreamInv, StreamOf, AllGap, GapOf, StreamNoGap
<1>4. QED
  BY <1>1, <1>2, <1>3, PTL DEF Spec

-----------------------------------------------------------------------------
(***************************************************************************)
(* The types and the bounds: no channel holds more than its buffer.        *)
(***************************************************************************)
BusTypes ==
    /\ \A c \in Subscribers : Len(chan[c]) <= BufferSize
    /\ open \in [Subscribers -> BOOLEAN] /\ busClosed \in BOOLEAN /\ ctxDone \in BOOLEAN
    /\ crashes \in 0 .. MaxCrashes /\ prunes \in 0 .. MaxPrunes

\* A send that would block closes the channel instead, and a receive or a new subscription only makes room.
LEMMA BusTypesStep ==
    ASSUME LogInv, StreamInv, BusTypes, SseClients \subseteq Subscribers, [Next]_vars
    PROVE  BusTypes'
<1>1. /\ chan \in [Subscribers -> Seq(Sequence)] /\ \A c \in Subscribers : chan[c] \in Seq(Sequence)
      /\ BufferSize \in Nat /\ MaxCrashes \in Nat /\ MaxPrunes \in Nat
      /\ \A c \in Subscribers : Len(chan[c]) \in Nat
  BY LogAssumption DEF StreamInv, FeedTyped
<1>2. ASSUME UNCHANGED <<busVars, envVars>>
      PROVE  BusTypes'
  BY <1>2 DEF BusTypes, busVars, envVars
<1>3. ASSUME NEW w \in Writers, WriterStep(w)
      PROVE  BusTypes'
  <2>1. CASE Begin(w) \/ Emit(w) \/ Commit(w) \/ Rollback(w)
    BY <1>2, <2>1 DEF Begin, Emit, Commit, Rollback
  <2>2. CASE Publish(w)
    <3>1. Head(rec[w]) \in Sequence /\ FanOut(Head(rec[w])) /\ UNCHANGED <<busClosed, envVars>>
      BY <2>2, TailHolds DEF Publish, LogInv, LogTyped
    <3>2. ASSUME NEW c \in Subscribers
          PROVE  Len(chan'[c]) <= BufferSize
      <4>1. \/ Len(chan[c]) < BufferSize /\ chan'[c] = Append(chan[c], Head(rec[w]))
            \/ chan'[c] = chan[c]
        BY <3>1 DEF FanOut
      <4>2. Len(Append(chan[c], Head(rec[w]))) = Len(chan[c]) + 1
        BY <1>1, <3>1, AppendHolds
      <4>3. CASE Len(chan[c]) < BufferSize /\ chan'[c] = Append(chan[c], Head(rec[w]))
        BY <1>1, <4>2, <4>3
      <4>4. CASE chan'[c] = chan[c]
        BY <4>4 DEF BusTypes
      <4>5. QED
        BY <4>1, <4>3, <4>4
    <3>3. open' \in [Subscribers -> BOOLEAN]
      BY <3>1 DEF FanOut
    <3>4. QED
      BY <3>1, <3>2, <3>3 DEF BusTypes, envVars
  <2>3. QED
    BY <1>3, <2>1, <2>2 DEF WriterStep
<1>4. CASE Shutdown \/ BusClose \/ \E h \in log : Prune(h)
  <2>1. chan' = chan /\ crashes' = crashes
    BY <1>4 DEF Shutdown, BusClose, Prune, busVars, envVars
  <2>2. open' \in [Subscribers -> BOOLEAN] /\ busClosed' \in BOOLEAN /\ ctxDone' \in BOOLEAN
    BY <1>4 DEF BusTypes, Shutdown, BusClose, Prune, busVars, envVars
  <2>3. prunes' = prunes \/ (prunes < MaxPrunes /\ prunes' = prunes + 1)
    BY <1>4 DEF Shutdown, BusClose, Prune, envVars
  <2>4. prunes' \in 0 .. MaxPrunes
    BY <1>1, <2>3 DEF BusTypes
  <2>5. QED
    BY <2>1, <2>2, <2>4 DEF BusTypes
<1>5. CASE EventCrash
  <2>1. /\ chan' = [c \in Subscribers |-> <<>>] /\ open' = [c \in Subscribers |-> FALSE]
        /\ busClosed' = FALSE /\ ctxDone' = FALSE /\ prunes' = prunes
        /\ crashes < MaxCrashes /\ crashes' = crashes + 1
    BY <1>5 DEF EventCrash
  <2>2. \A c \in Subscribers : Len(chan'[c]) <= BufferSize
    BY <1>1, <2>1, EmptyHolds
  <2>3. crashes' \in 0 .. MaxCrashes
    BY <1>1, <2>1 DEF BusTypes
  <2>4. open' \in [Subscribers -> BOOLEAN]
    BY <2>1
  <2>5. QED
    BY <2>1, <2>2, <2>3, <2>4 DEF BusTypes
<1>6. ASSUME NEW d \in SseClients, ClientStep(d) \/ HandlerStep(d)
      PROVE  BusTypes'
  <2>1. /\ UNCHANGED <<busClosed, envVars>>
        /\ \/ chan' = chan \/ chan' = [chan EXCEPT ![d] = <<>>]
           \/ chan[d] # <<>> /\ chan' = [chan EXCEPT ![d] = Tail(chan[d])]
    BY <1>6 DEF ClientStep, HandlerStep, Connect, Disconnect, StreamReplayRead, StreamReplayWrite, StreamReceive,
                StreamDropped, StreamReturn, Subscribe, Cancel, eventVars, busVars
  <2>2. open' \in [Subscribers -> BOOLEAN]
    BY <1>6 DEF BusTypes, ClientStep, HandlerStep, Connect, Disconnect, StreamReplayRead, StreamReplayWrite,
                StreamReceive, StreamDropped, StreamReturn, Subscribe, Cancel, eventVars, busVars
  <2>3. ASSUME NEW c \in Subscribers
        PROVE  Len(chan'[c]) <= BufferSize
    <3>1. chan'[c] = chan[c] \/ chan'[c] = <<>> \/ (chan[c] # <<>> /\ chan'[c] = Tail(chan[c]))
      BY <1>1, <2>1
    <3>2. chan[c] # <<>> => Len(Tail(chan[c])) = Len(chan[c]) - 1
      BY <1>1, TailHolds
    <3>3. Len(chan'[c]) = Len(chan[c]) \/ Len(chan'[c]) = 0 \/ Len(chan'[c]) = Len(chan[c]) - 1
      BY <3>1, <3>2, EmptyHolds
    <3>4. Len(chan[c]) <= BufferSize
      BY DEF BusTypes
    <3>5. QED
      BY <1>1, <3>3, <3>4
  <2>4. QED
    BY <2>1, <2>2, <2>3 DEF BusTypes, envVars
<1>7. CASE (\E q \in PollClients : Poll(q) \/ PollNewest(q)) \/ UNCHANGED vars
  BY <1>2, <1>7, FeedLeavesLog DEF vars, eventVars
<1>8. QED
  BY <1>3, <1>4, <1>5, <1>6, <1>7 DEF Next, EventStep

\* A page has a last row, so a cursor is a number, in whatever order sequences commit.
LEMMA PollTypesStep ==
    ASSUME LogInv, PollTyped, [Next]_vars
    PROVE  PollTyped'
<1>1. (\A s \in log : s \in Nat /\ s # 0 /\ s <= top /\ s \in Sequence) /\ top \in Nat
  BY DEF LogInv, LogTyped, Sequence, log
<1>2. CASE UNCHANGED pollVars
  BY <1>2 DEF PollTyped, pollVars
<1>3. ASSUME NEW rows, rows \subseteq log, rows # {}
      PROVE  rows \in SUBSET Sequence /\ Max(rows) \in Nat /\ Min(rows) - 1 \in Nat
  <2>1. rows \subseteq 0 .. top
    BY <1>1, <1>3
  <2>2. Max(rows) \in rows /\ Min(rows) \in rows
    BY <1>1, <1>3, <2>1, Extremes
  <2>3. Min(rows) \in Nat /\ Min(rows) # 0 /\ Max(rows) \in Nat
    BY <1>1, <1>3, <2>2
  <2>4. QED
    BY <1>1, <1>3, <2>3
<1>4. ASSUME NEW q \in PollClients, Poll(q)
      PROVE  PollTyped'
  <2> DEFINE rows == RowsAfter(cursor[q], PageSize)
  <2>1. /\ rows # {} /\ got' = [got EXCEPT ![q] = got[q] \cup rows] /\ cursor' = [cursor EXCEPT ![q] = Max(rows)]
        /\ from' = from
    BY <1>4 DEF Poll
  <2>2. rows \subseteq log
    BY DEF RowsAfter
  <2> HIDE DEF rows
  <2>3. rows \in SUBSET Sequence /\ Max(rows) \in Nat
    BY <1>3, <2>1, <2>2
  <2>4. QED
    BY <2>1, <2>3 DEF PollTyped
<1>5. ASSUME NEW q \in PollClients, PollNewest(q)
      PROVE  PollTyped'
  <2> DEFINE rows == {s \in log : Cardinality({t \in log : t > s}) < PageSize}
  <2>1. /\ rows # {} /\ got' = [got EXCEPT ![q] = rows] /\ cursor' = [cursor EXCEPT ![q] = Max(rows)]
        /\ from' = [from EXCEPT ![q] = Min(rows) - 1]
    BY <1>5 DEF PollNewest
  <2>2. rows \subseteq log
    OBVIOUS
  <2> HIDE DEF rows
  <2>3. rows \in SUBSET Sequence /\ Max(rows) \in Nat /\ Min(rows) - 1 \in Nat
    BY <1>3, <2>1, <2>2
  <2>4. QED
    BY <2>1, <2>3 DEF PollTyped
<1>6. CASE EventCrash /\ FeedCrash
  BY <1>2, <1>6 DEF FeedCrash
<1>7. QED
  BY <1>2, <1>4, <1>5, <1>6, FeedLeavesLog DEF Next, feedVars, vars

\* Every variable of the log, of the bus, of the handlers and of the cursor clients keeps its type, and no
\* channel ever holds more than its buffer (Bus.Publish), for any sizes and numbers of actors.
THEOREM FeedsAreTyped ==
    ASSUME SseClients \subseteq Subscribers
    PROVE  Spec => []TypeOK
<1>1. Init => BusTypes /\ PollTyped
  <2> SUFFICES ASSUME Init PROVE BusTypes /\ PollTyped
    OBVIOUS
  <2>1. /\ chan = [c \in Subscribers |-> <<>>] /\ open = [c \in Subscribers |-> FALSE]
        /\ busClosed = FALSE /\ ctxDone = FALSE /\ crashes = 0 /\ prunes = 0
        /\ cursor = [q \in PollClients |-> 0] /\ from = [q \in PollClients |-> 0]
        /\ got = [q \in PollClients |-> {}]
    BY DEF Init, EventInit, FeedInit
  <2>2. \A c \in Subscribers : Len(chan[c]) <= BufferSize
    BY <2>1, EmptyHolds, LogAssumption
  <2>3. crashes \in 0 .. MaxCrashes /\ prunes \in 0 .. MaxPrunes
    BY <2>1, LogAssumption
  <2>4. QED
    BY <2>1, <2>2, <2>3 DEF BusTypes, PollTyped
<1>2. Init => LogInv /\ StreamInv
  BY LogInit, StreamInit
<1>3. LogInv /\ StreamInv /\ BusTypes /\ PollTyped /\ [Next]_vars => (LogInv /\ StreamInv /\ BusTypes /\ PollTyped)'
  BY LogStep, StreamStep, BusTypesStep, PollTypesStep
<1>4. LogInv /\ StreamInv /\ BusTypes /\ PollTyped => TypeOK
  BY DEF LogInv, LogTyped, StreamInv, FeedTyped, BusTypes, PollTyped, TypeOK, EventTypeOK
<1>5. QED
  BY <1>1, <1>2, <1>3, <1>4, PTL DEF Spec

-----------------------------------------------------------------------------
(* The dashboard's sign-in. *)
CONSTANTS Tabs, MaxTokens, MaxCalls
VARIABLES server, kept, tab, calls, strayed

Login == INSTANCE Session

\* Nobody is tab 0.
TabSizes == 0 \notin Tabs /\ MaxTokens \in Nat

AnyTab == [open : BOOLEAN, token : Login!Tokens, checked : BOOLEAN, required : BOOLEAN, authed : BOOLEAN, busy : BOOLEAN,
           logging : BOOLEAN, new : Login!Tokens]
AnyCall == [kind : {"auth", "login", "mint", "revoke"}, pc : {"sent", "served", "failed"}, tab : Tabs \cup {0},
            token : Login!Tokens, ans : [required : BOOLEAN, authed : BOOLEAN, token : Login!Tokens]]
AnyServer == [token : 0 .. MaxTokens, minted : 0 .. MaxTokens]

Change(c) == c.pc # "done" /\ c.kind \in {"mint", "revoke"}

\* A page hears of its probe before it asks for anything else.
CallFits(c, tabs) ==
  c.pc # "done" =>
    /\ c.kind = "auth" /\ c.tab # 0 =>
         /\ tabs[c.tab].open /\ ~tabs[c.tab].checked /\ tabs[c.tab].token = c.token /\ tabs[c.tab].new = 0
    /\ c.kind # "auth" /\ c.tab # 0 => tabs[c.tab].checked
    /\ c.pc = "sent" => c.ans.token = 0
Probe(c) == c.pc # "done" /\ c.kind = "auth" /\ c.tab # 0
\* What a tab becomes leaves a call of its own as it should be.
Heard(c, t, r) ==
  c.pc # "done" /\ c.tab = t =>
    /\ c.kind = "auth" => r.open /\ ~r.checked /\ r.token = c.token /\ r.new = 0
    /\ c.kind # "auth" => r.checked
OneProbe(cs) == \A n, m \in DOMAIN cs : Probe(cs[n]) /\ Probe(cs[m]) /\ cs[n].tab = cs[m].tab => n = m

\* What an answer under way says is still so, and a token that was refused is refused for good:
\* those in force later are new.
CallSound(c, s) ==
  c.pc # "done" =>
    /\ c.kind = "auth" => /\ c.token <= s.minted
                          /\ c.pc = "served" /\ ~c.ans.authed /\ s.token # 0 => c.token # s.token
    /\ c.kind = "login" /\ c.pc = "served" /\ c.ans.authed => c.token = s.token /\ s.token # 0
    /\ Change(c) /\ c.pc = "served" => c.ans.token = s.token
TabSound(r, s) ==
  /\ r.token <= s.minted
  /\ r.open /\ r.checked /\ r.required /\ ~r.authed /\ s.token # 0 => r.token # s.token
OneChange(cs) == \A n, m \in DOMAIN cs : Change(cs[n]) /\ Change(cs[m]) => n = m
NoOther(cs, c) == Probe(c) => \A m \in DOMAIN cs : ~(Probe(cs[m]) /\ cs[m].tab = c.tab)
NoChange(cs, c) == Change(c) => \A m \in DOMAIN cs : ~Change(cs[m])
Told(cs) == \A n \in DOMAIN cs : ~(Change(cs[n]) /\ cs[n].pc = "served")

Calls == AnyCall \cup {Login!Gone}
TabsFit(tabs, cs) ==
  /\ tabs \in [Tabs -> AnyTab] /\ cs \in Seq(Calls)
  /\ \A t \in Tabs : tabs[t].new # 0 => tabs[t].authed
  /\ \A n \in DOMAIN cs : CallFits(cs[n], tabs)
  /\ OneProbe(cs)
Sound(s, k, tabs, cs) ==
  /\ k <= s.minted /\ (s.token # 0 /\ Told(cs) => k = s.token)
  /\ \A n \in DOMAIN cs : CallSound(cs[n], s)
  /\ \A t \in Tabs : TabSound(tabs[t], s)
  /\ OneChange(cs)
SessionInv ==
  /\ server \in AnyServer /\ server.token \in {0, server.minted} /\ kept \in Login!Tokens
  /\ TabsFit(tab, calls) /\ (~strayed => Sound(server, kept, tab, calls))

LEMMA CallsAre ==
  /\ Login!Gone.pc = "done" /\ \A c \in AnyCall : c.pc # "done"
  /\ \A c \in Calls : c.pc # "done" => c \in AnyCall
  /\ \A tabs, s : CallFits(Login!Gone, tabs) /\ CallSound(Login!Gone, s)
  /\ ~Probe(Login!Gone) /\ ~Change(Login!Gone)
BY DEF Login!Gone, AnyCall, Calls, CallFits, CallSound, Probe, Change

LEMMA TokensAre == ASSUME TabSizes PROVE /\ 0 \in Login!Tokens /\ \A x \in Login!Tokens : x \in Nat
                                         /\ \A x \in 0 .. MaxTokens : x \in Login!Tokens
BY DEF TabSizes, Login!Tokens

\* One call moves on or is over.
LEMMA CallMoves ==
  ASSUME NEW cs \in Seq(Calls), NEW n \in DOMAIN cs, NEW x \in Calls, NEW ds, ds = [cs EXCEPT ![n] = x],
         cs[n].pc # "done", x.pc # "done" => x.kind = cs[n].kind /\ x.tab = cs[n].tab
  PROVE  /\ ds \in Seq(Calls) /\ DOMAIN ds = DOMAIN cs /\ \A m \in DOMAIN cs : ds[m] = IF m = n THEN x ELSE cs[m]
         /\ OneProbe(cs) => OneProbe(ds)
         /\ OneChange(cs) => OneChange(ds)
<1>1. ds \in Seq(Calls) /\ DOMAIN ds = DOMAIN cs /\ \A m \in DOMAIN cs : ds[m] = IF m = n THEN x ELSE cs[m]
  OBVIOUS
<1>2. \A m \in DOMAIN cs : /\ Probe(ds[m]) => Probe(cs[m]) /\ ds[m].tab = cs[m].tab
                           /\ Change(ds[m]) => Change(cs[m])
  BY <1>1 DEF Probe, Change
<1>3. OneProbe(cs) => OneProbe(ds)
  BY <1>1, <1>2 DEF OneProbe
<1>4. OneChange(cs) => OneChange(ds)
  BY <1>1, <1>2 DEF OneChange
<1> QED  BY <1>1, <1>3, <1>4

\* A new call.
LEMMA CallAdded ==
  ASSUME NEW cs \in Seq(Calls), NEW c \in AnyCall
  PROVE  /\ Append(cs, c) \in Seq(Calls) /\ DOMAIN Append(cs, c) = DOMAIN cs \cup {Len(cs) + 1} /\ Len(cs) + 1 \notin DOMAIN cs
         /\ Append(cs, c)[Len(cs) + 1] = c /\ \A m \in DOMAIN cs : Append(cs, c)[m] = cs[m]
         /\ OneProbe(cs) /\ NoOther(cs, c) => OneProbe(Append(cs, c))
         /\ OneChange(cs) /\ NoChange(cs, c) => OneChange(Append(cs, c))
         /\ Told(Append(cs, c)) => Told(cs)
<1> DEFINE ds == Append(cs, c)
<1>1. /\ ds \in Seq(Calls) /\ DOMAIN ds = DOMAIN cs \cup {Len(cs) + 1} /\ Len(cs) + 1 \notin DOMAIN cs
      /\ ds[Len(cs) + 1] = c /\ \A m \in DOMAIN cs : ds[m] = cs[m]
  BY DEF Calls
<1> HIDE DEF ds
<1>2. OneProbe(cs) /\ NoOther(cs, c) => OneProbe(ds)
  BY <1>1 DEF OneProbe, NoOther
<1>3. OneChange(cs) /\ NoChange(cs, c) => OneChange(ds)
  BY <1>1 DEF OneChange, NoChange
<1>4. Told(ds) => Told(cs)
  BY <1>1 DEF Told
<1> QED  BY <1>1, <1>2, <1>3, <1>4 DEF ds

\* A tab that is left hears no more of its calls; the server does.
LEMMA CallsDropped ==
  ASSUME TabSizes, NEW cs \in Seq(Calls), NEW t \in Tabs, NEW ds, ds = Login!Drop(cs, t), NEW s, NEW tabs
  PROVE  /\ ds \in Seq(Calls) /\ DOMAIN ds = DOMAIN cs
         /\ OneProbe(cs) => OneProbe(ds)
         /\ \A m \in DOMAIN ds : ~(ds[m].pc # "done" /\ ds[m].tab = t)
         /\ OneChange(cs) => OneChange(ds)
         /\ Told(ds) => Told(cs)
         /\ \A m \in DOMAIN ds : CallSound(cs[m], s) => CallSound(ds[m], s)
         /\ \A m \in DOMAIN ds : CallFits(cs[m], tabs) => CallFits(ds[m], tabs)
<1> DEFINE d(c) == IF c.pc # "done" /\ c.tab = t THEN [c EXCEPT !.tab = 0] ELSE c
<1>1. ds = [m \in DOMAIN cs |-> d(cs[m])]
  BY DEF Login!Drop
<1>2. ASSUME NEW c \in Calls
      PROVE  /\ d(c) \in Calls /\ d(c).pc = c.pc
             /\ c.pc # "done" => /\ d(c).kind = c.kind /\ d(c).token = c.token /\ d(c).ans = c.ans
                               /\ d(c).tab # t /\ (d(c).tab = c.tab \/ d(c).tab = 0)
  BY CallsAre DEF Calls, AnyCall, TabSizes
<1>3. \A m \in DOMAIN cs : cs[m] \in Calls /\ ds[m] = d(cs[m])
  BY <1>1
<1>4. ds \in Seq(Calls) /\ DOMAIN ds = DOMAIN cs
  <2>1. DOMAIN cs = 1 .. Len(cs) /\ Len(cs) \in Nat
    OBVIOUS
  <2> QED  BY <1>1, <1>2, <1>3, <2>1
<1> HIDE DEF d
<1>5. OneProbe(cs) => OneProbe(ds)
  BY <1>2, <1>3, <1>4 DEF OneProbe, Probe
<1>6. OneChange(cs) => OneChange(ds)
  BY <1>2, <1>3, <1>4 DEF OneChange, Change
<1>7. Told(ds) => Told(cs)
  BY <1>2, <1>3, <1>4 DEF Told, Change
<1>8. \A m \in DOMAIN ds : CallSound(cs[m], s) => CallSound(ds[m], s)
  BY <1>2, <1>3, <1>4 DEF CallSound, Change
<1>9. \A m \in DOMAIN ds : CallFits(cs[m], tabs) => CallFits(ds[m], tabs)
  BY <1>2, <1>3, <1>4 DEF CallFits
<1>10. \A m \in DOMAIN ds : ~(ds[m].pc # "done" /\ ds[m].tab = t)
  BY <1>2, <1>3, <1>4
<1> QED  BY <1>4, <1>5, <1>6, <1>7, <1>8, <1>9, <1>10

LEMMA SessionBegins == ASSUME TabSizes, Login!Init PROVE SessionInv
<1>1. /\ server = [token |-> 0, minted |-> 0] /\ kept = 0 /\ tab = [t \in Tabs |-> Login!Shut] /\ calls = << >>
      /\ strayed = FALSE
  BY DEF Login!Init
<1>2. Login!Shut \in AnyTab /\ Login!Shut.new = 0 /\ Login!Shut.token = 0 /\ Login!Shut.open = FALSE
  BY TokensAre DEF Login!Shut, AnyTab
<1>3. server \in AnyServer /\ server.token = 0 /\ server.minted = 0
  BY <1>1 DEF AnyServer, TabSizes
<1>4. tab \in [Tabs -> AnyTab] /\ \A t \in Tabs : tab[t] = Login!Shut
  BY <1>1, <1>2
<1>5. calls \in Seq(Calls) /\ DOMAIN calls = {}
  BY <1>1
<1>6. TabsFit(tab, calls)
  BY <1>2, <1>4, <1>5 DEF TabsFit, OneProbe
<1>7. Sound(server, kept, tab, calls)
  BY <1>1, <1>2, <1>3, <1>4, <1>5 DEF Sound, OneChange, TabSound
<1> QED  BY <1>1, <1>3, <1>6, <1>7, TokensAre DEF SessionInv

LEMMA ServeAuthKeeps == ASSUME TabSizes, SessionInv, NEW n \in DOMAIN calls, Login!ServeAuth(n) PROVE SessionInv'
<1> DEFINE c == calls[n]  a == Login!Status(c.token)
           y == [c EXCEPT !.pc = "served"]
           x == [y EXCEPT !.ans = a]
<1>1. /\ calls' = [calls EXCEPT ![n] = x] /\ server' = server /\ kept' = kept /\ tab' = tab
      /\ strayed' = (strayed \/ (c.kind = "login" /\ server.token = 0))
      /\ c.pc = "sent" /\ c.kind \in {"auth", "login"}
  BY DEF Login!ServeAuth, Login!Set
<1>2. TabsFit(tab, calls) /\ calls \in Seq(Calls) /\ server \in AnyServer /\ c \in AnyCall
  BY <1>1, CallsAre DEF SessionInv, TabsFit
<1>3. /\ a \in [required : BOOLEAN, authed : BOOLEAN, token : Login!Tokens]
      /\ a.authed = (server.token = 0 \/ c.token = server.token) /\ a.token = 0
  BY TokensAre DEF Login!Status, Login!Accepted
<1>4. /\ x \in AnyCall /\ x.kind = c.kind /\ x.tab = c.tab /\ x.token = c.token /\ x.pc = "served" /\ x.ans = a
  <2> HIDE DEF a, c
  <2> QED  BY <1>2, <1>3 DEF AnyCall
<1> HIDE DEF x, a
<1>5. /\ calls' \in Seq(Calls) /\ DOMAIN calls' = DOMAIN calls
      /\ \A m \in DOMAIN calls : calls'[m] = IF m = n THEN x ELSE calls[m]
      /\ OneProbe(calls) => OneProbe(calls')
      /\ OneChange(calls) => OneChange(calls')
  <2>1. x \in Calls /\ c.pc # "done"
    BY <1>1, <1>4 DEF Calls
  <2> QED  BY <1>1, <1>2, <1>4, <2>1, CallMoves
<1>6. TabsFit(tab, calls')
  <2>1. CallFits(c, tab)
    BY <1>2 DEF TabsFit
  <2>2. CallFits(x, tab)
    BY <1>1, <1>4, <2>1 DEF CallFits
  <2> QED  BY <1>2, <1>5, <2>2 DEF TabsFit
<1>7. ASSUME ~strayed' PROVE Sound(server, kept, tab, calls')
  <2>1. ~strayed /\ Sound(server, kept, tab, calls) /\ (c.kind = "login" => server.token # 0)
    BY <1>1, <1>7 DEF SessionInv
  <2>2. CallSound(c, server)
    BY <2>1 DEF Sound
  <2>3. CallSound(x, server)
    BY <1>1, <1>3, <1>4, <2>1, <2>2 DEF CallSound, Change
  <2>4. Told(calls') => Told(calls)
    BY <1>1, <1>5 DEF Told, Change
  <2> QED  BY <1>5, <2>1, <2>3, <2>4 DEF Sound
<1> QED  BY <1>1, <1>6, <1>7 DEF SessionInv

LEMMA FailKeeps == ASSUME TabSizes, SessionInv, NEW n \in DOMAIN calls, Login!Fail(n) PROVE SessionInv'
<1> DEFINE c == calls[n]
           x == [c EXCEPT !.pc = "failed"]
<1>1. /\ calls' = [calls EXCEPT ![n] = x] /\ server' = server /\ kept' = kept /\ tab' = tab
      /\ strayed' = (strayed \/ (c.pc # "sent" /\ c.kind \in {"mint", "revoke"}))
      /\ c.pc # "done"
  BY DEF Login!Fail, Login!Set
<1>2. TabsFit(tab, calls) /\ calls \in Seq(Calls) /\ server \in AnyServer /\ c \in AnyCall
  BY <1>1, CallsAre DEF SessionInv, TabsFit
<1>3. /\ x \in AnyCall /\ x.kind = c.kind /\ x.tab = c.tab /\ x.token = c.token /\ x.pc = "failed" /\ x.ans = c.ans
  <2> HIDE DEF c
  <2> QED  BY <1>2 DEF AnyCall
<1> HIDE DEF x
<1>4. /\ calls' \in Seq(Calls) /\ DOMAIN calls' = DOMAIN calls
      /\ \A m \in DOMAIN calls : calls'[m] = IF m = n THEN x ELSE calls[m]
      /\ OneProbe(calls) => OneProbe(calls')
      /\ OneChange(calls) => OneChange(calls')
  <2>1. x \in Calls /\ c.pc # "done"
    BY <1>1, <1>3 DEF Calls
  <2> QED  BY <1>1, <1>2, <1>3, <2>1, CallMoves
<1>5. TabsFit(tab, calls')
  <2>1. CallFits(c, tab)
    BY <1>2 DEF TabsFit
  <2>2. CallFits(x, tab)
    BY <1>1, <1>3, <2>1 DEF CallFits
  <2> QED  BY <1>2, <1>4, <2>2 DEF TabsFit
<1>6. ASSUME ~strayed' PROVE Sound(server, kept, tab, calls')
  <2>1. ~strayed /\ Sound(server, kept, tab, calls) /\ ~(c.pc # "sent" /\ c.kind \in {"mint", "revoke"})
    BY <1>1, <1>6 DEF SessionInv
  <2>2. CallSound(c, server)
    BY <2>1 DEF Sound
  <2>3. CallSound(x, server)
    BY <1>1, <1>3, <2>1, <2>2 DEF CallSound, Change
  <2>4. Told(calls') => Told(calls)
    BY <1>4, <2>1 DEF Told, Change
  <2> QED  BY <1>4, <2>1, <2>3, <2>4 DEF Sound
<1> QED  BY <1>1, <1>5, <1>6 DEF SessionInv

\* The server takes a new token or gives its token up.
LEMMA ServeTokenKeeps == ASSUME TabSizes, SessionInv, NEW n \in DOMAIN calls, Login!ServeToken(n) PROVE SessionInv'
<1> DEFINE c == calls[n]
<1>1. /\ kept' = kept /\ tab' = tab /\ c.pc = "sent" /\ c.kind \in {"mint", "revoke"}
      /\ strayed' = (strayed \/ \E m \in Login!Open : calls[m].kind = "login")
  BY DEF Login!ServeToken, Login!Entering
<1>2. TabsFit(tab, calls) /\ calls \in Seq(Calls) /\ server \in AnyServer /\ c \in AnyCall /\ Change(c)
      /\ server.token \in {0, server.minted} /\ CallFits(c, tab) /\ c.ans.token = 0
  BY <1>1, CallsAre DEF SessionInv, TabsFit, CallFits, Change
<1>3. PICK x : calls' = [calls EXCEPT ![n] = x] /\
        \/ x = [c EXCEPT !.pc = "failed"] /\ server' = server
        \/ x = [c EXCEPT !.pc = "served"] /\ c.kind = "revoke" /\ server' = [server EXCEPT !.token = 0]
        \/ /\ server.minted < MaxTokens /\ server' = [token |-> server.minted + 1, minted |-> server.minted + 1]
           /\ x = [c EXCEPT !.pc = "served", !.ans.token = server.minted + 1]
  BY DEF Login!ServeToken, Login!Set
<1>4. /\ x \in AnyCall /\ x.kind = c.kind /\ x.tab = c.tab /\ x.token = c.token /\ x.pc \in {"served", "failed"}
      /\ server' \in AnyServer /\ server'.token \in {0, server'.minted}
      /\ x.pc = "served" => x.ans.token = server'.token /\ (server'.token = 0 \/ server'.token = server.minted + 1)
      /\ server'.minted \in {server.minted, server.minted + 1}
      /\ x.pc = "failed" => server' = server
  <2> HIDE DEF c
  <2>1. server.minted \in 0 .. MaxTokens /\ server.minted \in Nat
    BY <1>2 DEF AnyServer, TabSizes
  <2>2. CASE x = [c EXCEPT !.pc = "failed"] /\ server' = server
    BY <1>2, <2>2 DEF AnyCall
  <2>3. CASE x = [c EXCEPT !.pc = "served"] /\ c.kind = "revoke" /\ server' = [server EXCEPT !.token = 0]
    <3>1. server' \in AnyServer /\ server'.token = 0 /\ server'.minted = server.minted
      BY <1>2, <2>3 DEF AnyServer, TabSizes
    <3>2. x \in AnyCall /\ x.kind = c.kind /\ x.tab = c.tab /\ x.token = c.token /\ x.pc = "served" /\ x.ans = c.ans
      BY <1>2, <2>3 DEF AnyCall
    <3> QED  BY <1>2, <3>1, <3>2
  <2>4. CASE /\ server.minted < MaxTokens /\ server' = [token |-> server.minted + 1, minted |-> server.minted + 1]
             /\ x = [c EXCEPT !.pc = "served", !.ans.token = server.minted + 1]
    <3> DEFINE k == server.minted + 1  a == [c.ans EXCEPT !.token = k]
    <3>1. k \in 0 .. MaxTokens /\ k \in Login!Tokens
      BY <2>1, <2>4, TokensAre DEF TabSizes
    <3>2. server' \in AnyServer /\ server'.token = k /\ server'.minted = k
      BY <2>4, <3>1 DEF AnyServer
    <3>3. a \in [required : BOOLEAN, authed : BOOLEAN, token : Login!Tokens] /\ a.token = k
      <4> HIDE DEF k
      <4> QED  BY <1>2, <3>1 DEF AnyCall
    <3>4. x = [[c EXCEPT !.pc = "served"] EXCEPT !.ans = a]
      BY <1>2, <2>4 DEF AnyCall
    <3> HIDE DEF k, a
    <3>5. x \in AnyCall /\ x.kind = c.kind /\ x.tab = c.tab /\ x.token = c.token /\ x.pc = "served" /\ x.ans = a
      BY <1>2, <3>3, <3>4 DEF AnyCall
    <3>6. k = server.minted + 1
      BY DEF k
    <3> QED  BY <3>2, <3>3, <3>5, <3>6
  <2> QED  BY <1>3, <2>2, <2>3, <2>4
<1>5. /\ calls' \in Seq(Calls) /\ DOMAIN calls' = DOMAIN calls
      /\ \A m \in DOMAIN calls : calls'[m] = IF m = n THEN x ELSE calls[m]
      /\ OneProbe(calls) => OneProbe(calls')
      /\ OneChange(calls) => OneChange(calls')
  <2>1. x \in Calls /\ c.pc # "done"
    BY <1>1, <1>4 DEF Calls
  <2>2. calls' = [calls EXCEPT ![n] = x]
    BY <1>3
  <2> QED  BY <1>2, <1>4, <2>1, <2>2, CallMoves
<1>6. TabsFit(tab, calls')
  <2>1. CallFits(x, tab)
    BY <1>1, <1>2, <1>4 DEF CallFits
  <2> QED  BY <1>2, <1>5, <2>1 DEF TabsFit
<1>7. ASSUME ~strayed' PROVE Sound(server', kept, tab, calls')
  <2>1. /\ ~strayed /\ Sound(server, kept, tab, calls)
        /\ \A m \in DOMAIN calls : calls[m].pc # "done" => calls[m].kind # "login"
    BY <1>1, <1>7 DEF SessionInv, Login!Open
  <2>2. \A m \in DOMAIN calls : m # n => ~Change(calls[m])
    BY <1>2, <2>1 DEF Sound, OneChange
  <2>3. CASE x.pc = "failed"
    <3>1. server' = server /\ CallSound(x, server')
      BY <1>1, <1>4, <2>3 DEF CallSound, Change
    <3>2. Told(calls)
      BY <1>1, <2>2 DEF Told
    <3> QED  BY <1>5, <2>1, <3>1, <3>2 DEF Sound
  <2>4. CASE x.pc = "served"
    <3>1. server.minted \in Nat /\ server'.token \in Nat /\ server'.minted \in Nat /\ server'.minted >= server.minted
          /\ (server'.token # 0 => server'.token > server.minted) /\ kept \in Nat
      BY <1>2, <1>4, <2>4, TokensAre DEF AnyServer, TabSizes, SessionInv
    <3>2. CallSound(x, server')
      BY <1>1, <1>4, <2>4 DEF CallSound, Change
    <3>3. ASSUME NEW m \in DOMAIN calls, m # n PROVE CallSound(calls[m], server')
      <4>1. CASE calls[m].pc = "done"
        BY <4>1 DEF CallSound
      <4>2. CASE calls[m].pc # "done"
        <5>a. calls[m] \in Calls
          BY <1>2
        <5>b. calls[m] \in AnyCall
          BY <5>a, <4>2, CallsAre
        <5>c. calls[m].token \in Login!Tokens /\ calls[m].kind \in {"auth", "login", "mint", "revoke"}
          BY <5>b DEF AnyCall
        <5>d. calls[m].kind # "login" /\ calls[m].kind \notin {"mint", "revoke"}
          BY <2>1, <2>2, <3>3, <4>2 DEF Change
        <5>1. calls[m].token \in Nat /\ calls[m].kind = "auth"
          BY <5>c, <5>d, TokensAre
        <5>2. calls[m].token <= server.minted
          BY <2>1, <4>2, <5>1 DEF Sound, CallSound
        <5> QED  BY <3>1, <5>1, <5>2 DEF CallSound, Change
      <4> QED  BY <4>1, <4>2
    <3>4. ASSUME NEW t \in Tabs PROVE TabSound(tab[t], server')
      <4>1. tab[t].token \in Nat /\ tab[t].token <= server.minted
        BY <1>2, <2>1, TokensAre DEF TabsFit, AnyTab, Sound, TabSound
      <4> QED  BY <3>1, <4>1 DEF TabSound
    <3>5. ~Told(calls')
      BY <1>4, <1>1, <1>5, <2>4 DEF Told, Change
    <3>6. kept <= server'.minted
      BY <2>1, <3>1 DEF Sound
    <3>7. \A m \in DOMAIN calls' : CallSound(calls'[m], server')
      BY <1>5, <3>2, <3>3
    <3>8. OneChange(calls')
      BY <1>5, <2>1 DEF Sound
    <3> QED  BY <3>4, <3>5, <3>6, <3>7, <3>8 DEF Sound
  <2> QED  BY <1>4, <2>3, <2>4
<1> QED  BY <1>1, <1>4, <1>6, <1>7 DEF SessionInv

\* A call that is over.
LEMMA CallOver ==
  ASSUME NEW tabs, NEW cs, TabsFit(tabs, cs), NEW n \in DOMAIN cs, cs[n].pc # "done", NEW ds, ds = [cs EXCEPT ![n] = Login!Gone]
  PROVE  /\ TabsFit(tabs, ds) /\ DOMAIN ds = DOMAIN cs /\ \A m \in DOMAIN cs : ds[m] = IF m = n THEN Login!Gone ELSE cs[m]
         /\ OneChange(cs) => OneChange(ds)
         /\ \A s, k : Sound(s, k, tabs, cs) /\ ~(Change(cs[n]) /\ cs[n].pc = "served") => Sound(s, k, tabs, ds)
<1>1. cs \in Seq(Calls) /\ Login!Gone \in Calls /\ Login!Gone.pc = "done"
  BY CallsAre DEF TabsFit, Calls
<1>2. /\ ds \in Seq(Calls) /\ DOMAIN ds = DOMAIN cs /\ \A m \in DOMAIN cs : ds[m] = IF m = n THEN Login!Gone ELSE cs[m]
      /\ OneProbe(cs) => OneProbe(ds)
      /\ OneChange(cs) => OneChange(ds)
  BY <1>1, CallMoves
<1>3. TabsFit(tabs, ds)
  BY <1>2, CallsAre DEF TabsFit
<1>4. ASSUME NEW s, NEW k, Sound(s, k, tabs, cs), ~(Change(cs[n]) /\ cs[n].pc = "served") PROVE Sound(s, k, tabs, ds)
  <2>1. Told(ds) => Told(cs)
    BY <1>2, <1>4 DEF Told
  <2>2. \A m \in DOMAIN ds : CallSound(ds[m], s)
    BY <1>2, <1>4, CallsAre DEF Sound
  <2> QED  BY <1>2, <1>4, <2>1, <2>2 DEF Sound
<1> QED  BY <1>2, <1>3, <1>4

\* One tab changes.
LEMMA TabChanges ==
  ASSUME NEW tabs \in [Tabs -> AnyTab], NEW t \in Tabs, NEW r \in AnyTab, NEW us, us = [tabs EXCEPT ![t] = r]
  PROVE  /\ us \in [Tabs -> AnyTab] /\ \A u \in Tabs : us[u] = IF u = t THEN r ELSE tabs[u]
         /\ \A c \in Calls :
              CallFits(c, tabs) /\ Heard(c, t, r) => CallFits(c, us)
<1>1. us \in [Tabs -> AnyTab] /\ \A u \in Tabs : us[u] = IF u = t THEN r ELSE tabs[u]
  OBVIOUS
<1>2. ASSUME NEW c \in Calls, CallFits(c, tabs), Heard(c, t, r)
      PROVE  CallFits(c, us)
  <2>1. CASE c.pc = "done"
    BY <2>1 DEF CallFits
  <2>2. CASE c.pc # "done" /\ c.tab = t
    BY <1>1, <1>2, <2>2 DEF CallFits, Heard
  <2>3. CASE c.pc # "done" /\ c.tab # t
    <3>1. c \in AnyCall
      BY <2>3, CallsAre
    <3>2. c.tab = 0 \/ c.tab \in Tabs
      BY <3>1 DEF AnyCall
    <3>3. c.tab # 0 => us[c.tab] = tabs[c.tab]
      BY <1>1, <2>3, <3>2
    <3> QED  BY <1>2, <2>3, <3>3 DEF CallFits
  <2> QED  BY <2>1, <2>2, <2>3
<1> QED  BY <1>1, <1>2

\* A new call, as it is sent.
LEMMA CallSent ==
  ASSUME TabSizes, NEW kind \in {"auth", "login", "mint", "revoke"}, NEW t \in Tabs, NEW k \in Login!Tokens,
         NEW c, c = Login!Call(kind, t, k)
  PROVE  c \in AnyCall /\ c.pc = "sent" /\ c.kind = kind /\ c.tab = t /\ c.token = k /\ c.ans.token = 0
<1>1. Login!NoAnswer \in [required : BOOLEAN, authed : BOOLEAN, token : Login!Tokens] /\ Login!NoAnswer.token = 0
  BY TokensAre DEF Login!NoAnswer
<1> QED  BY <1>1 DEF Login!Call, AnyCall

\* A tab is loaded with a token and probes.
Loaded(tabs, t, k) == [tabs EXCEPT ![t] = Login!Page(k)]
Probing(cs, t, k) == Append(Login!Drop(cs, t), Login!Call("auth", t, k))
LEMMA PageLoads ==
  ASSUME TabSizes, NEW tabs, NEW cs, TabsFit(tabs, cs), NEW t \in Tabs, NEW k \in Login!Tokens
  PROVE  /\ TabsFit(Loaded(tabs, t, k), Probing(cs, t, k))
         /\ \A s, x : Sound(s, x, tabs, cs) /\ k <= s.minted => Sound(s, x, Loaded(tabs, t, k), Probing(cs, t, k))
<1> DEFINE us == Loaded(tabs, t, k)  ds == Probing(cs, t, k)
<1> DEFINE es == Login!Drop(cs, t)  c == Login!Call("auth", t, k)  r == Login!Page(k)
<1>1. tabs \in [Tabs -> AnyTab] /\ cs \in Seq(Calls)
  BY DEF TabsFit
<1>2. c \in AnyCall /\ c.pc = "sent" /\ c.kind = "auth" /\ c.tab = t /\ c.token = k /\ c.ans.token = 0
  BY CallSent
<1>3. r \in AnyTab /\ r.open /\ ~r.checked /\ r.token = k /\ r.new = 0
  BY TokensAre DEF Login!Page, Login!Shut, AnyTab
<1>4. /\ es \in Seq(Calls) /\ DOMAIN es = DOMAIN cs /\ OneProbe(es)
      /\ \A m \in DOMAIN es : ~(es[m].pc # "done" /\ es[m].tab = t)
      /\ OneChange(cs) => OneChange(es)
      /\ Told(es) => Told(cs)
      /\ \A m \in DOMAIN es : CallFits(es[m], tabs)
      /\ \A s : \A m \in DOMAIN es : CallSound(cs[m], s) => CallSound(es[m], s)
  BY <1>1, CallsDropped DEF TabsFit
<1>5. us = [tabs EXCEPT ![t] = r] /\ ds = Append(es, c)
  BY DEF Loaded, Probing
<1> HIDE DEF es, c, r, us, ds
<1>6. us \in [Tabs -> AnyTab] /\ \A u \in Tabs : us[u] = IF u = t THEN r ELSE tabs[u]
  BY <1>1, <1>3, <1>5, TabChanges
<1>7. /\ ds \in Seq(Calls) /\ DOMAIN ds = DOMAIN es \cup {Len(es) + 1} /\ ds[Len(es) + 1] = c
      /\ \A m \in DOMAIN es : ds[m] = es[m]
      /\ OneProbe(ds) /\ (OneChange(es) => OneChange(ds)) /\ (Told(ds) => Told(es))
  <2>1. NoChange(es, c) /\ NoOther(es, c)
    BY <1>2, <1>4 DEF Change, Probe, NoChange, NoOther
  <2>2. es \in Seq(Calls) /\ c \in AnyCall
    BY <1>2, <1>4
  <2>3. /\ Append(es, c) \in Seq(Calls) /\ DOMAIN Append(es, c) = DOMAIN es \cup {Len(es) + 1}
        /\ Append(es, c)[Len(es) + 1] = c /\ \A m \in DOMAIN es : Append(es, c)[m] = es[m]
    BY <2>2, CallAdded
  <2>4. /\ OneProbe(es) /\ NoOther(es, c) => OneProbe(Append(es, c))
        /\ OneChange(es) /\ NoChange(es, c) => OneChange(Append(es, c))
        /\ Told(Append(es, c)) => Told(es)
    BY <2>2, CallAdded
  <2> QED  BY <1>4, <1>5, <2>1, <2>3, <2>4
<1>8. ASSUME NEW m \in DOMAIN es PROVE CallFits(es[m], us)
  <2>1. es[m] \in Calls /\ CallFits(es[m], tabs) /\ Heard(es[m], t, r)
    BY <1>4 DEF Heard
  <2> QED  BY <1>1, <1>3, <1>5, <2>1, TabChanges
<1>9. CallFits(c, us)
  BY <1>2, <1>3, <1>6 DEF CallFits
<1>10. TabsFit(us, ds)
  <2>1. \A u \in Tabs : us[u].new # 0 => us[u].authed
    BY <1>3, <1>6 DEF TabsFit
  <2>2. \A m \in DOMAIN ds : CallFits(ds[m], us)
    BY <1>7, <1>8, <1>9
  <2> QED  BY <1>6, <1>7, <2>1, <2>2 DEF TabsFit
<1>11. ASSUME NEW s, NEW x, Sound(s, x, tabs, cs), k <= s.minted PROVE Sound(s, x, us, ds)
  <2>1. CallSound(c, s)
    BY <1>2, <1>11 DEF CallSound, Change
  <2>2. \A m \in DOMAIN ds : CallSound(ds[m], s)
    BY <1>4, <1>7, <1>11, <2>1 DEF Sound
  <2>3. TabSound(r, s)
    BY <1>3, <1>11 DEF TabSound
  <2>4. \A u \in Tabs : TabSound(us[u], s)
    BY <1>6, <1>11, <2>3 DEF Sound
  <2> QED  BY <1>4, <1>7, <1>11, <2>2, <2>4 DEF Sound
<1> QED  BY <1>10, <1>11 DEF us, ds

LEMMA LoadChromeKeeps == ASSUME TabSizes, SessionInv, NEW t \in Tabs, Login!LoadChrome(t) PROVE SessionInv'
<1>1. /\ tab' = Loaded(tab, t, kept) /\ calls' = Probing(calls, t, kept)
      /\ server' = server /\ kept' = kept /\ strayed' = strayed
  BY DEF Login!LoadChrome, Login!Become, Loaded, Probing
<1>2. TabsFit(tab, calls) /\ kept \in Login!Tokens
  BY DEF SessionInv
<1>3. /\ TabsFit(tab', calls')
      /\ \A s, x : Sound(s, x, tab, calls) /\ kept <= s.minted => Sound(s, x, tab', calls')
  BY <1>1, <1>2, PageLoads
<1>4. Sound(server, kept, tab, calls) => kept <= server.minted
  BY DEF Sound
<1> QED  BY <1>1, <1>3, <1>4 DEF SessionInv

\* One tab changes and its sign is kept: nothing is said of the others.
LEMMA TabKept ==
  ASSUME NEW tabs, NEW cs, TabsFit(tabs, cs), NEW t \in Tabs, NEW r \in AnyTab, NEW us, us = [tabs EXCEPT ![t] = r],
         r.new # 0 => r.authed,
         \A m \in DOMAIN cs : Heard(cs[m], t, r)
  PROVE  /\ TabsFit(us, cs)
         /\ \A s, x : Sound(s, x, tabs, cs) /\ TabSound(r, s) => Sound(s, x, us, cs)
<1>1. tabs \in [Tabs -> AnyTab] /\ cs \in Seq(Calls)
  BY DEF TabsFit
<1>2. us \in [Tabs -> AnyTab] /\ \A u \in Tabs : us[u] = IF u = t THEN r ELSE tabs[u]
  BY <1>1, TabChanges
<1>3. ASSUME NEW m \in DOMAIN cs PROVE CallFits(cs[m], us)
  <2>1. cs[m] \in Calls /\ CallFits(cs[m], tabs)
    BY <1>1 DEF TabsFit
  <2>2. Heard(cs[m], t, r)
    OBVIOUS
  <2> QED  BY <1>1, <2>1, <2>2, TabChanges
<1>4. TabsFit(us, cs)
  BY <1>2, <1>3 DEF TabsFit
<1>5. ASSUME NEW s, NEW x, Sound(s, x, tabs, cs), TabSound(r, s) PROVE Sound(s, x, us, cs)
  BY <1>2, <1>5 DEF Sound
<1> QED  BY <1>4, <1>5

\* The answer to the probe.
LEMMA LoadAuthKeeps == ASSUME TabSizes, SessionInv, NEW n \in DOMAIN calls, Login!LoadAuth(n) PROVE SessionInv'
<1> DEFINE c == calls[n]  t == c.tab
<1>1. /\ c.pc # "done" /\ c.kind = "auth" /\ c.pc # "sent" /\ calls' = [calls EXCEPT ![n] = Login!Gone]
      /\ server' = server /\ kept' = kept /\ strayed' = strayed
      /\ t = 0 => tab' = tab
  BY DEF Login!LoadAuth, Login!Of, Login!Set
<1>2. TabsFit(tab, calls) /\ c \in AnyCall /\ CallFits(c, tab) /\ tab \in [Tabs -> AnyTab]
  BY <1>1, CallsAre DEF SessionInv, TabsFit
<1>3. /\ TabsFit(tab, calls') /\ DOMAIN calls' = DOMAIN calls
      /\ \A m \in DOMAIN calls : calls'[m] = IF m = n THEN Login!Gone ELSE calls[m]
      /\ ~strayed => Sound(server, kept, tab, calls')
  <2>1. ~Change(c)
    BY <1>1 DEF Change
  <2>2. ~strayed => Sound(server, kept, tab, calls)
    BY DEF SessionInv
  <2> QED  BY <1>1, <1>2, <2>1, <2>2, CallOver
<1>4. CASE t = 0
  BY <1>1, <1>3, <1>4 DEF SessionInv
<1>5. CASE t # 0
  <2>1. t \in Tabs /\ tab[t].open /\ ~tab[t].checked /\ tab[t].token = c.token /\ tab[t].new = 0
    BY <1>1, <1>2, <1>5 DEF AnyCall, CallFits
  <2>2. PICK r : tab' = [tab EXCEPT ![t] = r] /\
          \/ c.pc = "failed" /\ r = [tab[t] EXCEPT !.checked = TRUE, !.required = FALSE, !.authed = TRUE]
          \/ c.pc # "failed" /\ r = [tab[t] EXCEPT !.checked = TRUE, !.required = c.ans.required, !.authed = c.ans.authed]
    BY <1>5 DEF Login!LoadAuth, Login!Become
  <2>3. r \in AnyTab /\ r.new = 0 /\ r.token = c.token /\ r.checked /\ (c.pc = "failed" => r.authed)
        /\ (c.pc # "failed" => r.authed = c.ans.authed)
    <3>1. tab[t] \in AnyTab /\ c.ans.required \in BOOLEAN /\ c.ans.authed \in BOOLEAN
      BY <1>2, <2>1 DEF AnyCall
    <3> HIDE DEF c, t
    <3> QED  BY <2>1, <2>2, <3>1 DEF AnyTab
  <2>4. ASSUME NEW m \in DOMAIN calls' PROVE ~(calls'[m].pc # "done" /\ calls'[m].tab = t)
    <3>1. CASE m = n
      BY <1>3, <3>1, CallsAre
    <3>2. CASE m # n
      <4>1. calls'[m] = calls[m] /\ m \in DOMAIN calls
        BY <1>3, <3>2
      <4>2. CallFits(calls[m], tab) /\ OneProbe(calls) /\ Probe(c)
        BY <1>1, <1>2, <1>5, <4>1 DEF TabsFit, Probe
      <4>3. ~(Probe(calls[m]) /\ calls[m].tab = t)
        BY <3>2, <4>1, <4>2 DEF OneProbe
      <4> QED  BY <1>5, <2>1, <4>1, <4>2, <4>3 DEF CallFits, Probe
    <3> QED  BY <3>1, <3>2
  <2>h. \A m \in DOMAIN calls' : Heard(calls'[m], t, r)
    BY <2>4 DEF Heard
  <2>e. tab' = [tab EXCEPT ![t] = r]
    BY <2>2
  <2> HIDE DEF t
  <2>5. /\ TabsFit(tab', calls')
        /\ \A s, x : Sound(s, x, tab, calls') /\ TabSound(r, s) => Sound(s, x, tab', calls')
    BY <1>3, <2>1, <2>e, <2>3, <2>h, TabKept
  <2>6. ~strayed => TabSound(r, server)
    <3>1. ~strayed => CallSound(c, server)
      BY DEF SessionInv, Sound
    <3>2. c.pc \in {"served", "failed"}
      BY <1>1, <1>2 DEF AnyCall
    <3> QED  BY <1>1, <2>3, <3>1, <3>2 DEF CallSound, TabSound
  <2> QED  BY <1>1, <1>3, <2>5, <2>6 DEF SessionInv
<1> QED  BY <1>4, <1>5

\* A page that has heard of its probe asks for something.
LEMMA AsksKeeps ==
  ASSUME TabSizes, SessionInv, NEW kind \in {"login", "mint", "revoke"}, NEW t \in Tabs, NEW k \in Login!Tokens, tab[t].checked,
         NEW r \in AnyTab, tab' = [tab EXCEPT ![t] = r], r.checked, r.token = tab[t].token, r.authed = tab[t].authed,
         r.open = tab[t].open, r.required = tab[t].required, r.new = 0 \/ r.new = tab[t].new,
         calls' = Append(calls, Login!Call(kind, t, k)), server' = server, kept' = kept,
         ~strayed' => ~strayed /\ (kind # "login" => ~Login!Changing)
  PROVE  SessionInv'
<1> DEFINE c == Login!Call(kind, t, k)
<1>1. c \in AnyCall /\ c.pc = "sent" /\ c.kind = kind /\ c.tab = t /\ c.token = k /\ c.ans.token = 0
  BY CallSent
<1>2. calls' = Append(calls, c)
  OBVIOUS
<1> HIDE DEF c
<1>3. TabsFit(tab, calls) /\ tab \in [Tabs -> AnyTab] /\ calls \in Seq(Calls) /\ OneProbe(calls)
  BY DEF SessionInv, TabsFit
<1>4. /\ calls' \in Seq(Calls) /\ DOMAIN calls' = DOMAIN calls \cup {Len(calls) + 1} /\ calls'[Len(calls) + 1] = c
      /\ \A m \in DOMAIN calls : calls'[m] = calls[m]
      /\ OneProbe(calls')
      /\ OneChange(calls) /\ NoChange(calls, c) => OneChange(calls')
      /\ Told(calls') => Told(calls)
  <2>1. NoOther(calls, c)
    BY <1>1 DEF Probe, NoOther
  <2> QED  BY <1>1, <1>2, <1>3, <2>1, CallAdded
<1>5. CallFits(c, tab)
  BY <1>1 DEF CallFits
<1>6. TabsFit(tab, calls')
  <2>1. \A m \in DOMAIN calls' : CallFits(calls'[m], tab)
    BY <1>3, <1>4, <1>5 DEF TabsFit
  <2> QED  BY <1>3, <1>4, <2>1 DEF TabsFit
<1>7. ASSUME NEW m \in DOMAIN calls', calls'[m].pc # "done", calls'[m].tab = t PROVE calls'[m].kind # "auth"
  <2>1. CallFits(calls'[m], tab) /\ t # 0
    BY <1>6 DEF TabsFit, TabSizes
  <2> QED  BY <1>7, <2>1 DEF CallFits
<1>8. /\ TabsFit(tab', calls')
      /\ \A s, x : Sound(s, x, tab, calls') /\ TabSound(r, s) => Sound(s, x, tab', calls')
  <2>1. r.new # 0 => r.authed
    BY <1>3 DEF TabsFit
  <2>2. \A m \in DOMAIN calls' : Heard(calls'[m], t, r)
    BY <1>7 DEF Heard
  <2> QED  BY <1>6, <2>1, <2>2, TabKept
<1>9. ASSUME ~strayed' PROVE Sound(server, kept, tab', calls')
  <2>1. Sound(server, kept, tab, calls)
    BY <1>9 DEF SessionInv
  <2>2. NoChange(calls, c)
    BY <1>1, <1>9 DEF NoChange, Change, Login!Changing, Login!Open
  <2>3. CallSound(c, server)
    BY <1>1 DEF CallSound, Change
  <2>4. \A m \in DOMAIN calls' : CallSound(calls'[m], server)
    BY <1>4, <2>1, <2>3 DEF Sound
  <2>5. Sound(server, kept, tab, calls')
    BY <1>4, <2>1, <2>2, <2>4 DEF Sound
  <2>6. TabSound(r, server)
    <3>1. TabSound(tab[t], server)
      BY <2>1 DEF Sound
    <3> QED  BY <3>1 DEF TabSound
  <2> QED  BY <1>8, <2>5, <2>6
<1> QED  BY <1>8, <1>9 DEF SessionInv

LEMMA SubmitLoginKeeps == ASSUME TabSizes, SessionInv, NEW t \in Tabs, NEW k \in Login!Tokens, Login!SubmitLogin(t, k) PROVE SessionInv'
<1> DEFINE r == [tab[t] EXCEPT !.logging = TRUE]
<1>1. /\ tab[t].checked /\ tab' = [tab EXCEPT ![t] = r] /\ calls' = Append(calls, Login!Call("login", t, k))
      /\ server' = server /\ kept' = kept /\ strayed' = strayed
  BY DEF Login!SubmitLogin, Login!AtLogin, Login!Send, Login!Become
<1>2. tab[t] \in AnyTab
  BY DEF SessionInv, TabsFit
<1>3. /\ r \in AnyTab /\ r.checked = tab[t].checked /\ r.token = tab[t].token /\ r.authed = tab[t].authed /\ r.open = tab[t].open
      /\ r.required = tab[t].required /\ r.new = tab[t].new
  BY <1>2 DEF AnyTab
<1> HIDE DEF r
<1> QED  BY <1>1, <1>3, AsksKeeps

LEMMA AsksChangeKeeps ==
  ASSUME TabSizes, SessionInv, NEW t \in Tabs, Login!MintToken(t) \/ Login!OnRevokeToken(t) PROVE SessionInv'
<1> DEFINE r == [tab[t] EXCEPT !.busy = TRUE, !.new = 0]
<1>1. /\ tab[t].checked /\ tab' = [tab EXCEPT ![t] = r]
      /\ server' = server /\ kept' = kept /\ strayed' = (strayed \/ Login!Changing)
      /\ \/ calls' = Append(calls, Login!Call("mint", t, tab[t].token))
         \/ calls' = Append(calls, Login!Call("revoke", t, tab[t].token))
  BY DEF Login!MintToken, Login!OnRevokeToken, Login!Inside, Login!Send, Login!Become
<1>2. tab[t] \in AnyTab /\ tab[t].token \in Login!Tokens
  BY DEF SessionInv, TabsFit, AnyTab
<1>3. /\ r \in AnyTab /\ r.checked = tab[t].checked /\ r.token = tab[t].token /\ r.authed = tab[t].authed /\ r.open = tab[t].open
      /\ r.required = tab[t].required /\ r.new = 0
  BY <1>2, TokensAre DEF AnyTab
<1> HIDE DEF r
<1>4. CASE calls' = Append(calls, Login!Call("mint", t, tab[t].token))
  BY <1>1, <1>2, <1>3, <1>4, AsksKeeps
<1>5. CASE calls' = Append(calls, Login!Call("revoke", t, tab[t].token))
  BY <1>1, <1>2, <1>3, <1>5, AsksKeeps
<1> QED  BY <1>1, <1>4, <1>5

\* The answer to a login.
LEMMA LoggedInKeeps == ASSUME TabSizes, SessionInv, NEW n \in DOMAIN calls, Login!LoggedIn(n) PROVE SessionInv'
<1> DEFINE c == calls[n]  t == c.tab  over == [calls EXCEPT ![n] = Login!Gone]
<1>1. c.pc # "done" /\ c.kind = "login" /\ c.pc # "sent" /\ server' = server /\ strayed' = strayed
  BY DEF Login!LoggedIn, Login!Of
<1>2. /\ TabsFit(tab, calls) /\ c \in AnyCall /\ CallFits(c, tab) /\ tab \in [Tabs -> AnyTab]
      /\ ~strayed => Sound(server, kept, tab, calls)
  BY <1>1, CallsAre DEF SessionInv, TabsFit
<1>3. /\ TabsFit(tab, over) /\ DOMAIN over = DOMAIN calls
      /\ \A m \in DOMAIN calls : over[m] = IF m = n THEN Login!Gone ELSE calls[m]
      /\ ~strayed => Sound(server, kept, tab, over)
  <2>1. ~Change(c)
    BY <1>1 DEF Change
  <2> QED  BY <1>1, <1>2, <2>1, CallOver
<1>4. t # 0 => t \in Tabs /\ tab[t].checked
  BY <1>1, <1>2 DEF AnyCall, CallFits
<1>5. CASE t = 0
  <2>1. calls' = over /\ kept' = kept /\ tab' = tab
    BY <1>5 DEF Login!LoggedIn, Login!Set
  <2> QED  BY <1>1, <1>3, <2>1 DEF SessionInv
<1>6. CASE t # 0 /\ ~Login!LoginAnswers(c)
  <2> DEFINE r == [tab[t] EXCEPT !.logging = FALSE]
  <2>1. calls' = over /\ kept' = kept /\ tab' = [tab EXCEPT ![t] = r]
    BY <1>6 DEF Login!LoggedIn, Login!Set, Login!Become
  <2>2. tab[t] \in AnyTab
    BY <1>2, <1>4, <1>6
  <2>3. /\ r \in AnyTab /\ r.checked = tab[t].checked /\ r.token = tab[t].token /\ r.authed = tab[t].authed
        /\ r.open = tab[t].open /\ r.required = tab[t].required /\ r.new = tab[t].new
    <3> HIDE DEF t
    <3> QED  BY <2>2 DEF AnyTab
  <2> HIDE DEF r
  <2>4. r.new # 0 => r.authed
    BY <1>2, <1>4, <1>6, <2>3 DEF TabsFit
  <2>5. ASSUME NEW m \in DOMAIN over, over[m].pc # "done", over[m].tab = t PROVE over[m].kind # "auth"
    <3>1. CallFits(over[m], tab)
      BY <1>3 DEF TabsFit
    <3> QED  BY <1>4, <1>6, <2>5, <3>1 DEF CallFits
  <2>h. \A m \in DOMAIN over : Heard(over[m], t, r)
    BY <1>4, <1>6, <2>3, <2>5 DEF Heard
  <2> HIDE DEF over, t
  <2>6. /\ TabsFit(tab', over)
        /\ \A s, x : Sound(s, x, tab, over) /\ TabSound(r, s) => Sound(s, x, tab', over)
    BY <1>3, <1>4, <1>6, <2>1, <2>3, <2>4, <2>h, TabKept
  <2>7. ~strayed => TabSound(r, server)
    <3>1. ~strayed => TabSound(tab[t], server)
      BY <1>2, <1>4, <1>6 DEF Sound
    <3> QED  BY <2>3, <3>1 DEF TabSound
  <2> QED  BY <1>1, <1>3, <2>1, <2>6, <2>7 DEF SessionInv
<1>7. CASE t # 0 /\ Login!LoginAnswers(c)
  <2>1. /\ kept' = c.token /\ tab' = Loaded(tab, t, c.token)
        /\ calls' = Probing(over, t, c.token)
    BY <1>7 DEF Login!LoggedIn, Login!Set, Login!Become, Loaded, Probing
  <2>2. c.token \in Login!Tokens /\ c.pc = "served" /\ c.ans.authed
    BY <1>1, <1>2, <1>7 DEF AnyCall, Login!LoginAnswers, Login!GoodAnswer
  <2> HIDE DEF over, t
  <2>3. /\ TabsFit(tab', calls')
        /\ \A s, x : Sound(s, x, tab, over) /\ c.token <= s.minted => Sound(s, x, tab', calls')
    BY <1>3, <1>4, <1>7, <2>1, <2>2, PageLoads
  <2>4. ASSUME ~strayed PROVE c.token <= server.minted /\ Sound(server, c.token, tab, over)
    <3>1. c.token = server.token /\ server.token # 0
      BY <1>1, <1>2, <2>2, <2>4 DEF Sound, CallSound
    <3>2. server.token = server.minted /\ server.minted \in Nat
      BY <3>1 DEF SessionInv, AnyServer, TabSizes
    <3> QED  BY <1>3, <2>4, <3>1, <3>2 DEF Sound
  <2> QED  BY <1>1, <2>1, <2>2, <2>3, <2>4 DEF SessionInv
<1> QED  BY <1>5, <1>6, <1>7

\* The answer to a mint or a revocation.
LEMMA TokenSetKeeps == ASSUME TabSizes, SessionInv, NEW n \in DOMAIN calls, Login!TokenSet(n) PROVE SessionInv'
<1> DEFINE c == calls[n]  t == c.tab
<1>1. /\ c.kind \in {"mint", "revoke"} /\ c.pc \in {"served", "failed"} /\ calls' = [calls EXCEPT ![n] = Login!Gone]
      /\ server' = server /\ strayed' = (strayed \/ (t = 0 /\ c.pc # "failed")) /\ c.pc # "done" /\ Change(c)
  BY DEF Login!TokenSet, Login!Set, Change
<1>2. /\ TabsFit(tab, calls) /\ c \in AnyCall /\ CallFits(c, tab) /\ tab \in [Tabs -> AnyTab]
      /\ ~strayed => Sound(server, kept, tab, calls)
  BY <1>1, CallsAre DEF SessionInv, TabsFit
<1>3. /\ TabsFit(tab, calls') /\ DOMAIN calls' = DOMAIN calls
      /\ \A m \in DOMAIN calls : calls'[m] = IF m = n THEN Login!Gone ELSE calls[m]
      /\ OneChange(calls) => OneChange(calls')
      /\ c.pc = "failed" /\ ~strayed => Sound(server, kept, tab, calls')
  BY <1>1, <1>2, CallOver
<1>4. t # 0 => t \in Tabs /\ tab[t].checked
  BY <1>1, <1>2 DEF AnyCall, CallFits
<1>5. CASE t = 0
  <2>1. kept' = kept /\ tab' = tab
    BY <1>5 DEF Login!TokenSet
  <2> QED  BY <1>1, <1>3, <1>5, <2>1 DEF SessionInv
<1>6. ASSUME t # 0, NEW r \in AnyTab, r.checked, r.new # 0 => r.authed, tab' = [tab EXCEPT ![t] = r]
      PROVE  /\ TabsFit(tab', calls')
             /\ \A s, x : Sound(s, x, tab, calls') /\ TabSound(r, s) => Sound(s, x, tab', calls')
  <2>1. ASSUME NEW m \in DOMAIN calls', calls'[m].pc # "done", calls'[m].tab = t PROVE calls'[m].kind # "auth"
    <3>1. CallFits(calls'[m], tab)
      BY <1>3 DEF TabsFit
    <3> QED  BY <1>4, <1>6, <2>1, <3>1 DEF CallFits
  <2>2. \A m \in DOMAIN calls' : Heard(calls'[m], t, r)
    BY <1>6, <2>1 DEF Heard
  <2> HIDE DEF t
  <2> QED  BY <1>3, <1>4, <1>6, <2>2, TabKept
<1>7. CASE t # 0 /\ c.pc = "failed"
  <2> DEFINE r == [tab[t] EXCEPT !.busy = FALSE]
  <2>1. kept' = kept /\ tab' = [tab EXCEPT ![t] = r]
    BY <1>7 DEF Login!TokenSet, Login!Become
  <2>2. tab[t] \in AnyTab
    BY <1>2, <1>4, <1>7
  <2>3. /\ r \in AnyTab /\ r.checked = tab[t].checked /\ r.token = tab[t].token /\ r.authed = tab[t].authed
        /\ r.open = tab[t].open /\ r.required = tab[t].required /\ r.new = tab[t].new
    <3> HIDE DEF t
    <3> QED  BY <2>2 DEF AnyTab
  <2> HIDE DEF r
  <2>4. r.new # 0 => r.authed
    BY <1>2, <1>4, <1>7, <2>3 DEF TabsFit
  <2>5. /\ TabsFit(tab', calls')
        /\ \A s, x : Sound(s, x, tab, calls') /\ TabSound(r, s) => Sound(s, x, tab', calls')
    BY <1>4, <1>6, <1>7, <2>1, <2>3, <2>4
  <2>6. ~strayed => TabSound(r, server)
    <3>1. ~strayed => TabSound(tab[t], server)
      BY <1>2, <1>4, <1>7 DEF Sound
    <3> QED  BY <2>3, <3>1 DEF TabSound
  <2> QED  BY <1>1, <1>3, <1>7, <2>1, <2>5, <2>6 DEF SessionInv
<1>8. CASE t # 0 /\ c.pc # "failed"
  <2> DEFINE k == c.ans.token  r == Login!AdoptToken(tab[t], k)
  <2>1. kept' = k /\ tab' = [tab EXCEPT ![t] = r] /\ c.pc = "served"
    BY <1>1, <1>8 DEF Login!TokenSet, Login!Become
  <2>2. tab[t] \in AnyTab /\ k \in Login!Tokens
    BY <1>2, <1>4, <1>8 DEF AnyCall
  <2>3. r \in AnyTab /\ r.checked /\ r.authed /\ r.token = k
    <3> HIDE DEF t, k
    <3> QED  BY <2>2 DEF AnyTab, Login!AdoptToken
  <2> HIDE DEF r
  <2>4. /\ TabsFit(tab', calls')
        /\ \A s, x : Sound(s, x, tab, calls') /\ TabSound(r, s) => Sound(s, x, tab', calls')
    BY <1>6, <1>8, <2>1, <2>3
  <2>5. ASSUME ~strayed PROVE Sound(server, k, tab', calls')
    <3>1. Sound(server, kept, tab, calls) /\ k = server.token
      BY <1>1, <1>2, <2>1, <2>5 DEF Sound, CallSound
    <3>2. k <= server.minted
      <4>1. server.token \in {0, server.minted} /\ server.minted \in Nat
        BY DEF SessionInv, AnyServer, TabSizes
      <4> QED  BY <3>1, <4>1
    <3>3. \A m \in DOMAIN calls' : CallSound(calls'[m], server)
      BY <1>3, <3>1, CallsAre DEF Sound
    <3>4. Sound(server, k, tab, calls')
      BY <1>3, <3>1, <3>2, <3>3 DEF Sound
    <3>5. TabSound(r, server)
      BY <2>3, <3>2 DEF TabSound
    <3> QED  BY <2>4, <3>4, <3>5
  <2> QED  BY <1>1, <1>8, <2>1, <2>2, <2>4, <2>5 DEF SessionInv
<1> QED  BY <1>5, <1>7, <1>8

LEMMA SessionGoesOn == ASSUME TabSizes, SessionInv, [Login!Next]_Login!vars PROVE SessionInv'
<1>1. CASE UNCHANGED Login!vars
  BY <1>1 DEF Login!vars, SessionInv
<1>2. ASSUME NEW t \in Tabs, Login!LoadChrome(t) PROVE SessionInv'
  BY <1>2, LoadChromeKeeps
<1>3. ASSUME NEW t \in Tabs, Login!MintToken(t) \/ Login!OnRevokeToken(t) PROVE SessionInv'
  BY <1>3, AsksChangeKeeps
<1>4. ASSUME NEW t \in Tabs, NEW k \in Login!Tokens, Login!SubmitLogin(t, k) PROVE SessionInv'
  BY <1>4, SubmitLoginKeeps
<1>5. ASSUME NEW n \in DOMAIN calls, Login!ServeAuth(n) \/ Login!LoadAuth(n) \/ Login!LoggedIn(n) PROVE SessionInv'
  BY <1>5, ServeAuthKeeps, LoadAuthKeeps, LoggedInKeeps
<1>6. ASSUME NEW n \in DOMAIN calls, Login!ServeToken(n) \/ Login!TokenSet(n) \/ Login!Fail(n) PROVE SessionInv'
  BY <1>6, ServeTokenKeeps, TokenSetKeeps, FailKeeps
<1> QED  BY <1>1, <1>2, <1>3, <1>4, <1>5, <1>6 DEF Login!Next

LEMMA SessionMeansIt == ASSUME TabSizes, SessionInv PROVE Login!KeptWasTaken /\ Login!KeptIsCurrent /\ Login!NotThrownOut
<1>1. Login!KeptWasTaken
  BY DEF SessionInv, Sound, Login!KeptWasTaken
<1>2. Login!KeptIsCurrent
  BY DEF SessionInv, Sound, Told, Change, Login!KeptIsCurrent, Login!Open
<1>3. Login!NotThrownOut
  BY DEF SessionInv, TabsFit, Sound, TabSound, Login!NotThrownOut, Login!AtLogin
<1> QED  BY <1>1, <1>2, <1>3

\* However the tabs of a browser, their probes, logins, mints and revocations interleave and whichever
\* answers are lost: short of a change that another one or a login overtakes and of a new token that
\* nobody hears of, the browser keeps a token the server has minted (KeptWasTaken), keeps the one in
\* force once every answer is in (KeptIsCurrent), and no page with the token in force, nor one that
\* shows a new token, is at the login screen (NotThrownOut): dashboard/shell.go, security_view.go.
THEOREM SessionKept ==
  ASSUME TabSizes PROVE Login!Spec => [](Login!KeptWasTaken /\ Login!KeptIsCurrent /\ Login!NotThrownOut)
<1>1. Login!Init => SessionInv
  BY SessionBegins
<1>2. SessionInv /\ [Login!Next]_Login!vars => SessionInv'
  BY SessionGoesOn
<1>3. SessionInv => Login!KeptWasTaken /\ Login!KeptIsCurrent /\ Login!NotThrownOut
  BY SessionMeansIt
<1> QED  BY <1>1, <1>2, <1>3, PTL DEF Login!Spec

=============================================================================
