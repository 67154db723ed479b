--------------------------- MODULE EventPumpProofs ---------------------------
(***************************************************************************)
(* Theorems about EventPump, for every value of its constants.             *)
(***************************************************************************)
EXTENDS EventPump, FiniteSetTheorems, WellFoundedInduction, TLAPS

(***************************************************************************)
(* What the operators on sequences return.                                 *)
(***************************************************************************)
LEMMA ToSetAppend ==
    ASSUME NEW S, NEW s \in Seq(S), NEW e \in S
    PROVE  /\ Append(s, e) \in Seq(S)
           /\ ToSet(Append(s, e)) = ToSet(s) \union {e}
           /\ Len(Append(s, e)) = Len(s) + 1
<1> DEFINE t == Append(s, e)
<1>1. t \in Seq(S) /\ Len(t) = Len(s) + 1
  OBVIOUS
<1>2. \A i \in 1..Len(s) : t[i] = s[i]
  OBVIOUS
<1>3. t[Len(s) + 1] = e
  OBVIOUS
<1>4. DOMAIN t = 1..Len(s) + 1 /\ DOMAIN s = 1..Len(s) /\ Len(s) \in Nat
  BY <1>1
<1>5. ToSet(t) = ToSet(s) \union {e}
  <2> HIDE DEF t
  <2>1. ASSUME NEW i \in 1..Len(s) + 1 PROVE t[i] \in ToSet(s) \union {e}
    <3>1. i \in 1..Len(s) \/ i = Len(s) + 1
      BY <1>4
    <3>2. QED
      BY <3>1, <1>2, <1>3, <1>4 DEF ToSet
  <2>2. ASSUME NEW i \in 1..Len(s) PROVE s[i] \in ToSet(t)
    BY <1>2, <1>4 DEF ToSet
  <2>3. e \in ToSet(t)
    BY <1>3, <1>4 DEF ToSet
  <2>4. QED
    BY <2>1, <2>2, <2>3, <1>4 DEF ToSet
<1>6. QED
  BY <1>1, <1>5

LEMMA ToSetTail ==
    ASSUME NEW S, NEW s \in Seq(S), s # <<>>
    PROVE  /\ Head(s) \in S
           /\ Tail(s) \in Seq(S)
           /\ Len(Tail(s)) = Len(s) - 1
           /\ ToSet(s) = {Head(s)} \union ToSet(Tail(s))
<1>1. Head(s) \in S /\ Tail(s) \in Seq(S) /\ Len(Tail(s)) = Len(s) - 1
  OBVIOUS
<1>2. Head(s) \in ToSet(s) /\ ToSet(Tail(s)) \subseteq ToSet(s)
  BY DEF ToSet
<1>3. ASSUME NEW e \in ToSet(s), e # Head(s)
      PROVE  e \in ToSet(Tail(s))
  <2>1. PICK i \in 1..Len(s) : s[i] = e
    BY DEF ToSet
  <2>2. i # 1
    BY <2>1, <1>3
  <2>3. i - 1 \in 1..Len(Tail(s)) /\ Tail(s)[i - 1] = e
    BY <2>1, <2>2
  <2>4. DOMAIN Tail(s) = 1..Len(Tail(s))
    BY <1>1
  <2>5. QED
    BY <2>3, <2>4 DEF ToSet
<1>4. QED
  BY <1>1, <1>2, <1>3

LEMMA EmptySeq == \A S : <<>> \in Seq(S) /\ Len(<<>>) = 0
  OBVIOUS

LEMMA EmptyToSet == ToSet(<<>>) = {}
  BY DEF ToSet

LEMMA RowsInLog ==
    ASSUME NEW after, NEW n
    PROVE  /\ RowsAfter(after, n) \subseteq log
           /\ \A s \in RowsAfter(after, n) : s > after
  BY DEF RowsAfter

-----------------------------------------------------------------------------
(***************************************************************************)
(* Type correctness.                                                       *)
(***************************************************************************)
LEMMA WriterType ==
    ASSUME TypeOK, NEW w \in Writers, WriterStep(w), UNCHANGED pumpVars
    PROVE  TypeOK'
<1> USE DEF TypeOK, EventTypeOK, pumpVars, busVars, envVars, Sequence
<1>1. CASE Begin(w)
  BY <1>1 DEF Begin
<1>2. CASE Emit(w)
  <2>1. NextSeq(w) \in Sequence
    BY DEF NextSeq
  <2>2. Append(rec[w], NextSeq(w)) \in Seq(Sequence)
    BY <2>1, ToSetAppend
  <2>3. QED
    BY <1>2, <2>2 DEF Emit
<1>3. CASE Commit(w)
  <2>1. ToSet(rec[w]) \subseteq Sequence
    BY DEF ToSet
  <2>2. Len(rec[w]) \in Nat
    OBVIOUS
  <2>3. wstate' \in [Writers -> {"idle", "tx", "committed", "publishing"}]
    <3>1. CASE rec[w] = <<>>
      <4>1. wstate' = [wstate EXCEPT ![w] = "idle"]
        BY <1>3, <3>1, Zenon DEF Commit
      <4>2. QED
        BY <4>1
    <3>2. CASE rec[w] # <<>>
      <4>1. wstate' = [wstate EXCEPT ![w] = "committed"]
        BY <1>3, <3>2, Zenon DEF Commit
      <4>2. QED
        BY <4>1
    <3>3. QED
      BY <3>1, <3>2
  <2>4. committed' \subseteq Sequence
    BY <1>3, <2>1 DEF Commit
  <2>5. top' \in Nat
    <3>1. top + Len(rec[w]) \in Nat
      BY <2>2
    <3>2. QED
      BY <1>3, <3>1, Zenon DEF Commit
  <2>6. QED
    BY <1>3, <2>3, <2>4, <2>5 DEF Commit
<1>4. CASE Rollback(w)
  BY <1>4 DEF Rollback
<1>5. CASE Publish(w)
  <2>1. Head(rec[w]) \in Sequence /\ Tail(rec[w]) \in Seq(Sequence)
    BY <1>5, ToSetTail DEF Publish
  <2>2. rec' \in [Writers -> Seq(Sequence)]
    BY <1>5, <2>1 DEF Publish
  <2>3. wstate' \in [Writers -> {"idle", "tx", "committed", "publishing"}]
    BY <1>5 DEF Publish
  <2>4. /\ chan' \in [Subscribers -> Seq(Sequence)]
        /\ \A c \in Subscribers : Len(chan'[c]) <= BufferSize
        /\ open' \in [Subscribers -> BOOLEAN]
    <3>1. \A c \in Subscribers :
             /\ Append(chan[c], Head(rec[w])) \in Seq(Sequence)
             /\ Len(Append(chan[c], Head(rec[w]))) = Len(chan[c]) + 1
      BY <2>1, ToSetAppend
    <3>2. \A c \in Subscribers : Len(chan[c]) \in Nat
      OBVIOUS
    <3>3. QED
      BY <1>5, <3>1, <3>2, LogAssumption DEF Publish, FanOut
  <2>5. QED
    BY <1>5, <2>2, <2>3, <2>4 DEF Publish
<1>6. QED
  BY <1>1, <1>2, <1>3, <1>4, <1>5 DEF WriterStep

LEMMA EnvironmentType ==
    ASSUME TypeOK, \/ Shutdown /\ UNCHANGED pumpVars
                   \/ BusClose /\ UNCHANGED pumpVars
                   \/ (\E h \in log : Prune(h)) /\ UNCHANGED pumpVars
                   \/ EventCrash /\ PumpCrash
    PROVE  TypeOK'
<1> USE LogAssumption DEF TypeOK, EventTypeOK, pumpVars, logVars, busVars, envVars,
        Sequence, PumpStates
<1>1. CASE Shutdown /\ UNCHANGED pumpVars
  BY <1>1 DEF Shutdown
<1>2. CASE BusClose /\ UNCHANGED pumpVars
  BY <1>2 DEF BusClose
<1>3. CASE (\E h \in log : Prune(h)) /\ UNCHANGED pumpVars
  BY <1>3 DEF Prune, log
<1>4. CASE EventCrash /\ PumpCrash
  <2>1. EventTypeOK'
    <3>1. /\ wstate' \in [Writers -> {"idle", "tx", "committed", "publishing"}]
          /\ rec' \in [Writers -> Seq(Sequence)]
      BY <1>4, EmptySeq DEF EventCrash
    <3>2. chan' \in [Subscribers -> Seq(Sequence)]
      BY <1>4, EmptySeq DEF EventCrash
    <3>3. \A c \in Subscribers : Len(chan'[c]) <= BufferSize
      BY <1>4, EmptySeq DEF EventCrash
    <3>4. crashes' \in 0..MaxCrashes
      BY <1>4 DEF EventCrash
    <3>5. QED
      BY <1>4, <3>1, <3>2, <3>3, <3>4 DEF EventCrash
  <2>2. /\ handed' \in [Pumps -> Seq(Sequence)]
        /\ lastSeq' \in [Pumps -> Nat] /\ since' \in [Pumps -> Nat]
        /\ page' \in [Pumps -> SUBSET Sequence] /\ boot' \in Nat
    BY <1>4, EmptySeq DEF PumpCrash
  <2>3. QED
    BY <1>4, <2>1, <2>2 DEF PumpCrash
<1>5. QED
  BY <1>1, <1>2, <1>3, <1>4

LEMMA PumpType ==
    ASSUME TypeOK, NEW c \in Pumps, PumpStep(c)
    PROVE  TypeOK'
<1> USE LogAssumption, PumpAssumption
    DEF TypeOK, EventTypeOK, pumpVars, logVars, busVars, envVars, eventVars,
        Sequence, PumpStates, Goto
<1>1. CASE HeadSequence(c)
  BY <1>1 DEF HeadSequence, log
<1>2. CASE PumpSubscribe(c)
  BY <1>2 DEF PumpSubscribe, Subscribe
<1>3. CASE ReplayRead(c)
  <2>1. RowsAfter(lastSeq[c], PageSize) \subseteq Sequence
    BY RowsInLog DEF log
  <2> DEFINE rows == RowsAfter(lastSeq[c], PageSize)
  <2>2. /\ UNCHANGED <<eventVars, lastSeq, since, handed, boot>>
        /\ \/ page' = page /\ Goto(c, "live")
           \/ page' = [page EXCEPT ![c] = rows] /\ \E to \in {"live", "lastpage", "page"} : Goto(c, to)
    <3>1. CASE ~ctxDone /\ ReplayPage(c, rows)
      <4>1. \E to \in {"live", "lastpage", "page"} :
              to = CASE rows = {} -> "live" [] rows # {} /\ Cardinality(rows) < PageSize -> "lastpage"
                     [] OTHER -> "page"
        OBVIOUS
      <4>2. QED
        BY <1>3, <3>1, <4>1, Zenon DEF ReplayRead, ReplayPage
    <3>2. CASE Goto(c, "live") /\ UNCHANGED page
      BY <1>3, <3>2, Zenon DEF ReplayRead
    <3>3. QED
      BY <1>3, <3>1, <3>2, Zenon DEF ReplayRead
  <2> HIDE DEF rows
  <2>3. page' \in [Pumps -> SUBSET Sequence]
    BY <2>1, <2>2 DEF rows
  <2>4. ppc' \in [Pumps -> PumpStates]
    BY <2>2
  <2>5. QED
    BY <2>2, <2>3, <2>4
<1>4. CASE ReplayDispatch(c)
  <2>1. PICK s \in page[c] : HandOver(c, s) /\ page' = [page EXCEPT ![c] = @ \ {s}]
    BY <1>4 DEF ReplayDispatch
  <2>2. Append(handed[c], s) \in Seq(Sequence)
    BY ToSetAppend
  <2>3. ppc' \in [Pumps -> PumpStates]
    BY <1>4 DEF ReplayDispatch
  <2>4. QED
    BY <1>4, <2>1, <2>2, <2>3 DEF ReplayDispatch, HandOver
<1>5. CASE LiveReceive(c)
  <2>1. /\ Head(chan[c]) \in Sequence
        /\ Tail(chan[c]) \in Seq(Sequence)
        /\ Len(Tail(chan[c])) = Len(chan[c]) - 1
    BY <1>5, ToSetTail DEF LiveReceive
  <2>2. Append(handed[c], Head(chan[c])) \in Seq(Sequence)
    BY <2>1, ToSetAppend
  <2>3. \A d \in Subscribers : Len(chan[d]) \in Nat
    OBVIOUS
  <2>4. /\ chan' \in [Subscribers -> Seq(Sequence)]
        /\ \A d \in Subscribers : Len(chan'[d]) <= BufferSize
    BY <1>5, <2>1, <2>3 DEF LiveReceive
  <2>5. handed' \in [Pumps -> Seq(Sequence)] /\ lastSeq' \in [Pumps -> Nat]
    BY <1>5, <2>1, <2>2 DEF LiveReceive, HandOver
  <2>6. QED
    BY <1>5, <2>4, <2>5 DEF LiveReceive
<1>6. CASE LiveEnd(c)
  BY <1>6 DEF LiveEnd
<1>7. CASE PumpCancel(c)
  BY <1>7 DEF PumpCancel, Cancel
<1>8. QED
  BY <1>1, <1>2, <1>3, <1>4, <1>5, <1>6, <1>7 DEF PumpStep

\* Every reachable state of the loop and the log is well typed, for any
\* number of writers and subscribers and either backend.
THEOREM TypeCorrect == Spec => []TypeOK
<1>1. Init => TypeOK
  <2> SUFFICES ASSUME Init PROVE TypeOK
    OBVIOUS
  <2> USE EmptySeq DEF Init, EventInit, PumpInit
  <2>1. /\ wstate \in [Writers -> {"idle", "tx", "committed", "publishing"}]
        /\ rec \in [Writers -> Seq(Sequence)]
    OBVIOUS
  <2>2. chan \in [Subscribers -> Seq(Sequence)]
    OBVIOUS
  <2>3. \A c \in Subscribers : Len(chan[c]) <= BufferSize
    BY LogAssumption
  <2>4. crashes \in 0..MaxCrashes /\ prunes \in 0..MaxPrunes
    BY LogAssumption
  <2>5. /\ handed \in [Pumps -> Seq(Sequence)]
        /\ lastSeq \in [Pumps -> Nat] /\ since \in [Pumps -> Nat]
        /\ page \in [Pumps -> SUBSET Sequence] /\ boot \in Nat
    OBVIOUS
  <2>6. QED
    BY <2>1, <2>2, <2>3, <2>4, <2>5 DEF TypeOK, EventTypeOK, PumpStates
<1>2. TypeOK /\ [Next]_vars => TypeOK'
  <2> SUFFICES ASSUME TypeOK, [Next]_vars PROVE TypeOK'
    OBVIOUS
  <2>1. CASE UNCHANGED vars
    BY <2>1 DEF vars, eventVars, logVars, busVars, envVars, pumpVars, TypeOK, EventTypeOK
  <2>2. CASE Next
    BY <2>2, WriterType, EnvironmentType, PumpType DEF Next, EventStep
  <2>3. QED
    BY <2>1, <2>2
<1>3. QED
  BY <1>1, <1>2, PTL DEF Spec

-----------------------------------------------------------------------------
(***************************************************************************)
(* Order.  What was dispatched lies at or below lastSeq, what the replay   *)
(* still holds lies above it, so whichever event comes next extends the    *)
(* history upwards.                                                        *)
(***************************************************************************)
Increasing(s) == \A i, j \in DOMAIN s : i < j => s[i] < s[j]

OrderOf(c) ==
    /\ Increasing(handed[c])
    /\ \A s \in ToSet(handed[c]) : s <= lastSeq[c]
    /\ \A s \in page[c] : s > lastSeq[c]
    /\ ppc[c] \notin {"page", "lastpage"} => page[c] = {}
    /\ ppc[c] = "head" => handed[c] = <<>>

OrderInv == \A c \in Pumps : OrderOf(c)

LEMMA IncreasingAppend ==
    ASSUME NEW s \in Seq(Sequence), NEW e \in Sequence, Increasing(s),
           \A t \in ToSet(s) : t < e
    PROVE  Increasing(Append(s, e))
<1>1. /\ DOMAIN Append(s, e) = 1..Len(s) + 1 /\ DOMAIN s = 1..Len(s)
      /\ Len(s) \in Nat
      /\ Append(s, e)[Len(s) + 1] = e
  BY DEF Sequence
<1>2. \A i \in 1..Len(s) : Append(s, e)[i] = s[i] /\ s[i] < e
  BY <1>1 DEF ToSet
<1>3. ASSUME NEW i \in 1..Len(s) + 1, NEW j \in 1..Len(s) + 1, i < j
      PROVE  Append(s, e)[i] < Append(s, e)[j]
  <2>1. i \in 1..Len(s)
    BY <1>1, <1>3
  <2>2. CASE j = Len(s) + 1
    BY <1>1, <1>2, <2>1, <2>2
  <2>3. CASE j \in 1..Len(s)
    BY <1>1, <1>2, <1>3, <2>1, <2>3 DEF Increasing
  <2>4. QED
    BY <1>1, <2>2, <2>3
<1>4. QED
  BY <1>1, <1>3 DEF Increasing

\* Handing over an event above lastSeq keeps the order.
LEMMA HandOverOrder ==
    ASSUME TypeOK, NEW c \in Pumps, OrderOf(c), NEW s \in Sequence, s > lastSeq[c],
           HandOver(c, s)
    PROVE  /\ Increasing(handed'[c])
           /\ \A t \in ToSet(handed'[c]) : t <= lastSeq'[c]
           /\ lastSeq'[c] = s
<1>1. /\ handed'[c] = Append(handed[c], s) /\ lastSeq'[c] = s
      /\ handed[c] \in Seq(Sequence) /\ lastSeq[c] \in Nat
  BY DEF HandOver, TypeOK
<1>2. ToSet(handed[c]) \subseteq Sequence
  BY <1>1 DEF ToSet
<1>3. \A t \in ToSet(handed[c]) : t < s
  BY <1>1, <1>2 DEF OrderOf, Sequence
<1>4. Increasing(handed'[c])
  BY <1>1, <1>3, IncreasingAppend DEF OrderOf
<1>5. ToSet(handed'[c]) = ToSet(handed[c]) \union {s}
  BY <1>1, ToSetAppend
<1>6. QED
  BY <1>1, <1>2, <1>3, <1>4, <1>5 DEF Sequence

LEMMA PumpOrder ==
    ASSUME TypeOK, NEW c \in Pumps, OrderOf(c), PumpStep(c)
    PROVE  OrderOf(c)'
<1> USE DEF Goto, pumpVars
<1>t. /\ ppc \in [Pumps -> PumpStates] /\ page \in [Pumps -> SUBSET Sequence]
      /\ lastSeq \in [Pumps -> Nat] /\ handed \in [Pumps -> Seq(Sequence)]
      /\ chan \in [Subscribers -> Seq(Sequence)] /\ c \in Subscribers
  BY PumpAssumption DEF TypeOK, EventTypeOK
<1>1. CASE HeadSequence(c)
  <2>1. handed'[c] = <<>> /\ page'[c] = {} /\ ppc'[c] \in {"stopped", "subscribe"}
    BY <1>1, <1>t DEF HeadSequence, OrderOf
  <2>2. Increasing(handed'[c]) /\ ToSet(handed'[c]) = {}
    BY <2>1, EmptyToSet DEF Increasing
  <2>3. QED
    BY <2>1, <2>2 DEF OrderOf, Increasing
<1>2. CASE PumpSubscribe(c)
  BY <1>2, <1>t DEF PumpSubscribe, OrderOf, Increasing
<1>3. CASE ReplayRead(c)
  <2>1. UNCHANGED <<handed, lastSeq>> /\ ppc[c] = "replay" /\ page[c] = {}
    BY <1>3 DEF ReplayRead, OrderOf
  <2>2. CASE ReplayPage(c, RowsAfter(lastSeq[c], PageSize))
    <3>1. \A s \in page'[c] : s > lastSeq[c]
      BY <2>2, <1>t, RowsInLog DEF ReplayPage
    <3>2. ppc'[c] \notin {"page", "lastpage"} => page'[c] = {}
      BY <2>2, <1>t DEF ReplayPage
    <3>3. ppc'[c] # "head"
      BY <2>2, <1>t DEF ReplayPage
    <3>4. QED
      BY <2>1, <3>1, <3>2, <3>3 DEF OrderOf, Increasing
  <2>3. CASE Goto(c, "live") /\ UNCHANGED page
    BY <2>1, <2>3, <1>t DEF OrderOf, Increasing
  <2>4. QED
    BY <1>3, <2>2, <2>3 DEF ReplayRead
<1>4. CASE ReplayDispatch(c)
  <2>1. PICK s \in page[c] : /\ IsLeast(s, page[c]) /\ HandOver(c, s)
                             /\ page' = [page EXCEPT ![c] = @ \ {s}]
    BY <1>4 DEF ReplayDispatch
  <2>2. s \in Sequence /\ s > lastSeq[c]
    BY <1>t DEF OrderOf
  <2>3. \A t \in page'[c] : t > s
    BY <2>1, <1>t DEF IsLeast, Sequence
  <2>4. ppc'[c] \notin {"page", "lastpage"} => page'[c] = {}
    BY <1>4, <1>t DEF ReplayDispatch
  <2>5. ppc'[c] # "head"
    BY <1>4, <1>t DEF ReplayDispatch
  <2>6. QED
    BY <2>1, <2>2, <2>3, <2>4, <2>5, HandOverOrder DEF OrderOf, Increasing
<1>5. CASE LiveReceive(c)
  <2>1. UNCHANGED <<ppc, page>> /\ ppc[c] = "live" /\ page[c] = {}
    BY <1>5 DEF LiveReceive, OrderOf
  <2>2. Head(chan[c]) \in Sequence
    BY <1>5, <1>t, ToSetTail DEF LiveReceive
  <2>3. CASE Head(chan[c]) <= lastSeq[c]
    BY <1>5, <2>1, <2>3 DEF LiveReceive, OrderOf, Increasing
  <2>4. CASE ~(Head(chan[c]) <= lastSeq[c])
    <3>1. Head(chan[c]) > lastSeq[c] /\ HandOver(c, Head(chan[c]))
      BY <1>5, <1>t, <2>2, <2>4 DEF LiveReceive, Sequence
    <3>2. QED
      BY <2>1, <2>2, <3>1, HandOverOrder DEF OrderOf, Increasing
  <2>5. QED
    BY <2>3, <2>4
<1>6. CASE LiveEnd(c)
  BY <1>6, <1>t DEF LiveEnd, OrderOf, Increasing
<1>7. CASE PumpCancel(c)
  BY <1>7, <1>t DEF PumpCancel, OrderOf, Increasing
<1>8. QED
  BY <1>1, <1>2, <1>3, <1>4, <1>5, <1>6, <1>7 DEF PumpStep

\* A step of one loop leaves the local state of the others alone.
LEMMA PumpOthers ==
    ASSUME TypeOK, NEW c \in Pumps, PumpStep(c), NEW d \in Pumps, d # c
    PROVE  /\ ppc'[d] = ppc[d] /\ lastSeq'[d] = lastSeq[d] /\ since'[d] = since[d]
           /\ page'[d] = page[d] /\ handed'[d] = handed[d]
           /\ chan'[d] = chan[d] /\ open'[d] = open[d]
<1> USE PumpAssumption
    DEF TypeOK, EventTypeOK, Goto, pumpVars, eventVars, busVars, HandOver, ReplayPage,
        Subscribe, Cancel
<1>1. CASE HeadSequence(c)
  BY <1>1 DEF HeadSequence
<1>2. CASE PumpSubscribe(c)
  BY <1>2 DEF PumpSubscribe
<1>3. CASE ReplayRead(c)
  BY <1>3 DEF ReplayRead
<1>4. CASE ReplayDispatch(c)
  BY <1>4 DEF ReplayDispatch
<1>5. CASE LiveReceive(c)
  BY <1>5 DEF LiveReceive
<1>6. CASE LiveEnd(c)
  BY <1>6 DEF LiveEnd
<1>7. CASE PumpCancel(c)
  BY <1>7 DEF PumpCancel
<1>8. QED
  BY <1>1, <1>2, <1>3, <1>4, <1>5, <1>6, <1>7 DEF PumpStep

\* The inductive invariant behind DispatchInOrder.
THEOREM OrderCorrect == Spec => []OrderInv
<1>1. Init => OrderInv
  BY EmptyToSet DEF Init, PumpInit, OrderInv, OrderOf, Increasing
<1>2. TypeOK /\ OrderInv /\ [Next]_vars => OrderInv'
  <2> SUFFICES ASSUME TypeOK, OrderInv, [Next]_vars, NEW d \in Pumps
               PROVE  OrderOf(d)'
    BY DEF OrderInv
  <2>0. OrderOf(d)
    BY DEF OrderInv
  <2>1. CASE UNCHANGED pumpVars
    BY <2>0, <2>1 DEF pumpVars, OrderOf, Increasing
  <2>2. CASE PumpCrash
    BY <2>2, EmptyToSet DEF PumpCrash, OrderOf, Increasing
  <2>3. ASSUME NEW c \in Pumps, PumpStep(c) PROVE OrderOf(d)'
    <3>1. CASE c = d
      BY <2>0, <2>3, <3>1, PumpOrder
    <3>2. CASE c # d
      BY <2>0, <2>3, <3>2, PumpOthers DEF OrderOf, Increasing
    <3>3. QED
      BY <3>1, <3>2
  <2>4. QED
    BY <2>1, <2>2, <2>3 DEF Next, vars
<1>3. QED
  BY <1>1, <1>2, TypeCorrect, PTL DEF Spec

\* Each loop dispatches every event at most once and in sequence order, with
\* any number of concurrent writers, on either backend and with reads that
\* fail.
THEOREM DispatchInOrder == Spec => []InOrder
<1>1. OrderInv => InOrder
  BY DEF OrderInv, OrderOf, Increasing, InOrder
<1>2. QED
  BY <1>1, OrderCorrect, PTL

-----------------------------------------------------------------------------
(***************************************************************************)
(* With one writer, and reads that do not fail, a loop of EventPump is a   *)
(* gap-free cursor over the log: it implements LogDelivery.                *)
(*                                                                         *)
(* The argument.  One writer publishes in sequence order, so a channel is  *)
(* sorted and lies below what is still unpublished.  A short page is       *)
(* everything above lastSeq, so from the last page on whatever lies above  *)
(* lastSeq is in the page, in the channel, or still to be published while  *)
(* the subscription is open; and below an event of the channel nothing is  *)
(* missing even after a drop.  So the next event the loop takes is always  *)
(* the least one of the log above lastSeq.                                 *)
(***************************************************************************)

(***************************************************************************)
(* Pages.                                                                  *)
(***************************************************************************)
LEMMA HasLeast ==
    ASSUME NEW S, S \subseteq Nat, S # {}
    PROVE  \E s \in S : \A t \in S : s <= t
<1>1. PICK x \in S : \A y \in S : ~(<<y, x>> \in OpToRel(<, Nat))
  BY NatLessThanWellFounded, WFMin
<1>2. \A y \in S : ~(y < x)
  BY <1>1 DEF OpToRel
<1>3. QED
  BY <1>2

LEMMA FiniteBelow ==
    ASSUME NEW S, S \subseteq Nat, NEW n \in Nat
    PROVE  IsFiniteSet({t \in S : t < n})
<1> DEFINE B == {t \in S : t < n}
<1>1. B \in SUBSET Nat
  OBVIOUS
<1>2. \A t \in B : t <= n
  OBVIOUS
<1>3. QED
  BY <1>1, <1>2, FS_BoundedSetOfNaturals

\* A page leaves nothing out below any of its rows.
LEMMA PageDownClosed ==
    ASSUME log \subseteq Nat, NEW after \in Nat, NEW n \in Nat,
           NEW s \in RowsAfter(after, n), NEW t \in log, after < t, t < s
    PROVE  t \in RowsAfter(after, n)
<1> DEFINE rows == {u \in log : u > after}
<1>1. s \in rows /\ t \in rows /\ rows \subseteq Nat
  BY DEF RowsAfter
<1>2. {u \in rows : u < t} \in SUBSET {u \in rows : u < s}
  BY <1>1
<1>3. IsFiniteSet({u \in rows : u < s})
  BY <1>1, FiniteBelow
<1>4. IsFiniteSet({u \in rows : u < t})
  BY <1>1, FiniteBelow
<1>5. Cardinality({u \in rows : u < t}) <= Cardinality({u \in rows : u < s})
  BY <1>2, <1>3, FS_Subset
<1>6. Cardinality({u \in rows : u < s}) < n
  BY DEF RowsAfter
<1>7. /\ Cardinality({u \in rows : u < t}) \in Nat
      /\ Cardinality({u \in rows : u < s}) \in Nat
  BY <1>3, <1>4, FS_CardinalityType
<1>8. Cardinality({u \in rows : u < t}) < n
  BY <1>5, <1>6, <1>7
<1>9. QED
  BY <1>1, <1>8 DEF RowsAfter

\* A page shorter than the limit is everything above the cursor.
LEMMA ShortPage ==
    ASSUME log \subseteq Nat, NEW after \in Nat, NEW n \in Nat,
           Cardinality(RowsAfter(after, n)) < n
    PROVE  \A t \in log : t > after => t \in RowsAfter(after, n)
<1> DEFINE rows == {u \in log : u > after}
           left == {u \in rows : u \notin RowsAfter(after, n)}
<1>1. rows \subseteq Nat /\ left \subseteq Nat
  OBVIOUS
<1>2. SUFFICES ASSUME left # {} PROVE FALSE
  OBVIOUS
<1>3. PICK t \in left : \A u \in left : t <= u
  BY <1>1, <1>2, HasLeast
<1> DEFINE below == {u \in rows : u < t}
<1>4. t \in Nat /\ IsFiniteSet(below) /\ Cardinality(below) \in Nat
  BY <1>1, FiniteBelow, FS_CardinalityType
<1>5. ~(Cardinality(below) < n)
  BY DEF RowsAfter
<1>6. below \subseteq RowsAfter(after, n)
  BY <1>1, <1>3
<1>7. RowsAfter(after, n) \subseteq below
  <2> SUFFICES ASSUME NEW s \in RowsAfter(after, n), ~(s < t) PROVE FALSE
    BY DEF RowsAfter
  <2>1. s \in Nat /\ t < s /\ t \in log /\ after < t
    BY <1>4 DEF RowsAfter
  <2>2. t \in RowsAfter(after, n)
    BY <2>1, PageDownClosed
  <2>3. QED
    BY <2>2
<1>8. RowsAfter(after, n) = below
  BY <1>6, <1>7
<1>9. QED
  BY <1>4, <1>5, <1>8

-----------------------------------------------------------------------------
(***************************************************************************)
(* The log, written by w alone.                                            *)
(***************************************************************************)
Alloc(w) == IF Backend = "sqlite" /\ wstate[w] = "tx" THEN top + Len(rec[w]) ELSE top

LogInv(w) ==
    /\ Increasing(rec[w])
    /\ wstate[w] = "idle" => rec[w] = <<>>
    /\ \A s \in committed : s <= top
    /\ \A s \in ToSet(rec[w]) : s <= Alloc(w)
    /\ wstate[w] = "tx" => \A s \in ToSet(rec[w]), t \in committed : t < s
    /\ wstate[w] \in {"committed", "publishing"} => ToSet(rec[w]) \subseteq committed
    /\ horizon \in committed \union {0}

\* Committed and not yet published.
Unpublished(w) ==
    IF wstate[w] \in {"committed", "publishing"} THEN ToSet(rec[w]) ELSE {}

\* What is on its way, or was handed over, was committed.
FlowInv ==
    /\ \A c \in Subscribers : ToSet(chan[c]) \subseteq committed
    /\ \A c \in Pumps : page[c] \subseteq committed
    /\ \A c \in Pumps : ToSet(handed[c]) \subseteq committed
    /\ \A c \in Pumps : lastSeq[c] \in committed \union {0}

\* A queue written in order: its head is its least, its tail is in order.
LEMMA IncreasingTail ==
    ASSUME NEW s \in Seq(Sequence), s # <<>>, Increasing(s)
    PROVE  /\ Increasing(Tail(s))
           /\ \A t \in ToSet(Tail(s)) : Head(s) < t
<1>1. /\ DOMAIN s = 1..Len(s) /\ Len(s) \in Nat /\ Len(s) # 0
      /\ DOMAIN Tail(s) = 1..(Len(s) - 1)
      /\ \A i \in 1..(Len(s) - 1) : Tail(s)[i] = s[i + 1]
      /\ Head(s) = s[1]
  OBVIOUS
<1>2. \A i \in 1..(Len(s) - 1) : s[1] < s[i + 1]
  BY <1>1 DEF Increasing
<1>3. Increasing(Tail(s))
  BY <1>1 DEF Increasing
<1>4. QED
  BY <1>1, <1>2, <1>3 DEF ToSet

LEMMA WriterLog ==
    ASSUME TypeOK, NEW w \in Writers, Writers = {w}, LogInv(w), WriterStep(w)
    PROVE  LogInv(w)'
<1> USE DEF LogInv
<1>t. /\ committed \subseteq Sequence /\ horizon \in Nat /\ top \in Nat
      /\ wstate \in [Writers -> {"idle", "tx", "committed", "publishing"}]
      /\ rec \in [Writers -> Seq(Sequence)] /\ Len(rec[w]) \in Nat
      /\ ToSet(rec[w]) \subseteq Sequence
  BY DEF TypeOK, EventTypeOK, ToSet
<1>1. CASE Begin(w)
  <2>1. rec[w] = <<>> /\ ToSet(rec[w]) = {}
    BY <1>1, EmptyToSet DEF Begin
  <2>2. QED
    BY <1>1, <1>t, <2>1 DEF Begin, Increasing
<1>2. CASE Emit(w)
  <2>1. NextSeq(w) = Alloc(w) + 1 /\ Alloc(w) \in Nat /\ top <= Alloc(w)
    BY <1>2, <1>t DEF Emit, NextSeq, Alloc
  <2>2. NextSeq(w) \in Sequence /\ \A s \in ToSet(rec[w]) \union committed : s < NextSeq(w)
    <3>1. NextSeq(w) \in Sequence
      BY <2>1 DEF Sequence
    <3>2. ASSUME NEW s \in ToSet(rec[w]) PROVE s < NextSeq(w)
      BY <2>1, <1>t DEF Sequence
    <3>3. ASSUME NEW s \in committed PROVE s < NextSeq(w)
      BY <2>1, <1>t DEF Sequence
    <3>4. QED
      BY <3>1, <3>2, <3>3
  <2>3. rec'[w] = Append(rec[w], NextSeq(w)) /\ wstate'[w] = "tx" /\ committed' = committed
    BY <1>2, <1>t DEF Emit
  <2>4. ToSet(rec'[w]) = ToSet(rec[w]) \union {NextSeq(w)} /\ Len(rec'[w]) = Len(rec[w]) + 1
    BY <1>t, <2>2, <2>3, ToSetAppend
  <2>5. Increasing(rec'[w])
    BY <1>t, <2>2, <2>3, IncreasingAppend
  <2>6. Alloc(w)' = Alloc(w) + 1 /\ top' \in Nat /\ top <= top'
    BY <1>2, <1>t, <2>3, <2>4 DEF Emit, Alloc
  <2>7. \A s \in ToSet(rec'[w]) : s <= Alloc(w)'
    BY <1>t, <2>1, <2>2, <2>4, <2>6 DEF Sequence
  <2>8. \A s \in ToSet(rec'[w]), t \in committed' : t < s
    BY <1>2, <2>2, <2>3, <2>4 DEF Emit
  <2>9. ASSUME NEW s \in committed' PROVE s <= top'
    <3>1. s \in Nat /\ s <= top
      BY <1>t, <2>3 DEF Sequence
    <3>2. QED
      BY <1>t, <2>6, <3>1
  <2>10. horizon' \in committed' \union {0}
    BY <1>2, <2>3 DEF Emit
  <2>11. QED
    BY <2>3, <2>5, <2>7, <2>8, <2>9, <2>10
<1>3. CASE Commit(w)
  <2>1. /\ committed' = committed \union ToSet(rec[w])
        /\ rec' = rec /\ horizon' = horizon /\ wstate[w] = "tx"
    BY <1>3 DEF Commit
  <2>2. wstate'[w] = IF rec[w] = <<>> THEN "idle" ELSE "committed"
    BY <1>3, <1>t DEF Commit
  <2>3. top' = Alloc(w) /\ Alloc(w)' = top' /\ top' \in Nat /\ top <= top'
    <3>1. top' = Alloc(w)
      BY <1>3, <2>1 DEF Commit, Alloc
    <3>2. wstate'[w] # "tx"
      BY <2>2
    <3>3. Alloc(w) \in Nat /\ top <= Alloc(w)
      BY <1>t DEF Alloc
    <3>4. Alloc(w)' = top'
      BY <3>2 DEF Alloc
    <3>5. QED
      BY <3>1, <3>3, <3>4
  <2>4. \A s \in committed' : s <= top'
    BY <1>t, <2>1, <2>3 DEF Sequence
  <2>5. \A s \in ToSet(rec'[w]) : s <= Alloc(w)'
    BY <2>1, <2>3
  <2>6. horizon' \in committed' \union {0}
    BY <2>1
  <2>7. wstate'[w] # "tx" /\ (wstate'[w] = "idle" => rec'[w] = <<>>)
    BY <2>1, <2>2
  <2>8. QED
    BY <2>1, <2>4, <2>5, <2>6, <2>7
<1>4. CASE Rollback(w)
  <2>1. rec'[w] = <<>> /\ wstate'[w] = "idle" /\ ToSet(rec'[w]) = {} /\ Increasing(rec'[w])
    BY <1>4, <1>t, EmptyToSet DEF Rollback, Increasing
  <2>2. UNCHANGED <<committed, top, horizon>>
    BY <1>4 DEF Rollback
  <2>3. QED
    BY <2>1, <2>2
<1>5. CASE Publish(w)
  <2>1. /\ rec'[w] = Tail(rec[w]) /\ rec[w] # <<>> /\ wstate[w] \in {"committed", "publishing"}
        /\ wstate'[w] \in {"idle", "publishing"}
        /\ wstate'[w] = "idle" => Len(rec[w]) = 1
        /\ UNCHANGED <<committed, top, horizon>>
    BY <1>5, <1>t DEF Publish
  <2>2. ToSet(rec'[w]) \subseteq ToSet(rec[w]) /\ Increasing(rec'[w])
    BY <1>t, <2>1, ToSetTail, IncreasingTail
  <2>3. Len(rec[w]) = 1 => rec'[w] = <<>>
    BY <1>t, <2>1
  <2>4. Alloc(w)' = top /\ Alloc(w) = top
    BY <2>1 DEF Alloc
  <2>5. QED
    BY <2>1, <2>2, <2>3, <2>4
<1>6. QED
  BY <1>1, <1>2, <1>3, <1>4, <1>5 DEF WriterStep

-----------------------------------------------------------------------------
(***************************************************************************)
(* What a loop still has coming.                                           *)
(***************************************************************************)
\* c's channel is sorted and lies below what w has still to publish.
QueueOf(c, w) ==
    /\ Increasing(chan[c])
    /\ \A s \in ToSet(chan[c]), u \in Unpublished(w) : s < u

\* Nothing is missing below an event of the channel.
NoHoleInQueue(c) ==
    ppc[c] \in {"lastpage", "live"} =>
        \A t \in ToSet(chan[c]), s \in log :
            lastSeq[c] < s /\ s < t => s \in ToSet(chan[c]) \union page[c]

\* As long as the subscription is open, everything above lastSeq is coming.
AllComing(c, w) ==
    ppc[c] \in {"lastpage", "live"} /\ open[c] =>
        \A s \in log : lastSeq[c] < s =>
            s \in ToSet(chan[c]) \union page[c] \union Unpublished(w)

\* Nothing is missing below a row of the page.
NoHoleInPage(c) ==
    \A p \in page[c], s \in log : lastSeq[c] < s /\ s < p => s \in page[c]

NoGapOf(c) ==
    \A s \in log : since[c] < s /\ s <= lastSeq[c] => s \in ToSet(handed[c])

ComingOf(c, w) ==
    ~ctxDone => /\ NoHoleInQueue(c)
                /\ AllComing(c, w)
                /\ NoHoleInPage(c)
                /\ NoGapOf(c)

SerialInv(w) ==
    /\ LogInv(w)
    /\ FlowInv
    /\ \A c \in Pumps : QueueOf(c, w) /\ ComingOf(c, w)

LEMMA LogType ==
    ASSUME TypeOK
    PROVE  log \subseteq Sequence /\ log \subseteq committed
  BY DEF TypeOK, EventTypeOK, log

\* A step that neither publishes nor commits leaves all of this alone.
LEMMA QuietWriter ==
    ASSUME NEW w \in Writers, FlowInv, UNCHANGED <<committed, horizon, chan, open, ctxDone>>,
           Unpublished(w)' = Unpublished(w), UNCHANGED pumpVars,
           \A c \in Pumps : QueueOf(c, w) /\ ComingOf(c, w)
    PROVE  FlowInv' /\ \A c \in Pumps : QueueOf(c, w)' /\ ComingOf(c, w)'
<1>1. log' = log
  BY DEF log
<1>2. FlowInv'
  BY DEF FlowInv, pumpVars
<1>3. ASSUME NEW c \in Pumps PROVE QueueOf(c, w)'
  BY DEF QueueOf, Increasing
<1>4. ASSUME NEW c \in Pumps PROVE ComingOf(c, w)'
  BY <1>1 DEF ComingOf, NoHoleInQueue, AllComing, NoHoleInPage, NoGapOf, pumpVars
<1>5. QED
  BY <1>2, <1>3, <1>4

LEMMA CommitFlow ==
    ASSUME TypeOK, NEW w \in Writers, Writers = {w}, LogInv(w), FlowInv, Commit(w),
           UNCHANGED pumpVars, \A c \in Pumps : QueueOf(c, w) /\ ComingOf(c, w)
    PROVE  FlowInv' /\ \A c \in Pumps : QueueOf(c, w)' /\ ComingOf(c, w)'
<1> DEFINE N == ToSet(rec[w])
<1>1. /\ committed' = committed \union N /\ wstate[w] = "tx"
      /\ UNCHANGED <<horizon, rec, chan, open, ctxDone>>
  BY DEF Commit, busVars, envVars
<1>2. wstate'[w] = IF rec[w] = <<>> THEN "idle" ELSE "committed"
  BY DEF Commit, TypeOK, EventTypeOK
<1>3. Unpublished(w) = {} /\ Unpublished(w)' = N
  <2>1. CASE rec[w] = <<>>
    BY <1>1, <1>2, <2>1, EmptyToSet DEF Unpublished
  <2>2. CASE rec[w] # <<>>
    BY <1>1, <1>2, <2>2 DEF Unpublished
  <2>3. QED
    BY <2>1, <2>2
<1>4. \A n \in N, t \in committed : t < n
  BY <1>1 DEF LogInv
<1>5. log' \subseteq log \union N /\ N \subseteq Sequence /\ committed \subseteq Sequence
  BY <1>1 DEF log, TypeOK, EventTypeOK, ToSet
<1>6. FlowInv'
  BY <1>1 DEF FlowInv, pumpVars
<1>7. Pumps \subseteq Subscribers
  BY PumpAssumption
<1>8. ASSUME NEW c \in Pumps PROVE QueueOf(c, w)'
  <2>1. ToSet(chan[c]) \subseteq committed
    BY <1>7 DEF FlowInv
  <2>2. QED
    BY <1>1, <1>3, <1>4, <2>1 DEF QueueOf, Increasing
<1>9. ASSUME NEW c \in Pumps PROVE ComingOf(c, w)'
  <2> SUFFICES ASSUME ~ctxDone
               PROVE  /\ NoHoleInQueue(c)' /\ AllComing(c, w)'
                      /\ NoHoleInPage(c)' /\ NoGapOf(c)'
    BY <1>1 DEF ComingOf
  <2>1. /\ NoHoleInQueue(c) /\ AllComing(c, w) /\ NoHoleInPage(c) /\ NoGapOf(c)
        /\ UNCHANGED <<ppc, lastSeq, since, page, handed>>
    BY DEF ComingOf, pumpVars
  <2>2. /\ ToSet(chan[c]) \subseteq committed /\ page[c] \subseteq committed
    BY <1>7 DEF FlowInv
  <2>3. NoHoleInQueue(c)'
    <3> SUFFICES ASSUME ppc[c] \in {"lastpage", "live"}, NEW t \in ToSet(chan[c]),
                        NEW s \in log', lastSeq[c] < s, s < t
                 PROVE  s \in ToSet(chan[c]) \union page[c]
      BY <1>1, <2>1 DEF NoHoleInQueue
    <3>1. t \in committed /\ t \in Nat
      BY <1>5, <2>2 DEF Sequence
    <3>2. s \notin N
      BY <1>4, <1>5, <3>1 DEF Sequence
    <3>3. QED
      BY <1>5, <2>1, <3>2 DEF NoHoleInQueue
  <2>4. AllComing(c, w)'
    BY <1>1, <1>3, <1>5, <2>1 DEF AllComing
  <2>5. NoHoleInPage(c)'
    <3> SUFFICES ASSUME NEW p \in page[c], NEW s \in log', lastSeq[c] < s, s < p
                 PROVE  s \in page[c]
      BY <2>1 DEF NoHoleInPage
    <3>1. p \in committed /\ p \in Nat
      BY <1>5, <2>2 DEF Sequence
    <3>2. s \notin N
      BY <1>4, <1>5, <3>1 DEF Sequence
    <3>3. QED
      BY <1>5, <2>1, <3>2 DEF NoHoleInPage
  <2>6. NoGapOf(c)'
    <3> SUFFICES ASSUME NEW s \in log', since[c] < s, s <= lastSeq[c]
                 PROVE  s \in ToSet(handed[c])
      BY <2>1 DEF NoGapOf
    <3>1. CASE s \in log
      BY <2>1, <3>1 DEF NoGapOf
    <3>2. CASE s \in N
      <4>1. lastSeq[c] \in committed \union {0}
        BY DEF FlowInv
      <4>2. s \in Nat /\ s # 0
        BY <1>5, <3>2 DEF Sequence
      <4>t. lastSeq[c] \in Nat
        BY DEF TypeOK
      <4>3. lastSeq[c] < s
        BY <1>4, <3>2, <4>1, <4>2
      <4>4. QED
        BY <4>2, <4>t, <4>3
    <3>3. QED
      BY <1>5, <3>1, <3>2
  <2>7. QED
    BY <2>3, <2>4, <2>5, <2>6
<1>10. QED
  BY <1>6, <1>8, <1>9

\* The fan-out of the next unpublished event: it lies above the channel and
\* below the rest.
LEMMA PublishFlow ==
    ASSUME TypeOK, NEW w \in Writers, Writers = {w}, LogInv(w), FlowInv, Publish(w),
           UNCHANGED pumpVars, \A c \in Pumps : QueueOf(c, w) /\ ComingOf(c, w)
    PROVE  FlowInv' /\ \A c \in Pumps : QueueOf(c, w)' /\ ComingOf(c, w)'
<1> DEFINE e == Head(rec[w])
           U == ToSet(rec[w])
           V == ToSet(Tail(rec[w]))
<1>1. /\ rec[w] # <<>> /\ rec[w] \in Seq(Sequence)
      /\ wstate[w] \in {"committed", "publishing"}
      /\ UNCHANGED <<committed, horizon, ctxDone>> /\ FanOut(e)
      /\ rec'[w] = Tail(rec[w])
      /\ wstate'[w] = IF Len(rec[w]) = 1 THEN "idle" ELSE "publishing"
  BY DEF Publish, TypeOK, EventTypeOK, envVars
<1>2. e \in Sequence /\ U = {e} \union V /\ (\A v \in V : e < v) /\ U \subseteq committed
  BY <1>1, ToSetTail, IncreasingTail DEF LogInv
<1>3. Unpublished(w) = U /\ Unpublished(w)' = V
  <2>1. CASE Len(rec[w]) = 1
    <3>1. Tail(rec[w]) \in Seq(Sequence) /\ Len(Tail(rec[w])) = 0
      BY <1>1, <2>1, ToSetTail
    <3>2. V = {}
      BY <3>1 DEF ToSet
    <3>3. QED
      BY <1>1, <2>1, <3>2 DEF Unpublished
  <2>2. CASE Len(rec[w]) # 1
    BY <1>1, <2>2 DEF Unpublished
  <2>3. QED
    BY <2>1, <2>2
<1>4. ASSUME NEW c \in Subscribers
      PROVE  /\ chan[c] \in Seq(Sequence)
             /\ \/ /\ chan'[c] = Append(chan[c], e)
                   /\ ToSet(chan'[c]) = ToSet(chan[c]) \union {e}
                   /\ open'[c] = open[c]
                \/ chan'[c] = chan[c] /\ ~open'[c]
  <2>1. chan[c] \in Seq(Sequence) /\ open[c] \in BOOLEAN
    BY DEF TypeOK, EventTypeOK
  <2>2. ToSet(Append(chan[c], e)) = ToSet(chan[c]) \union {e}
    BY <1>2, <2>1, ToSetAppend
  <2>3. QED
    BY <1>1, <2>1, <2>2 DEF FanOut
<1>5. Pumps \subseteq Subscribers
  BY PumpAssumption
<1>6. FlowInv'
  <2>1. \A c \in Subscribers : ToSet(chan'[c]) \subseteq committed
    BY <1>2, <1>4 DEF FlowInv
  <2>2. QED
    BY <1>1, <2>1 DEF FlowInv, pumpVars
<1>7. ASSUME NEW c \in Pumps PROVE QueueOf(c, w)'
  <2>1. QueueOf(c, w) /\ ToSet(chan[c]) \subseteq Sequence /\ c \in Subscribers
    BY <1>4, <1>5 DEF ToSet
  <2>2. \A s \in ToSet(chan[c]) : s < e
    BY <1>2, <1>3, <2>1 DEF QueueOf
  <2>3. CASE chan'[c] = chan[c]
    BY <1>2, <1>3, <2>1, <2>3 DEF QueueOf
  <2>4. CASE chan'[c] = Append(chan[c], e) /\ ToSet(chan'[c]) = ToSet(chan[c]) \union {e}
    <3>1. Increasing(chan'[c])
      BY <1>2, <1>4, <2>1, <2>2, <2>4, IncreasingAppend DEF QueueOf
    <3>2. \A s \in ToSet(chan'[c]), u \in V : s < u
      BY <1>2, <1>3, <2>1, <2>4 DEF QueueOf
    <3>3. QED
      BY <1>3, <3>1, <3>2 DEF QueueOf
  <2>5. QED
    BY <1>4, <2>1, <2>3, <2>4
<1>8. ASSUME NEW c \in Pumps PROVE ComingOf(c, w)'
  <2> SUFFICES ASSUME ~ctxDone
               PROVE  /\ NoHoleInQueue(c)' /\ AllComing(c, w)'
                      /\ NoHoleInPage(c)' /\ NoGapOf(c)'
    BY <1>1 DEF ComingOf
  <2>1. /\ NoHoleInQueue(c) /\ AllComing(c, w) /\ NoHoleInPage(c) /\ NoGapOf(c)
        /\ UNCHANGED <<ppc, lastSeq, since, page, handed>> /\ log' = log
        /\ c \in Subscribers
    BY <1>1, <1>5 DEF ComingOf, pumpVars, log
  <2>2. NoHoleInPage(c)' /\ NoGapOf(c)'
    BY <2>1 DEF NoHoleInPage, NoGapOf
  <2>3. CASE chan'[c] = chan[c] /\ ~open'[c]
    BY <2>1, <2>2, <2>3 DEF NoHoleInQueue, AllComing
  <2>4. CASE ToSet(chan'[c]) = ToSet(chan[c]) \union {e} /\ open'[c] = open[c] /\ open[c]
    <3>1. AllComing(c, w)'
      BY <1>2, <1>3, <2>1, <2>4 DEF AllComing
    <3>2. NoHoleInQueue(c)'
      <4> SUFFICES ASSUME ppc[c] \in {"lastpage", "live"}, NEW t \in ToSet(chan'[c]),
                          NEW s \in log, lastSeq[c] < s, s < t
                   PROVE  s \in ToSet(chan'[c]) \union page[c]
        BY <2>1 DEF NoHoleInQueue
      <4>1. CASE t \in ToSet(chan[c])
        BY <2>1, <2>4, <4>1 DEF NoHoleInQueue
      <4>2. CASE t = e
        <5>1. s \in ToSet(chan[c]) \union page[c] \union U
          BY <1>3, <2>1, <2>4 DEF AllComing
        <5>2. s \in Nat /\ e \in Nat /\ V \subseteq Nat
          BY <1>2, LogType, ToSetTail, <1>1 DEF Sequence, ToSet
        <5>3. s \notin V
          BY <1>2, <4>2, <5>2
        <5>4. QED
          BY <1>2, <2>4, <5>1, <5>3
      <4>3. QED
        BY <2>4, <4>1, <4>2
    <3>3. QED
      BY <2>2, <3>1, <3>2
  <2>5. CASE ToSet(chan'[c]) = ToSet(chan[c]) \union {e} /\ ~open[c]
    <3>1. chan'[c] = chan[c]
      BY <1>1, <2>1, <2>5 DEF FanOut, TypeOK, EventTypeOK
    <3>2. ~open'[c]
      BY <1>1, <2>1, <2>5 DEF FanOut
    <3>3. QED
      BY <2>3, <3>1, <3>2
  <2>6. QED
    BY <1>4, <2>1, <2>3, <2>4, <2>5
<1>9. QED
  BY <1>6, <1>7, <1>8

LEMMA EnvironmentFlow ==
    ASSUME TypeOK, NEW w \in Writers, Writers = {w}, SerialInv(w), OrderInv,
           \/ Shutdown /\ UNCHANGED pumpVars
           \/ BusClose /\ UNCHANGED pumpVars
           \/ (\E h \in log : Prune(h)) /\ UNCHANGED pumpVars
           \/ EventCrash /\ PumpCrash
    PROVE  SerialInv(w)'
<1> USE DEF SerialInv
<1>1. CASE Shutdown /\ UNCHANGED pumpVars
  <2>1. UNCHANGED <<logVars, chan>> /\ ctxDone'
    BY <1>1 DEF Shutdown, busVars
  <2>2. LogInv(w)'
    BY <2>1 DEF LogInv, Alloc, Increasing, logVars
  <2>3. FlowInv'
    BY <1>1, <2>1 DEF FlowInv, logVars, pumpVars
  <2>4. QED
    BY <2>1, <2>2, <2>3 DEF QueueOf, ComingOf, Unpublished, Increasing, logVars
<1>2. CASE BusClose /\ UNCHANGED pumpVars
  <2>1. UNCHANGED <<logVars, chan>> /\ ctxDone'
    BY <1>2 DEF BusClose, envVars
  <2>2. LogInv(w)'
    BY <2>1 DEF LogInv, Alloc, Increasing, logVars
  <2>3. FlowInv'
    BY <1>2, <2>1 DEF FlowInv, logVars, pumpVars
  <2>4. QED
    BY <2>1, <2>2, <2>3 DEF QueueOf, ComingOf, Unpublished, Increasing, logVars
<1>3. CASE (\E h \in log : Prune(h)) /\ UNCHANGED pumpVars
  <2>1. PICK h \in log : Prune(h)
    BY <1>3
  <2>2. /\ UNCHANGED <<committed, top, wstate, rec, chan, open, ctxDone>> /\ horizon' = h
    BY <2>1 DEF Prune, busVars
  <2>3. log' \subseteq log /\ horizon' \in committed
    <3>1. /\ committed \subseteq Nat /\ horizon \in Nat /\ h \in committed
          /\ h > horizon
      BY DEF log, LogInv, TypeOK, EventTypeOK, Sequence
    <3>2. \A s \in committed : s > h => s > horizon
      BY <3>1
    <3>3. QED
      BY <2>2, <3>1, <3>2 DEF log
  <2>4. LogInv(w)'
    BY <2>2, <2>3 DEF LogInv, Alloc, Increasing
  <2>5. FlowInv'
    BY <1>3, <2>2 DEF FlowInv, pumpVars
  <2>6. \A c \in Pumps : QueueOf(c, w)'
    BY <2>2 DEF QueueOf, Unpublished, Increasing
  <2>7. \A c \in Pumps : ComingOf(c, w)'
    BY <1>3, <2>2, <2>3
    DEF ComingOf, NoHoleInQueue, AllComing, NoHoleInPage, NoGapOf, Unpublished, pumpVars
  <2>8. QED
    BY <2>4, <2>5, <2>6, <2>7
<1>4. CASE EventCrash /\ PumpCrash
  <2>1. /\ rec'[w] = <<>> /\ wstate'[w] = "idle" /\ UNCHANGED <<committed, horizon, top>>
        /\ \A c \in Subscribers : chan'[c] = <<>>
    BY <1>4 DEF EventCrash
  <2>2. /\ \A c \in Pumps : /\ ppc'[c] = "head" /\ lastSeq'[c] = 0 /\ since'[c] = 0
                            /\ page'[c] = {} /\ handed'[c] = <<>>
    BY <1>4 DEF PumpCrash
  <2>3. LogInv(w)'
    BY <2>1, EmptyToSet DEF LogInv, Alloc, Increasing
  <2>4. FlowInv'
    BY <2>1, <2>2, EmptyToSet DEF FlowInv
  <2>5. \A c \in Pumps : QueueOf(c, w)'
    BY <2>1, EmptyToSet, PumpAssumption DEF QueueOf, Increasing
  <2>6. \A c \in Pumps : NoGapOf(c)'
    <3> SUFFICES ASSUME NEW c \in Pumps, NEW s \in log', 0 < s, s <= 0 PROVE FALSE
      BY <2>2 DEF NoGapOf
    <3>1. s \in Nat
      BY <2>1 DEF log, TypeOK, EventTypeOK, Sequence
    <3>2. QED
      BY <3>1
  <2>7. \A c \in Pumps : ComingOf(c, w)'
    BY <2>2, <2>6 DEF ComingOf, NoHoleInQueue, AllComing, NoHoleInPage
  <2>8. QED
    BY <2>3, <2>4, <2>5, <2>7
<1>5. QED
  BY <1>1, <1>2, <1>3, <1>4

\* No loop writes the log, and a loop touches no channel but its own.
LEMMA PumpFrame ==
    ASSUME TypeOK, NEW c \in Pumps, PumpStep(c)
    PROVE  /\ UNCHANGED <<logVars, ctxDone>>
           /\ \A d \in Subscribers \ {c} : chan'[d] = chan[d] /\ open'[d] = open[d]
<1> USE PumpAssumption
    DEF TypeOK, EventTypeOK, Goto, eventVars, busVars, envVars, Subscribe, Cancel
<1>1. CASE HeadSequence(c)
  BY <1>1 DEF HeadSequence
<1>2. CASE PumpSubscribe(c)
  BY <1>2 DEF PumpSubscribe
<1>3. CASE ReplayRead(c)
  BY <1>3 DEF ReplayRead
<1>4. CASE ReplayDispatch(c)
  BY <1>4 DEF ReplayDispatch
<1>5. CASE LiveReceive(c)
  BY <1>5 DEF LiveReceive
<1>6. CASE LiveEnd(c)
  BY <1>6 DEF LiveEnd
<1>7. CASE PumpCancel(c)
  BY <1>7 DEF PumpCancel
<1>8. QED
  BY <1>1, <1>2, <1>3, <1>4, <1>5, <1>6, <1>7 DEF PumpStep

\* An event the loop takes is the least one of the log above its cursor.
NextInLog(c, s) == \A t \in log : ~(lastSeq[c] < t /\ t < s)

LEMMA ReplayTakesNext ==
    ASSUME TypeOK, NEW c \in Pumps, NoHoleInPage(c), NEW s \in page[c], IsLeast(s, page[c])
    PROVE  NextInLog(c, s)
<1> SUFFICES ASSUME NEW t \in log, lastSeq[c] < t, t < s PROVE FALSE
  BY DEF NextInLog
<1>1. t \in page[c]
  BY DEF NoHoleInPage
<1>2. s <= t /\ s \in Nat /\ t \in Nat
  BY <1>1, LogType DEF IsLeast, TypeOK, Sequence
<1>3. QED
  BY <1>2

LEMMA LiveTakesNext ==
    ASSUME TypeOK, NEW c \in Pumps, NoHoleInQueue(c), Increasing(chan[c]),
           ppc[c] = "live", page[c] = {}, chan[c] # <<>>
    PROVE  NextInLog(c, Head(chan[c]))
<1> DEFINE e == Head(chan[c])
<1> SUFFICES ASSUME NEW t \in log, lastSeq[c] < t, t < e PROVE FALSE
  BY DEF NextInLog
<1>1. chan[c] \in Seq(Sequence)
  BY PumpAssumption DEF TypeOK, EventTypeOK
<1>2. e \in ToSet(chan[c]) /\ e \in Sequence
  BY <1>1, ToSetTail
<1>3. t \in ToSet(chan[c]) /\ t \in Sequence
  BY <1>2, LogType DEF NoHoleInQueue
<1>4. t = e \/ e < t
  BY <1>1, <1>3, ToSetTail, IncreasingTail
<1>5. QED
  BY <1>2, <1>3, <1>4 DEF Sequence

\* Taking the next event of the log and recording it leaves no gap.
LEMMA HandOverNoGap ==
    ASSUME TypeOK, NEW c \in Pumps, NEW s \in Sequence, NextInLog(c, s),
           HandOver(c, s), NoGapOf(c), log' = log, since'[c] = since[c]
    PROVE  NoGapOf(c)'
<1>1. /\ handed'[c] = Append(handed[c], s) /\ lastSeq'[c] = s
      /\ handed[c] \in Seq(Sequence) /\ lastSeq[c] \in Nat
  BY DEF HandOver, TypeOK
<1>2. ToSet(handed'[c]) = ToSet(handed[c]) \union {s}
  BY <1>1, ToSetAppend
<1> SUFFICES ASSUME NEW t \in log, since[c] < t, t <= s PROVE t \in ToSet(handed'[c])
  BY <1>1 DEF NoGapOf
<1>3. t \in Nat /\ s \in Nat
  BY LogType DEF Sequence
<1>4. CASE t <= lastSeq[c]
  BY <1>2, <1>4 DEF NoGapOf
<1>5. CASE lastSeq[c] < t
  BY <1>2, <1>3, <1>5 DEF NextInLog
<1>6. QED
  BY <1>1, <1>3, <1>4, <1>5

-----------------------------------------------------------------------------
(***************************************************************************)
(* The steps of a loop.                                                    *)
(***************************************************************************)
\* The replay reads a page: from the last one on, nothing is missing.
LEMMA ReadFlow ==
    ASSUME TypeOK, NEW w \in Writers, NEW c \in Pumps, ReadsFail = FALSE, ReplayRead(c),
           NoGapOf(c), UNCHANGED <<log, chan>>, ~ctxDone
    PROVE  /\ NoHoleInQueue(c)' /\ AllComing(c, w)' /\ NoHoleInPage(c)' /\ NoGapOf(c)'
           /\ page'[c] \subseteq committed
<1> DEFINE rows == RowsAfter(lastSeq[c], PageSize)
<1>t. /\ lastSeq[c] \in Nat /\ log \subseteq Nat /\ PageSize \in Nat \ {0}
      /\ ppc \in [Pumps -> PumpStates] /\ page \in [Pumps -> SUBSET Sequence]
  BY LogType, LogAssumption DEF TypeOK, Sequence
<1>1. /\ page' = [page EXCEPT ![c] = rows] /\ ReplayPage(c, rows)
      /\ UNCHANGED <<lastSeq, since, handed>>
  BY DEF ReplayRead, ReplayPage
<1>2. page'[c] = rows
  BY <1>1, <1>t
<1>3. ppc'[c] \in {"lastpage", "live"} => \A s \in log : lastSeq[c] < s => s \in rows
  <2>1. ppc'[c] \in {"lastpage", "live"} => rows = {} \/ Cardinality(rows) < PageSize
    BY <1>1, <1>t DEF ReplayPage, Goto
  <2>2. rows = {} => Cardinality(rows) < PageSize
    BY <1>t, FS_EmptySet
  <2>3. Cardinality(rows) < PageSize => \A s \in log : lastSeq[c] < s => s \in rows
    <3> HIDE DEF rows
    <3> SUFFICES ASSUME Cardinality(rows) < PageSize, NEW s \in log, lastSeq[c] < s
                 PROVE  s \in rows
      OBVIOUS
    <3>1. s > lastSeq[c]
      BY <1>t
    <3>2. QED
      BY <1>t, <3>1, ShortPage DEF rows
  <2>4. QED
    BY <2>1, <2>2, <2>3
<1>4. NoHoleInPage(c)'
  <2> SUFFICES ASSUME NEW p \in rows, NEW s \in log, lastSeq[c] < s, s < p
               PROVE  s \in rows
    BY <1>1, <1>2 DEF NoHoleInPage
  <2>1. QED
    BY <1>t, PageDownClosed
<1>5. NoHoleInQueue(c)' /\ AllComing(c, w)'
  <2> HIDE DEF rows
  <2>1. QED
    BY <1>1, <1>2, <1>3 DEF NoHoleInQueue, AllComing
<1>6. NoGapOf(c)'
  BY <1>1 DEF NoGapOf
<1>7. page'[c] \subseteq committed
  BY <1>2, RowsInLog, LogType
<1>8. QED
  BY <1>4, <1>5, <1>6, <1>7

\* The replay dispatches the least row of its page.
LEMMA DispatchFlow ==
    ASSUME TypeOK, NEW w \in Writers, NEW c \in Pumps, ReplayDispatch(c), OrderOf(c),
           NoHoleInQueue(c), AllComing(c, w), NoHoleInPage(c), NoGapOf(c),
           UNCHANGED <<log, chan, open>>, Unpublished(w)' = Unpublished(w)
    PROVE  NoHoleInQueue(c)' /\ AllComing(c, w)' /\ NoHoleInPage(c)' /\ NoGapOf(c)'
<1>t. /\ lastSeq \in [Pumps -> Nat] /\ log \subseteq Nat
      /\ ppc \in [Pumps -> PumpStates] /\ page \in [Pumps -> SUBSET Sequence]
      /\ handed \in [Pumps -> Seq(Sequence)]
  BY LogType DEF TypeOK, Sequence
<1>1. PICK s \in page[c] : /\ IsLeast(s, page[c]) /\ HandOver(c, s)
                           /\ page' = [page EXCEPT ![c] = @ \ {s}]
  BY DEF ReplayDispatch
<1>2. /\ page'[c] = page[c] \ {s} /\ lastSeq'[c] = s /\ s \in Sequence /\ lastSeq[c] < s
      /\ lastSeq[c] \in Nat /\ s \in Nat /\ since'[c] = since[c]
  BY <1>1, <1>t DEF HandOver, OrderOf, Sequence, ReplayDispatch
<1>3. ppc'[c] \in {"lastpage", "live"} => ppc[c] \in {"lastpage", "live"}
  <2>1. ppc'[c] = ppc[c] \/ ppc'[c] = (IF ppc[c] = "page" THEN "replay" ELSE "live")
    BY <1>t DEF ReplayDispatch, Goto
  <2>2. ppc[c] \in {"page", "lastpage"}
    BY DEF ReplayDispatch
  <2>3. QED
    BY <2>1, <2>2
<1>4. \A u \in log : s < u => lastSeq[c] < u /\ u # s
  <2> SUFFICES ASSUME NEW u \in log, s < u PROVE lastSeq[c] < u /\ u # s
    OBVIOUS
  <2>1. u \in Nat /\ lastSeq[c] \in Nat /\ s \in Nat /\ lastSeq[c] < s
    BY <1>t, <1>2
  <2>2. QED
    BY <2>1
<1>5. NoHoleInQueue(c)' /\ AllComing(c, w)' /\ NoHoleInPage(c)'
  BY <1>2, <1>3, <1>4 DEF NoHoleInQueue, AllComing, NoHoleInPage
<1>6. NoGapOf(c)'
  BY <1>1, <1>2, ReplayTakesNext, HandOverNoGap
<1>7. QED
  BY <1>5, <1>6

\* The loop takes the head of its channel.
LEMMA ReceiveFlow ==
    ASSUME TypeOK, NEW w \in Writers, NEW c \in Pumps, LiveReceive(c), OrderOf(c),
           QueueOf(c, w), NoHoleInQueue(c), AllComing(c, w), NoGapOf(c),
           UNCHANGED <<log, open>>, Unpublished(w)' = Unpublished(w)
    PROVE  NoHoleInQueue(c)' /\ AllComing(c, w)' /\ NoHoleInPage(c)' /\ NoGapOf(c)'
<1> DEFINE e == Head(chan[c])
<1>t. /\ lastSeq \in [Pumps -> Nat] /\ log \subseteq Nat /\ c \in Subscribers
      /\ chan \in [Subscribers -> Seq(Sequence)] /\ handed \in [Pumps -> Seq(Sequence)]
  BY LogType, PumpAssumption DEF TypeOK, EventTypeOK, Sequence
<1>1. /\ UNCHANGED <<ppc, page, since>> /\ ppc[c] = "live" /\ page[c] = {}
      /\ chan[c] # <<>> /\ chan'[c] = Tail(chan[c])
  BY <1>t DEF LiveReceive, OrderOf
<1>2. e \in Sequence /\ e \in Nat /\ ToSet(chan[c]) = {e} \union ToSet(chan'[c])
  BY <1>1, <1>t, ToSetTail DEF Sequence
<1>3. NoHoleInPage(c)'
  BY <1>1 DEF NoHoleInPage
<1>4. CASE e <= lastSeq[c]
  <2>1. UNCHANGED <<handed, lastSeq>>
    BY <1>4 DEF LiveReceive
  <2>2. \A u \in log : lastSeq[c] < u => u # e
    BY <1>4, <1>t, <1>2
  <2>3. NoHoleInQueue(c)' /\ AllComing(c, w)'
    BY <1>1, <1>2, <2>1, <2>2 DEF NoHoleInQueue, AllComing
  <2>4. QED
    BY <1>1, <1>3, <2>1, <2>3 DEF NoGapOf
<1>5. CASE ~(e <= lastSeq[c])
  <2>1. HandOver(c, e) /\ lastSeq'[c] = e
    BY <1>5, <1>t DEF LiveReceive, HandOver
  <2>2. \A u \in log : e < u => lastSeq[c] < u /\ u # e
    BY <1>5, <1>t, <1>2
  <2>3. NoHoleInQueue(c)' /\ AllComing(c, w)'
    BY <1>1, <1>2, <2>1, <2>2 DEF NoHoleInQueue, AllComing
  <2>4. NextInLog(c, e)
    BY <1>1, LiveTakesNext DEF QueueOf
  <2>5. NoGapOf(c)'
    BY <1>1, <1>2, <2>1, <2>4, HandOverNoGap
  <2>6. QED
    BY <1>3, <2>3, <2>5
<1>6. QED
  BY <1>4, <1>5

\* A loop's own part of FlowInv.
FlowOf(c) ==
    /\ ToSet(chan[c]) \subseteq committed
    /\ page[c] \subseteq committed
    /\ ToSet(handed[c]) \subseteq committed
    /\ lastSeq[c] \in committed \union {0}

\* No step of a loop invents an event.
LEMMA PumpTakes ==
    ASSUME TypeOK, NEW c \in Pumps, FlowOf(c), PumpStep(c)
    PROVE  FlowOf(c)'
<1>t. /\ lastSeq \in [Pumps -> Nat] /\ page \in [Pumps -> SUBSET Sequence]
      /\ c \in Subscribers /\ committed' = committed
      /\ chan \in [Subscribers -> Seq(Sequence)] /\ handed \in [Pumps -> Seq(Sequence)]
  BY PumpAssumption, PumpFrame DEF TypeOK, EventTypeOK, logVars
<1> USE DEF FlowOf
<1>h. ASSUME NEW s \in committed, HandOver(c, s)
      PROVE  ToSet(handed'[c]) \subseteq committed /\ lastSeq'[c] \in committed
  <2>1. handed'[c] = Append(handed[c], s) /\ lastSeq'[c] = s /\ s \in Sequence
    BY <1>h, <1>t DEF HandOver, TypeOK, EventTypeOK
  <2>2. QED
    BY <1>t, <2>1, ToSetAppend
<1>1. CASE HeadSequence(c)
  <2>1. lastSeq'[c] \in log \union {0}
    BY <1>1, <1>t DEF HeadSequence
  <2>2. QED
    BY <1>1, <1>t, <2>1, LogType DEF HeadSequence, eventVars, busVars
<1>2. CASE PumpSubscribe(c)
  BY <1>2, <1>t, EmptyToSet DEF PumpSubscribe, Subscribe
<1>3. CASE ReplayRead(c)
  <2>1. page'[c] \subseteq committed
    BY <1>3, <1>t, RowsInLog, LogType DEF ReplayRead, ReplayPage
  <2>2. QED
    BY <1>3, <1>t, <2>1 DEF ReplayRead, eventVars, busVars
<1>4. CASE ReplayDispatch(c)
  <2>1. PICK s \in page[c] : HandOver(c, s) /\ page' = [page EXCEPT ![c] = @ \ {s}]
    BY <1>4 DEF ReplayDispatch
  <2>2. QED
    BY <1>4, <1>t, <1>h, <2>1 DEF ReplayDispatch, eventVars, busVars
<1>5. CASE LiveReceive(c)
  <2>1. /\ Head(chan[c]) \in ToSet(chan[c]) /\ chan'[c] = Tail(chan[c])
        /\ ToSet(chan'[c]) \subseteq ToSet(chan[c]) /\ page' = page
    BY <1>5, <1>t, ToSetTail DEF LiveReceive
  <2>2. \/ UNCHANGED <<handed, lastSeq>>
        \/ HandOver(c, Head(chan[c]))
    BY <1>5 DEF LiveReceive
  <2>3. QED
    BY <1>t, <1>h, <2>1, <2>2
<1>6. CASE LiveEnd(c)
  BY <1>6, <1>t DEF LiveEnd, eventVars, busVars
<1>7. CASE PumpCancel(c)
  BY <1>7, <1>t, EmptyToSet DEF PumpCancel, Cancel
<1>8. QED
  BY <1>1, <1>2, <1>3, <1>4, <1>5, <1>6, <1>7 DEF PumpStep

LEMMA PumpFlow ==
    ASSUME TypeOK, NEW w \in Writers, SerialInv(w), OrderInv, ReadsFail = FALSE,
           NEW c \in Pumps, PumpStep(c)
    PROVE  SerialInv(w)'
<1> USE DEF SerialInv
<1>f. /\ UNCHANGED <<logVars, ctxDone>> /\ log' = log
      /\ Unpublished(w)' = Unpublished(w)
      /\ \A d \in Subscribers \ {c} : chan'[d] = chan[d] /\ open'[d] = open[d]
  BY PumpFrame DEF logVars, log, Unpublished
<1>o. OrderOf(c) /\ QueueOf(c, w) /\ ComingOf(c, w) /\ c \in Subscribers
  BY PumpAssumption DEF OrderInv
<1>t. /\ lastSeq \in [Pumps -> Nat] /\ ppc \in [Pumps -> PumpStates]
      /\ chan \in [Subscribers -> Seq(Sequence)] /\ chan[c] \in Seq(Sequence)
  BY <1>o DEF TypeOK, EventTypeOK
<1>1. LogInv(w)'
  BY <1>f DEF LogInv, Alloc, Increasing, logVars
<1>2. FlowInv'
  <2>1. FlowOf(c)'
    BY <1>o, PumpTakes DEF FlowInv, FlowOf
  <2>2. ASSUME NEW d \in Pumps, d # c
        PROVE  /\ page'[d] \subseteq committed' /\ ToSet(handed'[d]) \subseteq committed'
               /\ lastSeq'[d] \in committed' \union {0}
    BY <1>f, <2>2, PumpOthers DEF FlowInv, logVars
  <2>3. \A d \in Subscribers : ToSet(chan'[d]) \subseteq committed'
    BY <1>f, <2>1 DEF FlowInv, FlowOf, logVars
  <2>4. QED
    BY <2>1, <2>2, <2>3 DEF FlowInv, FlowOf
<1>3. ASSUME NEW d \in Pumps, d # c PROVE QueueOf(d, w)' /\ ComingOf(d, w)'
  <2>1. /\ ppc'[d] = ppc[d] /\ lastSeq'[d] = lastSeq[d] /\ since'[d] = since[d]
        /\ page'[d] = page[d] /\ handed'[d] = handed[d]
        /\ chan'[d] = chan[d] /\ open'[d] = open[d]
    BY <1>3, PumpOthers
  <2>2. QueueOf(d, w)'
    BY <1>f, <2>1 DEF QueueOf, Increasing
  <2>3. ComingOf(d, w)'
    BY <1>f, <2>1 DEF ComingOf, NoHoleInQueue, AllComing, NoHoleInPage, NoGapOf
  <2>4. QED
    BY <2>2, <2>3
<1>4. QueueOf(c, w)'
  <2>1. chan'[c] \in {chan[c], <<>>} \/ (chan[c] # <<>> /\ chan'[c] = Tail(chan[c]))
    BY <1>o, <1>t DEF PumpStep, HeadSequence, PumpSubscribe, ReplayRead, ReplayDispatch,
       LiveReceive, LiveEnd, PumpCancel, Subscribe, Cancel, eventVars, busVars
  <2>2. CASE chan'[c] = chan[c]
    BY <1>f, <1>o, <2>2 DEF QueueOf, Increasing
  <2>3. CASE chan'[c] = <<>>
    BY <2>3, EmptyToSet DEF QueueOf, Increasing
  <2>4. CASE chan[c] # <<>> /\ chan'[c] = Tail(chan[c])
    <3>1. Increasing(chan'[c]) /\ ToSet(chan'[c]) \subseteq ToSet(chan[c])
      BY <1>o, <1>t, <2>4, IncreasingTail, ToSetTail DEF QueueOf
    <3>2. QED
      BY <1>f, <1>o, <3>1 DEF QueueOf
  <2>5. QED
    BY <2>1, <2>2, <2>3, <2>4
<1>5. ComingOf(c, w)'
  <2> SUFFICES ASSUME ~ctxDone
               PROVE  /\ NoHoleInQueue(c)' /\ AllComing(c, w)'
                      /\ NoHoleInPage(c)' /\ NoGapOf(c)'
    BY <1>f DEF ComingOf
  <2>1. NoHoleInQueue(c) /\ AllComing(c, w) /\ NoHoleInPage(c) /\ NoGapOf(c)
    BY <1>o DEF ComingOf
  <2>2. ASSUME ppc'[c] \notin {"lastpage", "live"}, page'[c] = {},
               UNCHANGED <<lastSeq, since, handed>>
        PROVE  /\ NoHoleInQueue(c)' /\ AllComing(c, w)'
               /\ NoHoleInPage(c)' /\ NoGapOf(c)'
    BY <1>f, <2>1, <2>2 DEF NoHoleInQueue, AllComing, NoHoleInPage, NoGapOf
  <2>3. CASE HeadSequence(c)
    <3>1. /\ ppc'[c] \in {"stopped", "subscribe"} /\ page'[c] = {}
          /\ since'[c] = lastSeq'[c] /\ since'[c] \in Nat
      BY <1>o, <1>t, <2>3, LogType
      DEF HeadSequence, Goto, OrderOf, TypeOK, Sequence
    <3>2. NoGapOf(c)'
      <4> SUFFICES ASSUME NEW s \in log, since'[c] < s, s <= since'[c] PROVE FALSE
        BY <1>f, <3>1 DEF NoGapOf
      <4>1. s \in Nat
        BY LogType DEF Sequence
      <4>2. QED
        BY <3>1, <4>1
    <3>3. QED
      BY <3>1, <3>2 DEF NoHoleInQueue, AllComing, NoHoleInPage
  <2>4. CASE PumpSubscribe(c)
    BY <1>o, <1>t, <2>2, <2>4 DEF PumpSubscribe, Goto, OrderOf
  <2>5. CASE ReplayRead(c)
    <3>1. UNCHANGED chan
      BY <2>5 DEF ReplayRead, eventVars, busVars
    <3>2. QED
      BY <1>f, <2>1, <2>5, <3>1, ReadFlow
  <2>6. CASE ReplayDispatch(c)
    <3>1. UNCHANGED <<chan, open>>
      BY <2>6 DEF ReplayDispatch, eventVars, busVars
    <3>2. QED
      BY <1>f, <1>o, <2>1, <2>6, <3>1, DispatchFlow
  <2>7. CASE LiveReceive(c)
    <3>1. UNCHANGED open
      BY <2>7 DEF LiveReceive
    <3>2. QED
      BY <1>f, <1>o, <2>1, <2>7, <3>1, ReceiveFlow
  <2>8. CASE LiveEnd(c)
    BY <1>o, <1>t, <2>2, <2>8 DEF LiveEnd, Goto, OrderOf
  <2>9. CASE PumpCancel(c)
    BY <1>o, <1>t, <2>2, <2>9 DEF PumpCancel, Goto, OrderOf
  <2>10. QED
    BY <2>3, <2>4, <2>5, <2>6, <2>7, <2>8, <2>9 DEF PumpStep
<1>6. QED
  BY <1>1, <1>2, <1>3, <1>4, <1>5

LEMMA WriterFlow ==
    ASSUME TypeOK, NEW w \in Writers, Writers = {w}, SerialInv(w), WriterStep(w),
           UNCHANGED pumpVars
    PROVE  SerialInv(w)'
<1> USE DEF SerialInv
<1>1. LogInv(w)'
  BY WriterLog
<1>2. CASE Begin(w) \/ Emit(w) \/ Rollback(w)
  <2>1. /\ UNCHANGED <<committed, horizon, chan, open, ctxDone>>
        /\ wstate[w] \in {"idle", "tx"} /\ wstate'[w] \in {"idle", "tx"}
    BY <1>2 DEF Begin, Emit, Rollback, busVars, envVars, TypeOK, EventTypeOK
  <2>2. Unpublished(w)' = Unpublished(w)
    BY <2>1 DEF Unpublished
  <2>3. QED
    BY <1>1, <2>1, <2>2, QuietWriter
<1>3. CASE Commit(w)
  BY <1>1, <1>3, CommitFlow
<1>4. CASE Publish(w)
  BY <1>1, <1>4, PublishFlow
<1>5. QED
  BY <1>2, <1>3, <1>4 DEF WriterStep

LEMMA SerialInit ==
    ASSUME Init, NEW w \in Writers
    PROVE  SerialInv(w)
<1>1. /\ rec[w] = <<>> /\ wstate[w] = "idle" /\ committed = {} /\ horizon = 0
      /\ \A c \in Subscribers : chan[c] = <<>>
      /\ \A c \in Pumps : /\ ppc[c] = "head" /\ lastSeq[c] = 0 /\ page[c] = {}
                          /\ handed[c] = <<>>
  BY DEF Init, EventInit, PumpInit
<1>2. LogInv(w)
  BY <1>1, EmptyToSet DEF LogInv, Increasing
<1>3. FlowInv
  BY <1>1, EmptyToSet DEF FlowInv
<1>4. \A c \in Pumps : QueueOf(c, w)
  BY <1>1, EmptyToSet, PumpAssumption DEF QueueOf, Increasing
<1>5. \A c \in Pumps : ComingOf(c, w)
  BY <1>1 DEF ComingOf, NoHoleInQueue, AllComing, NoHoleInPage, NoGapOf, log
<1>6. QED
  BY <1>2, <1>3, <1>4, <1>5 DEF SerialInv

LEMMA SerialStep ==
    ASSUME TypeOK, OrderInv, NEW w \in Writers, Writers = {w}, ReadsFail = FALSE,
           SerialInv(w), [Next]_vars
    PROVE  SerialInv(w)'
<1>1. CASE UNCHANGED vars
  BY <1>1 DEF vars, eventVars, logVars, busVars, envVars, pumpVars, SerialInv, LogInv, Alloc,
     FlowInv, QueueOf, Increasing, Unpublished, ComingOf, NoHoleInQueue, AllComing,
     NoHoleInPage, NoGapOf, log
<1>2. CASE Next
  BY <1>2, WriterFlow, EnvironmentFlow, PumpFlow DEF Next, EventStep
<1>3. QED
  BY <1>1, <1>2

-----------------------------------------------------------------------------
\* With a single writer and reads that do not fail, the loop never passes
\* over an event that is still in the log, however often the bus drops it.
THEOREM NoGapWhenSerial ==
    ASSUME NEW w, Writers = {w}, ReadsFail = FALSE
    PROVE  Spec => []NoGap
<1>1. w \in Writers
  OBVIOUS
<1>2. Init => SerialInv(w)
  BY <1>1, SerialInit
<1>3. TypeOK /\ OrderInv /\ SerialInv(w) /\ [Next]_vars => SerialInv(w)'
  BY <1>1, SerialStep
<1>4. SerialInv(w) => NoGap
  BY DEF SerialInv, ComingOf, NoGapOf, NoGap
<1>5. QED
  BY <1>2, <1>3, <1>4, TypeCorrect, OrderCorrect, PTL DEF Spec

-----------------------------------------------------------------------------
(***************************************************************************)
(* With any writers, only committed events are dispatched.                 *)
(***************************************************************************)
CommittedInv ==
    /\ \A w \in Writers :
          wstate[w] \in {"committed", "publishing"} => ToSet(rec[w]) \subseteq committed
    /\ \A c \in Subscribers : ToSet(chan[c]) \subseteq committed
    /\ \A c \in Pumps : FlowOf(c)

LEMMA WriterPublishesCommitted ==
    ASSUME TypeOK, CommittedInv, NEW w \in Writers, WriterStep(w), UNCHANGED pumpVars
    PROVE  CommittedInv'
<1>t. /\ wstate \in [Writers -> {"idle", "tx", "committed", "publishing"}]
      /\ rec \in [Writers -> Seq(Sequence)] /\ chan \in [Subscribers -> Seq(Sequence)]
  BY DEF TypeOK, EventTypeOK
<1> USE DEF CommittedInv, FlowOf, pumpVars, busVars
<1>1. CASE Begin(w) \/ Emit(w) \/ Rollback(w)
  <2>1. /\ UNCHANGED <<committed, chan>> /\ wstate'[w] \in {"idle", "tx"}
        /\ \A v \in Writers \ {w} : wstate'[v] = wstate[v] /\ rec'[v] = rec[v]
    BY <1>1, <1>t DEF Begin, Emit, Rollback
  <2>2. QED
    BY <2>1, PumpAssumption
<1>2. CASE Commit(w)
  <2>1. /\ UNCHANGED <<rec, chan>> /\ committed' = committed \union ToSet(rec[w])
        /\ \A v \in Writers \ {w} : wstate'[v] = wstate[v]
    BY <1>2, <1>t DEF Commit
  <2>2. QED
    BY <2>1, PumpAssumption
<1>3. CASE Publish(w)
  <2>1. /\ committed' = committed /\ FanOut(Head(rec[w])) /\ rec[w] # <<>>
        /\ rec'[w] = Tail(rec[w]) /\ wstate[w] \in {"committed", "publishing"}
        /\ \A v \in Writers \ {w} : wstate'[v] = wstate[v] /\ rec'[v] = rec[v]
    BY <1>3, <1>t DEF Publish
  <2>2. Head(rec[w]) \in committed /\ ToSet(rec'[w]) \subseteq committed
        /\ Head(rec[w]) \in Sequence
    BY <1>t, <2>1, ToSetTail
  <2>3. \A c \in Subscribers : ToSet(chan'[c]) \subseteq committed
    <3> SUFFICES ASSUME NEW c \in Subscribers PROVE ToSet(chan'[c]) \subseteq committed
      OBVIOUS
    <3>1. chan'[c] = chan[c] \/ chan'[c] = Append(chan[c], Head(rec[w]))
      BY <2>1 DEF FanOut
    <3>2. ToSet(Append(chan[c], Head(rec[w]))) = ToSet(chan[c]) \union {Head(rec[w])}
      BY <1>t, <2>2, ToSetAppend
    <3>3. QED
      BY <2>2, <3>1, <3>2
  <2>4. QED
    BY <2>1, <2>2, <2>3, PumpAssumption
<1>4. QED
  BY <1>1, <1>2, <1>3 DEF WriterStep

\* An event is dispatched only after its transaction committed, with any
\* number of concurrent writers, on either backend, reads failing or not.
THEOREM DispatchesCommitted == Spec => []NoPhantom
<1>1. Init => CommittedInv
  BY EmptyToSet, PumpAssumption DEF Init, EventInit, PumpInit, CommittedInv, FlowOf
<1>2. TypeOK /\ CommittedInv /\ [Next]_vars => CommittedInv'
  <2> SUFFICES ASSUME TypeOK, CommittedInv, [Next]_vars PROVE CommittedInv'
    OBVIOUS
  <2>1. CASE UNCHANGED vars
    BY <2>1 DEF vars, eventVars, logVars, busVars, pumpVars, CommittedInv, FlowOf
  <2>2. CASE EventCrash /\ PumpCrash
    BY <2>2, EmptyToSet, PumpAssumption DEF EventCrash, PumpCrash, CommittedInv, FlowOf
  <2>3. ASSUME NEW c \in Pumps, PumpStep(c) PROVE CommittedInv'
    <3>1. /\ UNCHANGED logVars
          /\ \A d \in Subscribers \ {c} : chan'[d] = chan[d]
      BY <2>3, PumpFrame
    <3>2. FlowOf(c)'
      BY <2>3, PumpTakes DEF CommittedInv
    <3>3. \A d \in Pumps \ {c} : FlowOf(d)'
      BY <2>3, <3>1, PumpOthers, PumpAssumption DEF CommittedInv, FlowOf, logVars
    <3>4. \A d \in Subscribers : ToSet(chan'[d]) \subseteq committed'
      BY <3>1, <3>2 DEF CommittedInv, FlowOf, logVars
    <3>5. QED
      BY <3>1, <3>2, <3>3, <3>4 DEF CommittedInv, logVars
  <2>4. CASE EventStep /\ UNCHANGED pumpVars
    <3>1. CASE \E w \in Writers : WriterStep(w)
      BY <2>4, <3>1, WriterPublishesCommitted
    <3>2. CASE ~\E w \in Writers : WriterStep(w)
      <4>1. UNCHANGED <<committed, wstate, rec, chan>>
        BY <2>4, <3>2 DEF EventStep, Shutdown, BusClose, Prune, logVars, busVars
      <4>2. QED
        BY <2>4, <4>1 DEF CommittedInv, FlowOf, pumpVars
    <3>3. QED
      BY <3>1, <3>2
  <2>5. QED
    BY <2>1, <2>2, <2>3, <2>4 DEF Next
<1>3. CommittedInv => NoPhantom
  BY DEF CommittedInv, FlowOf, NoPhantom
<1>4. QED
  BY <1>1, <1>2, <1>3, TypeCorrect, PTL DEF Spec

-----------------------------------------------------------------------------
(***************************************************************************)
(* What was in the log when the process started is not dispatched.  All    *)
(* that a start finds is at or below boot, and whatever a transaction      *)
(* takes afterwards is above it.                                           *)
(***************************************************************************)
Fresh(S) == \A s \in S : s > boot

BacklogInv ==
    /\ top >= boot
    /\ \A w \in Writers : Fresh(ToSet(rec[w]))
    /\ \A c \in Subscribers : Fresh(ToSet(chan[c]))
    /\ \A c \in Pumps : /\ Fresh(page[c]) /\ Fresh(ToSet(handed[c]))
                        /\ ppc[c] # "head" => Fresh({s \in log : s > lastSeq[c]})

LEMMA WriterIsFresh ==
    ASSUME TypeOK, BacklogInv, NEW w \in Writers, WriterStep(w), UNCHANGED pumpVars
    PROVE  BacklogInv'
<1>t. /\ rec \in [Writers -> Seq(Sequence)] /\ chan \in [Subscribers -> Seq(Sequence)]
      /\ top \in Nat /\ boot \in Nat
  BY DEF TypeOK, EventTypeOK
<1> USE DEF BacklogInv, pumpVars, busVars, Fresh
<1>1. CASE Begin(w) \/ Rollback(w)
  <2>1. UNCHANGED <<top, chan, log>>
    BY <1>1 DEF Begin, Rollback, log
  <2>2. \A v \in Writers : ToSet(rec'[v]) \subseteq ToSet(rec[v])
    BY <1>1, <1>t, EmptyToSet DEF Begin, Rollback
  <2>3. QED
    BY <2>1, <2>2
<1>2. CASE Emit(w)
  <2>1. /\ UNCHANGED <<chan, log>> /\ top' >= top /\ top' \in Nat
        /\ rec'[w] = Append(rec[w], NextSeq(w)) /\ \A v \in Writers \ {w} : rec'[v] = rec[v]
    BY <1>2, <1>t DEF Emit, log
  <2>2. NextSeq(w) \in Sequence /\ NextSeq(w) > boot
    BY <1>t DEF NextSeq, Sequence
  <2>3. ToSet(rec'[w]) = ToSet(rec[w]) \union {NextSeq(w)}
    BY <1>t, <2>1, <2>2, ToSetAppend
  <2>4. \A v \in Writers : Fresh(ToSet(rec'[v]))
    BY <2>1, <2>2, <2>3
  <2>5. top' >= boot
    BY <1>t, <2>1
  <2>6. QED
    BY <2>1, <2>4, <2>5
<1>3. CASE Commit(w)
  <2>1. UNCHANGED <<rec, chan>> /\ top' >= top /\ top' \in Nat
    BY <1>3, <1>t DEF Commit
  <2>2. log' \subseteq log \union ToSet(rec[w])
    BY <1>3 DEF Commit, log
  <2>3. QED
    BY <1>t, <2>1, <2>2
<1>4. CASE Publish(w)
  <2>1. /\ UNCHANGED <<top, log>> /\ FanOut(Head(rec[w])) /\ rec[w] # <<>>
        /\ rec'[w] = Tail(rec[w]) /\ \A v \in Writers \ {w} : rec'[v] = rec[v]
    BY <1>4, <1>t DEF Publish, log
  <2>2. Head(rec[w]) > boot /\ Fresh(ToSet(rec'[w])) /\ Head(rec[w]) \in Sequence
    BY <1>t, <2>1, ToSetTail
  <2>3. ASSUME NEW c \in Subscribers PROVE Fresh(ToSet(chan'[c]))
    <3>1. chan'[c] = chan[c] \/ chan'[c] = Append(chan[c], Head(rec[w]))
      BY <2>1 DEF FanOut
    <3>2. ToSet(Append(chan[c], Head(rec[w]))) = ToSet(chan[c]) \union {Head(rec[w])}
      BY <1>t, <2>2, ToSetAppend
    <3>3. QED
      BY <2>2, <3>1, <3>2
  <2>4. QED
    BY <2>1, <2>2, <2>3
<1>5. QED
  BY <1>1, <1>2, <1>3, <1>4 DEF WriterStep

LEMMA PumpIsFresh ==
    ASSUME TypeOK, BacklogInv, ReadsFail = FALSE, NEW c \in Pumps, PumpStep(c)
    PROVE  BacklogInv'
<1> DEFINE Own == /\ Fresh(ToSet(chan'[c])) /\ Fresh(page'[c]) /\ Fresh(ToSet(handed'[c]))
                  /\ ppc'[c] # "head" => Fresh({s \in log : s > lastSeq'[c]})
<1>t. /\ lastSeq \in [Pumps -> Nat] /\ page \in [Pumps -> SUBSET Sequence] /\ ppc \in [Pumps -> PumpStates]
      /\ c \in Subscribers /\ boot \in Nat /\ log \subseteq Sequence
      /\ chan \in [Subscribers -> Seq(Sequence)] /\ handed \in [Pumps -> Seq(Sequence)]
  BY PumpAssumption, LogType DEF TypeOK, EventTypeOK
<1>f. /\ UNCHANGED <<logVars, log, boot>> /\ \A d \in Subscribers \ {c} : chan'[d] = chan[d]
  BY PumpFrame DEF logVars, log, PumpStep, HeadSequence, PumpSubscribe, ReplayRead, ReplayDispatch, LiveReceive, LiveEnd, PumpCancel
<1>o. /\ Fresh(ToSet(chan[c])) /\ Fresh(page[c]) /\ Fresh(ToSet(handed[c]))
      /\ ppc[c] # "head" => Fresh({s \in log : s > lastSeq[c]})
  BY <1>t DEF BacklogInv
<1>h. ASSUME NEW s \in Sequence, s > boot, s > lastSeq[c], ppc[c] # "head", HandOver(c, s)
      PROVE  Fresh(ToSet(handed'[c])) /\ Fresh({t \in log : t > lastSeq'[c]})
  <2>1. handed'[c] = Append(handed[c], s) /\ lastSeq'[c] = s
    BY <1>h, <1>t DEF HandOver
  <2>2. ToSet(handed'[c]) = ToSet(handed[c]) \union {s}
    BY <1>t, <2>1, ToSetAppend
  <2>3. QED
    BY <1>h, <1>o, <1>t, <2>1, <2>2 DEF Fresh, Sequence
<1>1. ASSUME HeadSequence(c)
      PROVE  Own
  <2>1. PICK h \in log \union {0} : IsHead(h) /\ lastSeq'[c] = h
    BY <1>1, <1>t DEF HeadSequence
  <2>2. Fresh({s \in log : s > lastSeq'[c]})
    BY <1>t, <2>1 DEF IsHead, Fresh, Sequence
  <2>3. QED
    BY <1>1, <1>o, <2>2 DEF HeadSequence, eventVars, busVars
<1>2. ASSUME PumpSubscribe(c) \/ PumpCancel(c)
      PROVE  Own
  <2>1. chan'[c] = <<>> /\ UNCHANGED <<page, handed, lastSeq>> /\ ppc[c] # "head"
    BY <1>2, <1>t DEF PumpSubscribe, PumpCancel, Subscribe, Cancel
  <2>2. QED
    BY <1>o, <2>1, EmptyToSet DEF Fresh
<1>3. ASSUME ReplayRead(c)
      PROVE  Own
  <2>1. UNCHANGED <<chan, handed, lastSeq>> /\ ppc[c] # "head"
    BY <1>3 DEF ReplayRead, eventVars, busVars
  <2>2. page'[c] = page[c] \/ page'[c] = RowsAfter(lastSeq[c], PageSize)
    BY <1>3, <1>t DEF ReplayRead, ReplayPage
  <2>3. Fresh(RowsAfter(lastSeq[c], PageSize))
    BY <1>o, <2>1, RowsInLog DEF Fresh
  <2>4. QED
    BY <1>o, <2>1, <2>2, <2>3
<1>4. ASSUME ReplayDispatch(c)
      PROVE  Own
  <2>1. PICK s \in page[c] : HandOver(c, s) /\ page' = [page EXCEPT ![c] = @ \ {s}]
    BY <1>4 DEF ReplayDispatch
  <2>2. page'[c] \subseteq page[c] /\ chan' = chan /\ ppc[c] # "head" /\ s \in Sequence /\ s > boot
    BY <1>4, <1>t, <1>o, <2>1 DEF ReplayDispatch, eventVars, busVars, Fresh
  <2>3. handed'[c] = Append(handed[c], s) /\ lastSeq'[c] = s
    BY <2>1, <1>t DEF HandOver
  <2>4. ToSet(handed'[c]) = ToSet(handed[c]) \union {s}
    BY <1>t, <2>2, <2>3, ToSetAppend
  <2>5. Fresh({t \in log : t > lastSeq'[c]})
    BY <1>t, <2>2, <2>3 DEF Fresh, Sequence
  <2>6. QED
    BY <1>o, <2>2, <2>4, <2>5 DEF Fresh
<1>5. ASSUME LiveReceive(c)
      PROVE  Own
  <2>1. /\ Head(chan[c]) \in ToSet(chan[c]) /\ Head(chan[c]) \in Sequence
        /\ ToSet(chan'[c]) \subseteq ToSet(chan[c]) /\ page' = page /\ ppc[c] # "head"
    BY <1>5, <1>t, ToSetTail DEF LiveReceive
  <2>2. UNCHANGED <<handed, lastSeq>> \/ (HandOver(c, Head(chan[c])) /\ Head(chan[c]) > lastSeq[c])
    BY <1>5, <1>t, <2>1 DEF LiveReceive, Sequence
  <2>3. CASE UNCHANGED <<handed, lastSeq>>
    BY <1>o, <2>1, <2>3 DEF Fresh
  <2>4. CASE HandOver(c, Head(chan[c])) /\ Head(chan[c]) > lastSeq[c]
    BY <1>h, <1>o, <2>1, <2>4 DEF Fresh
  <2>5. QED
    BY <2>2, <2>3, <2>4
<1>6. ASSUME LiveEnd(c)
      PROVE  Own
  BY <1>6, <1>o DEF LiveEnd, eventVars, busVars
<1>7. Own
  BY <1>1, <1>2, <1>3, <1>4, <1>5, <1>6 DEF PumpStep
<1>8. \A d \in Pumps \ {c} : UNCHANGED <<page[d], handed[d], lastSeq[d], ppc[d]>>
  BY PumpOthers
<1> HIDE DEF Own
<1>9. QED
  BY <1>f, <1>7, <1>8 DEF BacklogInv, Own, Fresh, logVars

\* Where no read fails a start dispatches nothing of what was in the log before it, with
\* any number of writers, on either backend, whatever is pruned.
THEOREM BacklogStays ==
    ASSUME ReadsFail = FALSE
    PROVE  Spec => []NoBacklog
<1>1. Init => BacklogInv
  BY EmptyToSet, PumpAssumption DEF Init, EventInit, PumpInit, BacklogInv, Fresh, log
<1>2. TypeOK /\ BacklogInv /\ [Next]_vars => BacklogInv'
  <2> SUFFICES ASSUME TypeOK, BacklogInv, [Next]_vars PROVE BacklogInv'
    OBVIOUS
  <2>1. CASE UNCHANGED vars
    BY <2>1 DEF vars, eventVars, logVars, busVars, pumpVars, BacklogInv, Fresh, log
  <2>2. CASE EventCrash /\ PumpCrash
    BY <2>2, EmptyToSet, PumpAssumption DEF EventCrash, PumpCrash, BacklogInv, Fresh, TypeOK, EventTypeOK
  <2>3. ASSUME NEW c \in Pumps, PumpStep(c) PROVE BacklogInv'
    BY <2>3, PumpIsFresh
  <2>4. CASE EventStep /\ UNCHANGED pumpVars
    <3>1. CASE \E w \in Writers : WriterStep(w)
      BY <2>4, <3>1, WriterIsFresh
    <3>2. CASE ~\E w \in Writers : WriterStep(w)
      <4>1. UNCHANGED <<top, rec, chan>> /\ log' \subseteq log
        <5>1. CASE \E h \in log : Prune(h)
          <6>1. PICK h \in log : Prune(h)
            BY <5>1
          <6>2. h \in Nat /\ h > horizon /\ horizon' = h /\ committed' = committed /\ committed \subseteq Nat /\ horizon \in Nat
            BY <6>1 DEF Prune, log, TypeOK, EventTypeOK, Sequence
          <6>3. \A s \in committed : s > h => s > horizon
            BY <6>2
          <6>4. log' \subseteq log
            BY <6>2, <6>3 DEF log
          <6>5. QED
            BY <6>1, <6>4 DEF Prune, busVars
        <5>2. CASE Shutdown \/ BusClose
          BY <5>2 DEF Shutdown, BusClose, logVars, busVars, log
        <5>3. QED
          BY <2>4, <3>2, <5>1, <5>2 DEF EventStep
      <4>2. QED
        BY <2>4, <4>1 DEF BacklogInv, Fresh, pumpVars
    <3>3. QED
      BY <3>1, <3>2
  <2>5. QED
    BY <2>1, <2>2, <2>3, <2>4 DEF Next
<1>3. BacklogInv => NoBacklog
  BY DEF BacklogInv, Fresh, NoBacklog
<1>4. QED
  BY <1>1, <1>2, <1>3, TypeCorrect, PTL DEF Spec

-----------------------------------------------------------------------------
(***************************************************************************)
(* The loop implements LogDelivery.                                        *)
(***************************************************************************)
\* A step of LogDelivery, or one it does not see.
Delivers(c) == Delivery(c)!Next \/ UNCHANGED Delivery(c)!vars

Unseen(c) == UNCHANGED <<committed, log, lastSeq[c], handed[c], ctxDone>>

LEMMA UnseenDelivers ==
    ASSUME NEW c \in Pumps, Unseen(c)
    PROVE  Delivers(c)
  BY DEF Delivers, Unseen, Delivery!vars

LEMMA WriterDelivers ==
    ASSUME TypeOK, NEW w \in Writers, LogInv(w), WriterStep(w), UNCHANGED pumpVars,
           NEW c \in Pumps
    PROVE  Delivers(c)
<1>1. UNCHANGED <<lastSeq[c], handed[c]>>
  BY DEF pumpVars
<1>2. CASE ~Commit(w)
  <2>1. UNCHANGED <<committed, log, ctxDone>>
    BY <1>2 DEF WriterStep, Begin, Emit, Rollback, Publish, log, envVars
  <2>2. QED
    BY <1>1, <2>1, UnseenDelivers DEF Unseen
<1>3. CASE Commit(w)
  <2> DEFINE N == ToSet(rec[w])
  <2>1. /\ committed' = committed \union N /\ wstate[w] = "tx"
        /\ UNCHANGED <<horizon, ctxDone>>
    BY <1>3 DEF Commit, envVars
  <2>2. \A n \in N, s \in committed : n > s
    BY <2>1 DEF LogInv
  <2>3. \A n \in N : n > horizon
    <3>1. N \subseteq Nat \ {0} /\ committed \subseteq Nat
      BY DEF TypeOK, EventTypeOK, Sequence, ToSet
    <3>2. horizon \in committed \union {0}
      BY DEF LogInv
    <3>3. QED
      BY <2>2, <3>1, <3>2
  <2>4. log' = log \union N /\ log' = log \union (committed' \ committed)
    <3>1. log' = log \union N
      BY <2>1, <2>3 DEF log
    <3>2. N \cap committed \subseteq log
      BY <2>3 DEF log
    <3>3. QED
      BY <2>1, <3>1, <3>2
  <2>5. Delivery(c)!Append_(committed' \ committed)
    <3>1. committed' = committed \union (committed' \ committed)
      BY <2>1
    <3>2. \A n \in committed' \ committed, s \in committed : n > s
      BY <2>1, <2>2
    <3>3. QED
      BY <1>1, <2>1, <2>4, <3>1, <3>2 DEF Delivery!Append_
  <2>6. QED
    BY <2>5 DEF Delivers, Delivery!Next
<1>4. QED
  BY <1>2, <1>3

LEMMA EnvironmentDelivers ==
    ASSUME TypeOK, NEW c \in Pumps,
           \/ Shutdown /\ UNCHANGED pumpVars
           \/ BusClose /\ UNCHANGED pumpVars
           \/ (\E h \in log : Prune(h)) /\ UNCHANGED pumpVars
           \/ EventCrash /\ PumpCrash
    PROVE  Delivers(c)
<1>1. CASE Shutdown /\ UNCHANGED pumpVars
  <2>1. Delivery(c)!Close
    BY <1>1 DEF Shutdown, logVars, log, pumpVars, Delivery!Close
  <2>2. QED
    BY <2>1 DEF Delivers, Delivery!Next
<1>2. CASE BusClose /\ UNCHANGED pumpVars
  <2>1. Unseen(c)
    BY <1>2 DEF BusClose, logVars, log, envVars, pumpVars, Unseen
  <2>2. QED
    BY <2>1, UnseenDelivers
<1>3. CASE (\E h \in log : Prune(h)) /\ UNCHANGED pumpVars
  <2>1. PICK h \in log : Prune(h)
    BY <1>3
  <2>2. UNCHANGED <<committed, ctxDone, lastSeq, handed>> /\ horizon' = h
    BY <1>3, <2>1 DEF Prune, pumpVars
  <2>3. committed \subseteq Nat /\ horizon \in Nat /\ h \in Nat /\ h > horizon
    BY DEF log, TypeOK, EventTypeOK, Sequence
  <2>4. log' \subseteq log
    <3>1. \A s \in committed : s > h => s > horizon
      BY <2>3
    <3>2. QED
      BY <2>2, <3>1 DEF log
  <2>5. Delivery(c)!Prune
    BY <2>2, <2>4 DEF Delivery!Prune
  <2>6. QED
    BY <2>5 DEF Delivers, Delivery!Next
<1>4. CASE EventCrash /\ PumpCrash
  <2>1. Delivery(c)!Stop
    BY <1>4 DEF EventCrash, PumpCrash, log, Delivery!Stop
  <2>2. QED
    BY <2>1 DEF Delivers, Delivery!Next
<1>5. QED
  BY <1>1, <1>2, <1>3, <1>4

LEMMA HandOverDelivers ==
    ASSUME TypeOK, NEW c \in Pumps, NEW s \in committed, s > lastSeq[c], HandOver(c, s),
           ctxDone \/ NextInLog(c, s), UNCHANGED <<committed, log, ctxDone>>
    PROVE  Delivers(c)
<1>1. handed'[c] = Append(handed[c], s) /\ lastSeq'[c] = s
  BY DEF HandOver, TypeOK
<1>2. Delivery(c)!Deliver(s)
  BY <1>1 DEF Delivery!Deliver, NextInLog
<1>3. QED
  BY <1>2 DEF Delivers, Delivery!Next

LEMMA PumpDelivers ==
    ASSUME TypeOK, NEW w \in Writers, SerialInv(w), OrderInv, ReadsFail = FALSE,
           NEW c \in Pumps, PumpStep(c)
    PROVE  Delivers(c)
<1>f. UNCHANGED <<committed, log, ctxDone>>
  BY PumpFrame DEF logVars, log
<1>o. /\ OrderOf(c) /\ QueueOf(c, w) /\ ComingOf(c, w) /\ c \in Subscribers
      /\ ToSet(chan[c]) \subseteq committed /\ page[c] \subseteq committed
      /\ committed \subseteq Nat
  BY PumpAssumption DEF OrderInv, SerialInv, FlowInv, TypeOK, EventTypeOK, Sequence
<1>t. /\ lastSeq \in [Pumps -> Nat] /\ chan[c] \in Seq(Sequence)
  BY <1>o DEF TypeOK, EventTypeOK
<1>1. CASE HeadSequence(c)
  <2>1. PICK h \in log \union {0} : IsHead(h) /\ lastSeq' = [lastSeq EXCEPT ![c] = h]
    BY <1>1 DEF HeadSequence
  <2>2. handed'[c] = handed[c] /\ handed[c] = <<>> /\ lastSeq'[c] = h
    BY <1>1, <1>o, <1>t, <2>1 DEF HeadSequence, OrderOf
  <2>3. \A s \in log : s <= h
    BY <2>1 DEF IsHead
  <2>4. Delivery(c)!Start
    BY <1>f, <2>1, <2>2, <2>3 DEF Delivery!Start
  <2>5. QED
    BY <2>4 DEF Delivers, Delivery!Next
<1>2. CASE PumpSubscribe(c) \/ ReplayRead(c) \/ LiveEnd(c) \/ PumpCancel(c)
  <2>1. UNCHANGED <<lastSeq, handed>>
    BY <1>2 DEF PumpSubscribe, ReplayRead, LiveEnd, PumpCancel
  <2>2. QED
    BY <1>f, <2>1, UnseenDelivers DEF Unseen
<1>3. CASE ReplayDispatch(c)
  <2>1. PICK s \in page[c] : IsLeast(s, page[c]) /\ HandOver(c, s)
    BY <1>3 DEF ReplayDispatch
  <2>2. s > lastSeq[c] /\ s \in committed
    BY <1>o DEF OrderOf
  <2>3. ctxDone \/ NextInLog(c, s)
    BY <1>o, <2>1, ReplayTakesNext DEF ComingOf
  <2>4. QED
    BY <1>f, <2>1, <2>2, <2>3, HandOverDelivers
<1>4. CASE LiveReceive(c)
  <2> DEFINE e == Head(chan[c])
  <2>1. chan[c] # <<>> /\ ppc[c] = "live" /\ page[c] = {}
    BY <1>4, <1>o DEF LiveReceive, OrderOf
  <2>2. CASE e <= lastSeq[c]
    <3>1. UNCHANGED <<lastSeq, handed>>
      BY <1>4, <2>2 DEF LiveReceive
    <3>2. QED
      BY <1>f, <3>1, UnseenDelivers DEF Unseen
  <2>3. CASE ~(e <= lastSeq[c])
    <3>1. e \in committed /\ e \in Nat
      <4>1. e \in ToSet(chan[c])
        BY <1>t, <2>1, ToSetTail
      <4>2. QED
        BY <1>o, <4>1
    <3>2. HandOver(c, e) /\ e > lastSeq[c]
      BY <1>4, <1>t, <2>3, <3>1 DEF LiveReceive
    <3>3. ctxDone \/ NextInLog(c, e)
      BY <1>o, <2>1, LiveTakesNext DEF ComingOf, QueueOf
    <3>4. QED
      BY <1>f, <3>1, <3>2, <3>3, HandOverDelivers
  <2>4. QED
    BY <2>2, <2>3
<1>5. QED
  BY <1>1, <1>2, <1>3, <1>4 DEF PumpStep

LEMMA StepDelivers ==
    ASSUME TypeOK, OrderInv, NEW w \in Writers, Writers = {w}, ReadsFail = FALSE,
           SerialInv(w), Next, NEW d \in Pumps
    PROVE  Delivers(d)
<1>1. CASE EventStep /\ UNCHANGED pumpVars
  BY <1>1, WriterDelivers, EnvironmentDelivers DEF EventStep, SerialInv
<1>2. CASE EventCrash /\ PumpCrash
  BY <1>2, EnvironmentDelivers
<1>3. ASSUME NEW c \in Pumps, PumpStep(c) PROVE Delivers(d)
  <2>1. CASE c = d
    BY <1>3, <2>1, PumpDelivers
  <2>2. CASE c # d
    <3>1. UNCHANGED <<committed, log, ctxDone>>
      BY <1>3, PumpFrame DEF logVars, log
    <3>2. UNCHANGED <<lastSeq[d], handed[d]>>
      BY <1>3, <2>2, PumpOthers
    <3>3. QED
      BY <3>1, <3>2, UnseenDelivers DEF Unseen
  <2>3. QED
    BY <2>1, <2>2
<1>4. QED
  BY <1>1, <1>2, <1>3 DEF Next

\* With a single writer and reads that do not fail, each loop is the cursor
\* LogDelivery promises: initial states to initial states, steps to steps.
THEOREM DeliveryWhenSerial ==
    ASSUME NEW w, Writers = {w}, ReadsFail = FALSE
    PROVE  Spec => ImplementsDelivery
<1>1. w \in Writers
  OBVIOUS
<1>2. Init => SerialInv(w)
  BY <1>1, SerialInit
<1>3. TypeOK /\ OrderInv /\ SerialInv(w) /\ [Next]_vars => SerialInv(w)'
  BY <1>1, SerialStep
<1>4. Init => \A c \in Pumps : Delivery(c)!Init
  BY DEF Init, EventInit, PumpInit, log, Delivery!Init
<1>5. TypeOK /\ OrderInv /\ SerialInv(w) /\ [Next]_vars
         => [\A c \in Pumps : Delivery(c)!Next \/ UNCHANGED Delivery(c)!vars]_vars
  BY <1>1, StepDelivers DEF Delivers
<1>6. QED
  BY <1>2, <1>3, <1>4, <1>5, TypeCorrect, OrderCorrect, PTL DEF Spec, ImplementsDelivery

=============================================================================
