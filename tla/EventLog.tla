------------------------------ MODULE EventLog ------------------------------
(***************************************************************************)
(* internal/events: the durable event log and the in-process bus.          *)
(*                                                                         *)
(* Emitter.Record runs a mutation in a database transaction, appends the   *)
(* events it emits to the events table in that same transaction, and only  *)
(* after the commit, holding no lock across the two, publishes them to the *)
(* Bus.  Bus.Publish sends to one bounded channel per subscriber without   *)
(* blocking; a subscriber whose channel is full is dropped: its channel is *)
(* closed and what was buffered can still be received.                     *)
(*                                                                         *)
(* An event is its sequence, the row id the events table gave it.          *)
(***************************************************************************)
EXTENDS Integers, FiniteSets, Sequences, SequencesExt

CONSTANTS
    Writers,      \* goroutines that call Emitter.Record
    Subscribers,  \* goroutines that hold a subscription of the bus
    BufferSize,   \* capacity of a subscriber's channel (subscriberBuffer = 64)
    PageSize,     \* rows of one ListEventsAfter page (replayPage = 500)
    Backend,      \* "sqlite" or "postgres"
    ReadsFail,    \* TRUE when a read of the events table may return an error
    MaxSeq,       \* bound: highest sequence ever allocated
    MaxBatch,     \* bound: events emitted by one Record
    MaxCrashes,   \* bound: crashes of the process
    MaxPrunes     \* bound: retention runs that remove something

ASSUME LogAssumption ==
    /\ BufferSize \in Nat \ {0}
    /\ PageSize \in Nat \ {0}
    /\ Backend \in {"sqlite", "postgres"}
    /\ ReadsFail \in BOOLEAN
    /\ MaxSeq \in Nat /\ MaxBatch \in Nat /\ MaxCrashes \in Nat /\ MaxPrunes \in Nat

VARIABLES
    committed,  \* every sequence whose transaction committed
    horizon,    \* retention has deleted the rows up to this sequence
    top,        \* the table's allocation counter
    wstate,     \* wstate[w]: where w is inside Record
    rec,        \* rec[w]: the Recorder's buffered events, oldest first
    chan,       \* chan[c]: events buffered in c's channel, oldest first
    open,       \* open[c]: c is in bus.subs, that is, its channel is not closed
    busClosed,  \* Bus.closed
    ctxDone,    \* the serve context is cancelled
    crashes, prunes

logVars == <<committed, horizon, top, wstate, rec>>
busVars == <<chan, open, busClosed>>
envVars == <<ctxDone, crashes, prunes>>
eventVars == <<logVars, busVars, envVars>>

(***************************************************************************)
(* The rows of the events table, and the reads the code makes of it.       *)
(***************************************************************************)
log == {s \in committed : s > horizon}

\* ListEventsAfter: the first n rows above a cursor, in sequence order.
RowsAfter(after, n) ==
    LET rows == {s \in log : s > after}
    IN  {s \in rows : Cardinality({t \in rows : t < s}) < n}

\* ListRecentEvents(1): the newest row, 0 when there is none.
IsHead(h) == \/ h \in log /\ \A s \in log : s <= h
             \/ h = 0 /\ log = {}

IsLeast(s, S) == s \in S /\ \A t \in S : s <= t

EventInit ==
    /\ committed = {} /\ horizon = 0 /\ top = 0
    /\ wstate = [w \in Writers |-> "idle"]
    /\ rec = [w \in Writers |-> <<>>]
    /\ chan = [c \in Subscribers |-> <<>>]
    /\ open = [c \in Subscribers |-> FALSE]
    /\ busClosed = FALSE
    /\ ctxDone = FALSE /\ crashes = 0 /\ prunes = 0

-----------------------------------------------------------------------------
(***************************************************************************)
(* Emitter.Record.                                                         *)
(***************************************************************************)
Begin(w) ==
    /\ wstate[w] = "idle"
    /\ wstate' = [wstate EXCEPT ![w] = "tx"]
    /\ UNCHANGED <<committed, horizon, top, rec, busVars, envVars>>

\* SQLite admits one writing transaction at a time; Postgres any number.
MayInsert(w) ==
    Backend = "sqlite" =>
        \A v \in Writers \ {w} : ~(wstate[v] = "tx" /\ rec[v] # <<>>)

\* The table without AUTOINCREMENT: the id after the highest surviving row.
NextSeqByRowid(w) ==
    CHOOSE n \in 1..MaxSeq + 1 : /\ \A s \in log \union ToSet(rec[w]) : s < n
                                 /\ \/ n = 1
                                    \/ n - 1 \in log \union ToSet(rec[w])

\* AUTOINCREMENT lives in the transaction (a rollback gives the value back);
\* a Postgres identity is taken at once and for good.
NextSeq(w) == IF Backend = "sqlite" THEN top + Len(rec[w]) + 1 ELSE top + 1

\* Recorder.Emit: insert the row, buffer the event for after the commit.
Emit(w) ==
    /\ wstate[w] = "tx"
    /\ MayInsert(w)
    /\ Len(rec[w]) < MaxBatch /\ NextSeq(w) <= MaxSeq
    /\ rec' = [rec EXCEPT ![w] = Append(@, NextSeq(w))]
    /\ top' = IF Backend = "sqlite" THEN top ELSE top + 1
    /\ UNCHANGED <<committed, horizon, wstate, busVars, envVars>>

Commit(w) ==
    /\ wstate[w] = "tx"
    /\ committed' = committed \union ToSet(rec[w])
    /\ top' = IF Backend = "sqlite" THEN top + Len(rec[w]) ELSE top
    /\ wstate' = [wstate EXCEPT ![w] = IF rec[w] = <<>> THEN "idle" ELSE "committed"]
    /\ UNCHANGED <<horizon, rec, busVars, envVars>>

\* A Record that publishes although its transaction failed.
RollbackButPublish(w) ==
    /\ wstate[w] = "tx"
    /\ wstate' = [wstate EXCEPT ![w] = IF rec[w] = <<>> THEN "idle" ELSE "committed"]
    /\ UNCHANGED <<committed, horizon, top, rec, busVars, envVars>>

\* fn or the commit fails: nothing is written and nothing is published.
Rollback(w) ==
    /\ wstate[w] = "tx"
    /\ wstate' = [wstate EXCEPT ![w] = "idle"]
    /\ rec' = [rec EXCEPT ![w] = <<>>]
    /\ UNCHANGED <<committed, horizon, top, busVars, envVars>>

-----------------------------------------------------------------------------
(***************************************************************************)
(* Bus.  Publish holds the mutex for the whole batch, so no Subscribe,     *)
(* cancel, Close or other Publish falls inside one; receives do.           *)
(***************************************************************************)
BusFree == \A w \in Writers : wstate[w] # "publishing"

\* A full channel loses the event and the subscriber stays.
FanOutLossy(ev) ==
    /\ chan' = [c \in Subscribers |->
                   IF open[c] /\ Len(chan[c]) < BufferSize THEN Append(chan[c], ev)
                   ELSE chan[c]]
    /\ UNCHANGED open

\* A channel without a bound.
FanOutUnbounded(ev) ==
    /\ chan' = [c \in Subscribers |->
                   IF open[c] THEN Append(chan[c], ev) ELSE chan[c]]
    /\ UNCHANGED open

\* One event of the batch goes to every subscriber, or drops it.
FanOut(ev) ==
    LET reached == {c \in Subscribers : open[c] /\ Len(chan[c]) < BufferSize}
    IN  /\ chan' = [c \in Subscribers |->
                       IF c \in reached THEN Append(chan[c], ev) ELSE chan[c]]
        /\ open' = [c \in Subscribers |-> c \in reached]

\* Bus.Publish, one event of the Recorder's batch at a time.
Publish(w) ==
    /\ \/ wstate[w] = "publishing"
       \/ wstate[w] = "committed" /\ BusFree
    /\ rec[w] # <<>>
    /\ FanOut(Head(rec[w]))
    /\ rec' = [rec EXCEPT ![w] = Tail(@)]
    /\ wstate' = [wstate EXCEPT ![w] = IF Len(rec[w]) = 1 THEN "idle" ELSE "publishing"]
    /\ UNCHANGED <<committed, horizon, top, busClosed, envVars>>

\* Bus.Subscribe, as a step of subscriber c.
Subscribe(c) ==
    /\ BusFree
    /\ chan' = [chan EXCEPT ![c] = <<>>]
    /\ open' = [open EXCEPT ![c] = ~busClosed]

\* The cancel function Subscribe returned.
Cancel(c) ==
    /\ BusFree
    /\ chan' = [chan EXCEPT ![c] = <<>>]
    /\ open' = [open EXCEPT ![c] = FALSE]

\* serve: the signal cancels the context, then Bus.Close drops everybody.
Shutdown ==
    /\ ~ctxDone /\ ctxDone' = TRUE
    /\ UNCHANGED <<logVars, busVars, crashes, prunes>>

BusClose ==
    /\ ctxDone /\ ~busClosed /\ BusFree
    /\ busClosed' = TRUE
    /\ open' = [c \in Subscribers |-> FALSE]
    /\ UNCHANGED <<logVars, chan, envVars>>

\* pruneEvents: retention is at least a day, so no Record is still open on
\* the rows it deletes.
Prune(h) ==
    /\ prunes < MaxPrunes /\ prunes' = prunes + 1
    /\ h \in log
    /\ \A w \in Writers : \A s \in ToSet(rec[w]) : s > h
    /\ horizon' = h
    /\ UNCHANGED <<committed, top, wstate, rec, busVars, ctxDone, crashes>>

\* The process dies and starts again: transactions roll back, the bus and
\* what was committed but not yet published are gone.
EventCrash ==
    /\ crashes < MaxCrashes /\ crashes' = crashes + 1
    /\ wstate' = [w \in Writers |-> "idle"]
    /\ rec' = [w \in Writers |-> <<>>]
    /\ chan' = [c \in Subscribers |-> <<>>]
    /\ open' = [c \in Subscribers |-> FALSE]
    /\ busClosed' = FALSE /\ ctxDone' = FALSE
    /\ UNCHANGED <<committed, horizon, top, prunes>>

WriterStep(w) == Begin(w) \/ Emit(w) \/ Commit(w) \/ Rollback(w) \/ Publish(w)

EventStep ==
    \/ \E w \in Writers : WriterStep(w)
    \/ Shutdown
    \/ BusClose
    \/ \E h \in log : Prune(h)

-----------------------------------------------------------------------------
Sequence == Nat \ {0}

EventTypeOK ==
    /\ committed \subseteq Sequence
    /\ horizon \in Nat
    /\ top \in Nat
    /\ wstate \in [Writers -> {"idle", "tx", "committed", "publishing"}]
    /\ rec \in [Writers -> Seq(Sequence)]
    /\ chan \in [Subscribers -> Seq(Sequence)]
    /\ \A c \in Subscribers : Len(chan[c]) <= BufferSize
    /\ open \in [Subscribers -> BOOLEAN]
    /\ busClosed \in BOOLEAN
    /\ ctxDone \in BOOLEAN
    /\ crashes \in 0..MaxCrashes
    /\ prunes \in 0..MaxPrunes

=============================================================================
