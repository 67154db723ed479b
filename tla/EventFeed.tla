------------------------------ MODULE EventFeed ------------------------------
(***************************************************************************)
(* The two ways a client outside the process reads the event log (api):    *)
(*                                                                         *)
(*  - GET /events/stream: handleEventStream subscribes to the bus, replays *)
(*    the log from ?after if the client gave one, then follows the live    *)
(*    channel.  When the handler ends the client reconnects with the last  *)
(*    sequence it saw;                                                     *)
(*  - GET /events?after=: listEvents returns one page and the cursor for   *)
(*    the next request; ?newest returns the tail and the head as cursor.   *)
(*                                                                         *)
(* The handler's end of the connection is one process per client; a frame  *)
(* counts as seen by the client when it is written.                        *)
(***************************************************************************)
EXTENDS EventLog

CONSTANTS
    SseClients,   \* clients of the stream, among Subscribers
    PollClients   \* clients of the cursor read

VARIABLES
    fpc,       \* fpc[c]: where the handler serving c is
    lastSent,  \* handleEventStream's lastSent
    frames,    \* frames written to c, oldest first, over all its connections
    fpage,     \* rows read by replayEvents and not written yet
    cursor,    \* cursor[q]: the `next` of q's last response
    from,      \* from[q]: q asked for everything above this sequence
    got        \* got[q]: events q was sent

sseVars == <<fpc, lastSent, frames, fpage>>
pollVars == <<cursor, from, got>>
feedVars == <<sseVars, pollVars>>

FeedStates == {"away", "subscribed", "replay", "page", "lastpage", "live", "done"}

FeedInit ==
    /\ fpc = [c \in SseClients |-> "away"]
    /\ lastSent = [c \in SseClients |-> 0]
    /\ frames = [c \in SseClients |-> <<>>]
    /\ fpage = [c \in SseClients |-> {}]
    /\ cursor = [q \in PollClients |-> 0]
    /\ from = [q \in PollClients |-> 0]
    /\ got = [q \in PollClients |-> {}]

Seen(c) == IF frames[c] = <<>> THEN 0 ELSE Last(frames[c])

Goto(c, to) == fpc' = [fpc EXCEPT ![c] = to]

\* A handler that ignores the cursor of a client that reconnects.
ConnectWithoutReplay(c) ==
    /\ fpc[c] = "away" /\ ~ctxDone
    /\ Subscribe(c)
    /\ lastSent' = [lastSent EXCEPT ![c] = Seen(c)]
    /\ Goto(c, "live")
    /\ UNCHANGED <<logVars, busClosed, envVars, frames, fpage, pollVars>>

\* handleEventStream up to the replay: subscribe, then take the cursor.
\* A client that has seen nothing may ask for the backlog or only for
\* what comes; one that reconnects names the last sequence it saw.
Connect(c) ==
    /\ fpc[c] = "away" /\ ~ctxDone
    /\ Subscribe(c)
    /\ lastSent' = [lastSent EXCEPT ![c] = Seen(c)]
    /\ \/ Goto(c, "replay")
       \/ frames[c] = <<>> /\ Goto(c, "live")
    /\ UNCHANGED <<logVars, busClosed, envVars, frames, fpage, pollVars>>

\* replayEvents: one page, or an error, which ends the handler.
StreamReplayRead(c) ==
    /\ fpc[c] = "replay"
    /\ \/ /\ ReadsFail /\ Goto(c, "done") /\ UNCHANGED fpage
       \/ LET rows == RowsAfter(lastSent[c], PageSize)
          IN  /\ fpage' = [fpage EXCEPT ![c] = rows]
              /\ Goto(c, CASE rows = {} -> "live"
                           [] rows # {} /\ Cardinality(rows) < PageSize -> "lastpage"
                           [] OTHER -> "page")
    /\ UNCHANGED <<eventVars, lastSent, frames, pollVars>>

Write(c, s) ==
    /\ frames' = [frames EXCEPT ![c] = Append(@, s)]
    /\ lastSent' = [lastSent EXCEPT ![c] = s]

StreamReplayWrite(c) ==
    /\ fpc[c] \in {"page", "lastpage"}
    /\ \E s \in fpage[c] :
          /\ IsLeast(s, fpage[c])
          /\ Write(c, s)
          /\ fpage' = [fpage EXCEPT ![c] = @ \ {s}]
    /\ IF fpage'[c] # {} THEN UNCHANGED fpc
       ELSE Goto(c, IF fpc[c] = "page" THEN "replay" ELSE "live")
    /\ UNCHANGED <<eventVars, pollVars>>

\* The live loop without the comparison against lastSent.
StreamReceiveAll(c) ==
    /\ fpc[c] = "live" /\ chan[c] # <<>>
    /\ chan' = [chan EXCEPT ![c] = Tail(@)]
    /\ Write(c, Head(chan[c]))
    /\ UNCHANGED <<logVars, open, busClosed, envVars, fpc, fpage, pollVars>>

\* The live loop drops what the replay already sent.
StreamReceive(c) ==
    /\ fpc[c] = "live" /\ chan[c] # <<>>
    /\ chan' = [chan EXCEPT ![c] = Tail(@)]
    /\ IF Head(chan[c]) <= lastSent[c] THEN UNCHANGED <<frames, lastSent>>
       ELSE Write(c, Head(chan[c]))
    /\ UNCHANGED <<logVars, open, busClosed, envVars, fpc, fpage, pollVars>>

\* The channel is closed and drained: the handler returns.
StreamDropped(c) ==
    /\ fpc[c] = "live"
    /\ chan[c] = <<>> /\ ~open[c]
    /\ Goto(c, "done")
    /\ UNCHANGED <<eventVars, lastSent, frames, fpage, pollVars>>

\* The client goes away: a write fails or the request context ends.
Disconnect(c) ==
    /\ fpc[c] \in {"replay", "page", "lastpage", "live"}
    /\ Goto(c, "done")
    /\ fpage' = [fpage EXCEPT ![c] = {}]
    /\ UNCHANGED <<eventVars, lastSent, frames, pollVars>>

\* The deferred cancel.
StreamReturn(c) ==
    /\ fpc[c] = "done"
    /\ Cancel(c)
    /\ Goto(c, "away")
    /\ UNCHANGED <<logVars, busClosed, envVars, lastSent, frames, fpage, pollVars>>

-----------------------------------------------------------------------------
\* listEvents with the newest sequence of the table as `next`.
PollToHead(q) ==
    LET rows == RowsAfter(cursor[q], PageSize)
    IN  /\ rows # {}
        /\ got' = [got EXCEPT ![q] = @ \union rows]
        /\ cursor' = [cursor EXCEPT ![q] = Max(log)]
        /\ UNCHANGED <<eventVars, sseVars, from>>

\* listEvents: a page above the cursor; `next` is its last row.
Poll(q) ==
    LET rows == RowsAfter(cursor[q], PageSize)
    IN  /\ rows # {}
        /\ got' = [got EXCEPT ![q] = @ \union rows]
        /\ cursor' = [cursor EXCEPT ![q] = Max(rows)]
        /\ UNCHANGED <<eventVars, sseVars, from>>

\* recentEvents: the last PageSize rows, and the head as cursor.
PollNewest(q) ==
    LET rows == {s \in log : Cardinality({t \in log : t > s}) < PageSize}
    IN  /\ cursor[q] = 0 /\ rows # {}
        /\ got' = [got EXCEPT ![q] = rows]
        /\ from' = [from EXCEPT ![q] = Min(rows) - 1]
        /\ cursor' = [cursor EXCEPT ![q] = Max(rows)]
        /\ UNCHANGED <<eventVars, sseVars>>

ClientStep(c) ==
    \/ Connect(c)
    \/ Disconnect(c)

HandlerStep(c) ==
    \/ StreamReplayRead(c)
    \/ StreamReplayWrite(c)
    \/ StreamReceive(c)
    \/ StreamDropped(c)
    \/ StreamReturn(c)

\* The connections end with the process; the clients keep what they saw.
FeedCrash ==
    /\ fpc' = [c \in SseClients |-> "away"]
    /\ fpage' = [c \in SseClients |-> {}]
    /\ UNCHANGED <<lastSent, frames, pollVars>>

vars == <<eventVars, feedVars>>

Init == EventInit /\ FeedInit

Next ==
    \/ EventStep /\ UNCHANGED feedVars
    \/ EventCrash /\ FeedCrash
    \/ \E c \in SseClients : ClientStep(c) \/ HandlerStep(c)
    \/ \E q \in PollClients : Poll(q) \/ PollNewest(q)

Spec == Init /\ [][Next]_vars

-----------------------------------------------------------------------------
\* Every variable of the handlers and of the log keeps its type.
TypeOK ==
    /\ EventTypeOK
    /\ fpc \in [SseClients -> FeedStates]
    /\ lastSent \in [SseClients -> Nat]
    /\ frames \in [SseClients -> Seq(Sequence)]
    /\ fpage \in [SseClients -> SUBSET Sequence]
    /\ cursor \in [PollClients -> Nat]
    /\ from \in [PollClients -> Nat]
    /\ got \in [PollClients -> SUBSET Sequence]

\* A client of the stream sees the events in sequence order and none twice,
\* over all its reconnections (handleEventStream's lastSent, ?after).
StreamInOrder ==
    \A c \in SseClients : \A i, j \in DOMAIN frames[c] :
        i < j => frames[c][i] < frames[c][j]

\* A client that reconnects with the last sequence it saw has everything
\* between its first and its last frame that is still in the log.
StreamNoGap ==
    \A c \in SseClients : frames[c] # <<>> =>
        \A s \in log : Head(frames[c]) <= s /\ s <= Seen(c) => s \in ToSet(frames[c])

\* A client that follows `next` has every event of the log up to its cursor.
PollNoGap ==
    \A q \in PollClients : \A s \in log :
        from[q] < s /\ s <= cursor[q] => s \in got[q]

\* A sequence is never given out twice, whatever rolled back or was pruned:
\* a cursor taken before stays a place in the same log.
SequencesFresh ==
    \A w \in Writers :
        /\ wstate[w] = "tx" => ToSet(rec[w]) \cap committed = {}
        /\ \A v \in Writers \ {w} : ToSet(rec[v]) \cap ToSet(rec[w]) = {}

=============================================================================
