------------------------------ MODULE EventPump ------------------------------
(***************************************************************************)
(* The loop webhooks.Dispatcher.Run and plugins.Manager.Run share: start   *)
(* at the head of the log, subscribe to the bus, replay the gap from the   *)
(* log, then consume the live channel until it closes, and start over from *)
(* the subscription.  The variable lastSeq decides what is a duplicate.    *)
(*                                                                         *)
(* handed[c] is the sequence of events c gave to dispatch since it         *)
(* started: what happens to an event after that is WebhookDelivery and     *)
(* PluginLifecycle.                                                        *)
(***************************************************************************)
EXTENDS EventLog

CONSTANT Pumps  \* the dispatcher and the plugin manager

ASSUME PumpAssumption == Pumps \subseteq Subscribers

VARIABLES
    ppc,      \* ppc[c]: where c is in Run
    lastSeq,  \* Run's local variable
    since,    \* the value headSequence returned
    page,     \* rows read by replay and not dispatched yet
    handed,   \* events dispatched since the start, oldest first
    boot      \* highest sequence allocated before the process started

pumpVars == <<ppc, lastSeq, since, page, handed, boot>>

PumpStates == {"head", "subscribe", "replay", "page", "lastpage",
               "live", "cancel", "stopped"}

PumpInit ==
    /\ ppc = [c \in Pumps |-> "head"]
    /\ lastSeq = [c \in Pumps |-> 0]
    /\ since = [c \in Pumps |-> 0]
    /\ page = [c \in Pumps |-> {}]
    /\ handed = [c \in Pumps |-> <<>>]
    /\ boot = 0

PumpCrash ==
    /\ ppc' = [c \in Pumps |-> "head"]
    /\ lastSeq' = [c \in Pumps |-> 0]
    /\ since' = [c \in Pumps |-> 0]
    /\ page' = [c \in Pumps |-> {}]
    /\ handed' = [c \in Pumps |-> <<>>]
    /\ boot' = top

Goto(c, to) == ppc' = [ppc EXCEPT ![c] = to]

\* Run without headSequence: it starts at the beginning of the log.
HeadSequenceZero(c) ==
    /\ ppc[c] = "head"
    /\ Goto(c, IF ctxDone THEN "stopped" ELSE "subscribe")
    /\ UNCHANGED <<eventVars, lastSeq, since, page, handed, boot>>

\* headSequence: a failed read counts as an empty log.
HeadSequence(c) ==
    /\ ppc[c] = "head"
    /\ \E h \in log \union {0} :
          /\ IsHead(h) \/ (ReadsFail /\ h = 0)
          /\ lastSeq' = [lastSeq EXCEPT ![c] = h]
          /\ since' = [since EXCEPT ![c] = h]
    /\ Goto(c, IF ctxDone THEN "stopped" ELSE "subscribe")
    /\ UNCHANGED <<eventVars, page, handed, boot>>

PumpSubscribe(c) ==
    /\ ppc[c] = "subscribe"
    /\ Subscribe(c)
    /\ Goto(c, "replay")
    /\ UNCHANGED <<logVars, busClosed, envVars, lastSeq, since, page, handed, boot>>

\* A page shorter than PageSize is the last one.
ReplayPage(c, rows) ==
    /\ page' = [page EXCEPT ![c] = rows]
    /\ Goto(c, CASE rows = {} -> "live"
                 [] rows # {} /\ Cardinality(rows) < PageSize -> "lastpage"
                 [] OTHER -> "page")

\* One round of replay's loop.  A failed read ends the replay, not the loop
\* of Run, which goes on to the live channel.
ReplayRead(c) ==
    /\ ppc[c] = "replay"
    /\ \/ ctxDone /\ Goto(c, "live") /\ UNCHANGED page
       \/ ~ctxDone /\ ReplayPage(c, RowsAfter(lastSeq[c], PageSize))
       \/ ~ctxDone /\ ReadsFail /\ Goto(c, "live") /\ UNCHANGED page
    /\ UNCHANGED <<eventVars, lastSeq, since, handed, boot>>

HandOver(c, s) ==
    /\ handed' = [handed EXCEPT ![c] = Append(@, s)]
    /\ lastSeq' = [lastSeq EXCEPT ![c] = s]

ReplayDispatch(c) ==
    /\ ppc[c] \in {"page", "lastpage"}
    /\ \E s \in page[c] :
          /\ IsLeast(s, page[c])
          /\ HandOver(c, s)
          /\ page' = [page EXCEPT ![c] = @ \ {s}]
    /\ IF page'[c] # {} THEN UNCHANGED ppc
       ELSE Goto(c, IF ppc[c] = "page" THEN "replay" ELSE "live")
    /\ UNCHANGED <<eventVars, since, boot>>

\* consumeLive without the comparison against lastSeq.
LiveReceiveAll(c) ==
    /\ ppc[c] = "live" /\ chan[c] # <<>>
    /\ chan' = [chan EXCEPT ![c] = Tail(@)]
    /\ HandOver(c, Head(chan[c]))
    /\ UNCHANGED <<logVars, open, busClosed, envVars, ppc, since, page, boot>>

\* consumeLive: an event at or below lastSeq was already seen in a replay.
LiveReceive(c) ==
    /\ ppc[c] = "live" /\ chan[c] # <<>>
    /\ chan' = [chan EXCEPT ![c] = Tail(@)]
    /\ IF Head(chan[c]) <= lastSeq[c] THEN UNCHANGED <<handed, lastSeq>>
       ELSE HandOver(c, Head(chan[c]))
    /\ UNCHANGED <<logVars, open, busClosed, envVars, ppc, since, page, boot>>

\* The channel is closed and drained, or the context is done.
LiveEnd(c) ==
    /\ ppc[c] = "live"
    /\ ctxDone \/ (chan[c] = <<>> /\ ~open[c])
    /\ Goto(c, "cancel")
    /\ UNCHANGED <<eventVars, lastSeq, since, page, handed, boot>>

\* Run that treats a closed channel as the end of the bus.
PumpCancelAndStop(c) ==
    /\ ppc[c] = "cancel"
    /\ Cancel(c)
    /\ Goto(c, "stopped")
    /\ UNCHANGED <<logVars, busClosed, envVars, lastSeq, since, page, handed, boot>>

\* Run that never looks at its context.
PumpCancelForever(c) ==
    /\ ppc[c] = "cancel"
    /\ Cancel(c)
    /\ Goto(c, "subscribe")
    /\ UNCHANGED <<logVars, busClosed, envVars, lastSeq, since, page, handed, boot>>

\* cancel(), then the condition of Run's loop.
PumpCancel(c) ==
    /\ ppc[c] = "cancel"
    /\ Cancel(c)
    /\ Goto(c, IF ctxDone THEN "stopped" ELSE "subscribe")
    /\ UNCHANGED <<logVars, busClosed, envVars, lastSeq, since, page, handed, boot>>

PumpStep(c) ==
    \/ HeadSequence(c)
    \/ PumpSubscribe(c)
    \/ ReplayRead(c)
    \/ ReplayDispatch(c)
    \/ LiveReceive(c)
    \/ LiveEnd(c)
    \/ PumpCancel(c)

-----------------------------------------------------------------------------
vars == <<eventVars, pumpVars>>

Init == EventInit /\ PumpInit

Next ==
    \/ EventStep /\ UNCHANGED pumpVars
    \/ EventCrash /\ PumpCrash
    \/ \E c \in Pumps : PumpStep(c)

Spec == Init /\ [][Next]_vars

(***************************************************************************)
(* Go schedules every runnable goroutine, and nothing in Publish or in the *)
(* loop blocks on anything but the mutex and the channel.  Mutations,      *)
(* crashes, retention and the signal are never obliged to happen.          *)
(***************************************************************************)
Fairness ==
    /\ \A w \in Writers : WF_vars(Publish(w) /\ UNCHANGED pumpVars)
    /\ WF_vars(BusClose /\ UNCHANGED pumpVars)
    /\ \A c \in Pumps : WF_vars(PumpStep(c))

FairSpec == Spec /\ Fairness

-----------------------------------------------------------------------------
(***************************************************************************)
(* Properties.                                                             *)
(***************************************************************************)

\* Every variable of the loop and of the log keeps its type.
TypeOK ==
    /\ EventTypeOK
    /\ ppc \in [Pumps -> PumpStates]
    /\ lastSeq \in [Pumps -> Nat]
    /\ since \in [Pumps -> Nat]
    /\ page \in [Pumps -> SUBSET Sequence]
    /\ handed \in [Pumps -> Seq(Sequence)]
    /\ boot \in Nat

\* Dispatch sees each event at most once and in sequence order, over any mix
\* of replays, drops and resubscriptions (lastSeq in Run and consumeLive).
InOrder ==
    \A c \in Pumps : \A i, j \in DOMAIN handed[c] :
        i < j => handed[c][i] < handed[c][j]

\* Dispatch sees only events whose transaction committed (Record publishes
\* after RunInTx returned nil; replay reads committed rows).
NoPhantom == \A c \in Pumps : ToSet(handed[c]) \subseteq committed

\* Until the signal, the loop never passes over an event that is still in the
\* log: whatever it went past since it started, it dispatched.
NoGap ==
    ~ctxDone => \A c \in Pumps : \A s \in log :
        since[c] < s /\ s <= lastSeq[c] => s \in ToSet(handed[c])

\* A restart does not dispatch the backlog again (Run starts at the head).
NoBacklog ==
    \A c \in Pumps : \A s \in ToSet(handed[c]) : s > boot

\* The loop is a cursor over the log: see LogDelivery.
Delivery(c) ==
    INSTANCE LogDelivery WITH cursor <- lastSeq[c], out <- handed[c], closing <- ctxDone

ImplementsDelivery ==
    /\ \A c \in Pumps : Delivery(c)!Init
    /\ [][\A c \in Pumps : Delivery(c)!Next \/ UNCHANGED Delivery(c)!vars]_vars

\* Every event committed while the loop runs reaches dispatch, however often
\* the bus drops the subscriber, unless the process stops or retention
\* deletes the row first.
EventuallyHanded ==
    \A c \in Pumps : \A s \in 1..MaxSeq :
        (s \in committed /\ ppc[c] # "head" /\ s > since[c])
            ~> (s \in ToSet(handed[c]) \/ s <= horizon \/ ctxDone \/ ppc[c] = "head")

\* After the signal the loop ends (or the process is gone and restarted).
StopsOnShutdown ==
    \A c \in Pumps : ctxDone ~> (ppc[c] = "stopped" \/ ~ctxDone)

=============================================================================
