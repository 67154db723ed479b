--------------------------- MODULE WebhookDelivery ---------------------------
(* What the webhook dispatcher does with the events its loop hands over: each
   enabled webhook that subscribes to the event's type gets a job, a pool of
   workers posts the jobs with retries, and the outcome is written to the
   webhook's row.  The loop itself is EventPump, whose DispatchInOrder says that
   events arrive here at most once and in sequence order, as `handed` counts them.

   A job carries the row as it was read at dispatch.  A webhook's url and secret
   are only ever used in a request, so they are left out, and with them rotating
   the secret and sending a test event.  Jobs live in memory: a crash loses them,
   and nothing else here. *)
EXTENDS Naturals, Sequences, FiniteSets

CONSTANTS
  Workers,        \* Options.Workers
  QueueSize,      \* Options.QueueSize
  MaxAttempts,    \* Options.MaxAttempts
  Hooks,          \* webhook ids, an initial segment of 1, 2, ...
  Types,          \* event types
  Subscriptions,  \* the sets of types a webhook may list; {} stands for all
  MaxEvents       \* bound on the events handed over

ASSUME DeliveryAssumption ==
  /\ QueueSize \in Nat \ {0} /\ MaxAttempts \in Nat \ {0} /\ MaxEvents \in Nat
  /\ Hooks \subseteq Nat \ {0} /\ IsFiniteSet(Hooks)
  /\ Subscriptions \subseteq SUBSET Types

VARIABLES
  hooks,    \* the webhooks table, by id
  minted,   \* the webhooks created so far: ids are not reused
  handed,   \* the events dispatched so far
  pending,  \* the jobs the current dispatch has still to enqueue
  queue,    \* d.jobs
  closed,   \* d.jobs is closed
  ctxDone,  \* Run's context is cancelled
  worker,   \* each worker: where it is in deliverWithRetry, and with which job
  clock,    \* the outcomes so far, as the time they occurred at
  posts,    \* how often each job was posted
  acked     \* the jobs an endpoint acknowledged, with the time of the outcome
vars == <<hooks, minted, handed, pending, queue, closed, ctxDone, worker, clock, posts, acked>>

loopVars == <<handed, pending, closed, ctxDone>>

Events == 1 .. MaxEvents
Times  == 0 .. Cardinality(Hooks) * MaxEvents
Row == [enabled : BOOLEAN, types : Subscriptions,
        outcome : {"never", "delivered", "failed"}, attemptAt : Times, successAt : Times]
Job == [hook : Hooks, event : Events, successAt : Times]
NoJob == [hook |-> 0, event |-> 0, successAt |-> 0]
Waiting == [pc |-> "waiting", job |-> NoJob, attempt |-> 0, ok |-> FALSE, at |-> 0]

-----------------------------------------------------------------------------
(* The API. *)

CreateWebhook(h, enabled, types) ==
  /\ h \notin minted /\ \A g \in Hooks : g < h => g \in minted
  /\ hooks' = [g \in DOMAIN hooks \cup {h} |->
       IF g = h THEN [enabled |-> enabled, types |-> types,
                      outcome |-> "never", attemptAt |-> 0, successAt |-> 0]
                ELSE hooks[g]]
  /\ minted' = minted \cup {h}
  /\ UNCHANGED <<loopVars, queue, worker, clock, posts, acked>>

UpdateWebhook(h, enabled, types) ==
  /\ h \in DOMAIN hooks
  /\ hooks' = [hooks EXCEPT ![h].enabled = enabled, ![h].types = types]
  /\ UNCHANGED <<loopVars, minted, queue, worker, clock, posts, acked>>

DeleteWebhook(h) ==
  /\ h \in DOMAIN hooks
  /\ hooks' = [g \in DOMAIN hooks \ {h} |-> hooks[g]]
  /\ UNCHANGED <<loopVars, minted, queue, worker, clock, posts, acked>>

-----------------------------------------------------------------------------
(* The loop: dispatch, and the end of Run. *)

Matches(row, type) == row.types = {} \/ type \in row.types

\* The enabled webhooks are read and filtered once per event.
Dispatch(type) ==
  LET matching == {h \in DOMAIN hooks : hooks[h].enabled /\ Matches(hooks[h], type)}
      job(h) == [hook |-> h, event |-> handed + 1, successAt |-> hooks[h].successAt]
  IN  /\ ~ctxDone /\ pending = {} /\ handed < MaxEvents
      /\ handed' = handed + 1
      /\ pending' = {job(h) : h \in matching}
      /\ UNCHANGED <<hooks, minted, queue, closed, ctxDone, worker, clock, posts, acked>>

\* The read fails, as it must under a cancelled context: the event is skipped.
DispatchFails ==
  /\ ~closed /\ pending = {} /\ handed < MaxEvents
  /\ handed' = handed + 1
  /\ UNCHANGED <<hooks, minted, queue, pending, closed, ctxDone, worker, clock, posts, acked>>

\* The next job by webhook id enters the queue, or is dropped if there is no room.
Enqueue ==
  LET j == CHOOSE j \in pending : \A k \in pending : j.hook <= k.hook
  IN  /\ pending # {}
      /\ pending' = pending \ {j}
      /\ queue' = IF Len(queue) < QueueSize THEN Append(queue, j) ELSE queue
      /\ UNCHANGED <<hooks, minted, handed, closed, ctxDone, worker, clock, posts, acked>>

CancelRun ==
  /\ ~ctxDone /\ ctxDone' = TRUE
  /\ UNCHANGED <<hooks, minted, handed, pending, queue, closed, worker, clock, posts, acked>>

\* Mutant: the queue is left open.
CloseJobsNot ==
  /\ ctxDone /\ pending = {} /\ ~closed /\ closed' = FALSE
  /\ UNCHANGED <<hooks, minted, handed, pending, queue, ctxDone, worker, clock, posts, acked>>

\* The loop is over: no more jobs; Run returns when every worker has ended.
CloseJobs ==
  /\ ctxDone /\ pending = {} /\ ~closed /\ closed' = TRUE
  /\ UNCHANGED <<hooks, minted, handed, pending, queue, ctxDone, worker, clock, posts, acked>>

-----------------------------------------------------------------------------
(* The workers. *)

\* The n-th attempt: under a cancelled context the request is not sent.
Attempt(w, j, n) ==
  /\ worker' = [worker EXCEPT ![w] =
       [Waiting EXCEPT !.pc = IF ctxDone THEN "refused" ELSE "posting", !.job = j, !.attempt = n]]
  /\ posts' = IF ctxDone THEN posts ELSE [posts EXCEPT ![<<j.hook, j.event>>] = @ + 1]

Take(w) ==
  /\ worker[w].pc = "waiting" /\ queue # << >>
  /\ queue' = Tail(queue)
  /\ Attempt(w, Head(queue), 1)
  /\ UNCHANGED <<hooks, minted, loopVars, clock, acked>>

WorkerEnds(w) ==
  /\ worker[w].pc = "waiting" /\ queue = << >> /\ closed
  /\ worker' = [worker EXCEPT ![w].pc = "ended"]
  /\ UNCHANGED <<hooks, minted, loopVars, queue, clock, posts, acked>>

\* Mutant: a success is retried like a failure.
AckedAndRetried(w) ==
  /\ worker[w].pc = "posting"
  /\ worker' = [worker EXCEPT ![w].pc = "refused"]
  /\ acked' = acked \cup {[hook |-> worker[w].job.hook, event |-> worker[w].job.event, at |-> clock + 1]}
  /\ clock' = clock + 1
  /\ UNCHANGED <<hooks, minted, loopVars, queue, posts>>

\* The endpoint answers 2xx; the time of the outcome is taken.
Acked(w) ==
  /\ worker[w].pc = "posting"
  /\ worker' = [worker EXCEPT ![w].pc = "record", ![w].ok = TRUE, ![w].at = clock + 1]
  /\ acked' = acked \cup {[hook |-> worker[w].job.hook, event |-> worker[w].job.event, at |-> clock + 1]}
  /\ clock' = clock + 1
  /\ UNCHANGED <<hooks, minted, loopVars, queue, posts>>

\* Any other answer, or none in time, or the context is cancelled in flight.
Refused(w) ==
  /\ worker[w].pc = "posting"
  /\ worker' = [worker EXCEPT ![w].pc = "refused"]
  /\ UNCHANGED <<hooks, minted, loopVars, queue, clock, posts, acked>>

\* Mutant: the attempts left are not looked at, and neither is the context.
GiveUpEarly(w) ==
  /\ worker[w].pc = "refused"
  /\ worker' = [worker EXCEPT ![w].pc = "record", ![w].at = clock + 1]
  /\ clock' = clock + 1
  /\ UNCHANGED <<hooks, minted, loopVars, queue, posts, acked>>

\* The last attempt failed, and not because of a shutdown.
GiveUp(w) ==
  /\ worker[w].pc = "refused" /\ ~ctxDone /\ worker[w].attempt = MaxAttempts
  /\ worker' = [worker EXCEPT ![w].pc = "record", ![w].at = clock + 1]
  /\ clock' = clock + 1
  /\ UNCHANGED <<hooks, minted, loopVars, queue, posts, acked>>

\* Mutant: one attempt more than the options allow.
BackoffOnceMore(w) ==
  /\ worker[w].pc = "refused" /\ ~ctxDone /\ worker[w].attempt <= MaxAttempts
  /\ worker' = [worker EXCEPT ![w].pc = "backoff"]
  /\ UNCHANGED <<hooks, minted, loopVars, queue, clock, posts, acked>>

Backoff(w) ==
  /\ worker[w].pc = "refused" /\ ~ctxDone /\ worker[w].attempt < MaxAttempts
  /\ worker' = [worker EXCEPT ![w].pc = "backoff"]
  /\ UNCHANGED <<hooks, minted, loopVars, queue, clock, posts, acked>>

\* The timer may win over a context that is cancelled as well.
Retry(w) ==
  /\ worker[w].pc = "backoff"
  /\ Attempt(w, worker[w].job, worker[w].attempt + 1)
  /\ UNCHANGED <<hooks, minted, loopVars, queue, clock, acked>>

\* Shutting down: the job is dropped without a trace.
Abandon(w) ==
  /\ worker[w].pc \in {"refused", "backoff"} /\ ctxDone
  /\ worker' = [worker EXCEPT ![w] = Waiting]
  /\ UNCHANGED <<hooks, minted, loopVars, queue, clock, posts, acked>>

\* Mutant: a failure counts as a success.
StatusAlwaysSuccess(row, wk) ==
  [row EXCEPT !.outcome = "delivered", !.attemptAt = wk.at, !.successAt = wk.at]

\* Mutant: the row that was read at dispatch is written back whole.
StatusOfEnabledRow(row, wk) ==
  [row EXCEPT !.outcome = IF wk.ok THEN "delivered" ELSE "failed", !.attemptAt = wk.at,
              !.successAt = IF wk.ok THEN wk.at ELSE wk.job.successAt, !.enabled = TRUE]

\* Only the status columns are written; a failure writes back the success time
\* the row had at dispatch.
Status(row, wk) ==
  [row EXCEPT !.outcome = IF wk.ok THEN "delivered" ELSE "failed", !.attemptAt = wk.at,
              !.successAt = IF wk.ok THEN wk.at ELSE wk.job.successAt]

\* The context of this write is not the one that is cancelled.
RecordStatus(w) ==
  LET h == worker[w].job.hook
  IN  /\ worker[w].pc = "record"
      /\ hooks' = IF h \in DOMAIN hooks THEN [hooks EXCEPT ![h] = Status(@, worker[w])] ELSE hooks
      /\ worker' = [worker EXCEPT ![w] = Waiting]
      /\ UNCHANGED <<minted, loopVars, queue, clock, posts, acked>>

\* Mutant: the worker does not survive it.
RecordFailsAndEnds(w) ==
  /\ worker[w].pc = "record"
  /\ worker' = [worker EXCEPT ![w] = [Waiting EXCEPT !.pc = "ended"]]
  /\ UNCHANGED <<hooks, minted, loopVars, queue, clock, posts, acked>>

\* The write fails or times out, which is only logged.
RecordFails(w) ==
  /\ worker[w].pc = "record"
  /\ worker' = [worker EXCEPT ![w] = Waiting]
  /\ UNCHANGED <<hooks, minted, loopVars, queue, clock, posts, acked>>

-----------------------------------------------------------------------------
Init ==
  /\ hooks = [h \in {} |-> 0] /\ minted = {}
  /\ handed = 0 /\ pending = {} /\ queue = << >> /\ closed = FALSE /\ ctxDone = FALSE
  /\ worker = [w \in Workers |-> Waiting]
  /\ clock = 0 /\ posts = [k \in Hooks \X Events |-> 0] /\ acked = {}

ApiStep ==
  \/ \E h \in Hooks, enabled \in BOOLEAN, types \in Subscriptions :
       CreateWebhook(h, enabled, types) \/ UpdateWebhook(h, enabled, types)
  \/ \E h \in Hooks : DeleteWebhook(h)

LoopStep == (\E type \in Types : Dispatch(type)) \/ DispatchFails \/ Enqueue \/ CloseJobs

WorkerStep(w) ==
  \/ Take(w) \/ WorkerEnds(w) \/ Acked(w) \/ Refused(w) \/ GiveUp(w)
  \/ Backoff(w) \/ Retry(w) \/ Abandon(w) \/ RecordStatus(w) \/ RecordFails(w)

Next == ApiStep \/ LoopStep \/ CancelRun \/ \E w \in Workers : WorkerStep(w)

\* Enqueueing and closing do not block; a request ends within its timeout, a
\* backoff within 30 seconds, a status write within 5.
Fairness ==
  /\ WF_vars(Enqueue) /\ WF_vars(CloseJobs)
  /\ \A w \in Workers : WF_vars(WorkerStep(w))

Spec == Init /\ [][Next]_vars /\ Fairness

-----------------------------------------------------------------------------
(* Properties. *)

TypeOK ==
  /\ DOMAIN hooks \subseteq minted /\ minted \subseteq Hooks
  /\ \A h \in DOMAIN hooks : hooks[h] \in Row
  /\ handed \in 0 .. MaxEvents /\ pending \subseteq Job
  /\ Len(queue) <= QueueSize /\ \A i \in DOMAIN queue : queue[i] \in Job
  /\ closed \in BOOLEAN /\ ctxDone \in BOOLEAN /\ clock \in Times
  /\ worker \in [Workers ->
       [pc : {"waiting", "posting", "refused", "backoff", "record", "ended"},
        job : Job \cup {NoJob}, attempt : 0 .. MaxAttempts, ok : BOOLEAN, at : Times]]
  /\ posts \in [Hooks \X Events -> 0 .. MaxAttempts]
  /\ acked \subseteq [hook : Hooks, event : Events, at : Times]

\* A webhook is posted an event at most MaxAttempts times and never again once it was
\* acknowledged, whatever its row went through meanwhile; and the row says that a delivery
\* failed only after all its attempts were sent and none was acknowledged ("without
\* recording a spurious failure").
Acknowledged(h, e) == \E a \in acked : a.hook = h /\ a.event = e
AttemptsAreTold ==
  [][/\ \A h \in Hooks, e \in Events :
          posts'[<<h, e>>] # posts[<<h, e>>] => posts[<<h, e>>] < MaxAttempts /\ ~Acknowledged(h, e)
     /\ \A h \in DOMAIN hooks \cap DOMAIN hooks' :
          hooks'[h].attemptAt # hooks[h].attemptAt /\ hooks'[h].outcome = "failed" =>
            \E e \in Events : posts[<<h, e>>] = MaxAttempts /\ ~Acknowledged(h, e)]_vars

\* A success time is the time of a success of this very webhook.
SuccessesAreReal ==
  \A h \in DOMAIN hooks :
    /\ hooks[h].successAt # 0 => [hook |-> h, at |-> hooks[h].successAt] \in
                                   {[hook |-> a.hook, at |-> a.at] : a \in acked}
    /\ hooks[h].outcome = "delivered" => hooks[h].attemptAt = hooks[h].successAt

\* An outcome that arrives after the webhook was edited, disabled or deleted
\* leaves it as the user made it.
DeliveryKeepsConfig ==
  [][(\E w \in Workers : worker'[w] # worker[w]) =>
       /\ DOMAIN hooks' = DOMAIN hooks
       /\ \A h \in DOMAIN hooks : /\ hooks'[h].enabled = hooks[h].enabled
                                  /\ hooks'[h].types = hooks[h].types]_vars

\* Every job that was queued is taken out and ends, and once its context is cancelled Run
\* returns: the queue is drained and every worker ends ("stops accepting work and lets the
\* workers drain").
Busy(h, e) == \/ \E i \in DOMAIN queue : queue[i].hook = h /\ queue[i].event = e
              \/ \E w \in Workers : worker[w].job.hook = h /\ worker[w].job.event = e
JobsEnd == /\ \A h \in Hooks, e \in Events : Busy(h, e) ~> ~Busy(h, e)
           /\ ctxDone ~> (queue = << >> /\ \A w \in Workers : worker[w].pc = "ended")

\* "last_success_at advances only on success (otherwise the webhook's existing
\* value is preserved)" (recordStatus).
SuccessTimePreserved ==
  [][\A h \in DOMAIN hooks \cap DOMAIN hooks' :
       hooks'[h].successAt # hooks[h].successAt => hooks'[h].outcome = "delivered"]_vars
=============================================================================
