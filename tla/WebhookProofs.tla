---------------------------- MODULE WebhookProofs ----------------------------
(*************************************************************************)
(* What a webhook's row says of its deliveries is true, for any number   *)
(* of workers, any queue and any number of attempts. A job exists once:  *)
(* in the dispatch, in the queue or at a worker, and what its worker     *)
(* knows of it is what happened to it. Then what comes in, each as an    *)
(* instance of its module: signed deliveries and sign-ins, and the       *)
(* sources that are fetched: Teller, CSV folders, Plaid, Ethereum and    *)
(* Bitcoin.                                                              *)
(*************************************************************************)
EXTENDS WebhookDelivery, FiniteSetTheorems, SequenceTheorems, WellFoundedInduction, TLAPS

AnyRow == [enabled : BOOLEAN, types : Subscriptions,
           outcome : {"never", "delivered", "failed"}, attemptAt : Nat, successAt : Nat]
AnyJob == [hook : Hooks, event : Events, successAt : Nat]
AtWork == {"posting", "refused", "backoff", "record"}
AnyWorker == [pc : AtWork \cup {"waiting", "ended"}, job : AnyJob \cup {NoJob},
              attempt : Nat, ok : BOOLEAN, at : Nat]
Holds(w) == worker[w].pc \in AtWork

Typed ==
  /\ minted \subseteq Hooks /\ DOMAIN hooks \subseteq minted
  /\ \A h \in DOMAIN hooks : hooks[h] \in AnyRow
  /\ pending \subseteq AnyJob /\ queue \in Seq(AnyJob)
  /\ handed \in Nat /\ clock \in Nat
  /\ worker \in [Workers -> AnyWorker]
  /\ \A w \in Workers : Holds(w) => worker[w].job \in AnyJob
  /\ posts \in [Hooks \X Events -> Nat]

-----------------------------------------------------------------------------
(* The dispatch, the queue and the workers, one job at a time. *)

\* The dispatch hands over a job it still has: the one with the least webhook id.
LEMMA NextJob ==
    ASSUME Typed, pending # {}
    PROVE  (CHOOSE j \in pending : \A k \in pending : j.hook <= k.hook) \in pending
<1> DEFINE H == {j.hook : j \in pending}
<1>1. \A j \in pending : j.hook \in Nat
  BY DeliveryAssumption DEF Typed, AnyJob
<1>2. H \subseteq Nat /\ H # {}
  BY <1>1
<1> HIDE DEF H
<1>3. PICK n \in H : \A m \in H : ~(<<m, n>> \in OpToRel(<, Nat))
  BY <1>2, NatLessThanWellFounded, WFMin
<1>4. \A m \in H : n <= m
  <2>1. n \in Nat /\ \A m \in H : m \in Nat
    BY <1>2
  <2>2. \A m \in H : ~(m < n)
    BY <1>3, <2>1 DEF OpToRel
  <2>3. QED
    BY <2>1, <2>2
<1>5. \E j \in pending : \A k \in pending : j.hook <= k.hook
  BY <1>4 DEF H
<1>6. QED
  BY <1>5

\* What a sequence's head and tail hold.
LEMMA HeadTail ==
    ASSUME NEW S, NEW q \in Seq(S), q # << >>
    PROVE  /\ Head(q) = q[1] /\ q[1] \in S /\ 1 \in DOMAIN q /\ Tail(q) \in Seq(S)
           /\ \A i \in DOMAIN Tail(q) : Tail(q)[i] = q[i + 1] /\ i + 1 \in DOMAIN q /\ i \in Nat \ {0}
<1>1. Len(q) \in Nat /\ Len(q) # 0
  OBVIOUS
<1>2. QED
  BY <1>1

\* What a sequence holds once x is appended.
LEMMA Appended ==
    ASSUME NEW S, NEW q \in Seq(S), NEW x \in S
    PROVE  /\ Append(q, x) \in Seq(S)
           /\ DOMAIN q \subseteq DOMAIN Append(q, x)
           /\ \A i \in DOMAIN q : Append(q, x)[i] = q[i]
           /\ \A i \in DOMAIN Append(q, x) \ DOMAIN q : Append(q, x)[i] = x /\ i = Len(q) + 1
OBVIOUS

\* What the loop does to the jobs: they stay, or the first of the dispatch moves to the queue or is dropped.
LEMMA EnqueueCases ==
    ASSUME Typed, Enqueue
    PROVE  \E j \in pending : /\ pending' = pending \ {j}
                              /\ queue' = queue \/ queue' = Append(queue, j)
<1> DEFINE j == CHOOSE j \in pending : \A k \in pending : j.hook <= k.hook
<1>1. pending # {} /\ pending' = pending \ {j} /\ (queue' = queue \/ queue' = Append(queue, j))
  BY DEF Enqueue
<1>2. j \in pending
  BY <1>1, NextJob
<1>3. QED
  BY <1>1, <1>2

-----------------------------------------------------------------------------
(***************************************************************************)
(* Types.                                                                  *)
(***************************************************************************)
\* The step makes r of the worker w and leaves the others as they are.
Becomes(w, r) ==
  /\ worker' = [worker EXCEPT ![w] = r]
  /\ worker'[w] = r /\ \A v \in Workers \ {w} : worker'[v] = worker[v]

\* A step that sets one worker leaves the others.
LEMMA WorkerBecomes ==
    ASSUME Typed, NEW w \in Workers, NEW r, worker' = [worker EXCEPT ![w] = r]
    PROVE  Becomes(w, r)
BY DEF Becomes, Typed

\* What each step makes of the worker that takes it.
LEMMA WorkerEffect ==
    ASSUME Typed, NEW w \in Workers
    PROVE  /\ WorkerEnds(w) => Becomes(w, [worker[w] EXCEPT !.pc = "ended"])
           /\ Acked(w) => Becomes(w, [worker[w] EXCEPT !.pc = "record", !.ok = TRUE, !.at = clock + 1])
           /\ Refused(w) => Becomes(w, [worker[w] EXCEPT !.pc = "refused"])
           /\ GiveUp(w) => Becomes(w, [worker[w] EXCEPT !.pc = "record", !.at = clock + 1])
           /\ Backoff(w) => Becomes(w, [worker[w] EXCEPT !.pc = "backoff"])
           /\ Abandon(w) \/ RecordFails(w) \/ RecordStatus(w) => Becomes(w, Waiting)
<1>1. worker[w] \in AnyWorker /\ w \in DOMAIN worker
  BY DEF Typed
<1>2. WorkerEnds(w) => worker' = [worker EXCEPT ![w] = [worker[w] EXCEPT !.pc = "ended"]]
  BY <1>1 DEF WorkerEnds
<1>3. Acked(w) => worker' = [worker EXCEPT ![w] =
                               [worker[w] EXCEPT !.pc = "record", !.ok = TRUE, !.at = clock + 1]]
  BY <1>1 DEF Acked
<1>4. Refused(w) => worker' = [worker EXCEPT ![w] = [worker[w] EXCEPT !.pc = "refused"]]
  BY <1>1 DEF Refused
<1>5. GiveUp(w) => worker' = [worker EXCEPT ![w] = [worker[w] EXCEPT !.pc = "record", !.at = clock + 1]]
  BY <1>1 DEF GiveUp
<1>6. Backoff(w) => worker' = [worker EXCEPT ![w] = [worker[w] EXCEPT !.pc = "backoff"]]
  BY <1>1 DEF Backoff
<1>7. Abandon(w) \/ RecordFails(w) \/ RecordStatus(w) => worker' = [worker EXCEPT ![w] = Waiting]
  BY DEF Abandon, RecordFails, RecordStatus
<1>8. QED
  BY <1>2, <1>3, <1>4, <1>5, <1>6, <1>7, WorkerBecomes

\* The n-th attempt of a job.
Tried(j, n) == [Waiting EXCEPT !.pc = IF ctxDone THEN "refused" ELSE "posting", !.job = j, !.attempt = n]

\* The fields of an attempt.
LEMMA TriedFields ==
    ASSUME NEW j, NEW n
    PROVE  /\ Tried(j, n).pc = IF ctxDone THEN "refused" ELSE "posting"
           /\ Tried(j, n).job = j /\ Tried(j, n).attempt = n /\ Tried(j, n).ok = FALSE /\ Tried(j, n).at = 0
BY DEF Tried, Waiting

\* What an attempt makes of the worker and of what was sent.
LEMMA AttemptEffect ==
    ASSUME Typed, NEW w \in Workers, NEW j \in AnyJob, NEW n \in Nat, Attempt(w, j, n)
    PROVE  /\ Becomes(w, Tried(j, n)) /\ Tried(j, n) \in AnyWorker
           /\ posts' = IF ctxDone THEN posts ELSE [posts EXCEPT ![<<j.hook, j.event>>] = @ + 1]
           /\ posts' \in [Hooks \X Events -> Nat]
<1>1. worker' = [worker EXCEPT ![w] = Tried(j, n)]
  BY DEF Attempt, Tried
<1>2. Tried(j, n) \in AnyWorker
  BY DEF Tried, Waiting, AnyWorker, AtWork
<1>3. posts' = IF ctxDone THEN posts ELSE [posts EXCEPT ![<<j.hook, j.event>>] = @ + 1]
  BY DEF Attempt
<1>4. <<j.hook, j.event>> \in Hooks \X Events
  BY DEF AnyJob
<1>5. posts' \in [Hooks \X Events -> Nat]
  BY <1>3, <1>4 DEF Typed
<1>6. QED
  BY <1>1, <1>2, <1>3, <1>5, WorkerBecomes

\* A step that changes one worker.
LEMMA WorkerTyped ==
    ASSUME Typed, NEW w \in Workers, NEW r \in AnyWorker, Becomes(w, r),
           r.pc \in AtWork => r.job \in AnyJob,
           UNCHANGED <<minted, handed, pending>>,
           DOMAIN hooks' = DOMAIN hooks, \A h \in DOMAIN hooks : hooks'[h] \in AnyRow,
           queue' \in Seq(AnyJob), clock' \in Nat, posts' \in [Hooks \X Events -> Nat]
    PROVE  Typed'
<1>1. worker' \in [Workers -> AnyWorker]
  BY DEF Typed, Becomes
<1>2. \A v \in Workers : Holds(v)' => worker'[v].job \in AnyJob
  BY DEF Typed, Holds, Becomes
<1>3. QED
  BY <1>1, <1>2 DEF Typed

\* No step leaves the types.
LEMMA TypedStep ==
    ASSUME Typed, [Next]_vars
    PROVE  Typed'
<1>1. ASSUME NEW h \in Hooks, NEW enabled \in BOOLEAN, NEW types \in Subscriptions,
             CreateWebhook(h, enabled, types) \/ UpdateWebhook(h, enabled, types)
      PROVE  Typed'
  <2>1. UNCHANGED <<loopVars, queue, worker, clock, posts>>
    BY <1>1 DEF CreateWebhook, UpdateWebhook
  <2>2. minted' \subseteq Hooks /\ DOMAIN hooks' \subseteq minted'
    BY <1>1 DEF CreateWebhook, UpdateWebhook, Typed
  <2>3. ASSUME NEW g \in DOMAIN hooks' PROVE hooks'[g] \in AnyRow
    <3>1. CASE CreateWebhook(h, enabled, types)
      BY <2>3, <3>1 DEF CreateWebhook, Typed, AnyRow
    <3>2. CASE UpdateWebhook(h, enabled, types)
      <4>1. /\ g \in DOMAIN hooks /\ hooks[g] \in AnyRow
            /\ hooks'[g] = IF g = h THEN [hooks[g] EXCEPT !.enabled = enabled, !.types = types] ELSE hooks[g]
        BY <2>3, <3>2 DEF UpdateWebhook, Typed
      <4>2. QED
        BY <4>1 DEF AnyRow
    <3>3. QED
      BY <1>1, <3>1, <3>2
  <2>4. QED
    BY <2>1, <2>2, <2>3 DEF Typed, loopVars, Holds
<1>2. ASSUME NEW h \in Hooks, DeleteWebhook(h)
      PROVE  Typed'
  BY <1>2 DEF DeleteWebhook, Typed, loopVars, Holds
<1>3. ASSUME NEW type \in Types, Dispatch(type)
      PROVE  Typed'
  <2>1. handed + 1 \in Events
    BY <1>3, DeliveryAssumption DEF Dispatch, Typed, Events
  <2>2. pending' \subseteq AnyJob
    BY <1>3, <2>1 DEF Dispatch, Typed, AnyJob, AnyRow
  <2>3. QED
    BY <1>3, <2>2 DEF Dispatch, Typed, Holds
<1>4. CASE DispatchFails \/ CloseJobs \/ CancelRun
  BY <1>4 DEF DispatchFails, CloseJobs, CancelRun, Typed, Holds
<1>5. CASE Enqueue
  <2>1. UNCHANGED <<hooks, minted, handed, worker, clock, posts>>
    BY <1>5 DEF Enqueue
  <2>2. PICK j \in pending : pending' = pending \ {j} /\ (queue' = queue \/ queue' = Append(queue, j))
    BY <1>5, EnqueueCases
  <2>3. j \in AnyJob /\ queue \in Seq(AnyJob)
    BY DEF Typed
  <2>4. pending' \subseteq AnyJob /\ queue' \in Seq(AnyJob)
    BY <2>2, <2>3, Appended DEF Typed
  <2>5. QED
    BY <2>1, <2>4 DEF Typed, Holds
<1>6. ASSUME NEW w \in Workers, Take(w)
      PROVE  Typed'
  <2>1. Head(queue) \in AnyJob /\ queue' \in Seq(AnyJob)
    BY <1>6, HeadTail DEF Take, Typed
  <2>2. Attempt(w, Head(queue), 1) /\ UNCHANGED <<hooks, minted, handed, pending, clock>>
    BY <1>6 DEF Take, loopVars
  <2>3. /\ Becomes(w, Tried(Head(queue), 1)) /\ Tried(Head(queue), 1) \in AnyWorker
        /\ posts' \in [Hooks \X Events -> Nat]
    BY <2>1, <2>2, AttemptEffect
  <2>4. Tried(Head(queue), 1).job = Head(queue)
    BY TriedFields
  <2>5. QED
    BY <2>1, <2>2, <2>3, <2>4, WorkerTyped DEF Typed
<1>7. ASSUME NEW w \in Workers, Retry(w)
      PROVE  Typed'
  <2> DEFINE j == worker[w].job
             n == worker[w].attempt + 1
  <2>1. j \in AnyJob /\ n \in Nat
    BY <1>7 DEF Retry, Typed, Holds, AtWork, AnyWorker
  <2>2. Attempt(w, j, n) /\ UNCHANGED <<hooks, minted, handed, pending, queue, clock>>
    BY <1>7 DEF Retry, loopVars
  <2> HIDE DEF j, n
  <2>3. Becomes(w, Tried(j, n)) /\ Tried(j, n) \in AnyWorker /\ posts' \in [Hooks \X Events -> Nat]
    BY <2>1, <2>2, AttemptEffect
  <2>4. Tried(j, n).job = j
    BY TriedFields
  <2>5. QED
    BY <2>1, <2>2, <2>3, <2>4, WorkerTyped DEF Typed
<1>8. ASSUME NEW w \in Workers,
             WorkerEnds(w) \/ Acked(w) \/ Refused(w) \/ GiveUp(w) \/ Backoff(w) \/ Abandon(w) \/ RecordFails(w)
      PROVE  Typed'
  <2> DEFINE Good(r) == r \in AnyWorker /\ (r.pc \in AtWork => r.job \in AnyJob)
  <2>1. worker[w] \in AnyWorker /\ (worker[w].pc \in AtWork => worker[w].job \in AnyJob) /\ clock + 1 \in Nat
    BY DEF Typed, Holds
  <2>2. UNCHANGED <<hooks, minted, handed, pending, queue, posts>> /\ clock' \in Nat
    BY <1>8 DEF WorkerEnds, Acked, Refused, GiveUp, Backoff, Abandon, RecordFails, loopVars, Typed
  <2>3. ASSUME NEW r, Becomes(w, r), Good(r)
        PROVE  Typed'
    BY <2>2, <2>3, WorkerTyped DEF Typed
  <2>4. /\ Good([worker[w] EXCEPT !.pc = "ended"]) /\ Good(Waiting)
        /\ worker[w].pc \in AtWork =>
             /\ Good([worker[w] EXCEPT !.pc = "refused"]) /\ Good([worker[w] EXCEPT !.pc = "backoff"])
             /\ Good([worker[w] EXCEPT !.pc = "record", !.at = clock + 1])
             /\ Good([worker[w] EXCEPT !.pc = "record", !.ok = TRUE, !.at = clock + 1])
    BY <2>1 DEF AnyWorker, AtWork, Waiting
  <2>5. Acked(w) \/ Refused(w) \/ GiveUp(w) \/ Backoff(w) => worker[w].pc \in AtWork
    BY DEF Acked, Refused, GiveUp, Backoff, AtWork
  <2> HIDE DEF Good
  <2>6. QED
    BY <1>8, <2>3, <2>4, <2>5, WorkerEffect
<1>9. ASSUME NEW w \in Workers, RecordStatus(w)
      PROVE  Typed'
  <2>1. worker[w] \in AnyWorker /\ worker[w].job \in AnyJob
    BY <1>9 DEF RecordStatus, Typed, Holds, AtWork
  <2>2. \A row \in AnyRow : Status(row, worker[w]) \in AnyRow
    BY <2>1 DEF Status, AnyRow, AnyJob, AnyWorker
  <2>3. DOMAIN hooks' = DOMAIN hooks /\ \A h \in DOMAIN hooks : hooks'[h] \in AnyRow
    BY <1>9, <2>2 DEF RecordStatus, Typed
  <2>4. Becomes(w, Waiting) /\ UNCHANGED <<minted, handed, pending, queue, clock, posts>>
    BY <1>9, WorkerEffect DEF RecordStatus, loopVars
  <2>5. Waiting \in AnyWorker /\ Waiting.pc \notin AtWork
    BY DEF Waiting, AnyWorker, AtWork
  <2>6. QED
    BY <2>3, <2>4, <2>5, WorkerTyped DEF Typed
<1>10. CASE UNCHANGED vars
  BY <1>10 DEF vars, loopVars, Typed, Holds
<1>11. QED
  <2>1. CASE ApiStep
    BY <1>1, <1>2, <2>1 DEF ApiStep
  <2>2. CASE LoopStep \/ CancelRun
    BY <1>3, <1>4, <1>5, <2>2 DEF LoopStep
  <2>3. ASSUME NEW w \in Workers, WorkerStep(w)
        PROVE  Typed'
    BY <1>6, <1>7, <1>8, <1>9, <2>3 DEF WorkerStep
  <2>4. QED
    BY <1>10, <2>1, <2>2, <2>3 DEF Next

-----------------------------------------------------------------------------
(***************************************************************************)
(* The times of the successes.                                             *)
(***************************************************************************)
\* t is no time at all, or that of an acknowledgement by h in A.
Dated(A, h, t) == t # 0 => \E a \in A : a.hook = h /\ a.at = t

RowTrue(A, h, row) == Dated(A, h, row.successAt) /\ (row.outcome = "delivered" => row.attemptAt = row.successAt)

\* What a worker carries of its webhook's successes.
CarriesTrue(A, r) ==
  /\ r.pc \in AtWork => Dated(A, r.job.hook, r.job.successAt)
  /\ r.ok => r.pc = "record" /\ \E a \in A : a.hook = r.job.hook /\ a.at = r.at

TimesInv ==
  /\ \A j \in pending : Dated(acked, j.hook, j.successAt)
  /\ \A i \in DOMAIN queue : Dated(acked, queue[i].hook, queue[i].successAt)
  /\ \A w \in Workers : CarriesTrue(acked, worker[w])
  /\ \A h \in DOMAIN hooks : RowTrue(acked, h, hooks[h])

\* More acknowledgements leave what was true of fewer.
LEMMA MoreAcked ==
    ASSUME NEW A, NEW B, A \subseteq B
    PROVE  /\ \A h, t : Dated(A, h, t) => Dated(B, h, t)
           /\ \A h, row : RowTrue(A, h, row) => RowTrue(B, h, row)
           /\ \A r : CarriesTrue(A, r) => CarriesTrue(B, r)
BY DEF Dated, RowTrue, CarriesTrue

\* A step of one worker that keeps what the queue and the rows say.
LEMMA TimesWorker ==
    ASSUME Typed, TimesInv, NEW w \in Workers, NEW r, Becomes(w, r), CarriesTrue(acked', r),
           acked \subseteq acked', pending' = pending,
           \A i \in DOMAIN queue' : Dated(acked, queue'[i].hook, queue'[i].successAt),
           \A h \in DOMAIN hooks' : RowTrue(acked', h, hooks'[h])
    PROVE  TimesInv'
<1>1. \A v \in Workers : CarriesTrue(acked', worker'[v])
  BY MoreAcked DEF Becomes, TimesInv
<1>2. \A j \in pending' : Dated(acked', j.hook, j.successAt)
  BY MoreAcked DEF TimesInv
<1>3. \A i \in DOMAIN queue' : Dated(acked', queue'[i].hook, queue'[i].successAt)
  BY MoreAcked
<1>4. QED
  BY <1>1, <1>2, <1>3 DEF TimesInv

\* No step makes a time untrue.
LEMMA TimesStep ==
    ASSUME Typed, TimesInv, [Next]_vars
    PROVE  TimesInv'
<1>1. ASSUME NEW h \in Hooks, NEW enabled \in BOOLEAN, NEW types \in Subscriptions,
             CreateWebhook(h, enabled, types) \/ UpdateWebhook(h, enabled, types)
      PROVE  TimesInv'
  <2>1. UNCHANGED <<pending, queue, worker, acked>>
    BY <1>1 DEF CreateWebhook, UpdateWebhook, loopVars
  <2>2. ASSUME NEW g \in DOMAIN hooks' PROVE RowTrue(acked, g, hooks'[g])
    <3>1. CASE CreateWebhook(h, enabled, types)
      BY <2>2, <3>1 DEF CreateWebhook, TimesInv, RowTrue, Dated
    <3>2. CASE UpdateWebhook(h, enabled, types)
      <4>1. /\ g \in DOMAIN hooks /\ hooks[g] \in AnyRow
            /\ hooks'[g] = IF g = h THEN [hooks[g] EXCEPT !.enabled = enabled, !.types = types] ELSE hooks[g]
        BY <2>2, <3>2 DEF UpdateWebhook, Typed
      <4>2. /\ hooks'[g].successAt = hooks[g].successAt /\ hooks'[g].attemptAt = hooks[g].attemptAt
            /\ hooks'[g].outcome = hooks[g].outcome
        BY <4>1 DEF AnyRow
      <4>3. QED
        BY <4>1, <4>2 DEF TimesInv, RowTrue
    <3>3. QED
      BY <1>1, <3>1, <3>2
  <2>3. QED
    BY <2>1, <2>2 DEF TimesInv
<1>2. ASSUME NEW h \in Hooks, DeleteWebhook(h)
      PROVE  TimesInv'
  BY <1>2 DEF DeleteWebhook, TimesInv, loopVars
<1>3. ASSUME NEW type \in Types, Dispatch(type)
      PROVE  TimesInv'
  <2>1. UNCHANGED <<hooks, queue, worker, acked>>
    BY <1>3 DEF Dispatch
  <2>2. \A j \in pending' : \E h \in DOMAIN hooks : j.hook = h /\ j.successAt = hooks[h].successAt
    BY <1>3 DEF Dispatch
  <2>3. \A j \in pending' : Dated(acked, j.hook, j.successAt)
    BY <2>2 DEF TimesInv, RowTrue
  <2>4. QED
    BY <2>1, <2>3 DEF TimesInv
<1>4. CASE DispatchFails \/ CloseJobs \/ CancelRun
  BY <1>4 DEF DispatchFails, CloseJobs, CancelRun, TimesInv
<1>5. CASE Enqueue
  <2>1. UNCHANGED <<hooks, worker, acked>>
    BY <1>5 DEF Enqueue
  <2>2. PICK j \in pending : pending' = pending \ {j} /\ (queue' = queue \/ queue' = Append(queue, j))
    BY <1>5, EnqueueCases
  <2>3. j \in AnyJob /\ queue \in Seq(AnyJob)
    BY DEF Typed
  <2>4. \A i \in DOMAIN queue' : Dated(acked, queue'[i].hook, queue'[i].successAt)
    BY <2>2, <2>3, Appended DEF TimesInv
  <2>5. QED
    BY <2>1, <2>2, <2>4 DEF TimesInv
<1>6. ASSUME NEW w \in Workers, Take(w)
      PROVE  TimesInv'
  <2> DEFINE j == Head(queue)
  <2>1. /\ j \in AnyJob /\ Dated(acked, j.hook, j.successAt)
        /\ \A i \in DOMAIN queue' : Dated(acked, queue'[i].hook, queue'[i].successAt)
    <3>1. queue \in Seq(AnyJob) /\ queue # << >> /\ queue' = Tail(queue)
      BY <1>6 DEF Take, Typed
    <3>2. QED
      BY <3>1, HeadTail DEF TimesInv
  <2>2. Attempt(w, j, 1) /\ UNCHANGED <<hooks, pending, acked>>
    BY <1>6 DEF Take, loopVars
  <2> HIDE DEF j
  <2>3. Becomes(w, Tried(j, 1))
    BY <2>1, <2>2, AttemptEffect
  <2>4. CarriesTrue(acked, Tried(j, 1))
    BY <2>1, TriedFields DEF CarriesTrue
  <2>5. QED
    BY <2>1, <2>2, <2>3, <2>4, TimesWorker DEF TimesInv
<1>7. ASSUME NEW w \in Workers, Retry(w)
      PROVE  TimesInv'
  <2> DEFINE j == worker[w].job
             n == worker[w].attempt + 1
  <2>1. j \in AnyJob /\ n \in Nat /\ Dated(acked, j.hook, j.successAt)
    BY <1>7 DEF Retry, Typed, Holds, AtWork, AnyWorker, TimesInv, CarriesTrue
  <2>2. Attempt(w, j, n) /\ UNCHANGED <<hooks, pending, queue, acked>>
    BY <1>7 DEF Retry, loopVars
  <2> HIDE DEF j, n
  <2>3. Becomes(w, Tried(j, n))
    BY <2>1, <2>2, AttemptEffect
  <2>4. CarriesTrue(acked, Tried(j, n))
    BY <2>1, TriedFields DEF CarriesTrue
  <2>5. QED
    BY <2>1, <2>2, <2>3, <2>4, TimesWorker DEF TimesInv
<1>8. ASSUME NEW w \in Workers,
             WorkerEnds(w) \/ Refused(w) \/ GiveUp(w) \/ Backoff(w) \/ Abandon(w) \/ RecordFails(w)
      PROVE  TimesInv'
  <2>1. worker[w] \in AnyWorker /\ CarriesTrue(acked, worker[w])
    BY DEF Typed, TimesInv
  <2>2. UNCHANGED <<hooks, pending, queue, acked>>
    BY <1>8 DEF WorkerEnds, Refused, GiveUp, Backoff, Abandon, RecordFails, loopVars
  <2>3. ASSUME NEW r, Becomes(w, r), CarriesTrue(acked, r)
        PROVE  TimesInv'
    BY <2>2, <2>3, TimesWorker DEF TimesInv
  <2>4. CarriesTrue(acked, Waiting)
    BY DEF Waiting, CarriesTrue, AtWork
  <2>5. ASSUME worker[w].pc # "record"
        PROVE  /\ CarriesTrue(acked, [worker[w] EXCEPT !.pc = "ended"])
               /\ worker[w].pc \in AtWork =>
                    /\ CarriesTrue(acked, [worker[w] EXCEPT !.pc = "refused"])
                    /\ CarriesTrue(acked, [worker[w] EXCEPT !.pc = "backoff"])
                    /\ CarriesTrue(acked, [worker[w] EXCEPT !.pc = "record", !.at = clock + 1])
    BY <2>1, <2>5 DEF AnyWorker, CarriesTrue, AtWork
  <2>6. /\ Refused(w) \/ GiveUp(w) \/ Backoff(w) => worker[w].pc \in AtWork
        /\ WorkerEnds(w) \/ Refused(w) \/ GiveUp(w) \/ Backoff(w) => worker[w].pc # "record"
    BY DEF WorkerEnds, Refused, GiveUp, Backoff, AtWork
  <2>7. QED
    BY <1>8, <2>3, <2>4, <2>5, <2>6, WorkerEffect
<1>9. ASSUME NEW w \in Workers, Acked(w)
      PROVE  TimesInv'
  <2> DEFINE r == [worker[w] EXCEPT !.pc = "record", !.ok = TRUE, !.at = clock + 1]
  <2>1. /\ worker[w] \in AnyWorker /\ CarriesTrue(acked, worker[w])
        /\ \A h \in DOMAIN hooks : RowTrue(acked, h, hooks[h])
    BY DEF Typed, TimesInv
  <2>2. /\ UNCHANGED <<hooks, pending, queue>> /\ worker[w].pc = "posting"
        /\ acked' = acked \cup {[hook |-> worker[w].job.hook, event |-> worker[w].job.event, at |-> clock + 1]}
    BY <1>9 DEF Acked, loopVars
  <2>3. /\ r.pc = "record" /\ r.job = worker[w].job /\ r.at = clock + 1
        /\ Dated(acked, worker[w].job.hook, worker[w].job.successAt)
    BY <2>1, <2>2 DEF AnyWorker, CarriesTrue, AtWork
  <2>4. Becomes(w, r)
    BY <1>9, WorkerEffect
  <2> HIDE DEF r
  <2>5. Dated(acked', r.job.hook, r.job.successAt)
    BY <2>2, <2>3, MoreAcked
  <2>6. \E a \in acked' : a.hook = r.job.hook /\ a.at = r.at
    <3> DEFINE x == [hook |-> worker[w].job.hook, event |-> worker[w].job.event, at |-> clock + 1]
    <3>1. x \in acked'
      BY <2>2
    <3>2. x.hook = r.job.hook /\ x.at = r.at
      BY <2>3
    <3>3. QED
      BY <3>1, <3>2
  <2>7. CarriesTrue(acked', r)
    BY <2>3, <2>5, <2>6 DEF CarriesTrue
  <2>8. QED
    BY <2>1, <2>2, <2>4, <2>7, MoreAcked, TimesWorker DEF TimesInv
<1>10. ASSUME NEW w \in Workers, RecordStatus(w)
      PROVE  TimesInv'
  <2> DEFINE r == worker[w]
  <2>1. /\ r \in AnyWorker /\ r.job \in AnyJob /\ CarriesTrue(acked, r) /\ r.pc \in AtWork
    BY <1>10 DEF RecordStatus, Typed, TimesInv, Holds, AtWork
  <2>2. Becomes(w, Waiting) /\ UNCHANGED <<pending, queue, acked>>
    BY <1>10, WorkerEffect DEF RecordStatus, loopVars
  <2>3. CarriesTrue(acked, Waiting)
    BY DEF Waiting, CarriesTrue, AtWork
  <2>4. /\ DOMAIN hooks' = DOMAIN hooks
        /\ \A h \in DOMAIN hooks : hooks'[h] = IF h = r.job.hook THEN Status(hooks[h], r) ELSE hooks[h]
    BY <1>10 DEF RecordStatus
  <2> HIDE DEF r
  <2>5. ASSUME NEW row \in AnyRow PROVE RowTrue(acked, r.job.hook, Status(row, r))
    <3>1. /\ Status(row, r).attemptAt = r.at
          /\ Status(row, r).successAt = IF r.ok THEN r.at ELSE r.job.successAt
          /\ Status(row, r).outcome = IF r.ok THEN "delivered" ELSE "failed"
      BY DEF Status, AnyRow
    <3>2. QED
      BY <2>1, <3>1 DEF RowTrue, CarriesTrue, Dated
  <2>6. \A h \in DOMAIN hooks' : RowTrue(acked, h, hooks'[h])
    BY <2>4, <2>5 DEF Typed, TimesInv
  <2>7. QED
    BY <2>2, <2>3, <2>6, TimesWorker DEF TimesInv
<1>11. CASE UNCHANGED vars
  BY <1>11 DEF vars, loopVars, TimesInv
<1>12. QED
  <2>1. CASE ApiStep
    BY <1>1, <1>2, <2>1 DEF ApiStep
  <2>2. CASE LoopStep \/ CancelRun
    BY <1>3, <1>4, <1>5, <2>2 DEF LoopStep
  <2>3. ASSUME NEW w \in Workers, WorkerStep(w)
        PROVE  TimesInv'
    BY <1>6, <1>7, <1>8, <1>9, <1>10, <2>3 DEF WorkerStep
  <2>4. QED
    BY <1>11, <2>1, <2>2, <2>3 DEF Next

\* The initial state is typed.
LEMMA TypedInit == Init => Typed
BY DEF Init, Typed, Waiting, AnyWorker, AtWork, Holds

\* No time is claimed at first.
LEMMA TimesInit == Init => TimesInv
BY DEF Init, TimesInv, Waiting, CarriesTrue, AtWork

\* A webhook's last success is the time of a success of this very webhook, however many workers deliver to it
\* at once and whatever is created, edited or deleted meanwhile; and a row that says delivered says so of the
\* attempt it names (recordStatus).
THEOREM SuccessesAreTrue == Spec => []SuccessesAreReal
<1>1. Init => Typed /\ TimesInv
  BY TypedInit, TimesInit
<1>2. Typed /\ TimesInv /\ [Next]_vars => (Typed /\ TimesInv)'
  BY TypedStep, TimesStep
<1>3. TimesInv => SuccessesAreReal
  <2> SUFFICES ASSUME TimesInv, NEW h \in DOMAIN hooks
               PROVE  /\ hooks[h].successAt # 0 => [hook |-> h, at |-> hooks[h].successAt] \in
                                                     {[hook |-> a.hook, at |-> a.at] : a \in acked}
                      /\ hooks[h].outcome = "delivered" => hooks[h].attemptAt = hooks[h].successAt
    BY DEF SuccessesAreReal
  <2>1. RowTrue(acked, h, hooks[h])
    BY DEF TimesInv
  <2>2. QED
    BY <2>1 DEF RowTrue, Dated
<1>4. QED
  BY <1>1, <1>2, <1>3, PTL DEF Spec

-----------------------------------------------------------------------------
(***************************************************************************)
(* The attempts.  Every job is for a webhook and an event of its own, and  *)
(* what its worker knows of it agrees with what was sent and acknowledged. *)
(***************************************************************************)
Same(j, k) == j.hook = k.hook /\ j.event = k.event

Known(A, j) == \E a \in A : a.hook = j.hook /\ a.event = j.event

Untried(P, A, j) == P[<<j.hook, j.event>>] = 0 /\ ~Known(A, j)

\* r's worker knows what became of its job.
Told(P, A, done, r) ==
  LET sent == P[<<r.job.hook, r.job.event>>]
  IN  /\ r.pc \in {"posting", "refused", "backoff"} => ~Known(A, r.job) /\ r.attempt \in 1 .. MaxAttempts
      /\ r.pc \in {"posting", "backoff"} => sent = r.attempt
      /\ r.pc = "refused" => done \/ sent = r.attempt
      /\ r.pc = "backoff" => r.attempt < MaxAttempts
      /\ r.pc = "record" /\ ~r.ok => ~Known(A, r.job) /\ sent = MaxAttempts

Apart ==
  /\ \A j, k \in pending : Same(j, k) => j = k
  /\ \A i, k \in DOMAIN queue : Same(queue[i], queue[k]) => i = k
  /\ \A v, w \in Workers : Holds(v) /\ Holds(w) /\ Same(worker[v].job, worker[w].job) => v = w
  /\ \A j \in pending : \A i \in DOMAIN queue : ~Same(j, queue[i])
  /\ \A j \in pending : \A w \in Workers : Holds(w) => ~Same(j, worker[w].job)
  /\ \A i \in DOMAIN queue : \A w \in Workers : Holds(w) => ~Same(queue[i], worker[w].job)

Tracked ==
  /\ \A j \in pending : j.event <= handed /\ Untried(posts, acked, j)
  /\ \A i \in DOMAIN queue : queue[i].event <= handed /\ Untried(posts, acked, queue[i])
  /\ \A w \in Workers : Holds(w) => worker[w].job.event <= handed /\ Told(posts, acked, ctxDone, worker[w])
  /\ \A j \in AnyJob : handed < j.event => Untried(posts, acked, j)

TrackInv == Apart /\ Tracked

\* Nothing changes but what is sent and acknowledged for the job k.
OnlyFor(k) ==
  \A j \in AnyJob : ~Same(j, k) =>
     posts'[<<j.hook, j.event>>] = posts[<<j.hook, j.event>>] /\ (Known(acked', j) <=> Known(acked, j))

\* Another job's attempts do not change what is known of j.
LEMMA OnlyForKeeps ==
    ASSUME NEW k, OnlyFor(k), NEW j \in AnyJob, ~Same(j, k)
    PROVE  /\ Untried(posts, acked, j) => Untried(posts', acked', j)
           /\ \A r : r.job = j /\ Told(posts, acked, ctxDone, r) => Told(posts', acked', ctxDone, r)
BY DEF OnlyFor, Untried, Told

\* A worker goes on with its job, or is done with it.
LEMMA TrackWorker ==
    ASSUME Typed, TrackInv, NEW w \in Workers, NEW r, Becomes(w, r), Holds(w),
           r.pc \in AtWork => r.job = worker[w].job /\ Told(posts', acked', ctxDone', r),
           UNCHANGED <<pending, queue, handed, ctxDone>>, OnlyFor(worker[w].job)
    PROVE  TrackInv'
<1> DEFINE k == worker[w].job
<1>1. k \in AnyJob /\ k.event <= handed
  BY DEF Typed, TrackInv, Tracked
<1>2. \A v \in Workers : Holds(v)' => Holds(v) /\ worker'[v].job = worker[v].job
  BY DEF Holds, Becomes
<1>3. Apart'
  BY <1>2 DEF TrackInv, Apart
<1>4. ASSUME NEW j \in pending PROVE j.event <= handed /\ Untried(posts', acked', j)
  <2>1. j \in AnyJob /\ ~Same(j, k) /\ j.event <= handed /\ Untried(posts, acked, j)
    BY DEF Typed, TrackInv, Apart, Tracked
  <2>2. QED
    BY <2>1, OnlyForKeeps
<1>5. ASSUME NEW i \in DOMAIN queue PROVE queue[i].event <= handed /\ Untried(posts', acked', queue[i])
  <2>1. queue[i] \in AnyJob /\ ~Same(queue[i], k) /\ queue[i].event <= handed /\ Untried(posts, acked, queue[i])
    BY DEF Typed, TrackInv, Apart, Tracked
  <2>2. QED
    BY <2>1, OnlyForKeeps
<1>6. ASSUME NEW v \in Workers, Holds(v)'
      PROVE  worker'[v].job.event <= handed /\ Told(posts', acked', ctxDone, worker'[v])
  <2>1. CASE v = w
    BY <1>1, <1>6, <2>1 DEF Becomes, Holds
  <2>2. CASE v # w
    <3>1. worker'[v] = worker[v] /\ Holds(v)
      BY <1>2, <1>6, <2>2 DEF Becomes
    <3>2. /\ worker[v].job \in AnyJob /\ ~Same(worker[v].job, k)
          /\ worker[v].job.event <= handed /\ Told(posts, acked, ctxDone, worker[v])
      BY <2>2, <3>1 DEF Typed, TrackInv, Apart, Tracked
    <3>3. QED
      BY <3>1, <3>2, OnlyForKeeps
  <2>3. QED
    BY <2>1, <2>2
<1>7. ASSUME NEW j \in AnyJob, handed < j.event PROVE Untried(posts', acked', j)
  <2>1. ~Same(j, k)
    BY <1>1, <1>7 DEF Same, Typed, AnyJob, Events
  <2>2. QED
    BY <1>7, <2>1, OnlyForKeeps DEF TrackInv, Tracked
<1>8. QED
  BY <1>3, <1>4, <1>5, <1>6, <1>7 DEF TrackInv, Tracked

\* Jobs that are not the same are posted under different keys.
LEMMA SameIs ==
    ASSUME NEW j \in AnyJob, NEW k \in AnyJob, ~Same(j, k)
    PROVE  <<j.hook, j.event>> # <<k.hook, k.event>>
BY DEF Same

\* An attempt sends nothing for other jobs.
LEMMA AttemptOnly ==
    ASSUME Typed, NEW w \in Workers, NEW k \in AnyJob, NEW n \in Nat, Attempt(w, k, n), acked' = acked
    PROVE  /\ OnlyFor(k)
           /\ posts'[<<k.hook, k.event>>] = posts[<<k.hook, k.event>>] + (IF ctxDone THEN 0 ELSE 1)
<1>1. posts' = IF ctxDone THEN posts ELSE [posts EXCEPT ![<<k.hook, k.event>>] = @ + 1]
  BY AttemptEffect
<1>2. \A j \in AnyJob : <<j.hook, j.event>> \in Hooks \X Events /\ posts[<<j.hook, j.event>>] \in Nat
  BY DEF Typed, AnyJob
<1>3. posts'[<<k.hook, k.event>>] = posts[<<k.hook, k.event>>] + (IF ctxDone THEN 0 ELSE 1)
  BY <1>1, <1>2 DEF Typed
<1>4. ASSUME NEW j \in AnyJob, ~Same(j, k)
      PROVE  posts'[<<j.hook, j.event>>] = posts[<<j.hook, j.event>>]
  BY <1>1, <1>2, <1>4, SameIs DEF Typed
<1>5. QED
  BY <1>3, <1>4 DEF OnlyFor

\* Every step keeps the jobs apart and what is known of them true.
LEMMA TrackStep ==
    ASSUME Typed, TrackInv, [Next]_vars
    PROVE  TrackInv'
<1>1. ASSUME NEW type \in Types, Dispatch(type)
      PROVE  TrackInv'
  <2>1. UNCHANGED <<queue, worker, posts, acked, ctxDone>> /\ handed' = handed + 1 /\ pending = {} /\ handed \in Nat
    BY <1>1 DEF Dispatch, Typed
  <2>2. \A j \in AnyJob : j.event \in Nat
    BY DEF AnyJob, Events
  <2>3. pending' \subseteq AnyJob
    BY <1>1, TypedStep DEF Typed, Next, LoopStep
  <2>4. \A j \in pending' : j.event = handed + 1
    BY <1>1 DEF Dispatch
  <2>5. \A j, k \in pending' : Same(j, k) => j = k
    BY <1>1 DEF Dispatch, Same
  <2>6. \A i \in DOMAIN queue : queue[i].event <= handed /\ queue[i] \in AnyJob
    BY DEF Typed, TrackInv, Tracked
  <2>7. \A w \in Workers : Holds(w) => worker[w].job.event <= handed /\ worker[w].job \in AnyJob
    BY DEF Typed, TrackInv, Tracked
  <2>8. \A j \in pending' : \A i \in DOMAIN queue : ~Same(j, queue[i])
    BY <2>1, <2>2, <2>4, <2>6 DEF Same
  <2>9. \A j \in pending' : \A w \in Workers : Holds(w) => ~Same(j, worker[w].job)
    BY <2>1, <2>2, <2>4, <2>7 DEF Same
  <2>10. Apart'
    BY <2>1, <2>5, <2>8, <2>9 DEF TrackInv, Apart, Holds
  <2>11. \A j \in pending' : j.event <= handed + 1 /\ Untried(posts, acked, j)
    BY <2>1, <2>2, <2>3, <2>4 DEF TrackInv, Tracked
  <2>12. Tracked'
    BY <2>1, <2>2, <2>6, <2>7, <2>11 DEF TrackInv, Tracked, Holds
  <2>13. QED
    BY <2>10, <2>12 DEF TrackInv
<1>2. CASE DispatchFails
  <2>1. UNCHANGED <<pending, queue, worker, posts, acked, ctxDone>> /\ handed' = handed + 1 /\ handed \in Nat
    BY <1>2 DEF DispatchFails, Typed
  <2>2. \A j \in AnyJob : j.event \in Nat
    BY DEF AnyJob, Events
  <2>3. /\ \A j \in pending : j \in AnyJob
        /\ \A i \in DOMAIN queue : queue[i] \in AnyJob
        /\ \A w \in Workers : Holds(w) => worker[w].job \in AnyJob
    BY DEF Typed
  <2>4. QED
    BY <2>1, <2>2, <2>3 DEF TrackInv, Apart, Tracked, Holds
<1>3. CASE Enqueue
  <2>1. UNCHANGED <<handed, worker, posts, acked, ctxDone>>
    BY <1>3 DEF Enqueue
  <2>2. PICK j \in pending : pending' = pending \ {j} /\ (queue' = queue \/ queue' = Append(queue, j))
    BY <1>3, EnqueueCases
  <2>3. queue \in Seq(AnyJob) /\ j \in AnyJob
    BY DEF Typed
  <2>4. /\ \A i \in DOMAIN queue' : (i \in DOMAIN queue /\ queue'[i] = queue[i]) \/ queue'[i] = j
        /\ \A i, k \in DOMAIN queue' : i # k => i \in DOMAIN queue \/ k \in DOMAIN queue
        /\ \A i \in DOMAIN queue : i \in DOMAIN queue' => queue'[i] = queue[i]
    BY <2>2, <2>3, Appended
  <2>5. \A i, k \in DOMAIN queue' : Same(queue'[i], queue'[k]) => i = k
    BY <2>4 DEF TrackInv, Apart, Same
  <2>6. Apart'
    BY <2>1, <2>2, <2>4, <2>5 DEF TrackInv, Apart, Holds
  <2>7. Tracked'
    BY <2>1, <2>2, <2>4 DEF TrackInv, Tracked, Holds
  <2>8. QED
    BY <2>6, <2>7 DEF TrackInv
<1>4. ASSUME NEW w \in Workers, Take(w)
      PROVE  TrackInv'
  <2> DEFINE j == Head(queue)
  <2>1. /\ ~Holds(w) /\ queue # << >> /\ queue' = Tail(queue) /\ Attempt(w, j, 1)
        /\ UNCHANGED <<handed, pending, acked, ctxDone>>
    BY <1>4 DEF Take, Holds, AtWork, loopVars
  <2>2. /\ queue \in Seq(AnyJob) /\ j = queue[1] /\ j \in AnyJob /\ 1 \in DOMAIN queue
        /\ \A i \in DOMAIN queue' : queue'[i] = queue[i + 1] /\ i + 1 \in DOMAIN queue /\ i \in Nat \ {0}
    BY <2>1, HeadTail DEF Typed
  <2> HIDE DEF j
  <2>3. /\ Becomes(w, Tried(j, 1)) /\ OnlyFor(j)
        /\ posts'[<<j.hook, j.event>>] = posts[<<j.hook, j.event>>] + (IF ctxDone THEN 0 ELSE 1)
    BY <2>1, <2>2, AttemptEffect, AttemptOnly
  <2>4. j.event <= handed /\ Untried(posts, acked, j)
    BY <2>2 DEF TrackInv, Tracked
  <2>5. \A i \in DOMAIN queue' : ~Same(queue'[i], j)
    <3>1. \A i \in DOMAIN queue' : Same(queue'[i], j) => i + 1 = 1
      BY <2>2 DEF TrackInv, Apart
    <3>2. QED
      BY <2>2, <3>1
  <2>6. \A v \in Workers : Holds(v)' /\ v # w => Holds(v) /\ worker'[v] = worker[v] /\ ~Same(worker[v].job, j)
    BY <2>2, <2>3 DEF TrackInv, Apart, Holds, Becomes, Same
  <2>7. worker'[w].job = j
    <3>1. Tried(j, 1).job = j
      BY TriedFields
    <3>2. QED
      BY <2>3, <3>1 DEF Becomes
  <2>8. \A k \in pending : ~Same(k, j)
    BY <2>2 DEF TrackInv, Apart
  <2>9. \A i, k \in DOMAIN queue' : Same(queue'[i], queue'[k]) => i = k
    <3>1. \A i, k \in DOMAIN queue' : Same(queue'[i], queue'[k]) => i + 1 = k + 1
      BY <2>2 DEF TrackInv, Apart
    <3>2. QED
      BY <2>2, <3>1
  <2>10. \A k \in pending : \A i \in DOMAIN queue' : ~Same(k, queue'[i])
    BY <2>2 DEF TrackInv, Apart
  <2>11. \A k \in pending : \A v \in Workers : Holds(v)' => ~Same(k, worker'[v].job)
    BY <2>6, <2>7, <2>8 DEF TrackInv, Apart
  <2>12. \A i \in DOMAIN queue' : \A v \in Workers : Holds(v)' => ~Same(queue'[i], worker'[v].job)
    BY <2>2, <2>5, <2>6, <2>7 DEF TrackInv, Apart
  <2>13. \A u, v \in Workers : Holds(u)' /\ Holds(v)' /\ Same(worker'[u].job, worker'[v].job) => u = v
    BY <2>6, <2>7 DEF TrackInv, Apart, Same
  <2>14. Apart'
    BY <2>1, <2>9, <2>10, <2>11, <2>12, <2>13 DEF TrackInv, Apart
  <2>15. Told(posts', acked', ctxDone, Tried(j, 1))
    <3>1. posts[<<j.hook, j.event>>] = 0 /\ ~Known(acked', j)
      BY <2>1, <2>4 DEF Untried
    <3>2. 1 \in 1 .. MaxAttempts
      BY DeliveryAssumption
    <3>3. /\ Tried(j, 1).pc = IF ctxDone THEN "refused" ELSE "posting"
          /\ Tried(j, 1).job = j /\ Tried(j, 1).attempt = 1
      BY DEF Tried, Waiting
    <3> DEFINE r == Tried(j, 1)
    <3> HIDE DEF r
    <3>4. r.pc = (IF ctxDone THEN "refused" ELSE "posting") /\ r.job = j /\ r.attempt = 1
      BY <3>3 DEF r
    <3>5. Told(posts', acked', ctxDone, r)
      BY <2>3, <3>1, <3>2, <3>4 DEF Told
    <3>6. QED
      BY <3>5 DEF r
  <2>16. \A v \in Workers : Holds(v)' => worker'[v].job.event <= handed /\ Told(posts', acked', ctxDone, worker'[v])
    <3>1. ASSUME NEW v \in Workers, Holds(v)', v # w
          PROVE  worker'[v].job.event <= handed /\ Told(posts', acked', ctxDone, worker'[v])
      <4>1. /\ worker'[v] = worker[v] /\ ~Same(worker[v].job, j) /\ worker[v].job \in AnyJob
            /\ worker[v].job.event <= handed /\ Told(posts, acked, ctxDone, worker[v])
        BY <2>6, <3>1 DEF TrackInv, Tracked, Typed
      <4>2. QED
        BY <2>3, <4>1, OnlyForKeeps
    <3>2. QED
      BY <2>3, <2>4, <2>7, <2>15, <3>1 DEF Becomes
  <2>17. \A k \in pending : k.event <= handed /\ Untried(posts', acked', k)
    <3>1. \A k \in pending : k \in AnyJob /\ k.event <= handed /\ Untried(posts, acked, k)
      BY DEF Typed, TrackInv, Tracked
    <3>2. QED
      BY <2>3, <2>8, <3>1, OnlyForKeeps
  <2>18. \A i \in DOMAIN queue' : queue'[i].event <= handed /\ Untried(posts', acked', queue'[i])
    <3>1. \A i \in DOMAIN queue' : /\ queue'[i] \in AnyJob /\ queue'[i].event <= handed
                                   /\ Untried(posts, acked, queue'[i])
      BY <2>2 DEF TrackInv, Tracked
    <3>2. QED
      BY <2>3, <2>5, <3>1, OnlyForKeeps
  <2>19. \A k \in AnyJob : handed < k.event => Untried(posts', acked', k)
    <3>1. \A k \in AnyJob : handed < k.event => ~Same(k, j)
      BY <2>2, <2>4 DEF Same, Typed, AnyJob, Events
    <3>2. QED
      BY <2>3, <3>1, OnlyForKeeps DEF TrackInv, Tracked
  <2>20. Tracked'
    BY <2>1, <2>16, <2>17, <2>18, <2>19 DEF Tracked
  <2>21. QED
    BY <2>14, <2>20 DEF TrackInv
<1>5. ASSUME NEW w \in Workers, Retry(w)
      PROVE  TrackInv'
  <2> DEFINE j == worker[w].job
             n == worker[w].attempt + 1
  <2>1. /\ Holds(w) /\ Attempt(w, j, n) /\ UNCHANGED <<handed, pending, queue, acked, ctxDone>>
        /\ j \in AnyJob /\ n \in Nat
    BY <1>5 DEF Retry, Holds, AtWork, loopVars, Typed, AnyWorker
  <2>2. /\ ~Known(acked, j) /\ n \in 1 .. MaxAttempts /\ posts[<<j.hook, j.event>>] + 1 = n
    <3>1. /\ Told(posts, acked, ctxDone, worker[w]) /\ worker[w].pc = "backoff" /\ worker[w].attempt \in Nat
      BY <1>5, <2>1 DEF Retry, TrackInv, Tracked, Typed, AnyWorker
    <3>2. QED
      BY <3>1, DeliveryAssumption DEF Told
  <2>3. /\ Becomes(w, Tried(j, n)) /\ OnlyFor(j)
        /\ posts'[<<j.hook, j.event>>] = posts[<<j.hook, j.event>>] + (IF ctxDone THEN 0 ELSE 1)
    BY <2>1, AttemptEffect, AttemptOnly
  <2>4. Tried(j, n).job = worker[w].job
    BY TriedFields
  <2> HIDE DEF j, n
  <2>5. Told(posts', acked', ctxDone', Tried(j, n))
    <3> DEFINE r == Tried(j, n)
    <3>1. r.pc = (IF ctxDone THEN "refused" ELSE "posting") /\ r.job = j /\ r.attempt = n
      BY DEF Tried, Waiting
    <3> HIDE DEF r
    <3>2. posts[<<j.hook, j.event>>] \in Nat
      BY <2>1 DEF Typed, AnyJob
    <3>3. Told(posts', acked', ctxDone', r)
      BY <2>1, <2>2, <2>3, <3>1, <3>2 DEF Told
    <3>4. QED
      BY <3>3 DEF r
  <2>6. OnlyFor(worker[w].job)
    BY <2>3 DEF j
  <2>7. QED
    BY <2>1, <2>3, <2>4, <2>5, <2>6, TrackWorker
<1>6. ASSUME NEW w \in Workers,
             Refused(w) \/ GiveUp(w) \/ Backoff(w) \/ Abandon(w) \/ RecordFails(w) \/ RecordStatus(w)
      PROVE  TrackInv'
  <2>1. Holds(w) /\ UNCHANGED <<handed, pending, queue, acked, posts, ctxDone>>
    BY <1>6 DEF Refused, GiveUp, Backoff, Abandon, RecordFails, RecordStatus, Holds, AtWork, loopVars
  <2>2. OnlyFor(worker[w].job)
    BY <2>1 DEF OnlyFor
  <2>3. /\ Told(posts, acked, ctxDone, worker[w]) /\ worker[w] \in AnyWorker
    BY <2>1 DEF TrackInv, Tracked, Typed
  <2> DEFINE Good(r) == r.pc \in AtWork => r.job = worker[w].job /\ Told(posts, acked, ctxDone, r)
  <2>4. ASSUME NEW r, Becomes(w, r), Good(r)
        PROVE  TrackInv'
    BY <2>1, <2>2, <2>4, TrackWorker
  <2>5. Good(Waiting)
    BY DEF Waiting, AtWork
  <2>6. Refused(w) => Good([worker[w] EXCEPT !.pc = "refused"])
    BY <2>3 DEF Refused, Told, AnyWorker
  <2>7. GiveUp(w) => Good([worker[w] EXCEPT !.pc = "record", !.at = clock + 1])
    BY <2>3 DEF GiveUp, Told, AnyWorker
  <2>8. Backoff(w) => Good([worker[w] EXCEPT !.pc = "backoff"])
    <3>1. ASSUME Backoff(w) PROVE worker[w].pc = "refused" /\ ~ctxDone /\ worker[w].attempt < MaxAttempts
      BY <3>1 DEF Backoff
    <3>2. QED
      BY <2>3, <3>1 DEF Told, AnyWorker
  <2> HIDE DEF Good
  <2>9. QED
    BY <1>6, <2>4, <2>5, <2>6, <2>7, <2>8, WorkerEffect
<1>7. ASSUME NEW w \in Workers, Acked(w)
      PROVE  TrackInv'
  <2> DEFINE r == [worker[w] EXCEPT !.pc = "record", !.ok = TRUE, !.at = clock + 1]
             x == [hook |-> worker[w].job.hook, event |-> worker[w].job.event, at |-> clock + 1]
  <2>1. Holds(w) /\ UNCHANGED <<handed, pending, queue, posts, ctxDone>> /\ acked' = acked \cup {x}
    BY <1>7 DEF Acked, Holds, AtWork, loopVars
  <2>2. OnlyFor(worker[w].job)
    BY <2>1 DEF OnlyFor, Known, Same
  <2>3. /\ r.pc = "record" /\ r.ok = TRUE /\ r.job = worker[w].job
    BY DEF Typed, AnyWorker
  <2>4. Becomes(w, r)
    BY <1>7, WorkerEffect
  <2> HIDE DEF r
  <2>5. Told(posts', acked', ctxDone', r)
    BY <2>3 DEF Told
  <2>6. QED
    BY <2>1, <2>2, <2>3, <2>4, <2>5, TrackWorker
<1>8. ASSUME NEW w \in Workers, WorkerEnds(w)
      PROVE  TrackInv'
  <2>1. Becomes(w, [worker[w] EXCEPT !.pc = "ended"]) /\ UNCHANGED <<handed, pending, queue, acked, posts, ctxDone>>
    BY <1>8, WorkerEffect DEF WorkerEnds, loopVars
  <2>2. [worker[w] EXCEPT !.pc = "ended"].pc = "ended"
    BY DEF Typed, AnyWorker
  <2>3. \A v \in Workers : Holds(v)' => Holds(v) /\ worker'[v] = worker[v]
    BY <2>1, <2>2 DEF Becomes, Holds, AtWork
  <2>4. QED
    BY <2>1, <2>3 DEF TrackInv, Apart, Tracked
<1>9. ASSUME UNCHANGED <<handed, pending, queue, worker, posts, acked>>, ctxDone' = ctxDone \/ ctxDone' = TRUE
      PROVE  TrackInv'
  BY <1>9 DEF TrackInv, Apart, Tracked, Told, Holds
<1>10. CASE ApiStep \/ CloseJobs \/ CancelRun \/ UNCHANGED vars
  <2>1. UNCHANGED <<handed, pending, queue, worker, posts, acked>> /\ (ctxDone' = ctxDone \/ ctxDone' = TRUE)
    <3>1. ApiStep => UNCHANGED <<loopVars, queue, worker, posts, acked>>
      BY DEF ApiStep, CreateWebhook, UpdateWebhook, DeleteWebhook
    <3>2. CASE CloseJobs \/ CancelRun
      BY <3>2 DEF CloseJobs, CancelRun
    <3>3. CASE ApiStep \/ UNCHANGED vars
      BY <3>1, <3>3 DEF vars, loopVars
    <3>4. QED
      BY <1>10, <3>2, <3>3
  <2>2. QED
    BY <1>9, <2>1
<1>11. QED
  <2>1. CASE LoopStep
    BY <1>1, <1>2, <1>3, <1>10, <2>1 DEF LoopStep
  <2>2. ASSUME NEW w \in Workers, WorkerStep(w)
        PROVE  TrackInv'
    BY <1>4, <1>5, <1>6, <1>7, <1>8, <2>2 DEF WorkerStep
  <2>3. QED
    BY <1>10, <2>1, <2>2 DEF Next

\* There is no job at first.
LEMMA TrackInit == Init => TrackInv
BY DEF Init, TrackInv, Apart, Tracked, Untried, Known, Waiting, Holds, AtWork, AnyJob

-----------------------------------------------------------------------------
(* What follows of the attempts and of the user's configuration. *)

\* The jobs stay apart, and what is known of them stays true.
LEMMA TrackAlways == Spec => [](Typed /\ TrackInv)
<1>1. Init => Typed /\ TrackInv
  BY TypedInit, TrackInit
<1>2. Typed /\ TrackInv /\ [Next]_vars => (Typed /\ TrackInv)'
  BY TypedStep, TrackStep
<1>3. QED
  BY <1>1, <1>2, PTL DEF Spec

\* Only an attempt sends.
LEMMA WhoPosts ==
    ASSUME Typed, Next
    PROVE  posts' = posts \/ \E w \in Workers : Take(w) \/ Retry(w)
<1>1. ApiStep => posts' = posts
  BY DEF ApiStep, CreateWebhook, UpdateWebhook, DeleteWebhook
<1>2. LoopStep \/ CancelRun => posts' = posts
  BY DEF LoopStep, Dispatch, DispatchFails, Enqueue, CloseJobs, CancelRun
<1>3. ASSUME NEW w \in Workers, WorkerStep(w)
      PROVE  posts' = posts \/ Take(w) \/ Retry(w)
  BY <1>3 DEF WorkerStep, WorkerEnds, Acked, Refused, GiveUp, Backoff, Abandon, RecordStatus, RecordFails
<1>4. QED
  BY <1>1, <1>2, <1>3 DEF Next

\* Of the steps that change a worker, only the record of an outcome writes to the table.
LEMMA WhoWrites ==
    ASSUME Typed, Next
    PROVE  hooks' = hooks \/ (ApiStep /\ worker' = worker) \/ \E w \in Workers : RecordStatus(w)
<1>1. ApiStep => worker' = worker
  BY DEF ApiStep, CreateWebhook, UpdateWebhook, DeleteWebhook
<1>2. LoopStep \/ CancelRun => hooks' = hooks
  BY DEF LoopStep, Dispatch, DispatchFails, Enqueue, CloseJobs, CancelRun
<1>3. ASSUME NEW w \in Workers, WorkerStep(w)
      PROVE  hooks' = hooks \/ RecordStatus(w)
  BY <1>3 DEF WorkerStep, Take, WorkerEnds, Acked, Refused, GiveUp, Backoff, Retry, Abandon, RecordFails
<1>4. QED
  BY <1>1, <1>2, <1>3 DEF Next

\* What an attempt sends, it may.
LEMMA SentIsTold ==
    ASSUME Typed, TrackInv, Next, NEW h \in Hooks, NEW e \in Events, posts'[<<h, e>>] # posts[<<h, e>>]
    PROVE  posts[<<h, e>>] < MaxAttempts /\ ~Acknowledged(h, e)
<1>1. PICK w \in Workers : Take(w) \/ Retry(w)
  BY WhoPosts
<1> DEFINE j == IF Take(w) THEN Head(queue) ELSE worker[w].job
           n == IF Take(w) THEN 1 ELSE worker[w].attempt + 1
<1>2. /\ j \in AnyJob /\ n \in Nat /\ Attempt(w, j, n) /\ acked' = acked
      /\ posts[<<j.hook, j.event>>] < MaxAttempts /\ ~Known(acked, j)
  <2>1. CASE Take(w)
    <3>1. /\ queue \in Seq(AnyJob) /\ queue # << >> /\ Attempt(w, Head(queue), 1) /\ acked' = acked
      BY <2>1 DEF Take, Typed
    <3>2. Head(queue) = queue[1] /\ 1 \in DOMAIN queue /\ Head(queue) \in AnyJob
      BY <3>1, HeadTail
    <3>3. Untried(posts, acked, Head(queue))
      BY <3>2 DEF TrackInv, Tracked
    <3>4. QED
      BY <2>1, <3>1, <3>2, <3>3, DeliveryAssumption DEF Untried
  <2>2. CASE ~Take(w)
    <3>1. /\ Retry(w) /\ Holds(w) /\ worker[w].pc = "backoff"
          /\ Attempt(w, worker[w].job, worker[w].attempt + 1) /\ acked' = acked
      BY <1>1, <2>2 DEF Retry, Holds, AtWork
    <3>2. worker[w].job \in AnyJob /\ worker[w].attempt \in Nat /\ Told(posts, acked, ctxDone, worker[w])
      BY <3>1 DEF Typed, AnyWorker, TrackInv, Tracked
    <3>3. posts[<<worker[w].job.hook, worker[w].job.event>>] < MaxAttempts /\ ~Known(acked, worker[w].job)
      BY <3>1, <3>2 DEF Told
    <3>4. QED
      BY <2>2, <3>1, <3>2, <3>3
  <2>3. QED
    BY <2>1, <2>2
<1> HIDE DEF j, n
<1>3. OnlyFor(j)
  BY <1>2, AttemptOnly
<1> DEFINE k == [hook |-> h, event |-> e, successAt |-> 0]
<1>4. k \in AnyJob /\ k.hook = h /\ k.event = e
  BY DEF AnyJob
<1>5. Same(k, j)
  BY <1>3, <1>4 DEF OnlyFor
<1>6. j.hook = h /\ j.event = e
  BY <1>4, <1>5 DEF Same
<1>7. QED
  BY <1>2, <1>6 DEF Known, Acknowledged

\* A failure that is recorded happened.
LEMMA FailureIsTold ==
    ASSUME Typed, TrackInv, Next, NEW h \in DOMAIN hooks, h \in DOMAIN hooks',
           hooks'[h].attemptAt # hooks[h].attemptAt, hooks'[h].outcome = "failed"
    PROVE  \E e \in Events : posts[<<h, e>>] = MaxAttempts /\ ~Acknowledged(h, e)
<1>1. ApiStep => hooks'[h].attemptAt = hooks[h].attemptAt
  <2>1. ASSUME NEW g \in Hooks, NEW enabled \in BOOLEAN, NEW types \in Subscriptions,
               CreateWebhook(g, enabled, types)
        PROVE  hooks'[h] = hooks[h]
    BY <2>1 DEF CreateWebhook, Typed
  <2>2. ASSUME NEW g \in Hooks, NEW enabled \in BOOLEAN, NEW types \in Subscriptions,
               UpdateWebhook(g, enabled, types)
        PROVE  hooks'[h].attemptAt = hooks[h].attemptAt
    <3>1. /\ hooks[h] \in AnyRow
          /\ hooks'[h] = IF h = g THEN [hooks[h] EXCEPT !.enabled = enabled, !.types = types] ELSE hooks[h]
      BY <2>2 DEF UpdateWebhook, Typed
    <3>2. QED
      BY <3>1 DEF AnyRow
  <2>3. ASSUME NEW g \in Hooks, DeleteWebhook(g)
        PROVE  hooks'[h] = hooks[h]
    BY <2>3 DEF DeleteWebhook
  <2>4. QED
    BY <2>1, <2>2, <2>3 DEF ApiStep
<1>2. PICK w \in Workers : RecordStatus(w)
  BY <1>1, WhoWrites
<1> DEFINE r == worker[w]
<1>3. r \in AnyWorker /\ r.pc = "record" /\ r.job \in AnyJob /\ Told(posts, acked, ctxDone, r)
  BY <1>2 DEF RecordStatus, Typed, TrackInv, Tracked, Holds, AtWork
<1>4. hooks'[h] = IF h = r.job.hook THEN Status(hooks[h], r) ELSE hooks[h]
  BY <1>2 DEF RecordStatus
<1>5. h = r.job.hook /\ hooks'[h] = Status(hooks[h], r)
  BY <1>4
<1>6. hooks[h] \in AnyRow
  BY DEF Typed
<1> HIDE DEF r
<1>7. ~r.ok
  BY <1>5, <1>6 DEF Status, AnyRow
<1>8. posts[<<r.job.hook, r.job.event>>] = MaxAttempts /\ ~Known(acked, r.job) /\ r.job.event \in Events
  BY <1>3, <1>7 DEF Told, AnyJob
<1>9. QED
  BY <1>5, <1>8 DEF Known, Acknowledged

\* A webhook is sent an event at most MaxAttempts times and never after it was acknowledged, and a failure is
\* recorded only when every attempt was sent and none acknowledged (deliverWithRetry), for any number of
\* workers and attempts, whatever is created, edited or deleted meanwhile.
THEOREM AttemptsAreCounted == Spec => AttemptsAreTold
<1> DEFINE Step == /\ \A h \in Hooks, e \in Events :
                        posts'[<<h, e>>] # posts[<<h, e>>] => posts[<<h, e>>] < MaxAttempts /\ ~Acknowledged(h, e)
                   /\ \A h \in DOMAIN hooks \cap DOMAIN hooks' :
                        hooks'[h].attemptAt # hooks[h].attemptAt /\ hooks'[h].outcome = "failed" =>
                          \E e \in Events : posts[<<h, e>>] = MaxAttempts /\ ~Acknowledged(h, e)
<1>1. ASSUME Typed, TrackInv, [Next]_vars
      PROVE  [Step]_vars
  <2>1. CASE UNCHANGED vars
    BY <2>1
  <2>2. CASE Next
    BY <1>1, <2>2, SentIsTold, FailureIsTold
  <2>3. QED
    BY <1>1, <2>1, <2>2
<1>2. QED
  BY <1>1, TrackAlways, PTL DEF Spec, AttemptsAreTold

\* The outcome of a delivery, whenever it comes, leaves the webhook as the user made it (recordStatus writes
\* the status columns only).
THEOREM OutcomesKeepTheConfig == Spec => DeliveryKeepsConfig
<1> DEFINE Step == (\E w \in Workers : worker'[w] # worker[w]) =>
                     /\ DOMAIN hooks' = DOMAIN hooks
                     /\ \A h \in DOMAIN hooks : /\ hooks'[h].enabled = hooks[h].enabled
                                                /\ hooks'[h].types = hooks[h].types
<1>1. ASSUME Typed, [Next]_vars
      PROVE  [Step]_vars
  <2>1. CASE hooks' = hooks \/ worker' = worker
    BY <2>1
  <2>2. ASSUME NEW w \in Workers, RecordStatus(w)
        PROVE  Step
    <3>1. /\ DOMAIN hooks' = DOMAIN hooks
          /\ \A h \in DOMAIN hooks :
               hooks'[h] = IF h = worker[w].job.hook THEN Status(hooks[h], worker[w]) ELSE hooks[h]
      BY <2>2 DEF RecordStatus
    <3>2. \A row \in AnyRow : /\ Status(row, worker[w]).enabled = row.enabled
                              /\ Status(row, worker[w]).types = row.types
      BY DEF Status, AnyRow
    <3>3. \A h \in DOMAIN hooks : /\ hooks'[h].enabled = hooks[h].enabled
                                 /\ hooks'[h].types = hooks[h].types
      BY <1>1, <3>1, <3>2 DEF Typed
    <3>4. QED
      BY <3>1, <3>3
  <2>3. CASE UNCHANGED vars
    BY <2>1, <2>3 DEF vars
  <2>4. QED
    BY <1>1, <2>1, <2>2, <2>3, WhoWrites
<1>2. Spec => []Typed
  BY TrackAlways, PTL
<1>3. QED
  BY <1>1, <1>2, PTL DEF Spec, DeliveryKeepsConfig

-----------------------------------------------------------------------------
(***************************************************************************)
(* The bounds of the types.  Attempts are counted by what the workers know *)
(* of their jobs.  An outcome takes its job out of the deliveries that are *)
(* under way, and an event puts in at most one for each webhook, so there  *)
(* are never more outcomes than webhooks times events.                     *)
(***************************************************************************)
Sized ==
  /\ handed <= MaxEvents /\ Len(queue) <= QueueSize
  /\ closed \in BOOLEAN /\ ctxDone \in BOOLEAN
  /\ \A k \in Hooks \X Events : posts[k] <= MaxAttempts
  /\ \A w \in Workers : worker[w].attempt <= MaxAttempts

\* No step but an event handed over changes how many were, and none passes the bound.
LEMMA HandedStep ==
    ASSUME Typed, [Next]_vars
    PROVE  handed' = handed \/ (handed' = handed + 1 /\ handed < MaxEvents)
<1>1. ApiStep \/ CancelRun \/ UNCHANGED vars => handed' = handed
  BY DEF ApiStep, CreateWebhook, UpdateWebhook, DeleteWebhook, CancelRun, loopVars, vars
<1>2. LoopStep => handed' = handed \/ (handed' = handed + 1 /\ handed < MaxEvents)
  BY DEF LoopStep, Dispatch, DispatchFails, Enqueue, CloseJobs
<1>3. ASSUME NEW w \in Workers, WorkerStep(w)
      PROVE  handed' = handed
  BY <1>3 DEF WorkerStep, Take, WorkerEnds, Acked, Refused, GiveUp, Backoff, Retry, Abandon,
              RecordStatus, RecordFails, loopVars
<1>4. QED
  BY <1>1, <1>2, <1>3 DEF Next

\* The queue is never longer than it may be.
LEMMA QueueStep ==
    ASSUME Typed, Len(queue) <= QueueSize, [Next]_vars
    PROVE  Len(queue') <= QueueSize
<1>1. ApiStep \/ CancelRun \/ UNCHANGED vars => queue' = queue
  BY DEF ApiStep, CreateWebhook, UpdateWebhook, DeleteWebhook, CancelRun, vars
<1>2. (\E type \in Types : Dispatch(type)) \/ DispatchFails \/ CloseJobs => queue' = queue
  BY DEF Dispatch, DispatchFails, CloseJobs
<1>3. CASE Enqueue
  <2> DEFINE j == CHOOSE j \in pending : \A k \in pending : j.hook <= k.hook
  <2>1. queue' = IF Len(queue) < QueueSize THEN Append(queue, j) ELSE queue
    BY <1>3 DEF Enqueue
  <2>2. j \in AnyJob /\ queue \in Seq(AnyJob)
    BY <1>3, NextJob DEF Enqueue, Typed
  <2> HIDE DEF j
  <2>3. Len(Append(queue, j)) = Len(queue) + 1 /\ Len(queue) \in Nat
    BY <2>2
  <2>4. QED
    BY <2>1, <2>3, DeliveryAssumption
<1>4. ASSUME NEW w \in Workers, Take(w)
      PROVE  Len(queue') <= QueueSize
  <2>1. queue' = Tail(queue) /\ queue # << >> /\ queue \in Seq(AnyJob)
    BY <1>4 DEF Take, Typed
  <2>2. Len(Tail(queue)) = Len(queue) - 1 /\ Len(queue) \in Nat
    BY <2>1
  <2>3. QED
    BY <2>1, <2>2, DeliveryAssumption
<1>5. ASSUME NEW w \in Workers, WorkerStep(w), ~Take(w)
      PROVE  queue' = queue
  BY <1>5 DEF WorkerStep, WorkerEnds, Acked, Refused, GiveUp, Backoff, Retry, Abandon, RecordStatus, RecordFails
<1>6. QED
  BY <1>1, <1>2, <1>3, <1>4, <1>5 DEF Next, LoopStep

\* No worker counts more attempts than the options allow: a retry follows a backoff, which leaves one.
LEMMA AttemptStep ==
    ASSUME Typed, TrackInv, \A w \in Workers : worker[w].attempt <= MaxAttempts, [Next]_vars
    PROVE  \A w \in Workers : worker'[w].attempt <= MaxAttempts
<1>1. ApiStep \/ LoopStep \/ CancelRun \/ UNCHANGED vars => worker' = worker
  BY DEF ApiStep, CreateWebhook, UpdateWebhook, DeleteWebhook, CancelRun, vars,
         LoopStep, Dispatch, DispatchFails, Enqueue, CloseJobs
<1>2. ASSUME NEW w \in Workers, NEW r, Becomes(w, r), r.attempt <= MaxAttempts
      PROVE  \A v \in Workers : worker'[v].attempt <= MaxAttempts
  BY <1>2 DEF Becomes
<1>3. ASSUME NEW w \in Workers, Take(w)
      PROVE  \A v \in Workers : worker'[v].attempt <= MaxAttempts
  <2>1. Head(queue) \in AnyJob /\ Attempt(w, Head(queue), 1)
    BY <1>3, HeadTail DEF Take, Typed
  <2>2. Becomes(w, Tried(Head(queue), 1))
    BY <2>1, AttemptEffect
  <2>3. Tried(Head(queue), 1).attempt = 1
    BY DEF Tried, Waiting
  <2>4. QED
    BY <1>2, <2>2, <2>3, DeliveryAssumption
<1>4. ASSUME NEW w \in Workers, Retry(w)
      PROVE  \A v \in Workers : worker'[v].attempt <= MaxAttempts
  <2> DEFINE j == worker[w].job
             n == worker[w].attempt + 1
  <2>1. /\ j \in AnyJob /\ n \in Nat /\ worker[w].pc = "backoff" /\ Told(posts, acked, ctxDone, worker[w])
        /\ worker[w].attempt \in Nat /\ Attempt(w, j, n)
    BY <1>4 DEF Retry, Typed, Holds, AtWork, AnyWorker, TrackInv, Tracked
  <2>2. n <= MaxAttempts
    BY <2>1, DeliveryAssumption DEF Told
  <2> HIDE DEF j, n
  <2>3. Becomes(w, Tried(j, n))
    BY <2>1, AttemptEffect
  <2>4. Tried(j, n).attempt = n
    BY TriedFields
  <2>5. QED
    BY <1>2, <2>2, <2>3, <2>4
<1>5. ASSUME NEW w \in Workers, WorkerStep(w), ~Take(w), ~Retry(w)
      PROVE  \A v \in Workers : worker'[v].attempt <= MaxAttempts
  <2> DEFINE Good(r) == r.attempt <= MaxAttempts
  <2>1. worker[w] \in AnyWorker /\ worker[w].attempt <= MaxAttempts
    BY DEF Typed
  <2>2. /\ Good([worker[w] EXCEPT !.pc = "ended"]) /\ Good(Waiting)
        /\ Good([worker[w] EXCEPT !.pc = "refused"]) /\ Good([worker[w] EXCEPT !.pc = "backoff"])
        /\ Good([worker[w] EXCEPT !.pc = "record", !.at = clock + 1])
        /\ Good([worker[w] EXCEPT !.pc = "record", !.ok = TRUE, !.at = clock + 1])
    BY <2>1, DeliveryAssumption DEF AnyWorker, Waiting
  <2>3. ASSUME NEW r, Becomes(w, r), Good(r)
        PROVE  \A v \in Workers : worker'[v].attempt <= MaxAttempts
    BY <1>2, <2>3
  <2> HIDE DEF Good
  <2>4. QED
    BY <1>5, <2>2, <2>3, WorkerEffect DEF WorkerStep
<1>6. QED
  BY <1>1, <1>3, <1>4, <1>5 DEF Next

\* Every step keeps the sizes.
LEMMA SizedStep ==
    ASSUME Typed, TrackInv, Sized, [Next]_vars
    PROVE  Sized'
<1>1. handed' <= MaxEvents
  BY HandedStep, DeliveryAssumption DEF Sized, Typed
<1>2. Len(queue') <= QueueSize
  BY QueueStep DEF Sized
<1>3. closed' \in BOOLEAN /\ ctxDone' \in BOOLEAN
  <2>1. ApiStep \/ LoopStep \/ CancelRun \/ UNCHANGED vars => closed' \in BOOLEAN /\ ctxDone' \in BOOLEAN
    BY DEF ApiStep, CreateWebhook, UpdateWebhook, DeleteWebhook, CancelRun, vars, loopVars,
           LoopStep, Dispatch, DispatchFails, Enqueue, CloseJobs, Sized
  <2>2. ASSUME NEW w \in Workers, WorkerStep(w)
        PROVE  UNCHANGED loopVars
    BY <2>2 DEF WorkerStep, Take, WorkerEnds, Acked, Refused, GiveUp, Backoff, Retry, Abandon,
                RecordStatus, RecordFails
  <2>3. QED
    BY <2>1, <2>2 DEF Next, loopVars, Sized
<1>4. \A w \in Workers : worker'[w].attempt <= MaxAttempts
  BY AttemptStep DEF Sized
<1>5. ASSUME NEW h \in Hooks, NEW e \in Events
      PROVE  posts'[<<h, e>>] <= MaxAttempts
  <2>1. CASE posts'[<<h, e>>] = posts[<<h, e>>]
    BY <2>1 DEF Sized
  <2>2. CASE posts'[<<h, e>>] # posts[<<h, e>>]
    <3>1. Next
      BY <2>2 DEF vars
    <3>2. posts[<<h, e>>] < MaxAttempts /\ posts[<<h, e>>] \in Nat
      BY <2>2, <3>1, SentIsTold DEF Typed
    <3>3. posts'[<<h, e>>] <= posts[<<h, e>>] + 1
      <4>1. ASSUME NEW w \in Workers, NEW j \in AnyJob, NEW n \in Nat, Attempt(w, j, n)
            PROVE  posts'[<<h, e>>] <= posts[<<h, e>>] + 1
        <5>1. posts' = IF ctxDone THEN posts ELSE [posts EXCEPT ![<<j.hook, j.event>>] = @ + 1]
          BY <4>1, AttemptEffect
        <5>2. posts'[<<h, e>>] = posts[<<h, e>>] \/ posts'[<<h, e>>] = posts[<<h, e>>] + 1
          BY <5>1 DEF Typed
        <5>3. QED
          BY <3>2, <5>2
      <4>2. PICK w \in Workers : Take(w) \/ Retry(w)
        BY <2>2, <3>1, WhoPosts
      <4>3. CASE Take(w)
        <5>1. Head(queue) \in AnyJob /\ Attempt(w, Head(queue), 1)
          BY <4>3, HeadTail DEF Take, Typed
        <5>2. QED
          BY <4>1, <5>1
      <4>4. CASE Retry(w)
        <5>1. worker[w].job \in AnyJob /\ worker[w].attempt + 1 \in Nat
          BY <4>4 DEF Retry, Typed, Holds, AtWork, AnyWorker
        <5>2. QED
          BY <4>1, <4>4, <5>1 DEF Retry
      <4>5. QED
        BY <4>2, <4>3, <4>4
    <3>4. posts'[<<h, e>>] \in Nat
      BY TypedStep DEF Typed
    <3>5. QED
      BY <3>2, <3>3, <3>4, DeliveryAssumption
  <2>3. QED
    BY <2>1, <2>2
<1>6. QED
  BY <1>1, <1>2, <1>3, <1>4, <1>5 DEF Sized

-----------------------------------------------------------------------------
(* No time lies ahead of the clock. *)
Past ==
  /\ \A h \in DOMAIN hooks : hooks[h].attemptAt <= clock /\ hooks[h].successAt <= clock
  /\ \A j \in pending : j.successAt <= clock
  /\ \A i \in DOMAIN queue : queue[i].successAt <= clock
  /\ \A w \in Workers : worker[w].at <= clock /\ worker[w].job.successAt <= clock
  /\ acked \subseteq [hook : Hooks, event : Events, at : 0 .. clock]

\* A step of one worker that takes no time from ahead of the clock.
LEMMA PastWorker ==
    ASSUME Typed, Past, NEW w \in Workers, NEW r, Becomes(w, r), r.at <= clock', r.job.successAt <= clock',
           clock' = clock \/ clock' = clock + 1, pending' = pending,
           \A i \in DOMAIN queue' : queue'[i] \in AnyJob /\ queue'[i].successAt <= clock,
           \A h \in DOMAIN hooks' : hooks'[h].attemptAt <= clock' /\ hooks'[h].successAt <= clock',
           acked' \subseteq [hook : Hooks, event : Events, at : 0 .. clock']
    PROVE  Past'
<1>1. clock \in Nat /\ clock' \in Nat /\ clock <= clock'
  BY DEF Typed
<1>2. ASSUME NEW v \in Workers
      PROVE  worker'[v].at <= clock' /\ worker'[v].job.successAt <= clock'
  <2>1. CASE v = w
    BY <2>1 DEF Becomes
  <2>2. CASE v # w
    <3>1. worker'[v] = worker[v] /\ worker[v].at \in Nat /\ worker[v].job.successAt \in Nat
      BY <2>2 DEF Becomes, Typed, AnyWorker, AnyJob, NoJob
    <3>2. worker[v].at <= clock /\ worker[v].job.successAt <= clock
      BY DEF Past
    <3>3. QED
      BY <1>1, <3>1, <3>2
  <2>3. QED
    BY <2>1, <2>2
<1>3. \A j \in pending' : j.successAt <= clock'
  <2>1. \A j \in pending : j.successAt \in Nat /\ j.successAt <= clock
    BY DEF Typed, AnyJob, Past
  <2>2. QED
    BY <1>1, <2>1
<1>4. \A i \in DOMAIN queue' : queue'[i].successAt <= clock'
  BY <1>1 DEF AnyJob
<1>5. QED
  BY <1>2, <1>3, <1>4 DEF Past

\* The acknowledged outcomes stay of their type as the clock goes on.
LEMMA AckedStays ==
    ASSUME Typed, Past
    PROVE  /\ acked \subseteq [hook : Hooks, event : Events, at : 0 .. clock + 1]
           /\ \A j \in AnyJob : [hook |-> j.hook, event |-> j.event, at |-> clock + 1] \in
                                  [hook : Hooks, event : Events, at : 0 .. clock + 1]
BY DEF Typed, Past, AnyJob

\* Every step keeps the times in the past.
LEMMA PastStep ==
    ASSUME Typed, Past, [Next]_vars
    PROVE  Past'
<1>1. ASSUME NEW h \in Hooks, NEW enabled \in BOOLEAN, NEW types \in Subscriptions,
             CreateWebhook(h, enabled, types) \/ UpdateWebhook(h, enabled, types)
      PROVE  Past'
  <2>1. UNCHANGED <<pending, queue, worker, clock, acked>> /\ clock \in Nat
    BY <1>1 DEF CreateWebhook, UpdateWebhook, loopVars, Typed
  <2>2. ASSUME NEW g \in DOMAIN hooks' PROVE hooks'[g].attemptAt <= clock /\ hooks'[g].successAt <= clock
    <3>1. CASE CreateWebhook(h, enabled, types)
      BY <2>1, <2>2, <3>1 DEF CreateWebhook, Past
    <3>2. CASE UpdateWebhook(h, enabled, types)
      <4>1. /\ g \in DOMAIN hooks /\ hooks[g] \in AnyRow
            /\ hooks'[g] = IF g = h THEN [hooks[g] EXCEPT !.enabled = enabled, !.types = types] ELSE hooks[g]
        BY <2>2, <3>2 DEF UpdateWebhook, Typed
      <4>2. hooks'[g].successAt = hooks[g].successAt /\ hooks'[g].attemptAt = hooks[g].attemptAt
        BY <4>1 DEF AnyRow
      <4>3. QED
        BY <4>1, <4>2 DEF Past
    <3>3. QED
      BY <1>1, <3>1, <3>2
  <2>3. QED
    BY <2>1, <2>2 DEF Past
<1>2. ASSUME NEW h \in Hooks, DeleteWebhook(h)
      PROVE  Past'
  BY <1>2 DEF DeleteWebhook, Past, loopVars
<1>3. ASSUME NEW type \in Types, Dispatch(type)
      PROVE  Past'
  <2>1. UNCHANGED <<hooks, queue, worker, clock, acked>>
    BY <1>3 DEF Dispatch
  <2>2. \A j \in pending' : \E h \in DOMAIN hooks : j.successAt = hooks[h].successAt
    BY <1>3 DEF Dispatch
  <2>3. \A j \in pending' : j.successAt <= clock
    BY <2>2 DEF Past
  <2>4. QED
    BY <2>1, <2>3 DEF Past
<1>4. CASE DispatchFails \/ CloseJobs \/ CancelRun
  BY <1>4 DEF DispatchFails, CloseJobs, CancelRun, Past
<1>5. CASE Enqueue
  <2>1. UNCHANGED <<hooks, worker, clock, acked>>
    BY <1>5 DEF Enqueue
  <2>2. PICK j \in pending : pending' = pending \ {j} /\ (queue' = queue \/ queue' = Append(queue, j))
    BY <1>5, EnqueueCases
  <2>3. j \in AnyJob /\ queue \in Seq(AnyJob)
    BY DEF Typed
  <2>4. \A i \in DOMAIN queue' : queue'[i].successAt <= clock
    BY <2>2, <2>3, Appended DEF Past
  <2>5. QED
    BY <2>1, <2>2, <2>4 DEF Past
<1>6. ASSUME NEW w \in Workers, WorkerStep(w)
      PROVE  Past'
  <2> DEFINE Good(r) == r.at <= clock' /\ r.job.successAt <= clock'
             Rest == /\ clock' = clock \/ clock' = clock + 1
                     /\ pending' = pending
                     /\ \A i \in DOMAIN queue' : queue'[i] \in AnyJob /\ queue'[i].successAt <= clock
                     /\ \A h \in DOMAIN hooks' : hooks'[h].attemptAt <= clock' /\ hooks'[h].successAt <= clock'
                     /\ acked' \subseteq [hook : Hooks, event : Events, at : 0 .. clock']
  <2>1. ASSUME NEW r, Becomes(w, r), Good(r), Rest
        PROVE  Past'
    BY <2>1, PastWorker
  <2>2. /\ clock \in Nat /\ clock <= clock + 1 /\ worker[w] \in AnyWorker
        /\ worker[w].at <= clock /\ worker[w].at \in Nat
        /\ worker[w].job.successAt <= clock /\ worker[w].job.successAt \in Nat
    BY DEF Typed, Past, AnyWorker, AnyJob, NoJob
  <2>3. \A i \in DOMAIN queue : queue[i] \in AnyJob /\ queue[i].successAt <= clock
    BY DEF Typed, Past
  <2>4. \A h \in DOMAIN hooks : /\ hooks[h].attemptAt \in Nat /\ hooks[h].attemptAt <= clock
                                /\ hooks[h].successAt \in Nat /\ hooks[h].successAt <= clock
    BY DEF Typed, AnyRow, Past
  <2>5. Good(Waiting)
    <3>1. Waiting.at = 0 /\ Waiting.job.successAt = 0
      BY DEF Waiting, NoJob
    <3>2. clock' \in Nat
      BY <1>6, TypedStep DEF Typed, Next
    <3>3. QED
      BY <3>1, <3>2
  <2>6. CASE Take(w)
    <3>1. Head(queue) \in AnyJob /\ Head(queue).successAt <= clock
      BY <2>3, <2>6, HeadTail DEF Take, Typed
    <3>2. \A i \in DOMAIN queue' : queue'[i] \in AnyJob /\ queue'[i].successAt <= clock
      BY <2>3, <2>6, HeadTail DEF Take, Typed
    <3>3. Attempt(w, Head(queue), 1) /\ UNCHANGED <<hooks, pending, clock, acked>>
      BY <2>6 DEF Take, loopVars
    <3>4. Becomes(w, Tried(Head(queue), 1))
      BY <3>1, <3>3, AttemptEffect
    <3>5. Good(Tried(Head(queue), 1))
      <4>1. Tried(Head(queue), 1).job = Head(queue) /\ Tried(Head(queue), 1).at = 0
        BY DEF Tried, Waiting
      <4>2. QED
        BY <2>2, <3>1, <3>3, <4>1
    <3>6. Rest
      BY <3>2, <3>3 DEF Past
    <3> HIDE DEF Good, Rest
    <3>7. QED
      BY <2>1, <3>4, <3>5, <3>6
  <2>7. CASE Retry(w)
    <3> DEFINE j == worker[w].job
               n == worker[w].attempt + 1
    <3>1. j \in AnyJob /\ n \in Nat
      BY <2>7 DEF Retry, Typed, Holds, AtWork, AnyWorker
    <3>2. j.successAt <= clock
      BY <2>2
    <3>3. Attempt(w, j, n) /\ UNCHANGED <<hooks, pending, queue, clock, acked>>
      BY <2>7 DEF Retry, loopVars
    <3> HIDE DEF j, n
    <3>4. Becomes(w, Tried(j, n))
      BY <3>1, <3>3, AttemptEffect
    <3>5. Good(Tried(j, n))
      <4>1. Tried(j, n).job = j /\ Tried(j, n).at = 0
        BY DEF Tried, Waiting
      <4>2. QED
        BY <2>2, <3>2, <3>3, <4>1
    <3>6. Rest
      BY <2>3, <3>3 DEF Past
    <3> HIDE DEF Good, Rest
    <3>7. QED
      BY <2>1, <3>4, <3>5, <3>6
  <2>8. CASE WorkerEnds(w) \/ Refused(w) \/ Backoff(w) \/ Abandon(w) \/ RecordFails(w)
    <3>1. UNCHANGED <<hooks, pending, queue, clock, acked>>
      BY <2>8 DEF WorkerEnds, Refused, Backoff, Abandon, RecordFails, loopVars
    <3>2. Rest
      BY <2>3, <3>1 DEF Past
    <3>3. /\ Good([worker[w] EXCEPT !.pc = "ended"])
          /\ Good([worker[w] EXCEPT !.pc = "refused"]) /\ Good([worker[w] EXCEPT !.pc = "backoff"])
      BY <2>2, <3>1 DEF AnyWorker
    <3> HIDE DEF Good, Rest
    <3>4. QED
      BY <2>1, <2>5, <2>8, <3>2, <3>3, WorkerEffect
  <2>9. CASE Acked(w) \/ GiveUp(w)
    <3>1. UNCHANGED <<hooks, pending, queue>> /\ clock' = clock + 1 /\ worker[w].job \in AnyJob
      BY <2>9 DEF Acked, GiveUp, loopVars, Typed, Holds, AtWork
    <3>2. acked' \subseteq [hook : Hooks, event : Events, at : 0 .. clock']
      <4>1. CASE Acked(w)
        BY <3>1, <4>1, AckedStays DEF Acked
      <4>2. CASE GiveUp(w)
        BY <3>1, <4>2, AckedStays DEF GiveUp
      <4>3. QED
        BY <2>9, <4>1, <4>2
    <3>3. \A h \in DOMAIN hooks : hooks[h].attemptAt <= clock + 1 /\ hooks[h].successAt <= clock + 1
      BY <2>2, <2>4
    <3>4. Rest
      BY <2>3, <3>1, <3>2, <3>3
    <3>5. /\ Good([worker[w] EXCEPT !.pc = "record", !.at = clock + 1])
          /\ Good([worker[w] EXCEPT !.pc = "record", !.ok = TRUE, !.at = clock + 1])
      BY <2>2, <3>1 DEF AnyWorker
    <3> HIDE DEF Good, Rest
    <3>6. QED
      BY <2>1, <2>9, <3>4, <3>5, WorkerEffect
  <2>10. CASE RecordStatus(w)
    <3> DEFINE r == worker[w]
    <3>1. UNCHANGED <<pending, queue, clock, acked>> /\ Becomes(w, Waiting)
      BY <2>10, WorkerEffect DEF RecordStatus, loopVars
    <3>2. /\ DOMAIN hooks' = DOMAIN hooks
          /\ \A h \in DOMAIN hooks : hooks'[h] = IF h = r.job.hook THEN Status(hooks[h], r) ELSE hooks[h]
      BY <2>10 DEF RecordStatus
    <3>3. ASSUME NEW row \in AnyRow
          PROVE  Status(row, r).attemptAt <= clock /\ Status(row, r).successAt <= clock
      <4>1. /\ Status(row, r).attemptAt = r.at
            /\ Status(row, r).successAt = IF r.ok THEN r.at ELSE r.job.successAt
        BY DEF Status, AnyRow
      <4>2. QED
        BY <2>2, <4>1
    <3> HIDE DEF r
    <3>4. \A h \in DOMAIN hooks' : hooks'[h].attemptAt <= clock /\ hooks'[h].successAt <= clock
      BY <2>4, <3>2, <3>3 DEF Typed
    <3>5. Rest
      BY <2>3, <3>1, <3>4 DEF Past
    <3> HIDE DEF Good, Rest
    <3>6. QED
      BY <2>1, <2>5, <3>1, <3>5
  <2>11. QED
    BY <1>6, <2>6, <2>7, <2>8, <2>9, <2>10 DEF WorkerStep
<1>7. CASE UNCHANGED vars
  BY <1>7 DEF vars, loopVars, Past
<1>8. QED
  <2>1. CASE ApiStep
    BY <1>1, <1>2, <2>1 DEF ApiStep
  <2>2. CASE LoopStep \/ CancelRun
    BY <1>3, <1>4, <1>5, <2>2 DEF LoopStep
  <2>3. QED
    BY <1>6, <1>7, <2>1, <2>2 DEF Next

-----------------------------------------------------------------------------
(* The deliveries under way, by webhook and event. *)
Open == {"posting", "refused", "backoff"}
Underway(h, e) ==
  \/ \E j \in pending : j.hook = h /\ j.event = e
  \/ \E i \in DOMAIN queue : queue[i].hook = h /\ queue[i].event = e
  \/ \E w \in Workers : worker[w].pc \in Open /\ worker[w].job.hook = h /\ worker[w].job.event = e
Deliveries == {k \in Hooks \X Events : Underway(k[1], k[2])}

\* The outcomes so far and those to come are no more than a webhook can have for each event.
Counted == clock + Cardinality(Deliveries) <= Cardinality(Hooks) * handed

\* A step of one worker that goes on with its job or is done with it starts no delivery.
LEMMA UnderwayWorker ==
    ASSUME Typed, NEW w \in Workers, NEW r, Becomes(w, r), UNCHANGED <<pending, queue>>,
           r.pc \in Open => worker[w].pc \in Open /\ r.job = worker[w].job
    PROVE  /\ Deliveries' \subseteq Deliveries
           /\ \A k \in Deliveries' : \/ \E j \in pending : j.hook = k[1] /\ j.event = k[2]
                                     \/ \E i \in DOMAIN queue : queue[i].hook = k[1] /\ queue[i].event = k[2]
                                     \/ \E v \in Workers : /\ v # w \/ r.pc \in Open
                                                           /\ worker[v].pc \in Open
                                                           /\ worker[v].job.hook = k[1] /\ worker[v].job.event = k[2]
<1>1. ASSUME NEW v \in Workers, worker'[v].pc \in Open
      PROVE  (v # w \/ r.pc \in Open) /\ worker[v].pc \in Open /\ worker'[v].job = worker[v].job
  BY <1>1 DEF Becomes
<1>2. ASSUME NEW h, NEW e, Underway(h, e)'
      PROVE  /\ Underway(h, e)
             /\ \/ \E j \in pending : j.hook = h /\ j.event = e
                \/ \E i \in DOMAIN queue : queue[i].hook = h /\ queue[i].event = e
                \/ \E v \in Workers : /\ v # w \/ r.pc \in Open
                                      /\ worker[v].pc \in Open /\ worker[v].job.hook = h /\ worker[v].job.event = e
  BY <1>1, <1>2 DEF Underway
<1>3. QED
  BY <1>2 DEF Deliveries

\* An outcome ends the delivery of the worker's job, which is nowhere else.
LEMMA DeliveryEnds ==
    ASSUME Typed, TrackInv, NEW w \in Workers, worker[w].pc \in Open, NEW r, Becomes(w, r), r.pc \notin Open,
           UNCHANGED <<pending, queue>>
    PROVE  \E k \in Deliveries : Deliveries' \subseteq Deliveries \ {k}
<1> DEFINE j == worker[w].job
           k == <<j.hook, j.event>>
<1>1. Holds(w) /\ j \in AnyJob
  BY DEF Holds, AtWork, Open, Typed
<1>2. k \in Deliveries
  <2>1. k \in Hooks \X Events /\ k[1] = j.hook /\ k[2] = j.event
    BY <1>1 DEF AnyJob
  <2>2. QED
    BY <2>1 DEF Deliveries, Underway
<1>3. k \notin Deliveries'
  <2>1. ~\E i \in pending : i.hook = j.hook /\ i.event = j.event
    BY <1>1 DEF TrackInv, Apart, Same
  <2>2. ~\E i \in DOMAIN queue : queue[i].hook = j.hook /\ queue[i].event = j.event
    BY <1>1 DEF TrackInv, Apart, Same
  <2>3. ASSUME NEW v \in Workers, v # w, worker[v].pc \in Open
        PROVE  ~(worker[v].job.hook = j.hook /\ worker[v].job.event = j.event)
    BY <1>1, <2>3 DEF TrackInv, Apart, Same, Holds, AtWork, Open
  <2>4. k[1] = j.hook /\ k[2] = j.event
    OBVIOUS
  <2> HIDE DEF j, k
  <2>5. QED
    BY <2>1, <2>2, <2>3, <2>4, UnderwayWorker
<1>4. Deliveries' \subseteq Deliveries
  BY UnderwayWorker
<1>5. QED
  BY <1>2, <1>3, <1>4

\* What a step does to the deliveries under way: none starts; or one ends, with an outcome; or an event
\* starts at most one for each webhook.
LEMMA DeliveriesStep ==
    ASSUME Typed, TrackInv, [Next]_vars
    PROVE  \/ Deliveries' \subseteq Deliveries /\ clock' = clock /\ (handed' = handed \/ handed' = handed + 1)
           \/ clock' = clock + 1 /\ handed' = handed /\ \E k \in Deliveries : Deliveries' \subseteq Deliveries \ {k}
           \/ /\ clock' = clock /\ handed' = handed + 1
              /\ Deliveries' \subseteq Deliveries \cup (Hooks \X {handed + 1})
<1> DEFINE Fewer == Deliveries' \subseteq Deliveries /\ clock' = clock /\ (handed' = handed \/ handed' = handed + 1)
           Ends  == clock' = clock + 1 /\ handed' = handed /\ \E k \in Deliveries : Deliveries' \subseteq Deliveries \ {k}
           Starts == /\ clock' = clock /\ handed' = handed + 1
                     /\ Deliveries' \subseteq Deliveries \cup (Hooks \X {handed + 1})
<1>1. ASSUME UNCHANGED <<pending, queue, worker, clock>>, handed' = handed \/ handed' = handed + 1
      PROVE  Fewer
  BY <1>1 DEF Deliveries, Underway
<1>2. ASSUME ApiStep \/ DispatchFails \/ CloseJobs \/ CancelRun \/ UNCHANGED vars PROVE Fewer
  BY <1>1, <1>2 DEF ApiStep, CreateWebhook, UpdateWebhook, DeleteWebhook, DispatchFails, CloseJobs, CancelRun,
                    vars, loopVars
<1>3. ASSUME NEW type \in Types, Dispatch(type) PROVE Starts
  <2>1. UNCHANGED <<queue, worker, clock>> /\ handed' = handed + 1 /\ \A j \in pending' : j.event = handed + 1
    BY <1>3 DEF Dispatch
  <2>2. ASSUME NEW h \in Hooks, NEW e \in Events, Underway(h, e)'
        PROVE  Underway(h, e) \/ e = handed + 1
    BY <2>1, <2>2 DEF Underway
  <2>3. QED
    BY <2>1, <2>2 DEF Deliveries
<1>4. ASSUME Enqueue PROVE Fewer
  <2>1. UNCHANGED <<handed, worker, clock>>
    BY <1>4 DEF Enqueue
  <2>2. PICK j \in pending : pending' = pending \ {j} /\ (queue' = queue \/ queue' = Append(queue, j))
    BY <1>4, EnqueueCases
  <2>3. j \in AnyJob /\ queue \in Seq(AnyJob)
    BY DEF Typed
  <2>4. \A i \in DOMAIN queue' : (i \in DOMAIN queue /\ queue'[i] = queue[i]) \/ queue'[i] = j
    BY <2>2, <2>3, Appended
  <2>5. ASSUME NEW h, NEW e, Underway(h, e)' PROVE Underway(h, e)
    BY <2>1, <2>2, <2>4, <2>5 DEF Underway
  <2>6. QED
    BY <2>1, <2>5 DEF Deliveries
<1>5. ASSUME NEW w \in Workers, Take(w) PROVE Fewer
  <2> DEFINE j == Head(queue)
  <2>1. /\ queue \in Seq(AnyJob) /\ queue # << >> /\ queue' = Tail(queue) /\ Attempt(w, j, 1)
        /\ UNCHANGED <<handed, pending, clock>>
    BY <1>5 DEF Take, Typed, loopVars
  <2>2. /\ j = queue[1] /\ j \in AnyJob /\ 1 \in DOMAIN queue
        /\ \A i \in DOMAIN queue' : queue'[i] = queue[i + 1] /\ i + 1 \in DOMAIN queue
    BY <2>1, HeadTail
  <2> HIDE DEF j
  <2>3. Becomes(w, Tried(j, 1)) /\ Tried(j, 1).job = j
    BY <2>1, <2>2, AttemptEffect, TriedFields
  <2>4. worker'[w].job = j /\ \A v \in Workers \ {w} : worker'[v] = worker[v]
    BY <2>3 DEF Becomes
  <2>5. ASSUME NEW h, NEW e, Underway(h, e)' PROVE Underway(h, e)
    BY <2>1, <2>2, <2>4, <2>5 DEF Underway
  <2>6. QED
    BY <2>1, <2>5 DEF Deliveries
<1>6. ASSUME NEW w \in Workers, Retry(w) PROVE Fewer
  <2> DEFINE j == worker[w].job
             n == worker[w].attempt + 1
  <2>1. j \in AnyJob /\ n \in Nat /\ Attempt(w, j, n) /\ worker[w].pc \in Open
    BY <1>6 DEF Retry, Typed, Holds, AtWork, AnyWorker, Open
  <2>2. UNCHANGED <<handed, pending, queue, clock>>
    BY <1>6 DEF Retry, loopVars
  <2>3. j = worker[w].job
    OBVIOUS
  <2> HIDE DEF j, n
  <2>4. Becomes(w, Tried(j, n)) /\ Tried(j, n).job = j
    BY <2>1, AttemptEffect, TriedFields
  <2>5. QED
    BY <2>1, <2>2, <2>3, <2>4, UnderwayWorker
<1>7. ASSUME NEW w \in Workers,
             WorkerEnds(w) \/ Refused(w) \/ Backoff(w) \/ Abandon(w) \/ RecordFails(w) \/ RecordStatus(w)
      PROVE  Fewer
  <2> DEFINE Good(r) == r.pc \in Open => worker[w].pc \in Open /\ r.job = worker[w].job
  <2>1. UNCHANGED <<handed, pending, queue, clock>>
    BY <1>7 DEF WorkerEnds, Refused, Backoff, Abandon, RecordFails, RecordStatus, loopVars
  <2>2. ASSUME NEW r, Becomes(w, r), Good(r) PROVE Fewer
    BY <2>1, <2>2, UnderwayWorker
  <2>3. worker[w] \in AnyWorker
    BY DEF Typed
  <2>4. /\ Good([worker[w] EXCEPT !.pc = "ended"]) /\ Good(Waiting)
        /\ worker[w].pc \in Open =>
             Good([worker[w] EXCEPT !.pc = "refused"]) /\ Good([worker[w] EXCEPT !.pc = "backoff"])
    BY <2>3 DEF AnyWorker, Waiting, Open
  <2>5. Refused(w) \/ Backoff(w) => worker[w].pc \in Open
    BY DEF Refused, Backoff, Open
  <2> HIDE DEF Good, Fewer
  <2>6. QED
    BY <1>7, <2>2, <2>4, <2>5, WorkerEffect
<1>8. ASSUME NEW w \in Workers, Acked(w) \/ GiveUp(w) PROVE Ends
  <2>1. UNCHANGED <<handed, pending, queue>> /\ clock' = clock + 1 /\ worker[w].pc \in Open
    BY <1>8 DEF Acked, GiveUp, loopVars, Open
  <2>2. ASSUME NEW r, Becomes(w, r), r.pc \notin Open PROVE Ends
    BY <2>1, <2>2, DeliveryEnds
  <2>3. worker[w] \in AnyWorker
    BY DEF Typed
  <2>4. /\ [worker[w] EXCEPT !.pc = "record", !.at = clock + 1].pc \notin Open
        /\ [worker[w] EXCEPT !.pc = "record", !.ok = TRUE, !.at = clock + 1].pc \notin Open
    BY <2>3 DEF AnyWorker, Open
  <2> HIDE DEF Ends
  <2>5. QED
    BY <1>8, <2>2, <2>4, WorkerEffect
<1> HIDE DEF Fewer, Ends, Starts
<1>9. Fewer \/ Ends \/ Starts
  BY <1>2, <1>3, <1>4, <1>5, <1>6, <1>7, <1>8 DEF Next, LoopStep, WorkerStep
<1>10. QED
  BY <1>9 DEF Fewer, Ends, Starts

\* Every step keeps the count.
LEMMA CountedStep ==
    ASSUME Typed, TrackInv, Counted, [Next]_vars
    PROVE  Counted'
<1> DEFINE C == Cardinality(Hooks)
           D == Cardinality(Deliveries)
           E == Cardinality(Deliveries')
<1>1. /\ IsFiniteSet(Hooks \X {handed + 1}) /\ Cardinality(Hooks \X {handed + 1}) = C
      /\ C \in Nat /\ IsFiniteSet(Hooks \X Events)
  <2>1. IsFiniteSet(Hooks) /\ IsFiniteSet({handed + 1}) /\ Cardinality({handed + 1}) = 1 /\ C \in Nat
    BY FS_Singleton, FS_CardinalityType, DeliveryAssumption
  <2>2. IsFiniteSet(Events)
    BY FS_Interval, DeliveryAssumption DEF Events
  <2>3. /\ IsFiniteSet(Hooks \X {handed + 1}) /\ Cardinality(Hooks \X {handed + 1}) = C * 1
        /\ IsFiniteSet(Hooks \X Events)
    BY <2>1, <2>2, FS_Product
  <2>4. QED
    BY <2>1, <2>3
<1>2. IsFiniteSet(Deliveries) /\ D \in Nat /\ IsFiniteSet(Deliveries') /\ E \in Nat
  <2>1. Deliveries \subseteq Hooks \X Events /\ Deliveries' \subseteq Hooks \X Events
    BY DEF Deliveries
  <2>2. IsFiniteSet(Deliveries) /\ IsFiniteSet(Deliveries')
    BY <1>1, <2>1, FS_Subset
  <2>3. QED
    BY <2>2, FS_CardinalityType
<1>3. clock \in Nat /\ handed \in Nat /\ clock + D <= C * handed
  BY DEF Typed, Counted
<1>4. C * handed \in Nat /\ C * (handed + 1) = C * handed + C
  BY <1>1, <1>3
<1>5. ASSUME Deliveries' \subseteq Deliveries, clock' = clock, handed' = handed \/ handed' = handed + 1
      PROVE  clock' + E <= C * handed'
  <2>1. E <= D
    BY <1>2, <1>5, FS_Subset
  <2>2. C * handed' = C * handed \/ C * handed' = C * handed + C
    BY <1>4, <1>5
  <2> HIDE DEF C, D, E
  <2>3. clock + E <= C * handed
    BY <1>2, <1>3, <1>4, <2>1
  <2>4. QED
    BY <1>1, <1>2, <1>3, <1>4, <1>5, <2>2, <2>3
<1>6. ASSUME clock' = clock + 1, handed' = handed, NEW k \in Deliveries, Deliveries' \subseteq Deliveries \ {k}
      PROVE  clock' + E <= C * handed'
  <2>1. IsFiniteSet(Deliveries \ {k}) /\ Cardinality(Deliveries \ {k}) = D - 1
    BY <1>2, FS_RemoveElement
  <2>2. E <= D - 1
    BY <1>6, <2>1, FS_Subset
  <2> HIDE DEF C, D, E
  <2>3. clock + 1 + E <= C * handed
    BY <1>2, <1>3, <1>4, <2>2
  <2>4. QED
    BY <1>6, <2>3
<1>7. ASSUME clock' = clock, handed' = handed + 1, Deliveries' \subseteq Deliveries \cup (Hooks \X {handed + 1})
      PROVE  clock' + E <= C * handed'
  <2> DEFINE New == Hooks \X {handed + 1}
  <2>1. /\ IsFiniteSet(Deliveries \cup New)
        /\ Cardinality(Deliveries \cup New) = D + Cardinality(New) - Cardinality(Deliveries \cap New)
    BY <1>1, <1>2, FS_Union
  <2>2. Cardinality(Deliveries \cap New) \in Nat
    BY <1>2, FS_Intersection, FS_CardinalityType
  <2>3. E <= Cardinality(Deliveries \cup New)
    BY <1>7, <2>1, FS_Subset
  <2>4. Cardinality(New) = C
    BY <1>1
  <2> HIDE DEF C, D, E, New
  <2>5. E <= D + C
    BY <1>1, <1>2, <2>1, <2>2, <2>3, <2>4
  <2>6. clock + E <= C * handed + C
    BY <1>1, <1>2, <1>3, <1>4, <2>5
  <2>7. QED
    BY <1>4, <1>7, <2>6
<1>8. clock' + E <= C * handed'
  BY <1>5, <1>6, <1>7, DeliveriesStep
<1>9. QED
  BY <1>8 DEF Counted

\* There is nothing to bound at first.
LEMMA BoundsInit == Init => Sized /\ Past /\ Counted
<1> SUFFICES ASSUME Init PROVE Sized /\ Past /\ Counted
  OBVIOUS
<1>1. Sized
  <2>1. \A k \in Hooks \X Events : posts[k] = 0
    BY DEF Init
  <2>2. \A w \in Workers : worker[w].attempt = 0
    BY DEF Init, Waiting
  <2>3. handed = 0 /\ Len(queue) = 0 /\ closed \in BOOLEAN /\ ctxDone \in BOOLEAN
    BY DEF Init
  <2>4. QED
    BY <2>1, <2>2, <2>3, DeliveryAssumption DEF Sized
<1>2. Past
  BY DEF Init, Past, Waiting, NoJob
<1>3. Counted
  <2>1. Deliveries = {}
    BY DEF Init, Deliveries, Underway, Open, Waiting
  <2>2. Cardinality(Hooks) * handed = 0
    BY FS_CardinalityType, DeliveryAssumption DEF Init
  <2>3. QED
    BY <2>1, <2>2, FS_EmptySet DEF Init, Counted
<1>4. QED
  BY <1>1, <1>2, <1>3

\* A job's times, its attempts, the queue and the outcomes stay within their bounds, for any webhooks, workers
\* and options: in particular no outcome is counted that no dispatched event accounts for.
THEOREM DeliveriesAreTyped == Spec => []TypeOK
<1>1. Init => Sized /\ Past /\ Counted
  BY BoundsInit
<1>2. Typed /\ TrackInv /\ Sized /\ Past /\ Counted /\ [Next]_vars => (Sized /\ Past /\ Counted)'
  BY SizedStep, PastStep, CountedStep
<1>3. ASSUME Typed, Sized, Past, Counted
      PROVE  TypeOK
  <2>1. clock \in Times /\ \A t \in Nat : t <= clock => t \in Times
    <3> DEFINE C == Cardinality(Hooks)
               D == Cardinality(Deliveries)
    <3>1. C \in Nat /\ IsFiniteSet(Hooks \X Events) /\ Cardinality(Hooks \X Events) = C * MaxEvents
      <4>1. IsFiniteSet(Hooks) /\ C \in Nat
        BY FS_CardinalityType, DeliveryAssumption
      <4>2. IsFiniteSet(Events) /\ Cardinality(Events) = MaxEvents
        BY FS_Interval, DeliveryAssumption DEF Events
      <4>3. QED
        BY <4>1, <4>2, FS_Product
    <3>2. C * handed <= C * MaxEvents
      <4>1. IsFiniteSet(1 .. handed) /\ Cardinality(1 .. handed) = handed
        BY <1>3, FS_Interval DEF Typed
      <4>2. Cardinality(Hooks \X (1 .. handed)) = C * handed
        BY <4>1, FS_Product, DeliveryAssumption
      <4>3. Hooks \X (1 .. handed) \subseteq Hooks \X Events
        BY <1>3, DeliveryAssumption DEF Events, Typed, Sized
      <4>4. QED
        BY <3>1, <4>2, <4>3, FS_Subset
    <3>3. D \in Nat
      <4>1. Deliveries \subseteq Hooks \X Events
        BY DEF Deliveries
      <4>2. QED
        BY <3>1, <4>1, FS_Subset, FS_CardinalityType
    <3>4. clock \in Nat /\ clock + D <= C * handed /\ C * handed \in Nat /\ C * MaxEvents \in Nat
      BY <1>3, <3>1, DeliveryAssumption DEF Typed, Counted
    <3>5. Times = 0 .. C * MaxEvents
      BY DEF Times
    <3> HIDE DEF C, D
    <3>6. clock <= C * MaxEvents
      BY <3>2, <3>3, <3>4
    <3>7. QED
      BY <3>4, <3>5, <3>6
  <2>2. \A h \in DOMAIN hooks : hooks[h] \in Row
    BY <1>3, <2>1 DEF Typed, Past, AnyRow, Row
  <2>3. \A j \in AnyJob : j.successAt <= clock => j \in Job
    BY <2>1 DEF AnyJob, Job
  <2>4. pending \subseteq Job /\ \A i \in DOMAIN queue : queue[i] \in Job
    BY <1>3, <2>3 DEF Typed, Past
  <2>5. worker \in [Workers ->
          [pc : {"waiting", "posting", "refused", "backoff", "record", "ended"},
           job : Job \cup {NoJob}, attempt : 0 .. MaxAttempts, ok : BOOLEAN, at : Times]]
    <3>1. ASSUME NEW w \in Workers
          PROVE  worker[w] \in [pc : {"waiting", "posting", "refused", "backoff", "record", "ended"},
                                job : Job \cup {NoJob}, attempt : 0 .. MaxAttempts, ok : BOOLEAN, at : Times]
      <4>1. worker[w] \in AnyWorker /\ worker[w].job \in Job \cup {NoJob}
        BY <1>3, <2>3 DEF Typed, Past, AnyWorker
      <4>2. worker[w].attempt \in 0 .. MaxAttempts /\ worker[w].at \in Times
        BY <1>3, <2>1, <4>1, DeliveryAssumption DEF Past, Sized, AnyWorker
      <4>3. QED
        BY <4>1, <4>2 DEF AnyWorker, AtWork
    <3>2. QED
      BY <1>3, <3>1 DEF Typed
  <2>6. posts \in [Hooks \X Events -> 0 .. MaxAttempts]
    BY <1>3, DeliveryAssumption DEF Typed, Sized
  <2>7. acked \subseteq [hook : Hooks, event : Events, at : Times]
    BY <1>3, <2>1 DEF Typed, Past
  <2>8. QED
    BY <1>3, <2>1, <2>2, <2>4, <2>5, <2>6, <2>7, DeliveryAssumption DEF Typed, Sized, TypeOK
<1>4. QED
  BY <1>1, <1>2, <1>3, TrackAlways, PTL DEF Spec

-----------------------------------------------------------------------------
(* The webhooks that come in: deliveries that are signed, and sign-ins. *)
CONSTANTS Senders, Batches, Tolerance, SourceTypes, States, StateLife, Callbacks, MaxSecret, MaxClock, MaxDeliveries
VARIABLES secret, hookClock, delivery, ingested, taken, table, states, issued, callback, exchanged

Hook == INSTANCE InboundWebhook WITH Types <- SourceTypes, clock <- hookClock, sent <- ingested, pending <- states

\* A body is finite, so its batch is, and no sender uses the digest of a row's content as a key:
\* normalize gives both the same namespace.
HookSizes ==
  /\ MaxSecret \in Nat /\ MaxClock \in Nat /\ Tolerance \in Nat /\ StateLife \in Nat
  /\ \A b \in Batches : IsFiniteSet(b)
  /\ \A b, e \in Batches : \A r \in b, q \in e : r.key # q.content

AnyDelivery == [pc : {"idle", "came", "read"}, signed : Nat, ts : Nat, rows : Batches \cup {{}}, secret : Nat, came : Nat]
AnyCallback == [pc : {"idle", "exchange"}, typ : SourceTypes \cup {Hook!None}, state : States \cup {Hook!None}]
AnyTaken == [signed : Nat, rows : Batches, ts : Nat, came : Nat, until : Nat]
AnyIssue == [state : States, typ : SourceTypes, expires : Nat]

SignTyped ==
  /\ secret \in Nat /\ hookClock \in Nat
  /\ delivery \in [Senders -> AnyDelivery] /\ taken \subseteq AnyTaken
SignInTyped ==
  /\ states \subseteq AnyIssue /\ issued \subseteq States
  /\ callback \in [Callbacks -> AnyCallback] /\ exchanged \in Seq(SourceTypes \X States)

\* What a delivery under way knows of the secrets, now that s is the secret.
Under(d, s) ==
  /\ d.pc # "idle" => d.rows \in Batches
  /\ d.pc = "came" => d.came <= s
  /\ d.pc = "read" => d.came <= d.secret /\ d.secret <= s

\* A delivery was taken under a secret of its time, and was not dated ahead of it.
WasSigned(d, t) == 0 < d.signed /\ d.came <= d.signed /\ d.signed <= d.until /\ d.ts <= t + Tolerance

IdOf(r) == IF r.key # Hook!None THEN r.key ELSE r.content
Carried(T) == UNION {d.rows : d \in T}

\* The rows are those of the deliveries taken, one of an id.
Stored(tbl, C) ==
  /\ IsFiniteSet(tbl)
  /\ \A q, r \in tbl : q.id = r.id => q = r
  /\ \A q \in tbl : \E r \in C : q.id = IdOf(r) /\ q.content = r.content
  /\ \A r \in C : \E q \in tbl : q.id = IdOf(r)

\* A state is where it was issued to, at one callback, or used: never at two of them.
Single ==
  /\ \A q \in states : q.state \in issued
  /\ \A i \in DOMAIN exchanged : exchanged[i][2] \in issued
  /\ \A q \in states, i \in DOMAIN exchanged : exchanged[i][2] # q.state
  /\ \A i, j \in DOMAIN exchanged : exchanged[i][2] = exchanged[j][2] => i = j
  /\ \A c \in Callbacks : callback[c].pc = "exchange" =>
       /\ callback[c].state \in issued /\ callback[c].typ \in SourceTypes
       /\ \A q \in states : q.state # callback[c].state
       /\ \A i \in DOMAIN exchanged : exchanged[i][2] # callback[c].state
       /\ \A d \in Callbacks : callback[d].pc = "exchange" /\ callback[d].state = callback[c].state => d = c

SignInv ==
  /\ SignTyped
  /\ \A s \in Senders : Under(delivery[s], secret)
  /\ \A d \in taken : WasSigned(d, hookClock)
  /\ Stored(table, Carried(taken))
SignInInv == SignInTyped /\ Single

\* What the signed deliveries are told by, and what the sign-ins are.
signs == <<secret, delivery, taken, table>>
signIns == <<states, issued, callback, exchanged>>

LEMMA HookBegins ==
    ASSUME Hook!Init, HookSizes
    PROVE  SignInv /\ SignInInv
<1>1. SignTyped /\ SignInTyped
  BY DEF Hook!Init, SignTyped, SignInTyped, AnyDelivery, AnyCallback, Hook!IdleDelivery, Hook!IdleCallback
<1>2. \A s \in Senders : Under(delivery[s], secret)
  BY DEF Hook!Init, Hook!IdleDelivery, Under
<1>3. Stored(table, Carried(taken))
  <2>1. table = {} /\ taken = {}
    BY DEF Hook!Init
  <2>2. Carried(taken) = {}
    BY <2>1 DEF Carried
  <2>3. IsFiniteSet(table)
    BY <2>1, FS_EmptySet
  <2> QED  BY <2>1, <2>2, <2>3 DEF Stored
<1>4. Single
  BY DEF Hook!Init, Hook!IdleCallback, Single
<1> QED  BY <1>1, <1>2, <1>3, <1>4 DEF SignInv, SignInInv, Hook!Init

-----------------------------------------------------------------------------
(* Deliveries. *)

\* One delivery moves on, and nothing else does.
LEMMA OneDelivery ==
    ASSUME SignInv, NEW s \in Senders, NEW d \in AnyDelivery, Under(d, secret),
           delivery' = [delivery EXCEPT ![s] = d], UNCHANGED <<secret, hookClock, taken, table>>
    PROVE  SignInv'
<1>1. SignTyped'
  BY DEF SignInv, SignTyped
<1>2. \A u \in Senders : Under(delivery[u], secret)'
  BY DEF SignInv, SignTyped, Under
<1> QED  BY <1>1, <1>2 DEF SignInv, Stored, Carried, WasSigned

LEMMA IdleIsUnder == Hook!IdleDelivery \in AnyDelivery /\ Under(Hook!IdleDelivery, secret)
  BY DEF Hook!IdleDelivery, AnyDelivery, Under

LEMMA RotateKeeps ==
    ASSUME SignInv, Hook!RotateSecret
    PROVE  SignInv'
<1>1. secret' = secret + 1 /\ secret \in Nat /\ UNCHANGED <<hookClock, delivery, taken, table>>
  BY DEF Hook!RotateSecret, SignInv, SignTyped
<1>2. \A s \in Senders : delivery[s].came \in Nat /\ delivery[s].secret \in Nat
  BY DEF SignInv, SignTyped, AnyDelivery
<1>3. \A s \in Senders : Under(delivery[s], secret)'
  BY <1>1, <1>2 DEF SignInv, Under
<1> QED  BY <1>1, <1>3 DEF SignInv, SignTyped, Stored, Carried, WasSigned

LEMMA HookTickKeeps ==
    ASSUME SignInv, HookSizes, Hook!Tick
    PROVE  SignInv'
<1>1. hookClock' = hookClock + 1 /\ hookClock \in Nat /\ UNCHANGED <<secret, delivery, taken, table>>
  BY DEF Hook!Tick, Hook!hookVars, SignInv, SignTyped
<1>2. \A d \in taken : d.ts \in Nat /\ d.ts <= hookClock + Tolerance
  BY DEF SignInv, SignTyped, AnyTaken, WasSigned
<1>3. \A d \in taken : d.ts <= hookClock' + Tolerance
  BY <1>1, <1>2 DEF HookSizes
<1>4. \A d \in taken' : WasSigned(d, hookClock)'
  BY <1>1, <1>3 DEF SignInv, WasSigned
<1> QED  BY <1>1, <1>4 DEF SignInv, SignTyped, Stored, Carried, Under

LEMMA HookRestartKeeps ==
    ASSUME SignInv, SignInInv, Hook!Restart
    PROVE  SignInv' /\ SignInInv'
<1>1. delivery' = [s \in Senders |-> Hook!IdleDelivery] /\ UNCHANGED <<secret, hookClock, taken, table>>
  BY DEF Hook!Restart
<1>2. SignTyped' /\ \A s \in Senders : Under(delivery[s], secret)'
  BY <1>1, IdleIsUnder DEF SignInv, SignTyped, Under
<1>3. SignInv'
  BY <1>1, <1>2 DEF SignInv, Stored, Carried, WasSigned
<1>4. SignInInv'
  BY DEF Hook!Restart, Hook!IdleCallback, SignInInv, SignInTyped, AnyCallback, Single
<1> QED  BY <1>3, <1>4

LEMMA IngestKeeps ==
    ASSUME SignInv, HookSizes, NEW s \in Senders, Hook!HandleSourceIngest(s)
    PROVE  SignInv'
<1>1. PICK k \in 0 .. MaxSecret, ts \in 0 .. MaxClock, rows \in Batches :
        delivery' = [delivery EXCEPT ![s] = [pc |-> "came", signed |-> k, ts |-> ts, rows |-> rows,
                                             secret |-> 0, came |-> secret]]
  BY DEF Hook!HandleSourceIngest
<1> DEFINE d == [pc |-> "came", signed |-> k, ts |-> ts, rows |-> rows, secret |-> 0, came |-> secret]
<1>2. secret \in Nat
  BY DEF SignInv, SignTyped
<1>3. d \in AnyDelivery /\ Under(d, secret)
  BY <1>2 DEF HookSizes, AnyDelivery, Under
<1>4. UNCHANGED <<secret, hookClock, taken, table>>
  BY DEF Hook!HandleSourceIngest
<1> HIDE DEF d
<1>5. delivery' = [delivery EXCEPT ![s] = d]
  BY <1>1 DEF d
<1> QED  BY <1>3, <1>4, <1>5, OneDelivery

LEMMA StoredSecretKeeps ==
    ASSUME SignInv, NEW s \in Senders, Hook!StoredSecret(s)
    PROVE  SignInv'
<1> DEFINE a == [delivery[s] EXCEPT !.pc = "read"]
           d == [a EXCEPT !.secret = secret]
<1>1. UNCHANGED <<secret, hookClock, taken, table>> /\ delivery[s].pc = "came"
  BY DEF Hook!StoredSecret
<1>2. delivery[s] \in AnyDelivery /\ Under(delivery[s], secret) /\ secret \in Nat
      /\ delivery = [u \in Senders |-> delivery[u]]
  BY DEF SignInv, SignTyped
<1>3. a \in AnyDelivery /\ a.pc = "read" /\ a.came = delivery[s].came /\ a.rows = delivery[s].rows
  BY <1>2 DEF AnyDelivery
<1> HIDE DEF a
<1>4. d \in AnyDelivery /\ d.pc = "read" /\ d.came = delivery[s].came /\ d.rows = delivery[s].rows /\ d.secret = secret
  BY <1>2, <1>3 DEF AnyDelivery
<1>5. Under(d, secret)
  BY <1>1, <1>2, <1>4 DEF Under
<1>6. \/ delivery' = [delivery EXCEPT ![s] = d]
      \/ delivery' = [delivery EXCEPT ![s] = Hook!IdleDelivery]
  BY <1>2 DEF Hook!StoredSecret, a
<1> HIDE DEF d
<1> QED  BY <1>1, <1>4, <1>5, <1>6, IdleIsUnder, OneDelivery

\* A finite batch makes finitely many rows.
LEMMA NormalizeFinite ==
    ASSUME NEW b, IsFiniteSet(b)
    PROVE  IsFiniteSet(Hook!Normalize(b))
<1> DEFINE N == Hook!Normalize(b)
           f == [r \in b |-> [id |-> IdOf(r), content |-> r.content]]
<1>1. f \in Surjection(b, N)
  BY DEF Surjection, Hook!Normalize, IdOf
<1> QED  BY <1>1, FS_Surjection

\* The rows of a delivery replace those with their ids.
LEMMA RowsReplaced ==
    ASSUME NEW tbl, NEW C, Stored(tbl, C), NEW b, IsFiniteSet(b), NEW p \in SUBSET Hook!Normalize(b),
           {r.id : r \in p} = {r.id : r \in Hook!Normalize(b)},
           \A q, r \in p : q.id = r.id => q = r
    PROVE  Stored({r \in tbl : \A q \in p : q.id # r.id} \cup p, C \cup b)
<1> DEFINE K == {r \in tbl : \A q \in p : q.id # r.id}
<1>1. IsFiniteSet(K \cup p)
  BY NormalizeFinite, FS_Subset, FS_Union DEF Stored
<1>2. \A q, r \in K \cup p : q.id = r.id => q = r
  BY DEF Stored
<1>3. \A q \in Hook!Normalize(b) : \E r \in b : q.id = IdOf(r) /\ q.content = r.content
  BY DEF Hook!Normalize, IdOf
<1>4. \A q \in K \cup p : \E r \in C \cup b : q.id = IdOf(r) /\ q.content = r.content
  BY <1>3 DEF Stored
<1>5. ASSUME NEW r \in b PROVE \E q \in p : q.id = IdOf(r)
  <2> DEFINE n == [id |-> IdOf(r), content |-> r.content]
  <2>1. n \in Hook!Normalize(b) /\ n.id = IdOf(r)
    BY DEF Hook!Normalize, IdOf
  <2> HIDE DEF n
  <2>2. IdOf(r) \in {q.id : q \in p}
    BY <2>1
  <2> QED  BY <2>2
<1>6. ASSUME NEW r \in C PROVE \E q \in K \cup p : q.id = IdOf(r)
  <2>1. PICK q \in tbl : q.id = IdOf(r)
    BY DEF Stored
  <2>2. CASE q \in K
    BY <2>1, <2>2
  <2>3. CASE q \notin K
    BY <2>1, <2>3
  <2> QED  BY <2>2, <2>3
<1> HIDE DEF K
<1>7. Stored(K \cup p, C \cup b)
  BY <1>1, <1>2, <1>4, <1>5, <1>6 DEF Stored
<1> QED  BY <1>7 DEF K

LEMMA ReceiveKeeps ==
    ASSUME SignInv, HookSizes, NEW s \in Senders, Hook!Receive(s)
    PROVE  SignInv'
<1>1. delivery[s].pc = "read" /\ delivery' = [delivery EXCEPT ![s] = Hook!IdleDelivery] /\ UNCHANGED <<secret, hookClock>>
  BY DEF Hook!Receive
<1>2. CASE ~Hook!Verify(delivery[s])
  <2>1. UNCHANGED <<taken, table>>
    BY <1>2 DEF Hook!Receive
  <2> QED  BY <1>1, <2>1, IdleIsUnder, OneDelivery
<1>3. CASE Hook!Verify(delivery[s])
  <2> DEFINE d == delivery[s]
             k == [signed |-> d.signed, rows |-> d.rows, ts |-> d.ts, came |-> d.came, until |-> secret]
  <2>1. /\ taken' = taken \cup {k}
        /\ \E p \in SUBSET Hook!Normalize(d.rows) :
             /\ {r.id : r \in p} = {r.id : r \in Hook!Normalize(d.rows)}
             /\ \A q, r \in p : q.id = r.id => q = r
             /\ table' = {r \in table : \A q \in p : q.id # r.id} \cup p
    BY <1>3 DEF Hook!Receive
  <2>2. d \in AnyDelivery /\ Under(d, secret) /\ secret \in Nat /\ hookClock \in Nat
    BY DEF SignInv, SignTyped
  <2>3. d.rows \in Batches /\ d.came <= d.secret /\ d.secret <= secret
        /\ d.came \in Nat /\ d.secret \in Nat /\ d.signed \in Nat /\ d.ts \in Nat
    BY <1>1, <2>2 DEF Under, AnyDelivery
  <2>4. d.secret # 0 /\ d.signed = d.secret /\ hookClock - d.ts \in -Tolerance .. Tolerance
    BY <1>3 DEF Hook!Verify
  <2> HIDE DEF d
  <2>5. d.signed > 0 /\ d.came <= d.signed /\ d.signed <= secret /\ d.ts <= hookClock + Tolerance
    BY <2>2, <2>3, <2>4 DEF HookSizes
  <2>6. k \in AnyTaken /\ WasSigned(k, hookClock) /\ k.rows = d.rows
    BY <2>2, <2>3, <2>5 DEF AnyTaken, WasSigned
  <2> HIDE DEF k
  <2>7. Carried(taken') = Carried(taken) \cup d.rows
    BY <2>1, <2>6 DEF Carried
  <2>8. Stored(table, Carried(taken)) /\ IsFiniteSet(d.rows)
    BY <2>3 DEF SignInv, HookSizes
  <2>9. Stored(table', Carried(taken'))
    <3>1. PICK p \in SUBSET Hook!Normalize(d.rows) :
             /\ {r.id : r \in p} = {r.id : r \in Hook!Normalize(d.rows)}
             /\ \A q, r \in p : q.id = r.id => q = r
             /\ table' = {r \in table : \A q \in p : q.id # r.id} \cup p
      BY <2>1
    <3>2. Stored({r \in table : \A q \in p : q.id # r.id} \cup p, Carried(taken) \cup d.rows)
      BY <3>1, <2>8, RowsReplaced
    <3> QED  BY <3>1, <3>2, <2>7
  <2>10. SignTyped'
    BY <1>1, <2>1, <2>6, IdleIsUnder DEF SignInv, SignTyped
  <2>11. \A u \in Senders : Under(delivery[u], secret)'
    BY <1>1, IdleIsUnder DEF SignInv, SignTyped, Under
  <2>12. \A e \in taken' : WasSigned(e, hookClock)'
    BY <1>1, <2>1, <2>6 DEF SignInv, WasSigned
  <2> QED  BY <2>9, <2>10, <2>11, <2>12 DEF SignInv
<1> QED  BY <1>2, <1>3

-----------------------------------------------------------------------------
(* Sign-ins. *)

LEMMA IssueKeeps ==
    ASSUME SignInInv, HookSizes, hookClock \in Nat, NEW typ \in SourceTypes, Hook!Issue(typ)
    PROVE  SignInInv'
<1>1. PICK st \in States \ issued :
        /\ issued' = issued \cup {st}
        /\ states' = states \cup {[state |-> st, typ |-> typ, expires |-> hookClock + StateLife]}
  BY DEF Hook!Issue
<1> DEFINE n == [state |-> st, typ |-> typ, expires |-> hookClock + StateLife]
<1>2. n \in AnyIssue /\ n.state = st
  BY DEF AnyIssue, HookSizes
<1>3. UNCHANGED <<callback, exchanged>> /\ states' = states \cup {n}
  BY <1>1 DEF Hook!Issue
<1> HIDE DEF n
<1>4. SignInTyped'
  BY <1>1, <1>2, <1>3 DEF SignInInv, SignInTyped
<1>5. Single'
  BY <1>1, <1>2, <1>3 DEF SignInInv, Single
<1> QED  BY <1>4, <1>5 DEF SignInInv

LEMMA ConsumeKeeps ==
    ASSUME SignInInv, NEW c \in Callbacks, NEW typ \in SourceTypes, NEW st \in States, Hook!Consume(c, typ, st)
    PROVE  SignInInv'
<1> DEFINE e == [pc |-> "exchange", typ |-> typ, state |-> st]
           p == {q \in states : q.state = st}
<1>1. states' = states \ p /\ UNCHANGED <<issued, exchanged>>
  BY DEF Hook!Consume
<1>2. \/ callback' = callback
      \/ callback' = [callback EXCEPT ![c] = e] /\ \E q \in states : q.state = st
  BY DEF Hook!Consume, SignInInv, SignInTyped
<1>3. e \in AnyCallback /\ e.pc = "exchange" /\ e.state = st /\ e.typ = typ
  BY DEF AnyCallback
<1> HIDE DEF e
<1>4. SignInTyped'
  BY <1>1, <1>2, <1>3 DEF SignInInv, SignInTyped
<1>5. CASE callback' = callback
  BY <1>1, <1>4, <1>5 DEF SignInInv, Single
<1>6. CASE callback' = [callback EXCEPT ![c] = e] /\ \E q \in states : q.state = st
  <2>1. st \in issued /\ (\A i \in DOMAIN exchanged : exchanged[i][2] # st)
        /\ \A d \in Callbacks : callback[d].pc = "exchange" => callback[d].state # st
    BY <1>6 DEF SignInInv, Single
  <2>2. \A d \in Callbacks : callback'[d] = IF d = c THEN e ELSE callback[d]
    BY <1>6 DEF SignInInv, SignInTyped
  <2>3. \A q \in states' : q \in states /\ q.state # st
    BY <1>1
  <2>4. \A d \in Callbacks : callback'[d].pc = "exchange" =>
          /\ callback'[d].state \in issued' /\ callback'[d].typ \in SourceTypes
          /\ \A q \in states' : q.state # callback'[d].state
          /\ \A i \in DOMAIN exchanged' : exchanged'[i][2] # callback'[d].state
          /\ \A b \in Callbacks : callback'[b].pc = "exchange" /\ callback'[b].state = callback'[d].state => b = d
    BY <1>1, <1>3, <2>1, <2>2, <2>3 DEF SignInInv, Single
  <2>5. Single'
    BY <1>1, <2>3, <2>4 DEF SignInInv, Single
  <2> QED  BY <1>4, <2>5 DEF SignInInv
<1> QED  BY <1>2, <1>5, <1>6

LEMMA ExchangeKeeps ==
    ASSUME SignInInv, NEW c \in Callbacks, Hook!OAuthExchange(c)
    PROVE  SignInInv'
<1> DEFINE x == <<callback[c].typ, callback[c].state>>
<1>1. /\ callback[c].pc = "exchange" /\ callback' = [callback EXCEPT ![c] = Hook!IdleCallback]
      /\ exchanged' \in {exchanged, Append(exchanged, x)} /\ UNCHANGED <<states, issued>>
  BY DEF Hook!OAuthExchange
<1>2. x \in SourceTypes \X States /\ x[2] = callback[c].state
  BY <1>1 DEF SignInInv, SignInTyped, Single
<1>3. Hook!IdleCallback \in AnyCallback /\ Hook!IdleCallback.pc = "idle"
  BY DEF Hook!IdleCallback, AnyCallback
<1> HIDE DEF x
<1>4. SignInTyped'
  BY <1>1, <1>2, <1>3 DEF SignInInv, SignInTyped
<1>5. /\ \A i \in DOMAIN exchanged' : \/ i \in DOMAIN exchanged /\ exchanged'[i] = exchanged[i]
                                      \/ i = Len(exchanged) + 1 /\ exchanged'[i] = x
      /\ DOMAIN exchanged = 1 .. Len(exchanged) /\ Len(exchanged) \in Nat
  BY <1>1 DEF SignInInv, SignInTyped
<1>6. \A d \in Callbacks : callback'[d].pc = "exchange" => d # c /\ callback'[d] = callback[d]
  BY <1>1, <1>3 DEF SignInInv, SignInTyped
<1>7. /\ \A i \in DOMAIN exchanged : exchanged[i][2] # x[2]
      /\ x[2] \in issued
      /\ \A q \in states : q.state # x[2]
      /\ \A d \in Callbacks : callback'[d].pc = "exchange" => callback'[d].state # x[2]
  BY <1>1, <1>2, <1>6 DEF SignInInv, Single
<1>8. /\ \A i \in DOMAIN exchanged' : exchanged'[i][2] \in issued
      /\ \A q \in states, i \in DOMAIN exchanged' : exchanged'[i][2] # q.state
      /\ \A d \in Callbacks : callback'[d].pc = "exchange" => \A i \in DOMAIN exchanged' : exchanged'[i][2] # callback'[d].state
  BY <1>5, <1>6, <1>7 DEF SignInInv, Single
<1>9. \A i, j \in DOMAIN exchanged' : exchanged'[i][2] = exchanged'[j][2] => i = j
  BY <1>5, <1>7 DEF SignInInv, Single
<1>10. Single'
  BY <1>1, <1>6, <1>8, <1>9 DEF SignInInv, Single
<1> QED  BY <1>4, <1>10 DEF SignInInv

-----------------------------------------------------------------------------
LEMMA HookStep ==
    ASSUME SignInv, SignInInv, HookSizes, [Hook!Next]_(Hook!vars)
    PROVE  SignInv' /\ SignInInv'
<1>1. CASE UNCHANGED Hook!vars
  BY <1>1 DEF Hook!vars, Hook!hookVars, Hook!oauthVars, SignInv, SignTyped, Under, WasSigned, Stored, Carried,
              SignInInv, SignInTyped, Single
<1>2. CASE Hook!Restart
  BY <1>2, HookRestartKeeps
<1>3. CASE Hook!RotateSecret \/ Hook!Tick \/ \E s \in Senders : Hook!HandleSourceIngest(s) \/ Hook!StoredSecret(s) \/ Hook!Receive(s)
  <2>1. UNCHANGED signIns
    BY <1>3 DEF Hook!RotateSecret, Hook!Tick, Hook!HandleSourceIngest, Hook!StoredSecret, Hook!Receive, Hook!oauthVars, signIns
  <2>2. SignInInv'
    BY <2>1 DEF signIns, SignInInv, SignInTyped, Single
  <2> QED  BY <1>3, <2>2, RotateKeeps, HookTickKeeps, IngestKeeps, StoredSecretKeeps, ReceiveKeeps
<1>4. CASE \/ \E typ \in SourceTypes : Hook!Issue(typ)
           \/ \E c \in Callbacks, typ \in SourceTypes, st \in States : Hook!Consume(c, typ, st)
           \/ \E c \in Callbacks : Hook!OAuthExchange(c)
  <2>1. UNCHANGED <<signs, hookClock>> /\ hookClock \in Nat
    BY <1>4 DEF Hook!Issue, Hook!Consume, Hook!OAuthExchange, Hook!hookVars, signs, SignInv, SignTyped
  <2>2. SignInv'
    BY <2>1 DEF signs, SignInv, SignTyped, Under, WasSigned, Stored, Carried
  <2> QED  BY <1>4, <2>1, <2>2, IssueKeeps, ConsumeKeeps, ExchangeKeeps
<1> QED  BY <1>1, <1>2, <1>3, <1>4 DEF Hook!Next

\* What a table of one row an id says of what was taken.
LEMMA StoredSays ==
    ASSUME SignInv, HookSizes
    PROVE  Hook!SignedOnly
<1> DEFINE C == Carried(taken)
           I == {IdOf(r) : r \in C}
           f == [q \in table |-> q.id]
<1>1. Stored(table, C)
  BY DEF SignInv
<1>2. \A r, q \in C : r.key # q.content
  BY DEF SignInv, SignTyped, AnyTaken, HookSizes, Carried
<1> HIDE DEF C
<1>3. f \in Surjection(table, I) /\ f \in Injection(table, I)
  <2>1. f \in [table -> I]
    BY <1>1 DEF Stored
  <2>2. \A i \in I : \E q \in table : f[q] = i
    BY <1>1 DEF Stored
  <2>3. \A q, r \in table : f[q] = f[r] => q = r
    BY <1>1 DEF Stored
  <2> QED  BY <2>1, <2>2, <2>3 DEF Surjection, Injection, IsInjective
<1>4. IsFiniteSet(table)
  BY <1>1 DEF Stored
<1>5. Cardinality(I) = Cardinality(table)
  <2> HIDE DEF f, I
  <2> QED  BY <1>3, <1>4, FS_Surjection
<1>6. Hook!Cardinality(I) = Cardinality(I) /\ Hook!Cardinality(table) = Cardinality(table)
  BY DEF Cardinality, Hook!Cardinality
<1>7. {r.content : r \in table} \subseteq {r.content : r \in C}
  BY <1>1 DEF Stored
<1>8. ASSUME NEW r \in C, r.key = Hook!None
      PROVE  \E q \in table : q.content = r.content
  <2>1. IdOf(r) = r.content
    BY <1>8 DEF IdOf
  <2>2. PICK q \in table : q.id = IdOf(r)
    BY <1>1 DEF Stored
  <2>3. PICK o \in C : q.id = IdOf(o) /\ q.content = o.content
    BY <1>1 DEF Stored
  <2>4. o.key # r.content
    BY <1>2
  <2> QED  BY <2>1, <2>2, <2>3, <2>4 DEF IdOf
<1>9. \A d \in taken : d.signed > 0 /\ d.signed \in d.came .. d.until /\ d.ts <= hookClock + Tolerance
  BY DEF SignInv, SignTyped, AnyTaken, WasSigned
<1>10. I = {IF r.key # Hook!None THEN r.key ELSE r.content : r \in C}
  BY DEF IdOf
<1> HIDE DEF I
<1> QED  BY <1>5, <1>6, <1>7, <1>8, <1>9, <1>10 DEF Hook!SignedOnly, C, Carried

\* A delivery that comes in is taken only under a secret that was in force after it came (Receive,
\* verify), and its rows are stored once however often it is sent (normalize); a state returned from a
\* provider leads to one exchange at most (oauthStates.consume, handleSourceOAuthCallback): for any number of senders,
\* deliveries, secrets and callbacks.
THEOREM SignedAndOnce == ASSUME HookSizes PROVE Hook!Spec => [](Hook!SignedOnly /\ Hook!StateUsedOnce)
<1>1. Hook!Init => SignInv /\ SignInInv
  BY HookBegins
<1>2. SignInv /\ SignInInv /\ [Hook!Next]_(Hook!vars) => (SignInv /\ SignInInv)'
  BY HookStep
<1>3. SignInv /\ SignInInv => Hook!SignedOnly /\ Hook!StateUsedOnce
  BY StoredSays DEF SignInInv, Single, Hook!StateUsedOnce
<1> QED  BY <1>1, <1>2, <1>3, PTL DEF Hook!Spec

-----------------------------------------------------------------------------
(* The banks of the Teller source: the stored tokens and the fetch over them. *)
CONSTANTS Tokens, Config, Editors, Accounts, Sees, Since, PageCount, MaxPages, MaxTxns, MaxLinks
VARIABLES vault, editor, links, linked, tangled, posted, fetch

Bank == INSTANCE TellerSource WITH
  MaxEdits <- MaxLinks, edits <- links, asked <- linked, mixed <- tangled

\* Pages that walk on (an inclusive cursor repeats one transaction), and a window that fits in
\* the pages of a walk.
BankSizes ==
  /\ Config \in Seq(Tokens) /\ Sees \in [Tokens -> SUBSET Accounts]
  /\ Since \in Nat \ {0} /\ PageCount \in Nat \ {0, 1} /\ MaxPages \in Nat \ {0} /\ MaxTxns \in Nat \ {0}
  /\ MaxPages * (PageCount - 1) >= MaxTxns - Since

AnyEditor == [pc : {"idle", "add", "remove"}, token : Tokens \cup {Bank!None}, read : Seq(Tokens)]
Has(s) == {s[i] : i \in DOMAIN s}
Once(s) == \A i, j \in DOMAIN s : s[i] = s[j] => i = j

\* Of requests that do not overlap at most one is under way, and what it read is what is stored.
BankedInv ==
  /\ vault \in Seq(Tokens) /\ Once(vault)
  /\ editor \in [Editors -> AnyEditor] /\ tangled \in BOOLEAN
  /\ \A e \in Editors : Once(editor[e].read) /\ (editor[e].pc # "idle" => editor[e].token \in Tokens)
  /\ ~tangled =>
       /\ Has(vault) = linked
       /\ \A e \in Editors : editor[e].pc # "idle" => editor[e].read = vault
       /\ \A e, d \in Editors : editor[e].pc # "idle" /\ editor[d].pc # "idle" => e = d

AcctRow == [acct : Accounts, txns : SUBSET Nat, had : Nat]
AnyFetch ==
  [pc : {"idle", "token", "account", "page", "failed", "done"}, tokens : Seq(Tokens), accts : SUBSET Accounts,
   acct : Accounts \cup {Bank!None}, from : Nat, page : Nat, had : Nat, got : SUBSET Nat,
   seen : SUBSET Accounts, broken : SUBSET Accounts, errs : Nat, batch : Seq(AcctRow)]

Walked(b) == {b[i].acct : i \in DOMAIN b}

\* A row of the batch has the whole window of its account.
Whole(r) == (\A n \in Since .. r.had : n \in r.txns) /\ \A n \in r.txns : n >= Since

\* The account being walked: down to the cursor nothing is missing, and every page went down.
WalkOn(f, p) ==
  /\ f.acct \in f.seen /\ f.had <= p[f.acct]
  /\ \A n \in f.got : n >= Since /\ f.from > 0 /\ n >= f.from
  /\ f.from > 0 => \A n \in Since .. f.had : n >= f.from => n \in f.got
  /\ f.from = 0 => f.page = 0
  /\ f.from <= MaxTxns /\ f.page < MaxPages
  /\ f.from > 1 => f.from + f.page * (PageCount - 1) <= MaxTxns

\* Every account seen has been walked, has failed or is being walked, and only one of these.
Accounted(f) ==
  /\ f.pc \in {"account", "page"} => f.tokens # << >>
  /\ f.accts \cap f.seen = {}
  /\ Walked(f.batch) \cap f.broken = {}
  /\ Walked(f.batch) \cup f.broken = IF f.pc = "page" THEN f.seen \ {f.acct} ELSE f.seen
  /\ \A i, j \in DOMAIN f.batch : f.batch[i].acct = f.batch[j].acct => i = j
  /\ \A i \in DOMAIN f.batch : Whole(f.batch[i])

FetchOk(f, p) == f \in AnyFetch /\ Accounted(f) /\ (f.pc = "page" => WalkOn(f, p))
FetchInv == posted \in [Accounts -> 0 .. MaxTxns] /\ FetchOk(fetch, posted)

-----------------------------------------------------------------------------
(* What a sequence has at some of its places. *)

LEMMA SmallestOf == ASSUME NEW S \in SUBSET Nat, S # {} PROVE \E m \in S : \A n \in S : m <= n
<1>1. PICK m \in S : \A n \in S : <<n, m>> \notin OpToRel(<, Nat)
  BY NatLessThanWellFounded, WFMin
<1>2. \A n \in S : n \in Nat /\ m \in Nat /\ ~(n < m)
  BY <1>1 DEF OpToRel
<1> QED  BY <1>2

Below(I, i) == {j \in I : j <= i}

LEMMA RankIs ==
  ASSUME NEW k \in Nat, NEW I \in SUBSET (1 .. k)
  PROVE  /\ IsFiniteSet(I) /\ Cardinality(I) \in Nat
         /\ \A i \in I : Cardinality(Below(I, i)) \in 1 .. Cardinality(I)
         /\ \A i, j \in I : Cardinality(Below(I, i)) = Cardinality(Below(I, j)) => i = j
         /\ \A i, j \in I : i < j => Cardinality(Below(I, i)) < Cardinality(Below(I, j))
<1>1. IsFiniteSet(I) /\ Cardinality(I) \in Nat
  <2>1. IsFiniteSet(1 .. k)
    BY FS_Interval
  <2>2. IsFiniteSet(I)
    BY <2>1, FS_Subset
  <2> QED  BY <2>2, FS_CardinalityType
<1>2. ASSUME NEW i \in I
      PROVE  /\ IsFiniteSet(Below(I, i)) /\ Cardinality(Below(I, i)) \in Nat
             /\ Cardinality(Below(I, i)) <= Cardinality(I) /\ Cardinality(Below(I, i)) # 0
  <2>1. Below(I, i) \in SUBSET I /\ i \in Below(I, i)
    BY DEF Below
  <2>2. IsFiniteSet(Below(I, i)) /\ Cardinality(Below(I, i)) <= Cardinality(I)
    BY <1>1, <2>1, FS_Subset
  <2>3. Cardinality(Below(I, i)) \in Nat /\ (Cardinality(Below(I, i)) = 0 <=> Below(I, i) = {})
    BY <2>2, FS_CardinalityType, FS_EmptySet
  <2> QED  BY <2>1, <2>2, <2>3
<1>3. ASSUME NEW i \in I, NEW j \in I, i < j PROVE Cardinality(Below(I, i)) < Cardinality(Below(I, j))
  <2>1. Below(I, i) \in SUBSET Below(I, j) /\ j \in Below(I, j) /\ j \notin Below(I, i)
    <3>1. \A n \in I : n \in Nat
      OBVIOUS
    <3>2. \A n \in Below(I, i) : n \in Below(I, j)
      BY <1>3, <3>1 DEF Below
    <3>3. j \in Below(I, j)
      BY <3>1 DEF Below
    <3>4. ~(j <= i)
      BY <1>3, <3>1
    <3> QED  BY <3>2, <3>3, <3>4 DEF Below
  <2>2. Cardinality(Below(I, i)) <= Cardinality(Below(I, j)) /\ Cardinality(Below(I, i)) # Cardinality(Below(I, j))
    BY <1>2, <2>1, FS_Subset
  <2> QED  BY <1>2, <2>2
<1>4. \A i, j \in I : Cardinality(Below(I, i)) = Cardinality(Below(I, j)) => i = j
  <2> SUFFICES ASSUME NEW i \in I, NEW j \in I, i # j PROVE Cardinality(Below(I, i)) # Cardinality(Below(I, j))
    OBVIOUS
  <2>1. i < j \/ j < i
    OBVIOUS
  <2>2. Cardinality(Below(I, i)) \in Nat /\ Cardinality(Below(I, j)) \in Nat
    BY <1>2
  <2> QED  BY <1>3, <2>1, <2>2
<1>5. \A i \in I : Cardinality(Below(I, i)) \in 1 .. Cardinality(I)
  <2> TAKE i \in I
  <2> QED  BY <1>1, <1>2
<1> QED  BY <1>1, <1>3, <1>4, <1>5

\* Every rank is taken: there are as many places as ranks.
LEMMA RankTaken ==
  ASSUME NEW k \in Nat, NEW I \in SUBSET (1 .. k), NEW n \in 1 .. Cardinality(I)
  PROVE  \E i \in I : Cardinality(Below(I, i)) = n
<1> DEFINE C == Cardinality(I)  f == [i \in I |-> Cardinality(Below(I, i))]
<1>1. IsFiniteSet(I) /\ C \in Nat
  BY RankIs
<1>2. f \in [I -> 1 .. C] /\ \A i, j \in I : f[i] = f[j] => i = j
  BY RankIs
<1>3. \A i \in I : f[i] = Cardinality(Below(I, i))
  OBVIOUS
<1>4. IsFiniteSet(1 .. C) /\ Cardinality(1 .. C) = C
  BY <1>1, FS_Interval
<1> HIDE DEF f
<1>5. f \in Injection(I, 1 .. C)
  BY <1>2 DEF Injection, IsInjective
<1>6. f \in Surjection(I, 1 .. C)
  BY <1>1, <1>4, <1>5, FS_Injection
<1>7. PICK i \in I : f[i] = n
  BY <1>6 DEF Surjection
<1> QED  BY <1>3, <1>7

\* A set of numbers in order.
Ranked(S) == [n \in 1 .. Cardinality(S) |-> CHOOSE i \in S : Cardinality(Below(S, i)) = n]

LEMMA RankedIs ==
  ASSUME NEW k \in Nat, NEW S \in SUBSET (1 .. k), NEW q, q = Ranked(S)
  PROVE  /\ q \in Seq(S) /\ DOMAIN q = 1 .. Cardinality(S) /\ Cardinality(S) \in Nat
         /\ \A n \in DOMAIN q : q[n] \in S /\ Cardinality(Below(S, q[n])) = n
         /\ \A x \in S : Cardinality(Below(S, x)) \in DOMAIN q /\ q[Cardinality(Below(S, x))] = x
         /\ \A i, j \in DOMAIN q : i < j => q[i] < q[j]
<1> DEFINE C == Cardinality(S)  at(n) == CHOOSE f \in S : Cardinality(Below(S, f)) = n
           p == [n \in 1 .. C |-> at(n)]
<1>1. q = p
  BY DEF Ranked
<1>3. C \in Nat
  BY RankIs
<1>4. ASSUME NEW n \in 1 .. C PROVE at(n) \in S /\ Cardinality(Below(S, at(n))) = n
  BY RankTaken
<1>5. ASSUME NEW f \in S PROVE Cardinality(Below(S, f)) \in 1 .. C /\ at(Cardinality(Below(S, f))) = f
  <2>1. Cardinality(Below(S, f)) \in 1 .. C
    BY RankIs
  <2>2. at(Cardinality(Below(S, f))) = f
    BY <1>4, <2>1, RankIs
  <2> QED  BY <2>1, <2>2
<1>r. \A i, j \in S : i < j => Cardinality(Below(S, i)) < Cardinality(Below(S, j))
  BY RankIs
<1> HIDE DEF at, C
<1>6. ASSUME NEW i \in 1 .. C, NEW j \in 1 .. C, i < j PROVE at(i) < at(j)
  <2>1. at(i) \in S /\ at(j) \in S /\ at(i) \in 1 .. k /\ at(j) \in 1 .. k
    BY <1>4
  <2>2. Cardinality(Below(S, at(i))) = i /\ Cardinality(Below(S, at(j))) = j
    BY <1>4
  <2>3. at(j) < at(i) => Cardinality(Below(S, at(j))) < Cardinality(Below(S, at(i)))
    BY <1>r, <2>1
  <2>4. at(j) # at(i)
    BY <1>6, <2>2
  <2>5. ~(at(j) < at(i))
    BY <1>6, <2>2, <2>3
  <2> QED  BY <2>1, <2>4, <2>5
<1>7. p \in Seq(S) /\ DOMAIN p = 1 .. C /\ \A n \in 1 .. C : p[n] = at(n)
  BY <1>3, <1>4
<1> HIDE DEF p
<1>8. \A x \in S : Cardinality(Below(S, x)) \in DOMAIN p /\ p[Cardinality(Below(S, x))] = x
  BY <1>5, <1>7
<1>9. \A i, j \in DOMAIN p : i < j => p[i] < p[j]
  BY <1>6, <1>7
<1>10. \A n \in DOMAIN p : p[n] \in S /\ Cardinality(Below(S, p[n])) = n
  BY <1>4, <1>7
<1> QED  BY <1>1, <1>3, <1>7, <1>8, <1>9, <1>10 DEF C

\* The one has what the other has at these places.
MadeOf(p, s, I) == /\ \A n \in DOMAIN p : \E i \in I : p[n] = s[i]
                   /\ \A i \in I : \E n \in DOMAIN p : p[n] = s[i]

Apiece(s, I) == \A i, j \in I : s[i] = s[j] => i = j

LEMMA PlacesAre ==
  ASSUME NEW T, NEW s \in Seq(T), NEW I \in SUBSET DOMAIN s, NEW p, p = Bank!AtPlaces(s, I)
  PROVE  p \in Seq(T) /\ MadeOf(p, s, I) /\ (Apiece(s, I) => Once(p))
<1> DEFINE r == Ranked(I)  C == Cardinality(I)  q == [n \in 1 .. C |-> s[r[n]]]  at(n) == r[n]
<1>0. Bank!InOrder(I) = r
  BY DEF Bank!InOrder, Ranked, Cardinality, Bank!Cardinality, Below
<1>2. Len(s) \in Nat /\ DOMAIN s = 1 .. Len(s) /\ I \in SUBSET (1 .. Len(s))
  OBVIOUS
<1>3. /\ C \in Nat /\ DOMAIN r = 1 .. C
      /\ \A n \in DOMAIN r : r[n] \in I /\ Cardinality(Below(I, r[n])) = n
      /\ \A x \in I : Cardinality(Below(I, x)) \in DOMAIN r /\ r[Cardinality(Below(I, x))] = x
  BY <1>2, RankedIs
<1> HIDE DEF r, C
<1>1. p = q
  BY <1>0, <1>3 DEF Bank!AtPlaces
<1>4. ASSUME NEW n \in 1 .. C PROVE at(n) \in I /\ Cardinality(Below(I, at(n))) = n
  BY <1>3
<1>5. ASSUME NEW i \in I PROVE \E n \in 1 .. C : at(n) = i
  BY <1>3
<1>6. DOMAIN q = 1 .. C /\ \A n \in 1 .. C : q[n] = s[at(n)]
  OBVIOUS
<1> HIDE DEF at
<1>7. q \in Seq(T)
  <2>1. \A n \in 1 .. C : s[at(n)] \in T
    BY <1>2, <1>4
  <2> QED  BY <1>3, <2>1
<1> HIDE DEF q
<1>8. MadeOf(q, s, I)
  BY <1>4, <1>5, <1>6 DEF MadeOf
<1>9. ASSUME Apiece(s, I) PROVE Once(q)
  <2> SUFFICES ASSUME NEW n \in 1 .. C, NEW m \in 1 .. C, q[n] = q[m] PROVE n = m
    BY <1>6 DEF Once
  <2>1. at(n) = at(m)
    BY <1>4, <1>6, <1>9 DEF Apiece
  <2> QED  BY <1>4, <2>1
<1> QED  BY <1>1, <1>7, <1>8, <1>9

LEMMA DedupeIs ==
  ASSUME NEW T, NEW s \in Seq(T), NEW q, q = Bank!DedupeTokens(s)
  PROVE  q \in Seq(T) /\ Once(q) /\ MadeOf(q, s, DOMAIN s)
<1> DEFINE I == {i \in DOMAIN s : \A j \in 1 .. i - 1 : s[j] # s[i]}
<1>1. q = Bank!AtPlaces(s, I)
  BY DEF Bank!DedupeTokens
<1>2. I \in SUBSET DOMAIN s /\ DOMAIN s = 1 .. Len(s) /\ Len(s) \in Nat
  OBVIOUS
<1>3. Apiece(s, I)
  <2> SUFFICES ASSUME NEW i \in I, NEW j \in I, i < j PROVE s[i] # s[j]
    BY <1>2 DEF Apiece
  <2>1. i \in 1 .. j - 1
    BY <1>2
  <2> QED  BY <2>1
<1>4. ASSUME NEW i \in DOMAIN s PROVE \E j \in I : s[j] = s[i]
  <2> DEFINE E == {j \in DOMAIN s : s[j] = s[i]}
  <2>1. E \in SUBSET Nat /\ E # {}
    BY <1>2
  <2>2. PICK m \in E : \A n \in E : m <= n
    BY <2>1, SmallestOf
  <2>3. \A j \in 1 .. m - 1 : s[j] # s[m]
    <3> SUFFICES ASSUME NEW j \in 1 .. m - 1, s[j] = s[m] PROVE FALSE
      OBVIOUS
    <3>1. j \in E /\ j < m
      BY <1>2
    <3> QED  BY <1>2, <2>2, <3>1
  <2> QED  BY <2>3
<1> HIDE DEF I
<1>5. q \in Seq(T) /\ MadeOf(q, s, I) /\ (Apiece(s, I) => Once(q))
  BY <1>1, <1>2, PlacesAre
<1>6. MadeOf(q, s, DOMAIN s)
  BY <1>2, <1>4, <1>5 DEF MadeOf
<1> QED  BY <1>3, <1>5, <1>6

-----------------------------------------------------------------------------
(* The requests that connect and disconnect a bank. *)

LEMMA BankedBegins == ASSUME Bank!Init PROVE BankedInv
<1>1. vault = << >> /\ editor = [e \in Editors |-> Bank!IdleEditor] /\ linked = {} /\ tangled = FALSE
  BY DEF Bank!Init, Bank!TokensInit
<1>2. Bank!IdleEditor \in AnyEditor /\ Bank!IdleEditor.pc = "idle" /\ Once(Bank!IdleEditor.read)
  BY DEF Bank!IdleEditor, AnyEditor, Once
<1>3. vault \in Seq(Tokens) /\ Once(vault) /\ Has(vault) = {}
  BY <1>1 DEF Once, Has
<1> QED  BY <1>1, <1>2, <1>3 DEF BankedInv

LEMMA BankedReads ==
  ASSUME BankedInv, NEW e \in Editors, NEW pc \in {"add", "remove"}, NEW t \in Tokens, Bank!ReadTokens(e, pc, t)
  PROVE  BankedInv'
<1> DEFINE r == [pc |-> pc, token |-> t, read |-> vault]
<1>1. /\ editor[e].pc = "idle" /\ editor' = [editor EXCEPT ![e] = r]
      /\ tangled' = (tangled \/ \E d \in Editors : editor[d].pc # "idle")
      /\ vault' = vault /\ linked' = linked
  BY DEF Bank!ReadTokens
<1>2. r \in AnyEditor /\ r.pc = pc /\ r.token = t /\ r.read = vault
  BY DEF BankedInv, AnyEditor
<1> HIDE DEF r
<1>3. editor' \in [Editors -> AnyEditor] /\ \A d \in Editors : editor'[d] = IF d = e THEN r ELSE editor[d]
  BY <1>1, <1>2 DEF BankedInv
<1>4. tangled' \in BOOLEAN
  BY <1>1
<1>5. \A d \in Editors : Once(editor'[d].read) /\ (editor'[d].pc # "idle" => editor'[d].token \in Tokens)
  BY <1>2, <1>3 DEF BankedInv
<1>6. ASSUME ~tangled'
      PROVE  /\ Has(vault) = linked
             /\ \A d \in Editors : editor'[d].pc # "idle" => d = e /\ editor'[d].read = vault
  <2>1. ~tangled /\ \A d \in Editors : editor[d].pc = "idle"
    BY <1>1, <1>6
  <2> QED  BY <1>2, <1>3, <2>1 DEF BankedInv
<1>7. \A d \in Editors : d # e => editor'[d] = editor[d]
  BY <1>3
<1> QED  BY <1>1, <1>3, <1>4, <1>5, <1>6 DEF BankedInv, Has, Once

\* What an answered request leaves.
LEMMA BankedWrites ==
  ASSUME BankedInv, NEW e \in Editors, Bank!WriteTokens(e)
  PROVE  /\ vault' \in Seq(Tokens) /\ Once(vault')
         /\ ~tangled => Has(vault') = linked'
<1> DEFINE t == editor[e].token  read == editor[e].read  keep == {i \in DOMAIN read : read[i] # t}
<1>1. editor[e].pc \in {"add", "remove"} /\ t \in Tokens /\ read \in Seq(Tokens) /\ Once(read)
  BY DEF BankedInv, AnyEditor, Bank!WriteTokens
<1>2. ~tangled => Has(read) = linked
  BY <1>1 DEF BankedInv
<1>3. CASE editor[e].pc = "add"
  <2> DEFINE s == Append(read, t)
  <2>1. vault' = Bank!DedupeTokens(s) /\ linked' = linked \cup {t}
    BY <1>3 DEF Bank!WriteTokens
  <2>2. s \in Seq(Tokens) /\ DOMAIN s = 1 .. Len(read) + 1 /\ s[Len(read) + 1] = t
        /\ DOMAIN read = 1 .. Len(read) /\ Len(read) \in Nat /\ \A i \in 1 .. Len(read) : s[i] = read[i]
    BY <1>1
  <2> HIDE DEF s, t, read
  <2>3. vault' \in Seq(Tokens) /\ Once(vault') /\ MadeOf(vault', s, DOMAIN s)
    BY <2>1, <2>2, DedupeIs
  <2>4. Has(vault') = Has(read) \cup {t}
    <3>1. \A x \in Has(vault') : x \in Has(read) \cup {t}
      BY <2>2, <2>3 DEF Has, MadeOf
    <3>2. \A i \in DOMAIN s : s[i] \in Has(vault')
      BY <2>3 DEF Has, MadeOf
    <3>3. t \in Has(vault')
      BY <2>2, <3>2
    <3>4. \A x \in Has(read) : x \in Has(vault')
      BY <2>2, <3>2 DEF Has
    <3> QED  BY <3>1, <3>3, <3>4
  <2> QED  BY <1>2, <2>1, <2>3, <2>4
<1>4. CASE editor[e].pc = "remove"
  <2>1. vault' = Bank!AtPlaces(read, keep) /\ linked' = linked \ {t}
    BY <1>4 DEF Bank!WriteTokens
  <2>2. keep \in SUBSET DOMAIN read /\ Apiece(read, keep)
    BY <1>1 DEF Apiece, Once
  <2>3. \A i : i \in keep <=> i \in DOMAIN read /\ read[i] # t
    OBVIOUS
  <2> HIDE DEF keep, t, read
  <2>4. vault' \in Seq(Tokens) /\ MadeOf(vault', read, keep) /\ (Apiece(read, keep) => Once(vault'))
    BY <1>1, <2>1, <2>2, PlacesAre
  <2>5. Has(vault') = Has(read) \ {t}
    <3>1. \A x \in Has(vault') : x \in Has(read) /\ x # t
      BY <2>3, <2>4 DEF Has, MadeOf
    <3>2. \A x \in Has(read) : x # t => x \in Has(vault')
      BY <2>3, <2>4 DEF Has, MadeOf
    <3> QED  BY <3>1, <3>2
  <2> QED  BY <1>2, <2>1, <2>2, <2>4, <2>5
<1> QED  BY <1>1, <1>3, <1>4

LEMMA BankedAnswers ==
  ASSUME BankedInv, NEW e \in Editors, Bank!WriteTokens(e) \/ Bank!WriteFails(e)
  PROVE  BankedInv'
<1>1. editor[e].pc # "idle" /\ editor' = [editor EXCEPT ![e] = Bank!IdleEditor] /\ tangled' = tangled
  BY DEF Bank!WriteTokens, Bank!WriteFails
<1>2. Bank!IdleEditor \in AnyEditor /\ Bank!IdleEditor.pc = "idle" /\ Once(Bank!IdleEditor.read)
  BY DEF Bank!IdleEditor, AnyEditor, Once
<1>3. /\ editor' \in [Editors -> AnyEditor]
      /\ \A d \in Editors : editor'[d] = IF d = e THEN Bank!IdleEditor ELSE editor[d]
  BY <1>1, <1>2 DEF BankedInv
<1>4. \A d \in Editors : Once(editor'[d].read) /\ (editor'[d].pc # "idle" => editor'[d].token \in Tokens)
  BY <1>2, <1>3 DEF BankedInv
<1>5. ~tangled => \A d \in Editors : editor'[d].pc = "idle"
  BY <1>1, <1>2, <1>3 DEF BankedInv
<1>6. vault' \in Seq(Tokens) /\ Once(vault') /\ (~tangled => Has(vault') = linked')
  <2>1. CASE Bank!WriteTokens(e)
    BY <2>1, BankedWrites
  <2>2. CASE Bank!WriteFails(e)
    BY <2>2 DEF Bank!WriteFails, BankedInv, Has, Once
  <2> QED  BY <2>1, <2>2
<1>7. tangled' \in BOOLEAN
  BY <1>1 DEF BankedInv
<1> QED  BY <1>1, <1>3, <1>4, <1>5, <1>6, <1>7 DEF BankedInv, Has, Once

LEMMA BankedStays == ASSUME BankedInv, UNCHANGED Bank!editVars PROVE BankedInv'
BY DEF BankedInv, Bank!editVars, Has, Once

LEMMA BankedGoesOn == ASSUME BankedInv, [Bank!Next]_Bank!vars PROVE BankedInv'
<1>1. CASE Bank!TokensNext
  <2>1. PICK e \in Editors : \/ \E t \in Tokens : Bank!SetCredential(e, t) \/ Bank!RemoveCredential(e, t)
                             \/ Bank!WriteTokens(e) \/ Bank!WriteFails(e)
    BY <1>1 DEF Bank!TokensNext
  <2>2. CASE \E t \in Tokens : Bank!SetCredential(e, t) \/ Bank!RemoveCredential(e, t)
    BY <2>2, BankedReads DEF Bank!SetCredential, Bank!RemoveCredential
  <2> QED  BY <2>1, <2>2, BankedAnswers
<1>2. CASE UNCHANGED Bank!editVars
  BY <1>2, BankedStays
<1>3. Bank!TokensNext \/ UNCHANGED Bank!editVars
  BY DEF Bank!Next, Bank!vars, Bank!Post, Bank!FetchBegins, Bank!ListAccounts, Bank!TakeAccount, Bank!TransactionsPage,
         Bank!FetchEnds, Bank!Taken
<1> QED  BY <1>1, <1>2, <1>3

LEMMA ResolvedIs ==
  ASSUME Config \in Seq(Tokens), BankedInv, NEW q, q = Bank!ResolveTokens
  PROVE  q \in Seq(Tokens) /\ Once(q) /\ \A x \in Has(q) : x \in Has(Config) \/ x \in Has(vault)
<1> DEFINE s == Config \o vault
<1>1. /\ s \in Seq(Tokens) /\ DOMAIN s = 1 .. Len(Config) + Len(vault)
      /\ Len(Config) \in Nat /\ Len(vault) \in Nat /\ DOMAIN Config = 1 .. Len(Config) /\ DOMAIN vault = 1 .. Len(vault)
      /\ \A i \in DOMAIN s : s[i] = IF i <= Len(Config) THEN Config[i] ELSE vault[i - Len(Config)]
  BY DEF BankedInv
<1>2. q = Bank!DedupeTokens(s)
  BY DEF Bank!ResolveTokens
<1> HIDE DEF s
<1>3. q \in Seq(Tokens) /\ Once(q) /\ MadeOf(q, s, DOMAIN s)
  BY <1>1, <1>2, DedupeIs
<1>4. ASSUME NEW i \in DOMAIN s PROVE s[i] \in Has(Config) \/ s[i] \in Has(vault)
  <2>1. CASE i <= Len(Config)
    BY <1>1, <2>1 DEF Has
  <2>2. CASE ~(i <= Len(Config))
    <3>1. i - Len(Config) \in DOMAIN vault
      BY <1>1, <2>2
    <3> QED  BY <1>1, <2>2, <3>1 DEF Has
  <2> QED  BY <2>1, <2>2
<1>5. \A x \in Has(q) : \E i \in DOMAIN s : x = s[i]
  BY <1>3 DEF Has, MadeOf
<1> QED  BY <1>3, <1>4, <1>5

LEMMA BankedMeansIt == ASSUME Config \in Seq(Tokens), BankedInv PROVE Bank!TokensAsAsked
<1> SUFFICES ASSUME ~tangled
             PROVE  /\ Bank!ToSet(vault) = linked /\ Bank!IsInjective(Bank!ResolveTokens)
                    /\ \A t \in DOMAIN Bank!ListCredentials : Bank!ListCredentials[t] => t \in linked
  BY DEF Bank!TokensAsAsked
<1> DEFINE q == Bank!ResolveTokens
<1>1. q \in Seq(Tokens) /\ Once(q) /\ \A x \in Has(q) : x \in Has(Config) \/ x \in Has(vault)
  BY ResolvedIs
<1>2. Bank!ToSet(vault) = Has(vault) /\ Bank!ToSet(q) = Has(q) /\ Bank!ToSet(Config) = Has(Config)
  BY DEF Bank!ToSet, Has
<1>3. Has(vault) = linked
  BY DEF BankedInv
<1>4. Bank!ListCredentials = [t \in Has(q) |-> t \notin Has(Config)]
  BY <1>2 DEF Bank!ListCredentials
<1> HIDE DEF q
<1>5. Bank!IsInjective(q)
  BY <1>1 DEF Bank!IsInjective, Once
<1> QED  BY <1>1, <1>2, <1>3, <1>4, <1>5 DEF q

-----------------------------------------------------------------------------
(* The walk of an account. *)

LEMMA MinIs == ASSUME NEW S \in SUBSET Nat, S # {} PROVE Bank!Min(S) \in S /\ \A n \in S : Bank!Min(S) <= n
BY SmallestOf DEF Bank!Min

\* The newest transaction a page can have.
PageTop(a, from, inclusive) == IF from = 0 THEN posted[a] ELSE IF inclusive THEN from ELSE from - 1

LEMMA PageIs ==
  ASSUME BankSizes, NEW top \in 0 .. MaxTxns, NEW items \in SUBSET Nat,
         \A n \in Nat : n \in items <=> 1 <= n /\ n <= top /\ n > top - PageCount
  PROVE  /\ items = {} => top = 0
         /\ items # {} => /\ Bank!Min(items) \in items /\ \A n \in items : Bank!Min(items) <= n
                          /\ Bank!Min(items) > 1 => Bank!Min(items) <= top - (PageCount - 1)
<1>1. top \in 0 .. MaxTxns
  BY DEF BankSizes
<1>3. \A n \in Nat : n \in items <=> 1 <= n /\ n <= top /\ n > top - PageCount
  OBVIOUS
<1>4. items \in SUBSET Nat
  OBVIOUS
<1>5. items = {} => top = 0
  <2> SUFFICES ASSUME top # 0 PROVE top \in items
    OBVIOUS
  <2> QED  BY <1>1, <1>3 DEF BankSizes
<1>6. ASSUME items # {}
      PROVE  /\ Bank!Min(items) \in items /\ \A n \in items : Bank!Min(items) <= n
             /\ Bank!Min(items) > 1 => Bank!Min(items) <= top - (PageCount - 1)
  <2> DEFINE m == Bank!Min(items)
  <2>1. m \in items /\ \A n \in items : m <= n
    BY <1>4, <1>6, MinIs
  <2> HIDE DEF m
  <2>2. ASSUME m > 1 PROVE m <= top - (PageCount - 1)
    <3>1. CASE top - (PageCount - 1) >= 1
      <4>1. top - (PageCount - 1) \in items
        BY <1>1, <1>3, <3>1 DEF BankSizes
      <4> QED  BY <2>1, <4>1
    <3>2. CASE top - (PageCount - 1) < 1
      <4>1. m \in Nat /\ m <= top
        BY <1>3, <1>4, <2>1
      <4>2. 1 \in items
        BY <1>1, <1>3, <2>2, <3>2, <4>1 DEF BankSizes
      <4> QED  BY <1>4, <2>1, <2>2, <4>1, <4>2
    <3> QED  BY <1>1, <3>1, <3>2 DEF BankSizes
  <2> QED  BY <2>1, <2>2 DEF m
<1> QED  BY <1>1, <1>3, <1>4, <1>5, <1>6

\* The pages of a walk reach out of the window.
LEMMA PagesReach ==
  ASSUME BankSizes, NEW page \in Nat
  PROVE  /\ page * (PageCount - 1) \in Nat
         /\ (page + 1) * (PageCount - 1) = page * (PageCount - 1) + (PageCount - 1)
         /\ page + 1 = MaxPages => (page + 1) * (PageCount - 1) >= MaxTxns - Since
<1> DEFINE d == PageCount - 1
<1>1. d \in Nat
  BY DEF BankSizes
<1>2. page + 1 = MaxPages => (page + 1) * d >= MaxTxns - Since
  BY DEF BankSizes
<1> HIDE DEF d
<1>3. page * d \in Nat /\ (page + 1) * d = page * d + d
  BY <1>1
<1> QED  BY <1>2, <1>3 DEF d

LEMMA LastIsWhole ==
  ASSUME BankSizes, posted \in [Accounts -> 0 .. MaxTxns], NEW f \in AnyFetch, f.acct \in Accounts, WalkOn(f, posted),
         NEW inclusive \in BOOLEAN, NEW items, items = Bank!PageFrom(f.acct, f.from, inclusive),
         Bank!LastPage(items, f.got, f.from) \/ f.page + 1 = MaxPages,
         NEW n \in Since .. f.had
  PROVE  n \in f.got \/ n \in items
<1> DEFINE top == PageTop(f.acct, f.from, inclusive)  from == f.from
<1>1. /\ f.from \in Nat /\ f.page \in Nat /\ f.had \in Nat /\ f.got \in SUBSET Nat /\ n \in Nat /\ n >= 1 /\ n >= Since
      /\ Since \in Nat /\ MaxTxns \in Nat /\ PageCount \in Nat /\ PageCount >= 2 /\ n <= f.had
  BY DEF AnyFetch, BankSizes
<1>2. /\ top \in 0 .. MaxTxns /\ items \in SUBSET Nat
      /\ \A k \in Nat : k \in items <=> 1 <= k /\ k <= top /\ k > top - PageCount
      /\ items = {} => top = 0
      /\ items # {} => Bank!Min(items) \in items /\ \A k \in items : Bank!Min(items) <= k
  <2>1. f.from <= MaxTxns
    BY DEF WalkOn
  <2>2. top \in 0 .. MaxTxns /\ items = {k \in 1 .. top : k > top - PageCount}
    BY <1>1, <2>1 DEF PageTop, Bank!PageFrom
  <2> HIDE DEF top
  <2>4. /\ items \in SUBSET Nat
        /\ \A k \in Nat : k \in items <=> 1 <= k /\ k <= top /\ k > top - PageCount
    BY <1>1, <2>2
  <2>3. /\ items = {} => top = 0
        /\ items # {} => /\ Bank!Min(items) \in items /\ \A k \in items : Bank!Min(items) <= k
                         /\ Bank!Min(items) > 1 => Bank!Min(items) <= top - (PageCount - 1)
    BY <2>2, <2>4, PageIs
  <2> QED  BY <2>2, <2>3, <2>4
<1>3. top = IF from = 0 THEN posted[f.acct] ELSE IF inclusive THEN from ELSE from - 1
  BY DEF PageTop
<1>4. SUFFICES ASSUME n \notin f.got PROVE n \in items
  OBVIOUS
<1>5. n <= top
  BY <1>1, <1>3, <1>4 DEF WalkOn
<1>6. items # {}
  BY <1>1, <1>2, <1>5
<1> HIDE DEF top
<1>7. SUFFICES n > top - PageCount
  BY <1>1, <1>2, <1>5
\* Below the cursor there is nothing yet.
<1>8. \A k \in f.got : from > 0 /\ k >= from
  BY DEF WalkOn
<1>9. CASE \E k \in items : k < Since
  <2>1. PICK k \in items : k < Since
    BY <1>9
  <2>2. k \in Nat /\ k > top - PageCount
    BY <1>2, <2>1
  <2> QED  BY <1>1, <1>2, <2>1, <2>2
<1>10. CASE items \subseteq f.got \/ Bank!Min(items) = from
  <2>1. from > 0 /\ \A k \in items : k >= from
    <3>1. CASE items \subseteq f.got
      BY <1>6, <1>8, <3>1
    <3>2. CASE Bank!Min(items) = from
      <4>1. Bank!Min(items) \in items /\ Bank!Min(items) \in Nat /\ Bank!Min(items) >= 1
        BY <1>2, <1>6
      <4> QED  BY <1>2, <1>6, <3>2, <4>1
    <3> QED  BY <1>10, <3>1, <3>2
  <2>2. n < from
    BY <1>1, <1>4, <2>1 DEF WalkOn
  <2>3. from - 1 \in Nat /\ from - 1 >= 1 /\ from - 1 <= top /\ from - 1 > top - PageCount
    BY <1>1, <1>3, <2>1, <2>2
  <2>4. from - 1 \in items
    BY <1>2, <2>3
  <2> QED  BY <1>1, <2>1, <2>4
<1>11. CASE f.page + 1 = MaxPages
  <2>1. /\ f.page * (PageCount - 1) \in Nat
        /\ f.page * (PageCount - 1) + (PageCount - 1) >= MaxTxns - Since
    BY <1>1, <1>11, PagesReach
  <2> DEFINE x == f.page * (PageCount - 1)
  <2>2. from > 1 => from + x <= MaxTxns
    BY DEF WalkOn
  <2>3. from = 0 => x = 0
    <3>1. from = 0 => f.page = 0
      BY DEF WalkOn
    <3> QED  BY <1>1, <3>1
  <2>4. x \in Nat /\ x + (PageCount - 1) >= MaxTxns - Since
    BY <2>1
  <2> HIDE DEF x
  <2>5. CASE from = 0
    BY <1>1, <1>2, <2>3, <2>4, <2>5
  <2>6. CASE from = 1
    BY <1>1, <1>2, <1>3, <2>6
  <2>7. CASE from > 1
    BY <1>1, <1>2, <1>3, <2>2, <2>4, <2>7
  <2> QED  BY <1>1, <2>5, <2>6, <2>7
<1> QED  BY <1>6, <1>9, <1>10, <1>11 DEF Bank!LastPage

-----------------------------------------------------------------------------
(* The steps of a fetch. *)

LEMMA WalkedAppends ==
  \A b \in Seq(AcctRow), r \in AcctRow : Append(b, r) \in Seq(AcctRow) /\ Walked(Append(b, r)) = Walked(b) \cup {r.acct}
<1> SUFFICES ASSUME NEW b \in Seq(AcctRow), NEW r \in AcctRow, NEW c, c = Append(b, r)
             PROVE  c \in Seq(AcctRow) /\ Walked(c) = Walked(b) \cup {r.acct}
  OBVIOUS
<1>1. /\ c \in Seq(AcctRow) /\ Len(b) \in Nat /\ DOMAIN b = 1 .. Len(b) /\ DOMAIN c = 1 .. Len(b) + 1
      /\ \A i \in DOMAIN c : c[i] = IF i = Len(b) + 1 THEN r ELSE b[i]
  OBVIOUS
<1>2. \A x \in Walked(c) : x \in Walked(b) \cup {r.acct}
  BY <1>1 DEF Walked
<1>3. r.acct \in Walked(c)
  BY <1>1 DEF Walked
<1>4. \A x \in Walked(b) : x \in Walked(c)
  BY <1>1 DEF Walked
<1> QED  BY <1>1, <1>2, <1>3, <1>4

\* A fetch that has done with an account, and what follows.
LEMMA AfterIs ==
  ASSUME NEW g \in AnyFetch, g.tokens # << >>, Accounted([g EXCEPT !.pc = "token"]),
         NEW f, f = Bank!AfterAccount(g)
  PROVE  FetchOk(f, posted)
<1>1. CASE g.accts # {}
  <2>1. f = [g EXCEPT !.pc = "account"]
    BY <1>1 DEF Bank!AfterAccount
  <2>2. f \in AnyFetch
    BY <2>1 DEF AnyFetch
  <2>3. /\ f.pc = "account" /\ f.tokens = g.tokens /\ f.accts = g.accts /\ f.seen = g.seen /\ f.broken = g.broken
        /\ f.batch = g.batch
    BY <2>1 DEF AnyFetch
  <2> QED  BY <2>2, <2>3 DEF FetchOk, Accounted, AnyFetch
<1>2. CASE g.accts = {}
  <2> DEFINE h == [g EXCEPT !.pc = "token"]
  <2>1. f = [h EXCEPT !.tokens = Tail(g.tokens)]
    BY <1>2 DEF Bank!AfterAccount, AnyFetch
  <2>2. h \in AnyFetch /\ Tail(g.tokens) \in Seq(Tokens)
    <3>1. g.tokens \in Seq(Tokens)
      BY DEF AnyFetch
    <3>2. Tail(g.tokens) \in Seq(Tokens)
      BY <3>1
    <3>3. h \in AnyFetch
      BY DEF AnyFetch
    <3> QED  BY <3>2, <3>3
  <2>3. /\ h.pc = "token" /\ h.accts = g.accts /\ h.seen = g.seen /\ h.broken = g.broken
        /\ h.batch = g.batch
    BY DEF AnyFetch
  <2> HIDE DEF h
  <2>4. f \in AnyFetch
    BY <2>1, <2>2 DEF AnyFetch
  <2>5. /\ f.pc = "token" /\ f.accts = g.accts /\ f.seen = g.seen /\ f.broken = g.broken
        /\ f.batch = g.batch
    BY <2>1, <2>2, <2>3 DEF AnyFetch
  <2>6. Accounted(h)
    BY DEF h
  <2> QED  BY <2>3, <2>4, <2>5, <2>6 DEF FetchOk, Accounted
<1> QED  BY <1>1, <1>2

LEMMA FetchBegun == ASSUME BankSizes, Bank!Init PROVE FetchInv
<1> DEFINE f == Bank!IdleFetch
<1>1. fetch = f /\ posted = [a \in Accounts |-> MaxTxns - 1]
  BY DEF Bank!Init
<1>2. f \in AnyFetch /\ f.pc = "idle" /\ f.accts = {} /\ f.seen = {} /\ f.broken = {} /\ f.batch = << >>
  <2>1. << >> \in Seq(AcctRow) /\ << >> \in Seq(Tokens)
    OBVIOUS
  <2> QED  BY <2>1 DEF Bank!IdleFetch, AnyFetch
<1> HIDE DEF f
<1>3. posted \in [Accounts -> 0 .. MaxTxns]
  BY <1>1 DEF BankSizes
<1>4. Walked(<< >>) = {}
  BY DEF Walked
<1> QED  BY <1>1, <1>2, <1>3, <1>4 DEF FetchInv, FetchOk, Accounted

LEMMA FetchStarts == ASSUME BankSizes, BankedInv, FetchInv, Bank!FetchBegins PROVE FetchInv'
<1> DEFINE f == Bank!IdleFetch  g == [f EXCEPT !.pc = "token"]  q == Bank!ResolveTokens
<1>1. fetch' = [g EXCEPT !.tokens = q] /\ posted' = posted
  BY DEF Bank!FetchBegins, Bank!IdleFetch
<1>2. f \in AnyFetch /\ f.pc = "idle" /\ f.accts = {} /\ f.seen = {} /\ f.broken = {} /\ f.batch = << >>
  <2>1. << >> \in Seq(AcctRow) /\ << >> \in Seq(Tokens)
    OBVIOUS
  <2> QED  BY <2>1 DEF Bank!IdleFetch, AnyFetch
<1>3. q \in Seq(Tokens)
  BY ResolvedIs DEF BankSizes
<1> HIDE DEF f, q
<1>4. g \in AnyFetch /\ g.pc = "token" /\ g.accts = {} /\ g.seen = {} /\ g.broken = {} /\ g.batch = << >>
  BY <1>2 DEF AnyFetch
<1> HIDE DEF g
<1>5. /\ fetch' \in AnyFetch /\ fetch'.pc = "token" /\ fetch'.accts = {} /\ fetch'.seen = {} /\ fetch'.broken = {}
      /\ fetch'.batch = << >>
  BY <1>1, <1>3, <1>4 DEF AnyFetch
<1>6. Walked(<< >>) = {}
  BY DEF Walked
<1>7. FetchOk(fetch', posted')
  BY <1>5, <1>6 DEF FetchOk, Accounted
<1> QED  BY <1>1, <1>7 DEF FetchInv

LEMMA FetchLists == ASSUME BankSizes, FetchInv, Bank!ListAccounts PROVE FetchInv'
<1>1. /\ fetch.pc = "token" /\ fetch.tokens # << >> /\ posted' = posted /\ fetch \in AnyFetch /\ Accounted(fetch)
      /\ fetch.tokens \in Seq(Tokens) /\ fetch.errs \in Nat /\ fetch.seen \in SUBSET Accounts
  BY DEF Bank!ListAccounts, FetchInv, FetchOk, AnyFetch
<1>2. Tail(fetch.tokens) \in Seq(Tokens) /\ Head(fetch.tokens) \in Tokens
  BY <1>1
<1>3. CASE fetch' = [fetch EXCEPT !.tokens = Tail(@), !.errs = @ + 1]
  <2> DEFINE g == [fetch EXCEPT !.tokens = Tail(fetch.tokens)]
  <2>1. g \in AnyFetch /\ g.errs = fetch.errs
    BY <1>1, <1>2 DEF AnyFetch
  <2>2. /\ g.pc = "token" /\ g.accts = fetch.accts /\ g.seen = fetch.seen /\ g.broken = fetch.broken
        /\ g.batch = fetch.batch
    BY <1>1 DEF AnyFetch
  <2>3. fetch' = [g EXCEPT !.errs = fetch.errs + 1]
    BY <1>1, <1>3 DEF AnyFetch
  <2> HIDE DEF g
  <2>4. fetch' \in AnyFetch
    <3>1. fetch.errs + 1 \in Nat
      BY <1>1
    <3> QED  BY <2>1, <2>3, <3>1 DEF AnyFetch
  <2>5. /\ fetch'.pc = "token" /\ fetch'.accts = fetch.accts /\ fetch'.seen = fetch.seen /\ fetch'.broken = fetch.broken
        /\ fetch'.batch = fetch.batch
    BY <2>1, <2>2, <2>3 DEF AnyFetch
  <2>6. FetchOk(fetch', posted')
    BY <1>1, <2>4, <2>5 DEF FetchOk, Accounted
  <2> QED  BY <1>1, <2>6 DEF FetchInv
<1>4. CASE fetch' # [fetch EXCEPT !.tokens = Tail(@), !.errs = @ + 1]
  <2> DEFINE new == Sees[Head(fetch.tokens)] \ fetch.seen
             pc == IF new = {} THEN "token" ELSE "account"
             rest == IF new = {} THEN Tail(fetch.tokens) ELSE fetch.tokens
             g == [fetch EXCEPT !.pc = pc]
             h == [g EXCEPT !.tokens = rest]
  <2>1. fetch' = [fetch EXCEPT !.pc = pc, !.tokens = rest, !.accts = new]
    BY <1>1, <1>4 DEF Bank!ListAccounts, AnyFetch
  <2>2. new \in SUBSET Accounts /\ new \cap fetch.seen = {}
    BY <1>1, <1>2 DEF BankSizes
  <2>3. pc \in {"token", "account"} /\ rest \in Seq(Tokens) /\ (pc = "account" => rest # << >>)
    BY <1>1, <1>2
  <2> HIDE DEF new, pc, rest
  <2>4. g \in AnyFetch /\ h \in AnyFetch /\ fetch' = [h EXCEPT !.accts = new]
    BY <1>1, <2>1, <2>3 DEF AnyFetch
  <2>5. /\ h.pc = pc /\ h.tokens = rest /\ h.seen = fetch.seen /\ h.broken = fetch.broken /\ h.batch = fetch.batch
    BY <1>1 DEF AnyFetch
  <2> HIDE DEF g, h
  <2>6. fetch' \in AnyFetch
    BY <2>2, <2>4 DEF AnyFetch
  <2>7. /\ fetch'.pc = pc /\ fetch'.tokens = rest /\ fetch'.accts = new /\ fetch'.seen = fetch.seen
        /\ fetch'.broken = fetch.broken /\ fetch'.batch = fetch.batch
    BY <2>4, <2>5 DEF AnyFetch
  <2>8. FetchOk(fetch', posted')
    BY <1>1, <2>2, <2>3, <2>6, <2>7 DEF FetchOk, Accounted
  <2> QED  BY <1>1, <2>8 DEF FetchInv
<1> QED  BY <1>3, <1>4

LEMMA FetchTakes == ASSUME BankSizes, FetchInv, Bank!TakeAccount PROVE FetchInv'
<1>1. /\ fetch.pc = "account" /\ posted' = posted /\ fetch \in AnyFetch /\ Accounted(fetch)
      /\ fetch.tokens # << >> /\ posted \in [Accounts -> 0 .. MaxTxns]
  BY DEF Bank!TakeAccount, FetchInv, FetchOk, Accounted
<1>2. PICK a \in fetch.accts :
        fetch' = [fetch EXCEPT !.pc = "page", !.acct = a, !.accts = fetch.accts \ {a}, !.seen = fetch.seen \cup {a},
                               !.from = 0, !.page = 0, !.got = {}, !.had = posted[a]]
  BY <1>1 DEF Bank!TakeAccount, AnyFetch
<1>3. a \in Accounts /\ a \notin fetch.seen /\ fetch.accts \in SUBSET Accounts /\ fetch.seen \in SUBSET Accounts
  BY <1>1, <1>2 DEF AnyFetch, Accounted
<1>4. posted[a] \in 0 .. MaxTxns /\ posted[a] \in Nat
  BY <1>1, <1>3 DEF BankSizes
<1>5. /\ fetch'.pc = "page" /\ fetch'.acct = a /\ fetch'.accts = fetch.accts \ {a}
      /\ fetch'.seen = fetch.seen \cup {a} /\ fetch'.from = 0 /\ fetch'.page = 0 /\ fetch'.got = {} /\ fetch'.had = posted[a]
      /\ fetch'.tokens = fetch.tokens /\ fetch'.broken = fetch.broken /\ fetch'.batch = fetch.batch /\ fetch'.errs = fetch.errs
  BY <1>1, <1>2 DEF AnyFetch
<1>6. fetch' \in AnyFetch
  <2> DEFINE f1 == [fetch EXCEPT !.pc = "page", !.acct = a]
             f2 == [f1 EXCEPT !.accts = fetch.accts \ {a}]
             f3 == [f2 EXCEPT !.seen = fetch.seen \cup {a}]
             f4 == [f3 EXCEPT !.from = 0, !.page = 0]
             f5 == [f4 EXCEPT !.got = {}]
  <2>1. f1 \in AnyFetch
    BY <1>1, <1>3 DEF AnyFetch
  <2>2. f2 \in AnyFetch
    <3> HIDE DEF f1
    <3> QED  BY <1>3, <2>1 DEF AnyFetch
  <2>3. f3 \in AnyFetch
    <3> HIDE DEF f2
    <3> QED  BY <1>3, <2>2 DEF AnyFetch
  <2>4. f4 \in AnyFetch
    <3> HIDE DEF f3
    <3> QED  BY <2>3 DEF AnyFetch
  <2>5. f5 \in AnyFetch
    <3> HIDE DEF f4
    <3> QED  BY <2>4 DEF AnyFetch
  <2>6. fetch' = [f5 EXCEPT !.had = posted[a]]
    BY <1>1, <1>2 DEF AnyFetch
  <2> HIDE DEF f5
  <2> QED  BY <1>4, <2>5, <2>6 DEF AnyFetch
<1>7. Accounted(fetch')
  BY <1>1, <1>2, <1>3, <1>5 DEF Accounted
<1>8. WalkOn(fetch', posted)
  BY <1>4, <1>5 DEF WalkOn, BankSizes
<1> QED  BY <1>1, <1>6, <1>7, <1>8 DEF FetchInv, FetchOk

\* The account is in the batch with its window, or has failed: either way it is accounted for.
LEMMA FetchAdds ==
  ASSUME BankSizes, FetchInv, fetch.pc = "page", NEW r \in AcctRow, r.acct = fetch.acct, Whole(r),
         fetch' = Bank!AfterAccount([fetch EXCEPT !.batch = Append(@, r)]), posted' = posted
  PROVE  FetchInv'
<1> DEFINE b == Append(fetch.batch, r)
           g == [fetch EXCEPT !.batch = b]
           h == [g EXCEPT !.pc = "token"]
<1>1. /\ fetch \in AnyFetch /\ Accounted(fetch) /\ WalkOn(fetch, posted) /\ fetch.batch \in Seq(AcctRow)
      /\ fetch.tokens # << >> /\ fetch.acct \in fetch.seen
  BY DEF FetchInv, FetchOk, AnyFetch, Accounted, WalkOn
<1>2. /\ b \in Seq(AcctRow) /\ Walked(b) = Walked(fetch.batch) \cup {r.acct}
      /\ Len(fetch.batch) \in Nat /\ DOMAIN fetch.batch = 1 .. Len(fetch.batch) /\ DOMAIN b = 1 .. Len(fetch.batch) + 1
      /\ \A i \in DOMAIN b : b[i] = IF i = Len(fetch.batch) + 1 THEN r ELSE fetch.batch[i]
  <2>1. b \in Seq(AcctRow) /\ Walked(b) = Walked(fetch.batch) \cup {r.acct}
    BY <1>1, WalkedAppends
  <2> QED  BY <1>1, <2>1
<1>3. fetch' = Bank!AfterAccount(g)
  BY <1>1 DEF AnyFetch
<1> HIDE DEF b
<1>4. g \in AnyFetch /\ g.tokens = fetch.tokens
  BY <1>1, <1>2 DEF AnyFetch
<1>5. /\ h.pc = "token" /\ h.accts = fetch.accts /\ h.seen = fetch.seen /\ h.broken = fetch.broken /\ h.batch = b
  BY <1>1 DEF AnyFetch
<1>6. \A x \in Walked(fetch.batch) : x # r.acct /\ x \notin fetch.broken
  BY <1>1 DEF Accounted
<1>7. r.acct \notin fetch.broken
  BY <1>1 DEF Accounted
<1>8. Walked(b) \cap h.broken = {} /\ Walked(b) \cup h.broken = h.seen /\ h.accts \cap h.seen = {}
  BY <1>1, <1>2, <1>5, <1>6, <1>7 DEF Accounted
<1>9. \A i \in DOMAIN fetch.batch : fetch.batch[i].acct # r.acct
  BY <1>6 DEF Walked
<1>10. \A i, j \in DOMAIN b : b[i].acct = b[j].acct => i = j
  <2>1. ASSUME NEW i \in DOMAIN b, NEW j \in DOMAIN b, b[i].acct = b[j].acct PROVE i = j
    <3>1. CASE i \in DOMAIN fetch.batch /\ j \in DOMAIN fetch.batch
      BY <1>1, <1>2, <2>1, <3>1 DEF Accounted
    <3>2. CASE i \notin DOMAIN fetch.batch \/ j \notin DOMAIN fetch.batch
      BY <1>2, <1>9, <2>1, <3>2
    <3> QED  BY <3>1, <3>2
  <2> QED  BY <2>1
<1>11. \A i \in DOMAIN b : Whole(b[i])
  BY <1>1, <1>2 DEF Accounted
<1> HIDE DEF g
<1>12. Accounted(h)
  <2> HIDE DEF h
  <2> QED  BY <1>5, <1>8, <1>10, <1>11 DEF Accounted
<1>13. FetchOk(fetch', posted)
  BY <1>1, <1>3, <1>4, <1>12, AfterIs
<1> QED  BY <1>13 DEF FetchInv

LEMMA FetchDrops ==
  ASSUME BankSizes, FetchInv, fetch.pc = "page", posted' = posted,
         fetch' = Bank!AfterAccount([fetch EXCEPT !.errs = @ + 1, !.broken = @ \cup {fetch.acct}])
  PROVE  FetchInv'
<1> DEFINE c == fetch.broken \cup {fetch.acct}
           k == fetch.errs + 1
           e == [fetch EXCEPT !.errs = k]
           g == [e EXCEPT !.broken = c]
           h == [g EXCEPT !.pc = "token"]
<1>1. /\ fetch \in AnyFetch /\ Accounted(fetch) /\ WalkOn(fetch, posted) /\ fetch.errs \in Nat
      /\ fetch.tokens # << >> /\ fetch.acct \in fetch.seen /\ fetch.seen \in SUBSET Accounts /\ fetch.broken \in SUBSET Accounts
  BY DEF FetchInv, FetchOk, AnyFetch, Accounted, WalkOn
<1>2. c \in SUBSET Accounts /\ k \in Nat
  BY <1>1
<1>3. fetch' = Bank!AfterAccount(g)
  <2>1. [fetch EXCEPT !.errs = @ + 1, !.broken = @ \cup {fetch.acct}] = g
    BY <1>1 DEF AnyFetch
  <2> QED  BY <2>1
<1>4. \A x : x \in c <=> x \in fetch.broken \/ x = fetch.acct
  OBVIOUS
<1> HIDE DEF c, k
<1>5. e \in AnyFetch /\ e.tokens = fetch.tokens
  BY <1>1, <1>2 DEF AnyFetch
<1>6. /\ e.accts = fetch.accts /\ e.seen = fetch.seen /\ e.batch = fetch.batch
  BY <1>1 DEF AnyFetch
<1> HIDE DEF e
<1>7. g \in AnyFetch /\ g.tokens = fetch.tokens
  BY <1>2, <1>5 DEF AnyFetch
<1>8. /\ h.pc = "token" /\ h.accts = fetch.accts /\ h.seen = fetch.seen /\ h.broken = c /\ h.batch = fetch.batch
  BY <1>5, <1>6 DEF AnyFetch
<1> HIDE DEF g
<1>9. Accounted(h)
  <2> HIDE DEF h
  <2>1. Walked(fetch.batch) \cap c = {}
    BY <1>1, <1>4 DEF Accounted
  <2>2. Walked(fetch.batch) \cup c = fetch.seen
    BY <1>1, <1>4 DEF Accounted
  <2> QED  BY <1>1, <1>8, <2>1, <2>2 DEF Accounted
<1>10. FetchOk(fetch', posted)
  BY <1>1, <1>3, <1>7, <1>9, AfterIs
<1> QED  BY <1>10 DEF FetchInv

LEMMA WalkGoesOn ==
  ASSUME BankSizes, FetchInv, fetch.pc = "page", posted' = posted, NEW inclusive \in BOOLEAN,
         NEW items, items = Bank!PageFrom(fetch.acct, fetch.from, inclusive),
         ~Bank!LastPage(items, fetch.got, fetch.from), fetch.page + 1 # MaxPages,
         NEW got, got = fetch.got \cup {n \in items : n >= Since},
         fetch' = [fetch EXCEPT !.from = Bank!Min(items), !.got = got, !.page = @ + 1]
  PROVE  FetchInv'
<1> DEFINE from == fetch.from  top == PageTop(fetch.acct, from, inclusive)  m == Bank!Min(items)
<1>1. /\ fetch \in AnyFetch /\ Accounted(fetch) /\ WalkOn(fetch, posted) /\ fetch.acct \in Accounts
      /\ from \in Nat /\ fetch.page \in Nat /\ fetch.had \in Nat /\ fetch.got \in SUBSET Nat
  BY DEF FetchInv, FetchOk, AnyFetch, Accounted, WalkOn
<1>2. /\ Since \in Nat /\ Since >= 1 /\ MaxTxns \in Nat /\ PageCount \in Nat /\ PageCount >= 2 /\ MaxPages \in Nat
      /\ posted[fetch.acct] \in 0 .. MaxTxns
  BY <1>1 DEF BankSizes, FetchInv
<1>3. top = IF from = 0 THEN posted[fetch.acct] ELSE IF inclusive THEN from ELSE from - 1
  BY DEF PageTop
<1>4. top \in 0 .. MaxTxns /\ items = {k \in 1 .. top : k > top - PageCount}
  BY <1>1, <1>2 DEF WalkOn, PageTop, Bank!PageFrom
<1> HIDE DEF top
<1>5. items \in SUBSET Nat /\ \A k \in Nat : k \in items <=> 1 <= k /\ k <= top /\ k > top - PageCount
  BY <1>2, <1>4
<1>6. items # {} /\ \A k \in items : k >= Since
  BY <1>2, <1>5 DEF Bank!LastPage
<1>7. m \in items /\ (\A k \in items : m <= k) /\ (m > 1 => m <= top - (PageCount - 1))
  BY <1>4, <1>5, <1>6, PageIs
<1> DEFINE f1 == [fetch EXCEPT !.from = m]
           f2 == [f1 EXCEPT !.got = got]
<1>8. fetch' = [f2 EXCEPT !.page = fetch.page + 1]
  BY <1>1 DEF AnyFetch
<1> HIDE DEF m
<1>9. m \in Nat /\ m >= 1 /\ m <= top
  BY <1>5, <1>7
<1>10. got \in SUBSET Nat /\ \A k : k \in got <=> k \in fetch.got \/ k \in items
  BY <1>1, <1>5, <1>6
<1>11. f1 \in AnyFetch
  BY <1>1, <1>9 DEF AnyFetch
<1>12. f2 \in AnyFetch
  <2> HIDE DEF f1
  <2> QED  BY <1>10, <1>11 DEF AnyFetch
<1>13. fetch' \in AnyFetch
  <2> HIDE DEF f2
  <2>1. fetch.page + 1 \in Nat
    BY <1>1
  <2> QED  BY <1>8, <1>12, <2>1 DEF AnyFetch
<1>14. /\ fetch'.pc = "page" /\ fetch'.acct = fetch.acct /\ fetch'.accts = fetch.accts /\ fetch'.seen = fetch.seen
       /\ fetch'.from = m /\ fetch'.page = fetch.page + 1 /\ fetch'.got = got /\ fetch'.had = fetch.had
       /\ fetch'.tokens = fetch.tokens /\ fetch'.broken = fetch.broken /\ fetch'.batch = fetch.batch
  BY <1>1, <1>8 DEF AnyFetch
<1>15. Accounted(fetch')
  BY <1>1, <1>14 DEF Accounted
<1>16. \A k \in got : k >= Since /\ k >= m
  <2>1. ASSUME NEW k \in fetch.got PROVE k >= Since /\ k >= m
    <3>1. k \in Nat /\ k >= Since /\ from > 0 /\ k >= from
      BY <1>1 DEF WalkOn
    <3>2. top <= from
      BY <1>1, <1>3, <3>1
    <3> QED  BY <1>1, <1>4, <1>9, <3>1, <3>2
  <2> QED  BY <1>6, <1>7, <1>10, <2>1
<1>17. \A k \in Since .. fetch.had : k >= m => k \in got
  <2> SUFFICES ASSUME NEW k \in Since .. fetch.had, k >= m, k \notin fetch.got PROVE k \in items
    BY <1>10
  <2>1. k \in Nat /\ k >= 1
    BY <1>1, <1>2
  <2>2. k <= top
    BY <1>1, <1>2, <1>3, <2>1 DEF WalkOn
  <2>3. m > top - PageCount
    BY <1>5, <1>7, <1>9
  <2> QED  BY <1>2, <1>4, <1>5, <1>9, <2>1, <2>2, <2>3
<1>18. m > 1 => m + (fetch.page + 1) * (PageCount - 1) <= MaxTxns
  <2> DEFINE x == fetch.page * (PageCount - 1)
  <2>1. x \in Nat /\ (fetch.page + 1) * (PageCount - 1) = x + (PageCount - 1)
    BY <1>1, PagesReach
  <2>2. from > 1 => from + x <= MaxTxns
    BY <1>1 DEF WalkOn
  <2>3. from = 0 => x = 0
    <3>1. from = 0 => fetch.page = 0
      BY <1>1 DEF WalkOn
    <3> QED  BY <1>2, <3>1
  <2> HIDE DEF x
  <2> SUFFICES ASSUME m > 1 PROVE m + (x + (PageCount - 1)) <= MaxTxns
    BY <2>1
  <2>4. m <= top - (PageCount - 1)
    BY <1>7
  <2>5. CASE from = 0
    BY <1>2, <1>4, <1>9, <2>1, <2>3, <2>4, <2>5
  <2>6. CASE from = 1
    BY <1>2, <1>3, <1>4, <1>9, <2>4, <2>6
  <2>7. CASE from > 1
    BY <1>1, <1>2, <1>3, <1>4, <1>9, <2>1, <2>2, <2>4, <2>7
  <2> QED  BY <1>1, <2>5, <2>6, <2>7
<1>19. fetch.page + 1 < MaxPages
  BY <1>1, <1>2 DEF WalkOn
<1>20. WalkOn(fetch', posted)
  <2>1. m <= MaxTxns /\ m > 0
    BY <1>2, <1>4, <1>9
  <2>2. fetch'.acct \in fetch'.seen /\ fetch'.had <= posted[fetch'.acct]
    BY <1>1, <1>14 DEF WalkOn
  <2>3. \A n \in fetch'.got : n >= Since /\ fetch'.from > 0 /\ n >= fetch'.from
    BY <1>14, <1>16, <2>1
  <2>4. fetch'.from > 0 => \A n \in Since .. fetch'.had : n >= fetch'.from => n \in fetch'.got
    BY <1>14, <1>17
  <2>5. fetch'.from # 0 /\ fetch'.from <= MaxTxns /\ fetch'.page < MaxPages
    BY <1>9, <1>14, <1>19, <2>1
  <2>6. fetch'.from > 1 => fetch'.from + fetch'.page * (PageCount - 1) <= MaxTxns
    BY <1>14, <1>18
  <2> QED  BY <2>2, <2>3, <2>4, <2>5, <2>6 DEF WalkOn
<1> QED  BY <1>13, <1>15, <1>20 DEF FetchInv, FetchOk

LEMMA FetchPages == ASSUME BankSizes, FetchInv, Bank!TransactionsPage PROVE FetchInv'
<1>1. fetch.pc = "page" /\ posted' = posted /\ fetch \in AnyFetch /\ WalkOn(fetch, posted) /\ fetch.acct \in Accounts
      /\ posted \in [Accounts -> 0 .. MaxTxns] /\ fetch.got \in SUBSET Nat /\ fetch.had \in Nat
  BY DEF Bank!TransactionsPage, FetchInv, FetchOk, AnyFetch, WalkOn
<1>2. CASE fetch' = Bank!AfterAccount([fetch EXCEPT !.errs = @ + 1, !.broken = @ \cup {fetch.acct}])
  BY <1>1, <1>2, FetchDrops
<1>3. CASE fetch' # Bank!AfterAccount([fetch EXCEPT !.errs = @ + 1, !.broken = @ \cup {fetch.acct}])
  <2>1. PICK inclusive \in BOOLEAN :
          LET items == Bank!PageFrom(fetch.acct, fetch.from, inclusive)
              got == fetch.got \cup {n \in items : n >= Since}
          IN  IF Bank!LastPage(items, fetch.got, fetch.from) \/ fetch.page + 1 = MaxPages
              THEN fetch' = Bank!AfterAccount([fetch EXCEPT !.batch = Append(@, [acct |-> fetch.acct, txns |-> got, had |-> fetch.had])])
              ELSE fetch' = [fetch EXCEPT !.from = Bank!Min(items), !.got = got, !.page = @ + 1]
    BY <1>3 DEF Bank!TransactionsPage
  <2> DEFINE items == Bank!PageFrom(fetch.acct, fetch.from, inclusive)
             got == fetch.got \cup {n \in items : n >= Since}
             r == [acct |-> fetch.acct, txns |-> got, had |-> fetch.had]
  <2>2. items \in SUBSET Nat
    <3>1. PageTop(fetch.acct, fetch.from, inclusive) \in Int
      BY <1>1 DEF PageTop, AnyFetch
    <3>2. items = {n \in 1 .. PageTop(fetch.acct, fetch.from, inclusive) :
                     n > PageTop(fetch.acct, fetch.from, inclusive) - PageCount}
      BY DEF Bank!PageFrom, PageTop
    <3> QED  BY <3>1, <3>2
  <2>3. CASE Bank!LastPage(items, fetch.got, fetch.from) \/ fetch.page + 1 = MaxPages
    <3>1. fetch' = Bank!AfterAccount([fetch EXCEPT !.batch = Append(@, r)])
      BY <2>1, <2>3
    <3>2. r.acct = fetch.acct /\ r.txns = got /\ r.had = fetch.had
      OBVIOUS
    <3>3. \A n \in Since .. fetch.had : n \in fetch.got \/ n \in items
      BY <1>1, <2>3, LastIsWhole
    <3> HIDE DEF items
    <3>4. r \in AcctRow
      BY <1>1, <2>2 DEF AcctRow
    <3>5. \A n \in Since .. fetch.had : n \in got
      BY <3>3 DEF BankSizes
    <3>6. \A n \in got : n >= Since
      BY <1>1 DEF WalkOn
    <3> HIDE DEF r, got
    <3>7. Whole(r)
      BY <3>2, <3>5, <3>6 DEF Whole
    <3> QED  BY <1>1, <3>1, <3>2, <3>4, <3>7, FetchAdds
  <2>4. CASE ~(Bank!LastPage(items, fetch.got, fetch.from) \/ fetch.page + 1 = MaxPages)
    <3>1. fetch' = [fetch EXCEPT !.from = Bank!Min(items), !.got = got, !.page = @ + 1]
      BY <2>1, <2>4
    <3> QED  BY <1>1, <2>4, <3>1, WalkGoesOn
  <2> QED  BY <2>3, <2>4
<1> QED  BY <1>2, <1>3

LEMMA FetchLeaves == ASSUME BankSizes, FetchInv, Bank!FetchEnds \/ Bank!Taken PROVE FetchInv'
<1>1. CASE Bank!FetchEnds
  <2> DEFINE pc == IF fetch.batch = << >> /\ fetch.errs > 0 THEN "failed" ELSE "done"
  <2>1. /\ fetch' = [fetch EXCEPT !.pc = pc] /\ posted' = posted /\ fetch.pc = "token"
        /\ fetch \in AnyFetch /\ Accounted(fetch)
    BY <1>1 DEF Bank!FetchEnds, FetchInv, FetchOk
  <2>2. pc \in {"failed", "done"}
    OBVIOUS
  <2> HIDE DEF pc
  <2>3. fetch' \in AnyFetch
    BY <2>1, <2>2 DEF AnyFetch
  <2>4. /\ fetch'.pc = pc /\ fetch'.accts = fetch.accts /\ fetch'.seen = fetch.seen
        /\ fetch'.broken = fetch.broken /\ fetch'.batch = fetch.batch
    BY <2>1 DEF AnyFetch
  <2> QED  BY <2>1, <2>2, <2>3, <2>4 DEF FetchInv, FetchOk, Accounted
<1>2. CASE Bank!Taken
  <2> DEFINE f == Bank!IdleFetch
  <2>1. fetch' = f /\ posted' = posted
    BY <1>2 DEF Bank!Taken
  <2>2. f \in AnyFetch /\ f.pc = "idle" /\ f.accts = {} /\ f.seen = {} /\ f.broken = {} /\ f.batch = << >>
    <3>1. << >> \in Seq(AcctRow) /\ << >> \in Seq(Tokens)
      OBVIOUS
    <3> QED  BY <3>1 DEF Bank!IdleFetch, AnyFetch
  <2> HIDE DEF f
  <2>3. Walked(<< >>) = {}
    BY DEF Walked
  <2> QED  BY <2>1, <2>2, <2>3 DEF FetchInv, FetchOk, Accounted
<1> QED  BY <1>1, <1>2

LEMMA BankPosts == ASSUME BankSizes, FetchInv, NEW a \in Accounts, Bank!Post(a) PROVE FetchInv'
<1>1. /\ fetch' = fetch /\ posted' = [posted EXCEPT ![a] = posted[a] + 1] /\ posted[a] < MaxTxns
      /\ posted \in [Accounts -> 0 .. MaxTxns] /\ FetchOk(fetch, posted)
  BY DEF Bank!Post, FetchInv
<1>2. posted' \in [Accounts -> 0 .. MaxTxns] /\ \A b \in Accounts : posted'[b] >= posted[b]
  BY <1>1 DEF BankSizes
<1>3. ASSUME fetch.pc = "page" PROVE fetch.had <= posted'[fetch.acct]
  <2>1. fetch.acct \in Accounts /\ fetch.had \in Nat /\ fetch.had <= posted[fetch.acct]
    BY <1>1, <1>3 DEF FetchOk, AnyFetch, WalkOn
  <2>2. posted[fetch.acct] \in 0 .. MaxTxns /\ posted'[fetch.acct] \in 0 .. MaxTxns
        /\ posted'[fetch.acct] >= posted[fetch.acct]
    BY <1>1, <1>2, <2>1
  <2> QED  BY <2>1, <2>2 DEF BankSizes
<1>4. FetchOk(fetch, posted')
  BY <1>1, <1>3 DEF FetchOk, WalkOn
<1> QED  BY <1>1, <1>2, <1>4 DEF FetchInv

LEMMA FetchGoesOn == ASSUME BankSizes, BankedInv, FetchInv, [Bank!Next]_Bank!vars PROVE FetchInv'
<1>1. CASE \E a \in Accounts : Bank!Post(a)
  BY <1>1, BankPosts
<1>2. CASE Bank!FetchBegins
  BY <1>2, FetchStarts
<1>3. CASE Bank!ListAccounts
  BY <1>3, FetchLists
<1>4. CASE Bank!TakeAccount
  BY <1>4, FetchTakes
<1>5. CASE Bank!TransactionsPage
  BY <1>5, FetchPages
<1>6. CASE Bank!FetchEnds \/ Bank!Taken
  BY <1>6, FetchLeaves
<1>7. CASE UNCHANGED <<posted, fetch>>
  BY <1>7 DEF FetchInv
<1> QED  BY <1>1, <1>2, <1>3, <1>4, <1>5, <1>6, <1>7 DEF Bank!Next, Bank!vars

LEMMA FetchMeansIt == ASSUME FetchInv PROVE Bank!FetchIsExact
<1>1. Accounted(fetch) /\ fetch \in AnyFetch
  BY DEF FetchInv, FetchOk
<1>2. ASSUME fetch.pc \in {"done", "failed"}
      PROVE  {fetch.batch[i].acct : i \in DOMAIN fetch.batch} = fetch.seen \ fetch.broken
  <2>1. Walked(fetch.batch) = fetch.seen \ fetch.broken
    BY <1>1, <1>2 DEF Accounted
  <2> QED  BY <2>1 DEF Walked
<1>3. ASSUME NEW i \in DOMAIN fetch.batch
      PROVE  /\ \A j \in DOMAIN fetch.batch : fetch.batch[i].acct = fetch.batch[j].acct => i = j
             /\ Since .. fetch.batch[i].had \subseteq fetch.batch[i].txns
             /\ \A n \in fetch.batch[i].txns : n >= Since
  <2>1. Whole(fetch.batch[i])
    BY <1>1 DEF Accounted
  <2>2. \A j \in DOMAIN fetch.batch : fetch.batch[i].acct = fetch.batch[j].acct => i = j
    BY <1>1 DEF Accounted
  <2> QED  BY <2>1, <2>2 DEF Whole
<1> QED  BY <1>2, <1>3 DEF Bank!FetchIsExact

\* However the requests, the pages and the bank's postings interleave: requests that do not overlap
\* leave exactly the banks they name connected, and a fetch has each account that a token it could
\* read lists once, with every transaction of the window that was there when its walk began.
THEOREM BanksKept ==
  ASSUME BankSizes
  PROVE  Bank!Spec => [](Bank!TokensAsAsked /\ Bank!FetchIsExact)
<1>1. Bank!Init => BankedInv /\ FetchInv
  BY BankedBegins, FetchBegun
<1>2. BankedInv /\ FetchInv /\ [Bank!Next]_Bank!vars => (BankedInv /\ FetchInv)'
  BY BankedGoesOn, FetchGoesOn
<1>3. BankedInv /\ FetchInv => Bank!TokensAsAsked /\ Bank!FetchIsExact
  BY BankedMeansIt, FetchMeansIt DEF BankSizes
<1> QED  BY <1>1, <1>2, <1>3, PTL DEF Bank!Spec

-----------------------------------------------------------------------------
(* The CSV folders. *)
CONSTANTS Folders, FileIds, FolderOf, Header, Rows, Cut, ListSize, MaxPuts, MaxImports
VARIABLES shelf, consent, importing, imported, stood, half, tally

Csv == INSTANCE CsvSource WITH
  PageSize <- ListSize, MaxChanges <- MaxPuts, MaxSyncs <- MaxImports, disk <- shelf, token <- consent, fetch <- importing,
  ledger <- imported, whole <- stood, torn <- half, counts <- tally

\* Finitely many files, each in one of the folders, and a page of a listing holds some.
CsvSizes ==
  /\ \E k \in Nat : FileIds \in SUBSET (1 .. k)
  /\ Len(Folders) \in Nat /\ DOMAIN Folders = 1 .. Len(Folders)
  /\ \A f \in FileIds : FolderOf[f] \in DOMAIN Folders
  /\ ListSize \in Nat \ {0}

AnyRead == Rows \cup {Cut[r] : r \in Rows}
Txn == UNION {UNION {Csv!ParseCSV(k, f, AnyRead) : f \in FileIds} : k \in DOMAIN Folders}
AnyFile == [here : BOOLEAN, rows : Seq(Rows), open : BOOLEAN]
AnyImport ==
  [pc : {"idle", "folder", "list", "files", "persist"}, folder : Nat \ {0}, page : Nat, refs : Seq(FileIds), txns : SUBSET Txn,
   got : SUBSET Txn, failed : SUBSET Nat, skipped : SUBSET FileIds, stable : SUBSET (FileIds \X Rows)]

\* Where a row that was there from the start of the sync on is to be found.
Found(m, x) ==
  LET f == x[1]  k == FolderOf[f]  txns == Csv!ParseCSV(k, f, {x[2]})
  IN f \notin m.skipped /\ k \notin m.failed =>
       /\ k < m.folder => txns \subseteq m.got
       /\ k = m.folder /\ m.pc = "list" => f > m.page \/ f \in Has(m.refs)
       /\ k = m.folder /\ m.pc = "files" => f \in Has(m.refs) \/ txns \subseteq m.txns

\* Of the folder that is being read only its own files are listed, and all that was read is accounted for.
ImportOk(m, d, real) ==
  /\ m \in AnyImport /\ m.got \subseteq real
  /\ m.pc \in {"list", "files"} => /\ m.folder \in DOMAIN Folders /\ m.txns \subseteq real
                                   /\ \A i \in DOMAIN m.refs : FolderOf[m.refs[i]] = m.folder
  /\ m.pc = "persist" => m.folder > Len(Folders)
  /\ m.pc # "idle" => \A x \in m.stable : Csv!Holds(d, x) /\ Found(m, x)

CsvInv ==
  /\ shelf \in [FileIds -> AnyFile] /\ \A f \in FileIds : shelf[f].open => shelf[f].rows # << >>
  /\ \A f \in FileIds : Csv!ParseCSV(FolderOf[f], f, Csv!WholeRows(shelf, f)) \subseteq stood
  /\ imported \subseteq stood \cup half
  /\ ImportOk(importing, shelf, stood \cup half)

LEMMA ParsedIs ==
  ASSUME NEW k, NEW f, NEW R, NEW S
  PROVE  /\ R \subseteq S => Csv!ParseCSV(k, f, R) \subseteq Csv!ParseCSV(k, f, S)
         /\ Csv!ParseCSV(k, f, R) \subseteq Csv!ParseCSV(k, f, S) \cup Csv!ParseCSV(k, f, R \ S)
         /\ k \in DOMAIN Folders /\ f \in FileIds /\ R \subseteq AnyRead => Csv!ParseCSV(k, f, R) \subseteq Txn
<1> DEFINE ok(r) == Csv!Maps(r, Header[f])  txn(r) == Csv!RowToTxn(k, r, Header[f])
<1>1. ASSUME NEW A, NEW x PROVE x \in Csv!ParseCSV(k, f, A) <=> Csv!ResolveMapping(k, Header[f]) /\ \E r \in A : ok(r) /\ x = txn(r)
  <2> HIDE DEF ok, txn
  <2>1. Csv!ParseCSV(k, f, A) = IF Csv!ResolveMapping(k, Header[f]) THEN {txn(r) : r \in {y \in A : ok(y)}} ELSE {}
    BY DEF Csv!ParseCSV, ok, txn
  <2> QED  BY <2>1
<1> HIDE DEF ok, txn
<1>2. \A A, B : A \subseteq B => Csv!ParseCSV(k, f, A) \subseteq Csv!ParseCSV(k, f, B)
  <2> SUFFICES ASSUME NEW A, NEW B, A \subseteq B, NEW x \in Csv!ParseCSV(k, f, A) PROVE x \in Csv!ParseCSV(k, f, B)
    OBVIOUS
  <2>1. Csv!ResolveMapping(k, Header[f]) /\ \E r \in A : ok(r) /\ x = txn(r)
    BY <1>1
  <2> QED  BY <1>1, <2>1
<1>3. Csv!ParseCSV(k, f, R) \subseteq Csv!ParseCSV(k, f, S) \cup Csv!ParseCSV(k, f, R \ S)
  <2> SUFFICES ASSUME NEW x \in Csv!ParseCSV(k, f, R)
               PROVE  x \in Csv!ParseCSV(k, f, S) \/ x \in Csv!ParseCSV(k, f, R \ S)
    OBVIOUS
  <2>1. Csv!ResolveMapping(k, Header[f]) /\ \E r \in R : ok(r) /\ x = txn(r)
    BY <1>1
  <2>2. PICK r \in R : ok(r) /\ x = txn(r)
    BY <2>1
  <2>3. CASE r \in S
    BY <1>1, <2>1, <2>2, <2>3
  <2>4. CASE r \notin S
    <3>1. r \in R \ S
      BY <2>4
    <3> QED  BY <1>1, <2>1, <2>2, <3>1
  <2> QED  BY <2>3, <2>4
<1>4. k \in DOMAIN Folders /\ f \in FileIds => Csv!ParseCSV(k, f, AnyRead) \subseteq Txn
  BY DEF Txn
<1>5. R \subseteq AnyRead => Csv!ParseCSV(k, f, R) \subseteq Csv!ParseCSV(k, f, AnyRead)
  BY <1>2
<1>6. R \subseteq S => Csv!ParseCSV(k, f, R) \subseteq Csv!ParseCSV(k, f, S)
  BY <1>2
<1> QED  BY <1>3, <1>4, <1>5, <1>6

LEMMA RowsRead ==
  ASSUME NEW f \in FileIds, shelf[f] \in AnyFile, shelf[f].open => shelf[f].rows # << >>
  PROVE  /\ Csv!WholeRows(shelf, f) \subseteq Csv!ReadRows(f) /\ Csv!WholeRows(shelf, f) \subseteq Rows
         /\ Csv!ReadRows(f) \subseteq AnyRead
<1> DEFINE s == shelf[f].rows  w == IF shelf[f].open THEN Len(s) - 1 ELSE Len(s)
<1>1. s \in Seq(Rows) /\ Len(s) \in Nat /\ w \in Nat /\ w <= Len(s) /\ (shelf[f].open => Len(s) >= 1)
  BY DEF AnyFile
<1>2. \A i \in 1 .. Len(s) : s[i] \in Rows
  BY <1>1
<1>3. Csv!WholeRows(shelf, f) = {s[i] : i \in 1 .. w}
  BY DEF Csv!WholeRows
<1>4. Csv!ReadRows(f) = {s[i] : i \in 1 .. w} \cup (IF shelf[f].open THEN {Cut[s[Len(s)]]} ELSE {})
  BY DEF Csv!ReadRows
<1>5. \A i \in 1 .. w : s[i] \in Rows
  BY <1>1, <1>2
<1>6. shelf[f].open => s[Len(s)] \in Rows
  BY <1>1, <1>2
<1> HIDE DEF s, w
<1>7. \A x \in Csv!WholeRows(shelf, f) : x \in Rows
  BY <1>3, <1>5
<1>8. \A x \in Csv!ReadRows(f) : x \in AnyRead
  BY <1>4, <1>5, <1>6 DEF AnyRead
<1> QED  BY <1>3, <1>4, <1>7, <1>8

\* A listing has each of its files, in order.
LEMMA InOrderIs ==
  ASSUME CsvSizes, NEW S \in SUBSET FileIds, NEW q, q = Csv!InOrder(S)
  PROVE  /\ q \in Seq(S)
         /\ \A x \in S : \E i \in DOMAIN q : q[i] = x
         /\ \A i, j \in DOMAIN q : i < j => q[i] < q[j]
<1>1. q = Ranked(S)
  BY DEF Csv!InOrder, Ranked, Cardinality, Csv!Cardinality, Below
<1>2. PICK k \in Nat : S \in SUBSET (1 .. k)
  BY DEF CsvSizes
<1>3. /\ q \in Seq(S) /\ \A x \in S : Cardinality(Below(S, x)) \in DOMAIN q /\ q[Cardinality(Below(S, x))] = x
      /\ \A i, j \in DOMAIN q : i < j => q[i] < q[j]
  BY <1>1, <1>2, RankedIs
<1> QED  BY <1>3

LEMMA FilesAre ==
  ASSUME CsvSizes, NEW f \in FileIds
  PROVE  f \in Nat /\ f > 0 /\ FolderOf[f] \in DOMAIN Folders /\ FolderOf[f] \in Nat /\ FolderOf[f] <= Len(Folders) /\ Len(Folders) \in Nat
<1>1. PICK k \in Nat : FileIds \in SUBSET (1 .. k)
  BY DEF CsvSizes
<1>2. f \in 1 .. k
  BY <1>1
<1>3. FolderOf[f] \in 1 .. Len(Folders) /\ Len(Folders) \in Nat /\ FolderOf[f] \in DOMAIN Folders
  BY DEF CsvSizes
<1> QED  BY <1>2, <1>3

LEMMA StableAre == ASSUME NEW m \in AnyImport, NEW x \in m.stable PROVE x[1] \in FileIds /\ x[2] \in Rows
BY DEF AnyImport

LEMMA CsvBegins == ASSUME CsvSizes, Csv!Init PROVE CsvInv
<1>1. /\ shelf = [f \in FileIds |-> Csv!NoFile] /\ importing = Csv!Idle /\ imported = {} /\ stood = {} /\ half = {}
  BY DEF Csv!Init
<1>2. Csv!NoFile \in AnyFile /\ ~Csv!NoFile.open /\ Csv!NoFile.rows = << >>
  BY DEF Csv!NoFile, AnyFile
<1>3. shelf \in [FileIds -> AnyFile] /\ \A f \in FileIds : shelf[f] = Csv!NoFile
  BY <1>1, <1>2
<1>4. \A f \in FileIds : Csv!ParseCSV(FolderOf[f], f, Csv!WholeRows(shelf, f)) \subseteq stood
  <2> SUFFICES ASSUME NEW f \in FileIds PROVE Csv!ParseCSV(FolderOf[f], f, Csv!WholeRows(shelf, f)) = {}
    OBVIOUS
  <2>1. Csv!WholeRows(shelf, f) = {}
    BY <1>2, <1>3 DEF Csv!WholeRows
  <2> QED  BY <2>1 DEF Csv!ParseCSV
<1>5. Csv!Idle \in AnyImport /\ Csv!Idle.pc = "idle" /\ Csv!Idle.got = {}
  BY DEF Csv!Idle, AnyImport
<1>6. ImportOk(importing, shelf, stood \cup half)
  BY <1>1, <1>5 DEF ImportOk
<1> QED  BY <1>1, <1>2, <1>3, <1>4, <1>6 DEF CsvInv

\* Steps that only the sync notices.
LEMMA OnlySync ==
  ASSUME CsvInv, shelf' = shelf, imported' = imported, stood' = stood, half' = half, ImportOk(importing', shelf, stood \cup half)
  PROVE  CsvInv'
BY DEF CsvInv, Csv!WholeRows

LEMMA FetchKeepsCsv == ASSUME CsvSizes, CsvInv, Csv!Fetch PROVE CsvInv'
<1> DEFINE st == {x \in FileIds \X Rows : Csv!Holds(shelf, x)}
           a == [Csv!Idle EXCEPT !.pc = "folder"]
           n == [a EXCEPT !.stable = st]
<1>1. importing' = [Csv!Idle EXCEPT !.pc = "folder", !.stable = st]
      /\ shelf' = shelf /\ imported' = imported /\ stood' = stood /\ half' = half
  BY DEF Csv!Fetch, Csv!Go
<1>2. st \in SUBSET (FileIds \X Rows) /\ \A x \in st : Csv!Holds(shelf, x)
  OBVIOUS
<1> HIDE DEF st
<1>3. Csv!Idle \in AnyImport /\ Csv!Idle.folder = 1 /\ Csv!Idle.got = {} /\ Csv!Idle.pc = "idle"
  BY DEF Csv!Idle, AnyImport
<1>4. importing' = n
  BY <1>1, <1>3 DEF AnyImport
<1>5. a \in AnyImport /\ a.pc = "folder" /\ a.folder = 1 /\ a.got = {}
  BY <1>3 DEF AnyImport
<1> HIDE DEF a
<1>6. n \in AnyImport /\ n.pc = "folder" /\ n.folder = 1 /\ n.got = {} /\ n.stable = st
  BY <1>2, <1>5 DEF AnyImport
<1> HIDE DEF n
<1>7. ASSUME NEW x \in st PROVE Found(n, x)
  <2>1. x[1] \in FileIds
    BY <1>2
  <2>2. FolderOf[x[1]] \in 1 .. Len(Folders) /\ Len(Folders) \in Nat
    BY <2>1 DEF CsvSizes
  <2>3. ~(FolderOf[x[1]] < 1)
    BY <2>2
  <2> QED  BY <1>6, <2>3 DEF Found
<1>8. ImportOk(n, shelf, stood \cup half)
  BY <1>2, <1>6, <1>7 DEF ImportOk
<1> QED  BY <1>1, <1>4, <1>8, OnlySync

LEMMA FileStoreKeeps == ASSUME CsvSizes, CsvInv, Csv!FileStore PROVE CsvInv'
<1> DEFINE m == importing
           a == [m EXCEPT !.pc = "list"]
           b == [a EXCEPT !.page = 0]
           c == [b EXCEPT !.refs = << >>]
           n == [c EXCEPT !.txns = {}]
<1>1. /\ importing' = [m EXCEPT !.pc = "list", !.page = 0, !.refs = << >>, !.txns = {}]
      /\ m.pc = "folder" /\ m.folder <= Len(Folders)
      /\ shelf' = shelf /\ imported' = imported /\ stood' = stood /\ half' = half
  BY DEF Csv!FileStore, Csv!Go, Csv!Keep
<1>2. ImportOk(m, shelf, stood \cup half)
  BY DEF CsvInv
<1> HIDE DEF m
<1>3. m \in AnyImport
  BY <1>2 DEF ImportOk
<1>4. importing' = n
  BY <1>1, <1>3 DEF AnyImport
<1>5. a \in AnyImport /\ a.pc = "list" /\ a.folder = m.folder /\ a.got = m.got /\ a.failed = m.failed /\ a.skipped = m.skipped /\ a.stable = m.stable
  BY <1>3 DEF AnyImport
<1> HIDE DEF a
<1>6. b \in AnyImport /\ b.pc = "list" /\ b.folder = m.folder /\ b.got = m.got /\ b.failed = m.failed /\ b.skipped = m.skipped /\ b.stable = m.stable
      /\ b.page = 0
  BY <1>5 DEF AnyImport
<1> HIDE DEF b
<1>7. c \in AnyImport /\ c.pc = "list" /\ c.folder = m.folder /\ c.got = m.got /\ c.failed = m.failed /\ c.skipped = m.skipped /\ c.stable = m.stable
      /\ c.page = 0 /\ c.refs = << >>
  <2>1. << >> \in Seq(FileIds)
    OBVIOUS
  <2> QED  BY <1>6, <2>1 DEF AnyImport
<1> HIDE DEF c
<1>8. n \in AnyImport /\ n.pc = "list" /\ n.folder = m.folder /\ n.got = m.got /\ n.failed = m.failed /\ n.skipped = m.skipped /\ n.stable = m.stable
      /\ n.page = 0 /\ n.refs = << >> /\ n.txns = {}
  BY <1>7 DEF AnyImport
<1> HIDE DEF n
<1>9. ASSUME NEW x \in m.stable PROVE Found(n, x)
  <2>1. x[1] \in FileIds /\ x[1] > 0
    BY <1>3, StableAre, FilesAre
  <2>2. Found(m, x)
    BY <1>1, <1>2 DEF ImportOk
  <2> QED  BY <1>8, <2>1, <2>2 DEF Found
<1>10. n.folder \in DOMAIN Folders /\ n.txns \subseteq stood \cup half
  BY <1>1, <1>3, <1>8 DEF CsvSizes, AnyImport
<1>11. ImportOk(n, shelf, stood \cup half)
  BY <1>1, <1>2, <1>8, <1>9, <1>10 DEF ImportOk
<1> QED  BY <1>1, <1>4, <1>11, OnlySync

LEMMA SkipFolderKeeps == ASSUME CsvSizes, CsvInv, Csv!SkipFolder PROVE CsvInv'
<1> DEFINE m == importing
           a == [m EXCEPT !.pc = "folder"]
           b == [a EXCEPT !.folder = m.folder + 1]
           n == [b EXCEPT !.failed = m.failed \cup {m.folder}]
<1>1. /\ importing' = [m EXCEPT !.pc = "folder", !.folder = m.folder + 1, !.failed = m.failed \cup {m.folder}]
      /\ m.pc = "list"
      /\ shelf' = shelf /\ imported' = imported /\ stood' = stood /\ half' = half
  BY DEF Csv!SkipFolder, Csv!Go, Csv!Keep
<1>2. ImportOk(m, shelf, stood \cup half)
  BY DEF CsvInv
<1> HIDE DEF m
<1>3. m \in AnyImport /\ m.folder \in Nat \ {0} /\ m.failed \in SUBSET Nat
  BY <1>2 DEF ImportOk, AnyImport
<1>4. importing' = n
  BY <1>1, <1>3 DEF AnyImport
<1>5. a \in AnyImport /\ a.pc = "folder" /\ a.folder = m.folder /\ a.got = m.got /\ a.failed = m.failed /\ a.skipped = m.skipped /\ a.stable = m.stable
  BY <1>3 DEF AnyImport
<1> HIDE DEF a
<1>6. b \in AnyImport /\ b.pc = "folder" /\ b.folder = m.folder + 1 /\ b.got = m.got /\ b.failed = m.failed /\ b.skipped = m.skipped /\ b.stable = m.stable
  <2>1. m.folder + 1 \in Nat \ {0}
    BY <1>3
  <2> QED  BY <1>5, <2>1 DEF AnyImport
<1> HIDE DEF b
<1>7. n \in AnyImport /\ n.pc = "folder" /\ n.folder = m.folder + 1 /\ n.got = m.got /\ n.failed = m.failed \cup {m.folder}
      /\ n.skipped = m.skipped /\ n.stable = m.stable
  <2>1. m.failed \cup {m.folder} \in SUBSET Nat
    BY <1>3
  <2> QED  BY <1>6, <2>1 DEF AnyImport
<1> HIDE DEF n
<1>8. ASSUME NEW x \in m.stable PROVE Found(n, x)
  <2>1. Found(m, x)
    BY <1>1, <1>2 DEF ImportOk
  <2>3. FolderOf[x[1]] \in Nat
    BY <1>3, StableAre, FilesAre
  <2>4. FolderOf[x[1]] # m.folder /\ FolderOf[x[1]] < m.folder + 1 => FolderOf[x[1]] < m.folder
    BY <1>3, <2>3
  <2> QED  BY <1>7, <2>1, <2>4 DEF Found
<1>9. ImportOk(n, shelf, stood \cup half)
  BY <1>1, <1>2, <1>7, <1>8 DEF ImportOk
<1> QED  BY <1>1, <1>4, <1>9, OnlySync

\* A listing: what a page leaves out comes after it.
LEMMA ListedIs ==
  ASSUME CsvSizes, CsvInv, NEW m, m = importing, m.pc = "list", NEW after \in Nat, NEW q, q = Csv!InOrder(Csv!Listed(after))
  PROVE  /\ q \in Seq(FileIds) /\ \A i \in DOMAIN q : FolderOf[q[i]] = m.folder
         /\ \A x \in m.stable : FolderOf[x[1]] = m.folder /\ x[1] > after => \E i \in DOMAIN q : q[i] = x[1]
         /\ \A i, j \in DOMAIN q : i < j => q[i] < q[j]
<1> DEFINE S == Csv!Listed(after)
<1>1. S \in SUBSET FileIds /\ \A f \in FileIds : f \in S <=> FolderOf[f] = m.folder /\ shelf[f].here /\ f > after
  BY DEF Csv!Listed
<1> HIDE DEF S
<1>2. /\ q \in Seq(S)
      /\ \A x \in S : \E i \in DOMAIN q : q[i] = x
      /\ \A i, j \in DOMAIN q : i < j => q[i] < q[j]
  BY <1>1, InOrderIs DEF S
<1>3. q \in Seq(FileIds) /\ \A i \in DOMAIN q : q[i] \in S
  BY <1>1, <1>2
<1>4. ASSUME NEW x \in m.stable, FolderOf[x[1]] = m.folder, x[1] > after PROVE \E i \in DOMAIN q : q[i] = x[1]
  <2>1. m \in AnyImport /\ Csv!Holds(shelf, x)
    BY DEF CsvInv, ImportOk
  <2>2. x[1] \in FileIds /\ shelf[x[1]].here
    BY <2>1, StableAre DEF Csv!Holds
  <2>3. x[1] \in S
    BY <1>1, <1>4, <2>2
  <2> QED  BY <1>2, <2>3
<1>5. \A i \in DOMAIN q : FolderOf[q[i]] = m.folder
  BY <1>1, <1>3
<1> QED  BY <1>2, <1>3, <1>4, <1>5

LEMMA ListLocalKeeps == ASSUME CsvSizes, CsvInv, Csv!ListLocal PROVE CsvInv'
<1> DEFINE m == importing  q == Csv!InOrder(Csv!Listed(0))
           a == [m EXCEPT !.pc = "files"]
           n == [a EXCEPT !.refs = q]
<1>1. /\ importing' = [m EXCEPT !.pc = "files", !.refs = q] /\ m.pc = "list"
      /\ shelf' = shelf /\ imported' = imported /\ stood' = stood /\ half' = half
  BY DEF Csv!ListLocal, Csv!Go, Csv!Keep
<1>2. ImportOk(m, shelf, stood \cup half)
  BY DEF CsvInv
<1>3. /\ q \in Seq(FileIds) /\ \A i \in DOMAIN q : FolderOf[q[i]] = m.folder
      /\ \A x \in m.stable : FolderOf[x[1]] = m.folder /\ x[1] > 0 => \E i \in DOMAIN q : q[i] = x[1]
  BY <1>1, ListedIs
<1> HIDE DEF m, q
<1>4. m \in AnyImport
  BY <1>2 DEF ImportOk
<1>5. importing' = n
  BY <1>1, <1>4 DEF AnyImport
<1>6. /\ a \in AnyImport /\ a.pc = "files" /\ a.folder = m.folder /\ a.got = m.got /\ a.failed = m.failed /\ a.skipped = m.skipped
      /\ a.stable = m.stable /\ a.txns = m.txns
  BY <1>4 DEF AnyImport
<1> HIDE DEF a
<1>7. /\ n \in AnyImport /\ n.pc = "files" /\ n.folder = m.folder /\ n.got = m.got /\ n.failed = m.failed /\ n.skipped = m.skipped
      /\ n.stable = m.stable /\ n.txns = m.txns /\ n.refs = q
  BY <1>3, <1>6 DEF AnyImport
<1> HIDE DEF n
<1>8. ASSUME NEW x \in m.stable PROVE Found(n, x)
  <2>1. x[1] > 0
    BY <1>4, StableAre, FilesAre
  <2>2. Found(m, x)
    BY <1>1, <1>2 DEF ImportOk
  <2>3. FolderOf[x[1]] = m.folder => x[1] \in Has(q)
    BY <1>3, <2>1 DEF Has
  <2> QED  BY <1>7, <2>2, <2>3 DEF Found
<1>9. ImportOk(n, shelf, stood \cup half)
  BY <1>1, <1>2, <1>3, <1>7, <1>8 DEF ImportOk
<1> QED  BY <1>1, <1>5, <1>9, OnlySync

LEMMA ListPageKeeps == ASSUME CsvSizes, CsvInv, Csv!ListPage PROVE CsvInv'
<1> DEFINE m == importing  left == Csv!InOrder(Csv!Listed(m.page))  more == Len(left) > ListSize
           got == IF more THEN SubSeq(left, 1, ListSize) ELSE left
           pc == IF more THEN "list" ELSE "files"
           last == IF more THEN got[Len(got)] ELSE m.page
           a == [m EXCEPT !.refs = m.refs \o got]
           b == [a EXCEPT !.pc = pc]
           n == [b EXCEPT !.page = last]
<1>1. /\ importing' = [m EXCEPT !.refs = m.refs \o got, !.pc = pc, !.page = last] /\ m.pc = "list"
      /\ shelf' = shelf /\ imported' = imported /\ stood' = stood /\ half' = half
  BY DEF Csv!ListPage, Csv!Go, Csv!Keep, Csv!Last
<1>2. ImportOk(m, shelf, stood \cup half)
  BY DEF CsvInv
<1>3. m \in AnyImport /\ m.page \in Nat /\ m.refs \in Seq(FileIds)
  BY <1>2 DEF ImportOk, AnyImport
<1>4. /\ left \in Seq(FileIds) /\ \A i \in DOMAIN left : FolderOf[left[i]] = m.folder
      /\ \A x \in m.stable : FolderOf[x[1]] = m.folder /\ x[1] > m.page => \E i \in DOMAIN left : left[i] = x[1]
      /\ \A i, j \in DOMAIN left : i < j => left[i] < left[j]
  BY <1>1, <1>3, ListedIs
<1> HIDE DEF m, left
<1>5. /\ got \in Seq(FileIds) /\ DOMAIN got \subseteq DOMAIN left /\ \A i \in DOMAIN got : got[i] = left[i]
      /\ last \in Nat
      /\ \A i \in DOMAIN left : (\E j \in DOMAIN got : got[j] = left[i]) \/ (more /\ left[i] > last)
  <2>1. Len(left) \in Nat /\ DOMAIN left = 1 .. Len(left) /\ ListSize \in Nat /\ ListSize >= 1
    BY <1>4 DEF CsvSizes
  <2>2. CASE ~more
    BY <1>3, <1>4, <2>2
  <2>3. CASE more
    <3>1. got = SubSeq(left, 1, ListSize) /\ ListSize < Len(left)
      BY <2>1, <2>3
    <3> HIDE DEF got
    <3>2. got \in Seq(FileIds) /\ Len(got) = ListSize /\ DOMAIN got = 1 .. ListSize /\ \A i \in 1 .. ListSize : got[i] = left[i]
      BY <1>4, <2>1, <3>1
    <3>3. last = left[ListSize]
      BY <2>1, <2>3, <3>2
    <3>4. last \in Nat
      BY <1>4, <2>1, <3>1, <3>3, FilesAre
    <3>5. ASSUME NEW i \in DOMAIN left PROVE (\E j \in DOMAIN got : got[j] = left[i]) \/ (more /\ left[i] > last)
      <4>1. CASE i \in 1 .. ListSize
        BY <3>2, <4>1
      <4>2. CASE i \notin 1 .. ListSize
        <5>1. ListSize < i /\ ListSize \in DOMAIN left
          BY <2>1, <3>1, <4>2
        <5>2. left[ListSize] < left[i]
          BY <1>4, <5>1
        <5>3. left[i] \in Nat
          BY <1>4, FilesAre
        <5> QED  BY <2>3, <3>3, <3>4, <5>2, <5>3
      <4> QED  BY <4>1, <4>2
    <3> QED  BY <2>1, <3>1, <3>2, <3>4, <3>5
  <2> QED  BY <2>2, <2>3
<1>6. pc \in {"list", "files"} /\ (more => pc = "list")
  OBVIOUS
<1> HIDE DEF got, last, pc, more
<1>7. importing' = n
  BY <1>1, <1>3 DEF AnyImport
<1> DEFINE refs == m.refs \o got
<1>8. /\ refs \in Seq(FileIds) /\ Has(refs) = Has(m.refs) \cup Has(got) /\ \A i \in DOMAIN refs : refs[i] \in Has(refs)
  <2>1. refs \in Seq(FileIds) /\ Len(refs) = Len(m.refs) + Len(got) /\ Len(m.refs) \in Nat /\ Len(got) \in Nat
        /\ \A i \in 1 .. Len(refs) : refs[i] = IF i <= Len(m.refs) THEN m.refs[i] ELSE got[i - Len(m.refs)]
    BY <1>3, <1>5
  <2>2. DOMAIN refs = 1 .. Len(refs) /\ DOMAIN m.refs = 1 .. Len(m.refs) /\ DOMAIN got = 1 .. Len(got)
    BY <1>3, <1>5, <2>1
  <2> HIDE DEF refs
  <2>3. \A x \in Has(refs) : x \in Has(m.refs) \cup Has(got)
    <3> SUFFICES ASSUME NEW i \in DOMAIN refs PROVE refs[i] \in Has(m.refs) \cup Has(got)
      BY DEF Has
    <3>1. CASE i <= Len(m.refs)
      BY <2>1, <2>2, <3>1 DEF Has
    <3>2. CASE ~(i <= Len(m.refs))
      <4>1. i - Len(m.refs) \in DOMAIN got
        BY <2>1, <2>2, <3>2
      <4> QED  BY <2>1, <2>2, <3>2, <4>1 DEF Has
    <3> QED  BY <3>1, <3>2
  <2>4. \A i \in DOMAIN m.refs : m.refs[i] \in Has(refs)
    <3> TAKE i \in DOMAIN m.refs
    <3>1. i \in DOMAIN refs /\ i <= Len(m.refs)
      BY <2>1, <2>2
    <3>2. refs[i] = m.refs[i]
      BY <2>1, <2>2, <3>1
    <3> QED  BY <3>1, <3>2 DEF Has
  <2>5. \A i \in DOMAIN got : got[i] \in Has(refs)
    <3> TAKE i \in DOMAIN got
    <3>1. i + Len(m.refs) \in DOMAIN refs /\ ~(i + Len(m.refs) <= Len(m.refs)) /\ (i + Len(m.refs)) - Len(m.refs) = i
      BY <2>1, <2>2
    <3>2. refs[i + Len(m.refs)] = got[i]
      BY <2>1, <2>2, <3>1
    <3> QED  BY <3>1, <3>2 DEF Has
  <2> QED  BY <2>1, <2>3, <2>4, <2>5 DEF Has
<1> HIDE DEF refs
<1>9. /\ a \in AnyImport /\ a.folder = m.folder /\ a.got = m.got /\ a.failed = m.failed /\ a.skipped = m.skipped
      /\ a.stable = m.stable /\ a.txns = m.txns /\ a.refs = refs
  BY <1>3, <1>8 DEF AnyImport, refs
<1> HIDE DEF a
<1>10. /\ b \in AnyImport /\ b.pc = pc /\ b.folder = m.folder /\ b.got = m.got /\ b.failed = m.failed /\ b.skipped = m.skipped
       /\ b.stable = m.stable /\ b.txns = m.txns /\ b.refs = refs
  BY <1>6, <1>9 DEF AnyImport
<1> HIDE DEF b
<1>11. /\ n \in AnyImport /\ n.pc = pc /\ n.folder = m.folder /\ n.got = m.got /\ n.failed = m.failed /\ n.skipped = m.skipped
       /\ n.stable = m.stable /\ n.txns = m.txns /\ n.refs = refs /\ n.page = last
  BY <1>5, <1>10 DEF AnyImport
<1> HIDE DEF n
<1>12. ASSUME NEW x \in m.stable PROVE Found(n, x)
  <2>1. Found(m, x)
    BY <1>1, <1>2 DEF ImportOk
  <2>2. ASSUME FolderOf[x[1]] = m.folder, x[1] > m.page PROVE x[1] \in Has(refs) \/ (pc = "list" /\ x[1] > last)
    <3>1. PICK i \in DOMAIN left : left[i] = x[1]
      BY <1>4, <2>2
    <3>2. CASE \E j \in DOMAIN got : got[j] = left[i]
      BY <1>8, <3>1, <3>2 DEF Has
    <3>3. CASE more /\ left[i] > last
      BY <1>6, <3>1, <3>3
    <3> QED  BY <1>5, <3>2, <3>3
  <2> QED  BY <1>1, <1>6, <1>8, <1>11, <2>1, <2>2 DEF Found
<1>13. \A i \in DOMAIN n.refs : FolderOf[n.refs[i]] = m.folder
  <2>1. \A f \in Has(m.refs) : FolderOf[f] = m.folder
    BY <1>1, <1>2 DEF ImportOk, Has
  <2>2. \A f \in Has(got) : FolderOf[f] = m.folder
    BY <1>4, <1>5 DEF Has
  <2> QED  BY <1>8, <1>11, <2>1, <2>2
<1>14. ImportOk(n, shelf, stood \cup half)
  BY <1>1, <1>2, <1>6, <1>11, <1>12, <1>13 DEF ImportOk
<1> QED  BY <1>1, <1>7, <1>14, OnlySync

LEMMA NextRef ==
  ASSUME NEW q \in Seq(FileIds), q # << >>
  PROVE  Head(q) \in FileIds /\ Head(q) \in Has(q) /\ Tail(q) \in Seq(FileIds) /\ Has(q) = Has(Tail(q)) \cup {Head(q)}
<1> DEFINE t == Tail(q)
<1>1. /\ Len(q) \in Nat /\ Len(q) >= 1 /\ DOMAIN q = 1 .. Len(q) /\ t \in Seq(FileIds) /\ Len(t) = Len(q) - 1
      /\ \A i \in 1 .. Len(t) : t[i] = q[i + 1]
      /\ Head(q) = q[1] /\ DOMAIN t = 1 .. Len(t)
  OBVIOUS
<1> HIDE DEF t
<1>2. \A i \in DOMAIN q : q[i] \in Has(t) \cup {Head(q)}
  <2> TAKE i \in DOMAIN q
  <2>1. CASE i = 1
    BY <1>1, <2>1
  <2>2. CASE i # 1
    <3>1. i - 1 \in DOMAIN t /\ (i - 1) + 1 = i
      BY <1>1, <2>2
    <3>2. t[i - 1] = q[i]
      BY <1>1, <3>1
    <3> QED  BY <3>1, <3>2 DEF Has
  <2> QED  BY <2>1, <2>2
<1>3. \A i \in DOMAIN t : t[i] \in Has(q)
  <2> TAKE i \in DOMAIN t
  <2>1. i + 1 \in DOMAIN q /\ t[i] = q[i + 1]
    BY <1>1
  <2> QED  BY <2>1 DEF Has
<1>4. 1 \in DOMAIN q /\ Head(q) \in Has(q) /\ Head(q) \in FileIds
  BY <1>1 DEF Has
<1>5. Has(q) = Has(t) \cup {Head(q)}
  BY <1>2, <1>3, <1>4 DEF Has
<1>6. t \in Seq(FileIds)
  BY <1>1
<1> QED  BY <1>4, <1>5, <1>6 DEF t

\* A step that reads leaves the files and what they stood for as they are.
LEMMA OnlyRead ==
  ASSUME CsvSizes, CsvInv, NEW n, importing' = n, shelf' = shelf, stood' = stood,
         ImportOk(n, shelf, stood \cup half'), imported' \subseteq stood \cup half'
  PROVE  CsvInv'
<1>1. ImportOk(importing', shelf', stood' \cup half') /\ imported' \subseteq stood' \cup half'
  OBVIOUS
<1>2. /\ shelf' \in [FileIds -> AnyFile] /\ \A f \in FileIds : shelf'[f].open => shelf'[f].rows # << >>
      /\ \A f \in FileIds : Csv!ParseCSV(FolderOf[f], f, Csv!WholeRows(shelf', f)) \subseteq stood'
  BY DEF CsvInv
<1> QED  BY <1>1, <1>2 DEF CsvInv

LEMMA MoreReal ==
  ASSUME NEW m, NEW d, NEW real, NEW more, ImportOk(m, d, real), real \subseteq more
  PROVE  ImportOk(m, d, more)
BY DEF ImportOk

LEMMA ParseFileKeeps == ASSUME CsvSizes, CsvInv, Csv!ParseFile PROVE CsvInv'
<1> DEFINE m == importing  f == Head(m.refs)  R == Csv!ReadRows(f)  W == Csv!WholeRows(shelf, f)
           new == Csv!ParseCSV(m.folder, f, R)
           a == [m EXCEPT !.refs = Tail(m.refs)]
           n == [a EXCEPT !.txns = m.txns \cup new]
<1>1. /\ importing' = [m EXCEPT !.refs = Tail(m.refs), !.txns = m.txns \cup new] /\ m.pc = "files" /\ m.refs # << >>
      /\ shelf' = shelf /\ imported' = imported /\ stood' = stood /\ half' = half \cup Csv!ParseCSV(m.folder, f, R \ W)
  BY DEF Csv!ParseFile, Csv!Go
<1>2. ImportOk(m, shelf, stood \cup half) /\ shelf \in [FileIds -> AnyFile] /\ imported \subseteq stood \cup half
      /\ (\A g \in FileIds : shelf[g].open => shelf[g].rows # << >>)
      /\ \A g \in FileIds : Csv!ParseCSV(FolderOf[g], g, Csv!WholeRows(shelf, g)) \subseteq stood
  BY DEF CsvInv
<1> HIDE DEF m
<1>3. m \in AnyImport /\ m.refs \in Seq(FileIds) /\ m.txns \in SUBSET Txn
  BY <1>2 DEF ImportOk, AnyImport
<1>4. f \in FileIds /\ f \in Has(m.refs) /\ Tail(m.refs) \in Seq(FileIds) /\ Has(m.refs) = Has(Tail(m.refs)) \cup {f}
  BY <1>1, <1>3, NextRef
<1>5. FolderOf[f] = m.folder /\ m.folder \in DOMAIN Folders
  BY <1>1, <1>2, <1>4 DEF ImportOk, Has
<1>6. W \subseteq R /\ W \subseteq Rows /\ R \subseteq AnyRead
  <2>1. shelf[f] \in AnyFile /\ (shelf[f].open => shelf[f].rows # << >>)
    BY <1>2, <1>4
  <2> HIDE DEF f
  <2> QED  BY <1>4, <2>1, RowsRead
<1>7. W = Csv!WholeRows(shelf, f)
  OBVIOUS
<1> HIDE DEF f, R, W
<1>8. new \subseteq Txn /\ new \subseteq stood \cup half'
  <2>1. new \subseteq Txn
    BY <1>4, <1>5, <1>6, ParsedIs
  <2>2. new \subseteq Csv!ParseCSV(m.folder, f, W) \cup Csv!ParseCSV(m.folder, f, R \ W)
    BY ParsedIs
  <2>3. Csv!ParseCSV(m.folder, f, W) \subseteq stood
    BY <1>2, <1>4, <1>5, <1>7
  <2> QED  BY <1>1, <2>1, <2>2, <2>3
<1>9. ASSUME NEW x \in m.stable, x[1] = f PROVE Csv!ParseCSV(FolderOf[f], f, {x[2]}) \subseteq new
  <2>1. Csv!Holds(shelf, x)
    BY <1>1, <1>2 DEF ImportOk
  <2>2. x[2] \in W
    BY <1>7, <1>9, <2>1 DEF Csv!Holds
  <2>3. {x[2]} \subseteq R
    BY <1>6, <2>2
  <2> QED  BY <1>5, <2>3, ParsedIs
<1> HIDE DEF new
<1>10. importing' = n
  BY <1>1, <1>3 DEF AnyImport
<1>11. /\ a \in AnyImport /\ a.pc = m.pc /\ a.folder = m.folder /\ a.got = m.got /\ a.failed = m.failed /\ a.skipped = m.skipped
       /\ a.stable = m.stable /\ a.refs = Tail(m.refs)
  BY <1>3, <1>4 DEF AnyImport
<1> HIDE DEF a
<1>12. /\ n \in AnyImport /\ n.pc = m.pc /\ n.folder = m.folder /\ n.got = m.got /\ n.failed = m.failed /\ n.skipped = m.skipped
       /\ n.stable = m.stable /\ n.refs = Tail(m.refs) /\ n.txns = m.txns \cup new
  <2>1. m.txns \cup new \in SUBSET Txn
    BY <1>3, <1>8
  <2> QED  BY <1>11, <2>1 DEF AnyImport
<1> HIDE DEF n
<1>13. ASSUME NEW x \in m.stable PROVE Found(n, x)
  <2>1. Found(m, x)
    BY <1>1, <1>2 DEF ImportOk
  <2>2. CASE x[1] = f
    <3>1. Csv!ParseCSV(FolderOf[x[1]], x[1], {x[2]}) \subseteq n.txns
      BY <1>9, <1>12, <2>2
    <3> QED  BY <1>1, <1>12, <2>1, <3>1 DEF Found
  <2>3. CASE x[1] # f
    <3>1. x[1] \in Has(m.refs) => x[1] \in Has(n.refs)
      BY <1>4, <1>12, <2>3
    <3> QED  BY <1>1, <1>12, <2>1, <3>1 DEF Found
  <2> QED  BY <2>2, <2>3
<1>14. \A i \in DOMAIN n.refs : FolderOf[n.refs[i]] = m.folder
  <2>1. \A g \in Has(m.refs) : FolderOf[g] = m.folder
    BY <1>1, <1>2 DEF ImportOk, Has
  <2>2. \A i \in DOMAIN n.refs : n.refs[i] \in Has(m.refs)
    BY <1>4, <1>12 DEF Has
  <2> QED  BY <2>1, <2>2
<1>15. ImportOk(m, shelf, stood \cup half')
  BY <1>1, <1>2, MoreReal
<1>16. ImportOk(n, shelf, stood \cup half')
  BY <1>1, <1>8, <1>12, <1>13, <1>14, <1>15 DEF ImportOk
<1>17. imported \subseteq stood \cup half'
  BY <1>1, <1>2
<1> QED  BY <1>1, <1>10, <1>16, <1>17, OnlyRead

LEMMA SkipFileKeeps == ASSUME CsvSizes, CsvInv, Csv!SkipFile PROVE CsvInv'
<1> DEFINE m == importing  f == Head(m.refs)
           a == [m EXCEPT !.refs = Tail(m.refs)]
           n == [a EXCEPT !.skipped = m.skipped \cup {f}]
<1>1. /\ importing' = [m EXCEPT !.refs = Tail(m.refs), !.skipped = m.skipped \cup {f}] /\ m.pc = "files" /\ m.refs # << >>
      /\ shelf' = shelf /\ imported' = imported /\ stood' = stood /\ half' = half
  BY DEF Csv!SkipFile, Csv!Go, Csv!Keep
<1>2. ImportOk(m, shelf, stood \cup half)
  BY DEF CsvInv
<1> HIDE DEF m
<1>3. m \in AnyImport /\ m.refs \in Seq(FileIds) /\ m.skipped \in SUBSET FileIds
  BY <1>2 DEF ImportOk, AnyImport
<1>4. f \in FileIds /\ Tail(m.refs) \in Seq(FileIds) /\ Has(m.refs) = Has(Tail(m.refs)) \cup {f}
  BY <1>1, <1>3, NextRef
<1> HIDE DEF f
<1>5. importing' = n
  BY <1>1, <1>3 DEF AnyImport
<1>6. /\ a \in AnyImport /\ a.pc = m.pc /\ a.folder = m.folder /\ a.got = m.got /\ a.failed = m.failed /\ a.skipped = m.skipped
      /\ a.stable = m.stable /\ a.refs = Tail(m.refs) /\ a.txns = m.txns
  BY <1>3, <1>4 DEF AnyImport
<1> HIDE DEF a
<1>7. /\ n \in AnyImport /\ n.pc = m.pc /\ n.folder = m.folder /\ n.got = m.got /\ n.failed = m.failed /\ n.skipped = m.skipped \cup {f}
      /\ n.stable = m.stable /\ n.refs = Tail(m.refs) /\ n.txns = m.txns
  <2>1. m.skipped \cup {f} \in SUBSET FileIds
    BY <1>3, <1>4
  <2> QED  BY <1>6, <2>1 DEF AnyImport
<1> HIDE DEF n
<1>8. ASSUME NEW x \in m.stable PROVE Found(n, x)
  <2>1. Found(m, x)
    BY <1>1, <1>2 DEF ImportOk
  <2>2. x[1] # f => (x[1] \in Has(m.refs) => x[1] \in Has(n.refs))
    BY <1>4, <1>7
  <2> QED  BY <1>1, <1>7, <2>1, <2>2 DEF Found
<1>9. \A i \in DOMAIN n.refs : FolderOf[n.refs[i]] = m.folder
  <2>1. \A g \in Has(m.refs) : FolderOf[g] = m.folder
    BY <1>1, <1>2 DEF ImportOk, Has
  <2>2. \A i \in DOMAIN n.refs : n.refs[i] \in Has(m.refs)
    BY <1>4, <1>7 DEF Has
  <2> QED  BY <2>1, <2>2
<1>10. ImportOk(n, shelf, stood \cup half)
  BY <1>1, <1>2, <1>7, <1>8, <1>9 DEF ImportOk
<1> QED  BY <1>1, <1>5, <1>10, OnlySync

LEMMA FolderDoneKeeps == ASSUME CsvSizes, CsvInv, Csv!FolderDone PROVE CsvInv'
<1> DEFINE m == importing
           a == [m EXCEPT !.pc = "folder"]
           b == [a EXCEPT !.folder = m.folder + 1]
           n == [b EXCEPT !.got = m.got \cup m.txns]
<1>1. /\ importing' = [m EXCEPT !.pc = "folder", !.folder = m.folder + 1, !.got = m.got \cup m.txns]
      /\ m.pc = "files" /\ m.refs = << >>
      /\ shelf' = shelf /\ imported' = imported /\ stood' = stood /\ half' = half
  BY DEF Csv!FolderDone, Csv!Go, Csv!Keep, Csv!Appended
<1>2. ImportOk(m, shelf, stood \cup half)
  BY DEF CsvInv
<1> HIDE DEF m
<1>3. m \in AnyImport /\ m.folder \in Nat \ {0} /\ m.got \in SUBSET Txn /\ m.txns \in SUBSET Txn
  BY <1>2 DEF ImportOk, AnyImport
<1>4. importing' = n
  BY <1>1, <1>3 DEF AnyImport
<1>5. a \in AnyImport /\ a.pc = "folder" /\ a.folder = m.folder /\ a.got = m.got /\ a.failed = m.failed /\ a.skipped = m.skipped /\ a.stable = m.stable
  BY <1>3 DEF AnyImport
<1> HIDE DEF a
<1>6. b \in AnyImport /\ b.pc = "folder" /\ b.folder = m.folder + 1 /\ b.got = m.got /\ b.failed = m.failed /\ b.skipped = m.skipped /\ b.stable = m.stable
  <2>1. m.folder + 1 \in Nat \ {0}
    BY <1>3
  <2> QED  BY <1>5, <2>1 DEF AnyImport
<1> HIDE DEF b
<1>7. n \in AnyImport /\ n.pc = "folder" /\ n.folder = m.folder + 1 /\ n.got = m.got \cup m.txns /\ n.failed = m.failed
      /\ n.skipped = m.skipped /\ n.stable = m.stable
  <2>1. m.got \cup m.txns \in SUBSET Txn
    BY <1>3
  <2> QED  BY <1>6, <2>1 DEF AnyImport
<1> HIDE DEF n
<1>8. ASSUME NEW x \in m.stable PROVE Found(n, x)
  <2>1. Found(m, x)
    BY <1>1, <1>2 DEF ImportOk
  <2>2. FolderOf[x[1]] \in Nat
    BY <1>3, StableAre, FilesAre
  <2>3. FolderOf[x[1]] < m.folder + 1 => FolderOf[x[1]] < m.folder \/ FolderOf[x[1]] = m.folder
    BY <1>3, <2>2
  <2>4. x[1] \notin Has(m.refs)
    BY <1>1 DEF Has
  <2> QED  BY <1>1, <1>7, <2>1, <2>3, <2>4 DEF Found
<1>9. n.got \subseteq stood \cup half
  BY <1>1, <1>2, <1>7 DEF ImportOk
<1>10. ImportOk(n, shelf, stood \cup half)
  BY <1>1, <1>2, <1>7, <1>8, <1>9 DEF ImportOk
<1> QED  BY <1>1, <1>4, <1>10, OnlySync

\* A sync that is over.
LEMMA NoImport == ASSUME NEW d, NEW real PROVE ImportOk(Csv!Idle, d, real)
<1>1. Csv!Idle \in AnyImport /\ Csv!Idle.pc = "idle" /\ Csv!Idle.got = {}
  BY DEF Csv!Idle, AnyImport
<1> QED  BY <1>1 DEF ImportOk

LEMMA FetchDoneKeeps == ASSUME CsvSizes, CsvInv, Csv!FetchDone PROVE CsvInv'
<1> DEFINE m == importing  n == [m EXCEPT !.pc = "persist"]
<1>1. /\ importing' = Csv!Idle \/ importing' = n
      /\ m.pc = "folder" /\ m.folder > Len(Folders)
      /\ shelf' = shelf /\ imported' = imported /\ stood' = stood /\ half' = half
  BY DEF Csv!FetchDone, Csv!Go, Csv!Keep
<1>2. ImportOk(m, shelf, stood \cup half)
  BY DEF CsvInv
<1> HIDE DEF m
<1>3. m \in AnyImport
  BY <1>2 DEF ImportOk
<1>4. n \in AnyImport /\ n.pc = "persist" /\ n.folder = m.folder /\ n.got = m.got /\ n.failed = m.failed /\ n.skipped = m.skipped /\ n.stable = m.stable
  BY <1>3 DEF AnyImport
<1> HIDE DEF n
<1>5. \A x \in m.stable : Found(m, x) => Found(n, x)
  BY <1>4 DEF Found
<1>6. ImportOk(n, shelf, stood \cup half)
  BY <1>1, <1>2, <1>4, <1>5 DEF ImportOk
<1>7. ImportOk(importing', shelf, stood \cup half)
  BY <1>1, <1>6, NoImport
<1> QED  BY <1>1, <1>7, OnlySync

LEMMA ImportKeeps == ASSUME CsvSizes, CsvInv, Csv!Persist PROVE CsvInv'
<1>1. /\ importing' = Csv!Idle /\ shelf' = shelf /\ imported' = imported \cup importing.got /\ stood' = stood /\ half' = half
  BY DEF Csv!Persist, Csv!Go
<1>2. importing.got \subseteq stood \cup half
  BY DEF CsvInv, ImportOk
<1>3. ImportOk(importing', shelf, stood \cup half)
  BY <1>1, NoImport
<1> QED  BY <1>1, <1>2, <1>3 DEF CsvInv, Csv!WholeRows

\* A file changes: what a sync still counts on is there.
LEMMA PutKeeps ==
  ASSUME CsvSizes, CsvInv, NEW f \in FileIds, NEW file \in AnyFile, file.open => file.rows # << >>, Csv!Put(f, file)
  PROVE  CsvInv'
<1> DEFINE m == importing  st == {x \in m.stable : Csv!Holds(shelf', x)}  n == [m EXCEPT !.stable = st]
<1>1. /\ shelf' = [shelf EXCEPT ![f] = file] /\ stood' = stood \cup Csv!ParseCSV(FolderOf[f], f, Csv!WholeRows(shelf', f))
      /\ importing' = n /\ imported' = imported /\ half' = half
  BY DEF Csv!Put, Csv!Go
<1>2. /\ ImportOk(m, shelf, stood \cup half) /\ shelf \in [FileIds -> AnyFile]
      /\ \A g \in FileIds : shelf[g].open => shelf[g].rows # << >>
      /\ \A g \in FileIds : Csv!ParseCSV(FolderOf[g], g, Csv!WholeRows(shelf, g)) \subseteq stood
      /\ imported \subseteq stood \cup half
  BY DEF CsvInv
<1>3. shelf' \in [FileIds -> AnyFile] /\ \A g \in FileIds : shelf'[g] = IF g = f THEN file ELSE shelf[g]
  BY <1>1, <1>2
<1>4. \A g \in FileIds : shelf'[g].open => shelf'[g].rows # << >>
  BY <1>2, <1>3
<1>5. ASSUME NEW g \in FileIds PROVE Csv!ParseCSV(FolderOf[g], g, Csv!WholeRows(shelf', g)) \subseteq stood'
  <2>1. CASE g = f
    BY <1>1, <2>1
  <2>2. CASE g # f
    <3>1. Csv!WholeRows(shelf', g) = Csv!WholeRows(shelf, g)
      BY <1>3, <2>2 DEF Csv!WholeRows
    <3> QED  BY <1>1, <1>2, <3>1
  <2> QED  BY <2>1, <2>2
<1> HIDE DEF m
<1>6. st \subseteq m.stable /\ \A x \in st : Csv!Holds(shelf', x)
  OBVIOUS
<1> HIDE DEF st
<1>7. m \in AnyImport
  BY <1>2 DEF ImportOk
<1>8. /\ n \in AnyImport /\ n.pc = m.pc /\ n.folder = m.folder /\ n.page = m.page /\ n.refs = m.refs /\ n.txns = m.txns
      /\ n.got = m.got /\ n.failed = m.failed /\ n.skipped = m.skipped /\ n.stable = st
  BY <1>6, <1>7 DEF AnyImport
<1> HIDE DEF n
<1>9. \A x : Found(m, x) => Found(n, x)
  BY <1>8 DEF Found
<1>10. stood \subseteq stood'
  BY <1>1
<1>11. ImportOk(n, shelf', stood' \cup half')
  BY <1>1, <1>2, <1>6, <1>8, <1>9, <1>10 DEF ImportOk
<1>12. imported' \subseteq stood' \cup half'
  BY <1>1, <1>2, <1>10
<1> QED  BY <1>1, <1>3, <1>4, <1>5, <1>11, <1>12 DEF CsvInv

LEMMA FilesChange ==
  ASSUME CsvSizes, CsvInv, NEW f \in FileIds,
         \/ \E r \in Rows : (\E open \in BOOLEAN : Csv!AddRow(f, r, open)) \/ Csv!Edit(f, r)
         \/ Csv!WriteOut(f) \/ Csv!Unlink(f)
  PROVE  CsvInv'
<1>1. shelf[f] \in AnyFile /\ (shelf[f].open => shelf[f].rows # << >>)
  BY DEF CsvInv
<1>2. ASSUME NEW r \in Rows, NEW open \in BOOLEAN, Csv!AddRow(f, r, open) PROVE CsvInv'
  <2> DEFINE file == [here |-> TRUE, rows |-> Append(shelf[f].rows, r), open |-> open]
  <2>1. file \in AnyFile /\ file.rows # << >>
    <3> DEFINE s == shelf[f].rows
    <3>1. s \in Seq(Rows)
      BY <1>1 DEF AnyFile
    <3> HIDE DEF s
    <3>2. Append(s, r) \in Seq(Rows) /\ Append(s, r) # << >>
      BY <1>2, <3>1
    <3> QED  BY <1>2, <3>2 DEF AnyFile, s
  <2>2. Csv!Put(f, file)
    BY <1>2 DEF Csv!AddRow
  <2> HIDE DEF file
  <2> QED  BY <2>1, <2>2, PutKeeps
<1>3. ASSUME NEW r \in Rows, Csv!Edit(f, r) PROVE CsvInv'
  <2> DEFINE edited == [shelf[f].rows EXCEPT ![1] = r]  file == [shelf[f] EXCEPT !.rows = edited]
  <2>1. edited \in Seq(Rows) /\ ~shelf[f].open
    <3> DEFINE s == shelf[f].rows
    <3>1. s \in Seq(Rows) /\ ~shelf[f].open
      BY <1>1, <1>3 DEF AnyFile, Csv!Edit
    <3> HIDE DEF s
    <3>2. [s EXCEPT ![1] = r] \in Seq(Rows)
      <4>1. Len(s) \in Nat /\ \A i \in 1 .. Len(s) : s[i] \in Rows
        BY <3>1
      <4>2. DOMAIN s = 1 .. Len(s)
        BY <3>1
      <4>3. [s EXCEPT ![1] = r] = [i \in 1 .. Len(s) |-> IF i = 1 THEN r ELSE s[i]]
        BY <4>2
      <4>4. [i \in 1 .. Len(s) |-> IF i = 1 THEN r ELSE s[i]] \in [1 .. Len(s) -> Rows]
        BY <1>3, <4>1
      <4> DEFINE z == [i \in 1 .. Len(s) |-> IF i = 1 THEN r ELSE s[i]]  n == Len(s)
      <4>5. z \in [1 .. n -> Rows] /\ n \in Nat
        BY <4>1, <4>4
      <4> HIDE DEF z, n
      <4>6. z \in Seq(Rows)
        BY <4>5
      <4> QED  BY <4>3, <4>6 DEF z
    <3> QED  BY <3>1, <3>2 DEF s
  <2>2. Csv!Put(f, [shelf[f] EXCEPT !.rows[1] = r])
    BY <1>3 DEF Csv!Edit
  <2>3. [shelf[f] EXCEPT !.rows[1] = r] = file
    BY <1>1 DEF AnyFile
  <2> HIDE DEF edited
  <2>4. file \in AnyFile /\ ~file.open
    BY <1>1, <2>1 DEF AnyFile
  <2> HIDE DEF file
  <2> QED  BY <2>2, <2>3, <2>4, PutKeeps
<1>4. ASSUME Csv!WriteOut(f) PROVE CsvInv'
  <2> DEFINE file == [shelf[f] EXCEPT !.open = FALSE]
  <2>1. file \in AnyFile /\ ~file.open
    BY <1>1 DEF AnyFile
  <2>2. Csv!Put(f, file)
    BY <1>4 DEF Csv!WriteOut
  <2> HIDE DEF file
  <2> QED  BY <2>1, <2>2, PutKeeps
<1>5. ASSUME Csv!Unlink(f) PROVE CsvInv'
  <2>1. Csv!NoFile \in AnyFile /\ ~Csv!NoFile.open
    BY DEF Csv!NoFile, AnyFile
  <2>2. Csv!Put(f, Csv!NoFile)
    BY <1>5 DEF Csv!Unlink
  <2> QED  BY <2>1, <2>2, PutKeeps
<1> QED  BY <1>2, <1>3, <1>4, <1>5

LEMMA CsvGoesOn == ASSUME CsvSizes, CsvInv, [Csv!Next]_Csv!vars PROVE CsvInv'
<1>1. CASE UNCHANGED Csv!vars
  BY <1>1, OnlySync DEF Csv!vars, CsvInv
<1>2. ASSUME Csv!Connect \/ Csv!Revoke PROVE CsvInv'
  <2>1. shelf' = shelf /\ importing' = importing /\ imported' = imported /\ stood' = stood /\ half' = half
    BY <1>2 DEF Csv!Connect, Csv!Revoke
  <2> QED  BY <2>1, OnlySync DEF CsvInv
<1>3. ASSUME Csv!Fetch \/ Csv!FileStore \/ Csv!SkipFolder \/ Csv!ListLocal \/ Csv!ListPage PROVE CsvInv'
  BY <1>3, FetchKeepsCsv, FileStoreKeeps, SkipFolderKeeps, ListLocalKeeps, ListPageKeeps
<1>4. ASSUME Csv!ParseFile \/ Csv!SkipFile \/ Csv!FolderDone \/ Csv!FetchDone \/ Csv!Persist PROVE CsvInv'
  BY <1>4, ParseFileKeeps, SkipFileKeeps, FolderDoneKeeps, FetchDoneKeeps, ImportKeeps
<1>5. ASSUME NEW f \in FileIds,
             \/ \E r \in Rows : (\E open \in BOOLEAN : Csv!AddRow(f, r, open)) \/ Csv!Edit(f, r)
             \/ Csv!WriteOut(f) \/ Csv!Unlink(f)
      PROVE  CsvInv'
  BY <1>5, FilesChange
<1> QED  BY <1>1, <1>2, <1>3, <1>4, <1>5 DEF Csv!Next

LEMMA CsvMeansIt == ASSUME CsvSizes, CsvInv PROVE Csv!RestIsKept /\ Csv!RowsAreReal
<1>1. Csv!RowsAreReal
  BY DEF CsvInv, Csv!RowsAreReal
<1>2. ASSUME importing.pc = "persist", NEW x \in importing.stable, x[1] \notin importing.skipped, FolderOf[x[1]] \notin importing.failed
      PROVE  Csv!ParseCSV(FolderOf[x[1]], x[1], {x[2]}) \subseteq importing.got
  <2>1. importing \in AnyImport /\ importing.folder > Len(Folders) /\ importing.folder \in Nat /\ Found(importing, x)
    BY <1>2 DEF CsvInv, ImportOk, AnyImport
  <2>2. FolderOf[x[1]] < importing.folder
    <3>1. FolderOf[x[1]] \in Nat /\ FolderOf[x[1]] <= Len(Folders) /\ Len(Folders) \in Nat
      BY <2>1, StableAre, FilesAre
    <3> QED  BY <2>1, <3>1
  <2> QED  BY <1>2, <2>1, <2>2 DEF Found
<1> QED  BY <1>1, <1>2 DEF Csv!RestIsKept

\* Whatever is written, edited, removed or refused while a sync reads the folders: what it is about to
\* ingest has every row that can be mapped and was there throughout, of every file that could be read in
\* a folder that could be listed, also when a listing comes in pages (RestIsKept), and everything
\* ingested stands for a row that a file had, or for one read half written (RowsAreReal): csv.go,
\* gdrive.go, parse.go.
THEOREM RowsKept == ASSUME CsvSizes PROVE Csv!Spec => [](Csv!RestIsKept /\ Csv!RowsAreReal)
<1>1. Csv!Init => CsvInv
  BY CsvBegins
<1>2. CsvInv /\ [Csv!Next]_Csv!vars => CsvInv'
  BY CsvGoesOn
<1>3. CsvInv => Csv!RestIsKept /\ Csv!RowsAreReal
  BY CsvMeansIt
<1> QED  BY <1>1, <1>2, <1>3, PTL DEF Csv!Spec

-----------------------------------------------------------------------------
(* The Plaid source: its tokens, and the items they stand for read by offset. *)
CONSTANTS Institution, Owner, Amount
VARIABLES items, newest, pull

Plaid == INSTANCE PlaidSource WITH
  MaxEdits <- MaxLinks, edits <- links, asked <- linked, mixed <- tangled

Txns == 1 .. MaxTxns
Signed == [sign : {"", "+", "-"}, zero : BOOLEAN]

\* Pages that hold something, and as many to a walk as an item's transactions need.
PlaidSizes ==
  /\ Config \in Seq(Tokens)
  /\ PageCount \in Nat \ {0} /\ MaxPages \in Nat \ {0} /\ MaxTxns \in Nat \ {0} /\ MaxPages * PageCount >= MaxTxns
  /\ Amount \in [Txns -> Signed]

Listable == UNION {Sees[t] : t \in Tokens}
Institutions == {Institution[t] : t \in Tokens}
Named == Institutions \cup {""}
ItemRow == [acct : Listable, token : Tokens, name : Named, read : BOOLEAN, had : SUBSET Txns, shifted : BOOLEAN,
            txns : SUBSET [id : Txns, amount : Signed]]
AnyPull ==
  [pc : {"idle", "item", "page", "failed", "done"}, tokens : Seq(Tokens), seen : SUBSET Listable,
   names : UNION {[D -> Named] : D \in SUBSET Institutions}, accts : SUBSET Listable, all : Seq(Txns), page : Nat,
   had : SUBSET Txns, shifted : BOOLEAN, errs : Nat, batch : SUBSET ItemRow]

\* How far from the newest of a set of transactions one of them is.
Depth(S, n) == Cardinality(S) - Cardinality(Below(S, n)) + 1

Listed(b) == {r.acct : r \in b}
Turned(x) == (x.amount.sign = "-") = (~x.amount.zero /\ Amount[x.id].sign # "-")
RowOk(r, names) ==
  /\ Institution[r.token] \in DOMAIN names /\ r.name = names[Institution[r.token]]
  /\ r.read /\ ~r.shifted => \A n \in r.had : \E x \in r.txns : x.id = n
  /\ \A x \in r.txns : Turned(x)

\* The item being read: what the walk has not read yet lies below its offset.
Missed(p, S) == \A n \in p.had : n \in S /\ (n \in Has(p.all) \/ Depth(S, n) > Len(p.all))
ReadOn(p, S) ==
  /\ p.accts \cap Listed(p.batch) = {} /\ Listed(p.batch) \cup p.accts = p.seen
  /\ p.page < MaxPages
  /\ ~p.shifted => Len(p.all) = p.page * PageCount /\ Missed(p, S)

PullOk(p, its) ==
  /\ p \in AnyPull
  /\ p.pc # "page" => Listed(p.batch) = p.seen
  /\ \A r \in p.batch : RowOk(r, p.names)
  /\ \A r, s \in p.batch : r.acct = s.acct => r = s
  /\ p.pc = "failed" => p.batch = {}
  /\ p.pc = "page" => p.tokens # << >> /\ Institution[Head(p.tokens)] \in DOMAIN p.names /\ ReadOn(p, its[Head(p.tokens)])

PullInv ==
  /\ items \in [Tokens -> SUBSET Txns] /\ newest \in [Tokens -> 0 .. MaxTxns]
  /\ \A t \in Tokens : \A n \in items[t] : n <= newest[t]
  /\ PullOk(pull, items)

-----------------------------------------------------------------------------
(* The tokens are kept by the same code. *)

LEMMA SameTokens ==
  ASSUME NEW e, NEW t
  PROVE  /\ \A pc : Plaid!ReadTokens(e, pc, t) => Bank!ReadTokens(e, pc, t)
         /\ Plaid!WriteTokens(e) => Bank!WriteTokens(e)
         /\ Plaid!WriteFails(e) => Bank!WriteFails(e)
<1>1. Plaid!IdleEditor = Bank!IdleEditor
  BY DEF Plaid!IdleEditor, Bank!IdleEditor, Plaid!None, Bank!None
<1>2. \A s, I : Plaid!AtPlaces(s, I) = Bank!AtPlaces(s, I)
  BY DEF Plaid!AtPlaces, Bank!AtPlaces, Plaid!InOrder, Bank!InOrder, Plaid!Cardinality, Bank!Cardinality
<1>3. \A s : Plaid!DedupeTokens(s) = Bank!DedupeTokens(s)
  BY <1>2 DEF Plaid!DedupeTokens, Bank!DedupeTokens
<1>4. \A pc : Plaid!ReadTokens(e, pc, t) => Bank!ReadTokens(e, pc, t)
  BY DEF Plaid!ReadTokens, Bank!ReadTokens
<1>5. Plaid!WriteTokens(e) => Bank!WriteTokens(e)
  BY <1>1, <1>2, <1>3 DEF Plaid!WriteTokens, Bank!WriteTokens
<1>6. Plaid!WriteFails(e) => Bank!WriteFails(e)
  BY <1>1 DEF Plaid!WriteFails, Bank!WriteFails
<1> QED  BY <1>4, <1>5, <1>6

LEMMA PlaidTokensBegin == ASSUME Plaid!Init PROVE BankedInv
<1>1. vault = << >> /\ editor = [e \in Editors |-> Plaid!IdleEditor] /\ linked = {} /\ tangled = FALSE
  BY DEF Plaid!Init, Plaid!TokensInit
<1>2. Plaid!IdleEditor \in AnyEditor /\ Plaid!IdleEditor.pc = "idle" /\ Once(Plaid!IdleEditor.read)
  BY DEF Plaid!IdleEditor, AnyEditor, Once, Plaid!None, Bank!None
<1>3. vault \in Seq(Tokens) /\ Once(vault) /\ Has(vault) = {}
  BY <1>1 DEF Once, Has
<1> QED  BY <1>1, <1>2, <1>3 DEF BankedInv

LEMMA PlaidTokensGoOn == ASSUME BankedInv, [Plaid!Next]_Plaid!vars PROVE BankedInv'
<1>1. CASE Plaid!TokensNext
  <2>1. PICK e \in Editors : \/ \E t \in Tokens : Plaid!SetCredential(e, t) \/ Plaid!RemoveCredential(e, t)
                             \/ Plaid!WriteTokens(e) \/ Plaid!WriteFails(e)
    BY <1>1 DEF Plaid!TokensNext
  <2>2. CASE \E t \in Tokens : Plaid!SetCredential(e, t) \/ Plaid!RemoveCredential(e, t)
    <3>1. PICK t \in Tokens : \E pc \in {"add", "remove"} : Plaid!ReadTokens(e, pc, t)
      BY <2>2 DEF Plaid!SetCredential, Plaid!RemoveCredential
    <3>2. PICK pc \in {"add", "remove"} : Plaid!ReadTokens(e, pc, t)
      BY <3>1
    <3>3. Bank!ReadTokens(e, pc, t)
      BY <3>2, SameTokens
    <3> QED  BY <3>3, BankedReads
  <2>3. CASE Plaid!WriteTokens(e) \/ Plaid!WriteFails(e)
    <3>1. Bank!WriteTokens(e) \/ Bank!WriteFails(e)
      BY <2>3, SameTokens
    <3> QED  BY <3>1, BankedAnswers
  <2> QED  BY <2>1, <2>2, <2>3
<1>2. CASE UNCHANGED Plaid!editVars
  <2>1. UNCHANGED Bank!editVars
    BY <1>2 DEF Plaid!editVars, Bank!editVars
  <2> QED  BY <2>1, BankedStays
<1>3. Plaid!TokensNext \/ UNCHANGED Plaid!editVars
  BY DEF Plaid!Next, Plaid!vars, Plaid!PlaidCredentials, Plaid!Post, Plaid!Withdraw, Plaid!FetchBegins, Plaid!ItemAccounts,
         Plaid!ItemTransactions, Plaid!FetchEnds, Plaid!Taken
<1> QED  BY <1>1, <1>2, <1>3

LEMMA PlaidTokensMeanIt == ASSUME Config \in Seq(Tokens), BankedInv PROVE Plaid!TokensAsAsked
<1>1. Bank!TokensAsAsked
  BY BankedMeansIt
<1>2. \A s, I : Plaid!AtPlaces(s, I) = Bank!AtPlaces(s, I)
  BY DEF Plaid!AtPlaces, Bank!AtPlaces, Plaid!InOrder, Bank!InOrder, Plaid!Cardinality, Bank!Cardinality
<1>3. Plaid!ResolveTokens = Bank!ResolveTokens
  BY <1>2 DEF Plaid!DedupeTokens, Bank!DedupeTokens, Plaid!ResolveTokens, Bank!ResolveTokens
<1>4. \A s : Plaid!ToSet(s) = Bank!ToSet(s) /\ (Plaid!IsInjective(s) <=> Bank!IsInjective(s))
  BY DEF Plaid!ToSet, Bank!ToSet, Plaid!IsInjective, Bank!IsInjective
<1>5. Plaid!ListCredentials = Bank!ListCredentials
  BY <1>3, <1>4 DEF Plaid!ListCredentials, Bank!ListCredentials
<1> QED  BY <1>1, <1>3, <1>4, <1>5 DEF Plaid!TokensAsAsked, Bank!TokensAsAsked

-----------------------------------------------------------------------------
(* An item's transactions, the newest first, and its pages. *)

\* The newest first, every transaction at its depth.
LEMMA NewestFirst ==
  ASSUME NEW k \in Nat, NEW S \in SUBSET (1 .. k), NEW l, l = Plaid!Reverse(Plaid!InOrder(S))
  PROVE  /\ l \in Seq(S) /\ Len(l) = Cardinality(S) /\ Len(l) <= k
         /\ \A n \in S : Depth(S, n) \in 1 .. Len(l) /\ l[Depth(S, n)] = n
<1> DEFINE q == Ranked(S)  C == Cardinality(S)  r == [i \in 1 .. C |-> q[(C - i) + 1]]
<1>1. /\ q \in Seq(S) /\ DOMAIN q = 1 .. C /\ C \in Nat
      /\ \A n \in DOMAIN q : q[n] \in S
      /\ \A x \in S : Cardinality(Below(S, x)) \in DOMAIN q /\ q[Cardinality(Below(S, x))] = x
  BY RankedIs
<1>2. C <= k
  <2>1. IsFiniteSet(1 .. k) /\ Cardinality(1 .. k) = k
    BY FS_Interval
  <2> QED  BY <2>1, FS_Subset
<1>3. Plaid!InOrder(S) = q
  BY DEF Plaid!InOrder, Ranked, Cardinality, Plaid!Cardinality, Below
<1> HIDE DEF q
<1>4. Len(q) = C
  BY <1>1
<1>5. l = r
  BY <1>3, <1>4 DEF Plaid!Reverse
<1>6. r \in Seq(S) /\ Len(r) = C
  <2> HIDE DEF C
  <2>1. \A i \in 1 .. C : (C - i) + 1 \in DOMAIN q
    BY <1>1
  <2>2. \A i \in 1 .. C : q[(C - i) + 1] \in S
    BY <1>1, <2>1
  <2> QED  BY <1>1, <2>2
<1>7. ASSUME NEW n \in S PROVE Depth(S, n) \in 1 .. C /\ r[Depth(S, n)] = n
  <2> DEFINE b == Cardinality(Below(S, n))
  <2>1. b \in 1 .. C /\ q[b] = n /\ Depth(S, n) = (C - b) + 1
    BY <1>1 DEF Depth
  <2> HIDE DEF b
  <2>2. (C - b) + 1 \in 1 .. C /\ (C - ((C - b) + 1)) + 1 = b
    BY <1>1, <2>1
  <2> QED  BY <2>1, <2>2
<1> QED  BY <1>2, <1>5, <1>6, <1>7

\* A newer transaction pushes the others down.
LEMMA DeeperBelow ==
  ASSUME NEW k \in Nat, NEW S \in SUBSET (1 .. k), NEW x \in 1 .. k, \A n \in S : n < x, NEW m \in S
  PROVE  Depth(S \cup {x}, m) = Depth(S, m) + 1
<1>1. IsFiniteSet(S) /\ x \notin S
  <2>1. IsFiniteSet(1 .. k)
    BY FS_Interval
  <2>2. x \notin S
    <3> SUFFICES ASSUME x \in S PROVE FALSE
      OBVIOUS
    <3>1. x < x /\ x \in Nat
      OBVIOUS
    <3> QED  BY <3>1
  <2>3. IsFiniteSet(S)
    BY <2>1, FS_Subset
  <2> QED  BY <2>2, <2>3
<1>2. Cardinality(S \cup {x}) = Cardinality(S) + 1 /\ Cardinality(S) \in Nat
  BY <1>1, FS_AddElement, FS_CardinalityType
<1>3. Below(S \cup {x}, m) = Below(S, m)
  BY DEF Below
<1>4. Cardinality(Below(S, m)) \in 1 .. Cardinality(S)
  BY RankIs
<1> QED  BY <1>2, <1>3, <1>4 DEF Depth

\* A page: the places from the offset on.
PageAt(l, k, c) == SubSeq(l, k + 1, IF Len(l) < k + c THEN Len(l) ELSE k + c)

IsPage(g, l, k, c) ==
  /\ \A i \in DOMAIN l : k < i /\ i <= k + c => l[i] \in Has(g)
  /\ k + c <= Len(l) => Len(g) = c
  /\ Len(l) < k + c /\ k <= Len(l) => Len(g) = Len(l) - k
  /\ g = << >> => Len(l) <= k

LEMMA PageHas ==
  ASSUME NEW T, NEW l \in Seq(T), NEW k \in Nat, NEW c \in Nat, c # 0
  PROVE  PageAt(l, k, c) \in Seq(T) /\ IsPage(PageAt(l, k, c), l, k, c)
<1> DEFINE hi == IF Len(l) < k + c THEN Len(l) ELSE k + c  g == SubSeq(l, k + 1, hi)
<1> DEFINE n == Len(l)  z == IF k + 1 <= hi THEN (hi - (k + 1)) + 1 ELSE 0
<1>1. n \in Nat /\ DOMAIN l = 1 .. n /\ \A i \in 1 .. n : l[i] \in T
  OBVIOUS
<1>2. Len(g) = z /\ g \in Seq(T) /\ DOMAIN g = 1 .. z /\ \A i \in 1 .. z : g[i] = l[(k + 1) + i - 1]
  <2>1. hi \in Nat /\ hi <= n
    BY <1>1
  <2> QED  BY <1>1, <2>1
<1>0. hi = (IF n < k + c THEN n ELSE k + c) /\ PageAt(l, k, c) = g
  BY DEF PageAt
<1> HIDE DEF n, hi, g
<1>3. z \in Nat /\ (k + c <= n => z = c) /\ (z = 0 => n <= k) /\ (n < k + c /\ k <= n => z = n - k)
  BY <1>0, <1>1
<1>4. ASSUME NEW i \in 1 .. n, k < i, i <= k + c PROVE i - k \in 1 .. z /\ (k + 1) + (i - k) - 1 = i
  BY <1>0, <1>1, <1>4
<1> HIDE DEF z
<1>5. ASSUME NEW i \in DOMAIN l, k < i, i <= k + c PROVE l[i] \in Has(g)
  <2>1. i - k \in DOMAIN g /\ g[i - k] = l[i]
    BY <1>1, <1>2, <1>4, <1>5
  <2> QED  BY <2>1 DEF Has
<1>6. g = << >> => z = 0
  BY <1>2
<1> QED  BY <1>0, <1>2, <1>3, <1>5, <1>6 DEF n, IsPage

LEMMA HasBoth ==
  ASSUME NEW T, NEW a \in Seq(T), NEW b \in Seq(T)
  PROVE  a \o b \in Seq(T) /\ Has(a \o b) = Has(a) \cup Has(b) /\ Len(a \o b) = Len(a) + Len(b) /\ Has(a) \in SUBSET T
<1>1. /\ a \o b \in Seq(T) /\ Len(a \o b) = Len(a) + Len(b) /\ Len(a) \in Nat /\ Len(b) \in Nat
      /\ DOMAIN a = 1 .. Len(a) /\ DOMAIN b = 1 .. Len(b) /\ DOMAIN (a \o b) = 1 .. Len(a) + Len(b)
      /\ \A i \in 1 .. Len(a) + Len(b) : (a \o b)[i] = IF i <= Len(a) THEN a[i] ELSE b[i - Len(a)]
      /\ \A i \in 1 .. Len(a) : a[i] \in T
  OBVIOUS
<1> DEFINE c == a \o b
<1> HIDE DEF c
<1>2. \A i \in DOMAIN c : c[i] \in Has(a) \cup Has(b)
  <2> TAKE i \in DOMAIN c
  <2>1. CASE i <= Len(a)
    BY <1>1, <2>1 DEF Has, c
  <2>2. CASE ~(i <= Len(a))
    <3>1. i - Len(a) \in DOMAIN b /\ c[i] = b[i - Len(a)]
      BY <1>1, <2>2 DEF c
    <3> QED  BY <3>1 DEF Has
  <2> QED  BY <2>1, <2>2
<1>3. \A i \in DOMAIN a : i \in DOMAIN c /\ c[i] = a[i]
  BY <1>1 DEF c
<1>4. \A i \in DOMAIN b : Len(a) + i \in DOMAIN c /\ c[Len(a) + i] = b[i]
  BY <1>1 DEF c
<1>5. Has(c) = Has(a) \cup Has(b)
  BY <1>2, <1>3, <1>4 DEF Has
<1> QED  BY <1>1, <1>5 DEF c, Has

-----------------------------------------------------------------------------
(* The fetch. *)

LEMMA IdleIsEmpty == Plaid!IdlePull \in AnyPull /\ Plaid!IdlePull.pc = "idle" /\ Plaid!IdlePull.seen = {} /\ Plaid!IdlePull.batch = {}
<1>1. << >> \in Seq(Tokens) /\ << >> \in Seq(Txns)
  OBVIOUS
<1>2. << >> \in UNION {[D -> Named] : D \in SUBSET Institutions}
  <2>1. << >> \in [{} -> Named]
    OBVIOUS
  <2> QED  BY <2>1
<1> QED  BY <1>1, <1>2 DEF Plaid!IdlePull, AnyPull

LEMMA PullBegun == ASSUME PlaidSizes, Plaid!Init PROVE PullInv
<1>1. newest = [t \in Tokens |-> MaxTxns - 1] /\ items = [t \in Tokens |-> 1 .. MaxTxns - 1] /\ pull = Plaid!IdlePull
  BY DEF Plaid!Init
<1>2. MaxTxns \in Nat \ {0} /\ (1 .. MaxTxns - 1) \in SUBSET Txns /\ MaxTxns - 1 \in 0 .. MaxTxns
  BY DEF PlaidSizes, Txns
<1>3. items \in [Tokens -> SUBSET Txns] /\ newest \in [Tokens -> 0 .. MaxTxns]
  BY <1>1, <1>2
<1>4. \A t \in Tokens : \A n \in items[t] : n <= newest[t]
  BY <1>1, <1>2
<1>5. PullOk(pull, items)
  BY <1>1, IdleIsEmpty DEF PullOk, Listed
<1> QED  BY <1>3, <1>4, <1>5 DEF PullInv

LEMMA PlaidResolved == ASSUME Config \in Seq(Tokens), BankedInv PROVE Plaid!ResolveTokens \in Seq(Tokens)
<1>1. Bank!ResolveTokens \in Seq(Tokens)
  BY ResolvedIs
<1>2. \A s, I : Plaid!AtPlaces(s, I) = Bank!AtPlaces(s, I)
  BY DEF Plaid!AtPlaces, Bank!AtPlaces, Plaid!InOrder, Bank!InOrder, Plaid!Cardinality, Bank!Cardinality
<1>3. Plaid!ResolveTokens = Bank!ResolveTokens
  BY <1>2 DEF Plaid!DedupeTokens, Bank!DedupeTokens, Plaid!ResolveTokens, Bank!ResolveTokens
<1> QED  BY <1>1, <1>3

\* Steps that only the fetch notices.
LEMMA OnlyPull == ASSUME PullInv, items' = items, newest' = newest, PullOk(pull', items) PROVE PullInv'
BY DEF PullInv

LEMMA PullStarts == ASSUME PlaidSizes, BankedInv, PullInv, Plaid!FetchBegins PROVE PullInv'
<1> DEFINE p == Plaid!IdlePull  q == Plaid!ResolveTokens  a == [p EXCEPT !.pc = "item"]  b == [a EXCEPT !.tokens = q]
<1>1. pull' = [p EXCEPT !.pc = "item", !.tokens = q] /\ items' = items /\ newest' = newest
  BY DEF Plaid!FetchBegins
<1>2. p \in AnyPull /\ p.seen = {} /\ p.batch = {}
  BY IdleIsEmpty
<1>3. q \in Seq(Tokens)
  BY PlaidResolved DEF PlaidSizes
<1> HIDE DEF p, q
<1>4. pull' = b
  BY <1>1, <1>2 DEF AnyPull
<1>5. a \in AnyPull /\ a.pc = "item" /\ a.seen = {} /\ a.batch = {}
  BY <1>2 DEF AnyPull
<1> HIDE DEF a
<1>6. b \in AnyPull /\ b.pc = "item" /\ b.seen = {} /\ b.batch = {}
  BY <1>3, <1>5 DEF AnyPull
<1> HIDE DEF b
<1>7. PullOk(b, items)
  BY <1>6 DEF PullOk, Listed
<1> QED  BY <1>1, <1>4, <1>7, OnlyPull

\* A name that was resolved stays as it is.
LEMMA NamesGrow ==
  ASSUME pull \in AnyPull, NEW t \in Tokens, NEW names \in Plaid!ResolveInstitutionName(Institution[t])
  PROVE  /\ names \in UNION {[D -> Named] : D \in SUBSET Institutions} /\ Institution[t] \in DOMAIN names
         /\ \A i \in DOMAIN pull.names : i \in DOMAIN names /\ names[i] = pull.names[i]
<1> DEFINE inst == Institution[t]  old == pull.names
<1>1. inst \in Institutions
  BY DEF Institutions
<1>2. PICK D \in SUBSET Institutions : old \in [D -> Named]
  BY DEF AnyPull
<1>3. CASE inst \in DOMAIN old
  <2>1. names = old
    BY <1>3 DEF Plaid!ResolveInstitutionName
  <2> QED  BY <1>2, <1>3, <2>1
<1>4. CASE inst \notin DOMAIN old
  <2>1. PICK n \in {inst, ""} : names = [i \in DOMAIN old \cup {inst} |-> IF i = inst THEN n ELSE old[i]]
    BY <1>4 DEF Plaid!ResolveInstitutionName
  <2>2. n \in Named
    BY <1>1 DEF Named
  <2> HIDE DEF inst, old
  <2>3. names \in [D \cup {inst} -> Named] /\ D \cup {inst} \in SUBSET Institutions
    BY <1>1, <1>2, <2>1, <2>2
  <2>4. \A i \in DOMAIN old : i \in DOMAIN names /\ names[i] = old[i]
    BY <1>4, <2>1
  <2>5. inst \in DOMAIN names
    BY <2>1
  <2> QED  BY <2>3, <2>4, <2>5 DEF inst, old
<1> QED  BY <1>3, <1>4

LEMMA ItemStarts == ASSUME PlaidSizes, PullInv, Plaid!ItemAccounts PROVE PullInv'
<1> DEFINE p == pull  t == Head(p.tokens)
<1>1. p.pc = "item" /\ p.tokens # << >> /\ items' = items /\ newest' = newest
  BY DEF Plaid!ItemAccounts
<1>2. PullOk(p, items) /\ p \in AnyPull /\ items \in [Tokens -> SUBSET Txns]
  BY DEF PullInv, PullOk
<1>3. t \in Tokens /\ Tail(p.tokens) \in Seq(Tokens) /\ p.tokens \in Seq(Tokens) /\ p.errs \in Nat /\ p.seen \in SUBSET Listable
  BY <1>1, <1>2 DEF AnyPull
<1>4. CASE pull' = [p EXCEPT !.tokens = Tail(@), !.errs = @ + 1]
  <2> DEFINE a == [p EXCEPT !.tokens = Tail(p.tokens)]  b == [a EXCEPT !.errs = p.errs + 1]
  <2>1. pull' = b
    BY <1>2, <1>4 DEF AnyPull
  <2> HIDE DEF p
  <2>2. /\ a \in AnyPull /\ a.pc = p.pc /\ a.seen = p.seen /\ a.batch = p.batch /\ a.names = p.names
    BY <1>2, <1>3 DEF AnyPull
  <2> HIDE DEF a
  <2>3. b \in AnyPull /\ b.pc = p.pc /\ b.seen = p.seen /\ b.batch = p.batch /\ b.names = p.names
    <3>1. p.errs + 1 \in Nat
      BY <1>3
    <3> QED  BY <2>2, <3>1 DEF AnyPull
  <2> HIDE DEF b
  <2>4. PullOk(b, items)
    BY <1>1, <1>2, <2>3 DEF PullOk
  <2> QED  BY <1>1, <2>1, <2>4, OnlyPull
<1>5. ASSUME NEW names \in Plaid!ResolveInstitutionName(Institution[t]),
             pull' = [p EXCEPT !.pc = "page", !.names = names, !.accts = Sees[t] \ p.seen, !.seen = @ \cup Sees[t],
                               !.all = << >>, !.page = 0, !.had = items[t], !.shifted = FALSE]
      PROVE  PullInv'
  <2>1. /\ names \in UNION {[D -> Named] : D \in SUBSET Institutions} /\ Institution[t] \in DOMAIN names
        /\ \A i \in DOMAIN p.names : i \in DOMAIN names /\ names[i] = p.names[i]
    BY <1>2, <1>3, <1>5, NamesGrow
  <2> DEFINE a == [p EXCEPT !.pc = "page", !.names = names]
             b == [a EXCEPT !.accts = Sees[t] \ p.seen, !.seen = p.seen \cup Sees[t]]
             c == [b EXCEPT !.all = << >>, !.page = 0]
             n == [c EXCEPT !.had = items[t], !.shifted = FALSE]
  <2>2. pull' = n
    BY <1>2, <1>5 DEF AnyPull
  <2> HIDE DEF p
  <2>3. /\ a \in AnyPull /\ a.pc = "page" /\ a.seen = p.seen /\ a.batch = p.batch /\ a.names = names /\ a.tokens = p.tokens
    BY <1>2, <2>1 DEF AnyPull
  <2> HIDE DEF a, t
  <2>4. Sees[t] \in SUBSET Listable /\ items[t] \in SUBSET Txns /\ << >> \in Seq(Txns)
    BY <1>2, <1>3 DEF Listable
  <2>5. /\ b \in AnyPull /\ b.pc = "page" /\ b.seen = p.seen \cup Sees[t] /\ b.batch = p.batch /\ b.names = names
        /\ b.tokens = p.tokens /\ b.accts = Sees[t] \ p.seen
    <3>1. Sees[t] \ p.seen \in SUBSET Listable /\ p.seen \cup Sees[t] \in SUBSET Listable
      BY <1>3, <2>4
    <3> QED  BY <2>3, <3>1 DEF AnyPull
  <2> HIDE DEF b
  <2>6. /\ c \in AnyPull /\ c.pc = "page" /\ c.seen = p.seen \cup Sees[t] /\ c.batch = p.batch /\ c.names = names
        /\ c.tokens = p.tokens /\ c.accts = Sees[t] \ p.seen /\ c.all = << >> /\ c.page = 0
    BY <2>4, <2>5 DEF AnyPull
  <2> HIDE DEF c
  <2>7. /\ n \in AnyPull /\ n.pc = "page" /\ n.seen = p.seen \cup Sees[t] /\ n.batch = p.batch /\ n.names = names
        /\ n.tokens = p.tokens /\ n.accts = Sees[t] \ p.seen /\ n.all = << >> /\ n.page = 0 /\ n.had = items[t]
        /\ ~n.shifted
    BY <2>4, <2>6 DEF AnyPull
  <2> HIDE DEF n
  <2>8. Missed(n, items[t])
    <3> SUFFICES ASSUME NEW m \in items[t] PROVE Depth(items[t], m) > 0
      BY <2>7 DEF Missed
    <3>1. MaxTxns \in Nat /\ items[t] \in SUBSET (1 .. MaxTxns)
      BY <2>4 DEF PlaidSizes, Txns
    <3>2. /\ Cardinality(items[t]) \in Nat
          /\ \A i \in items[t] : Cardinality(Below(items[t], i)) \in 1 .. Cardinality(items[t])
      BY <3>1, RankIs
    <3> QED  BY <3>2 DEF Depth
  <2>9. ReadOn(n, items[t])
    <3>1. MaxPages \in Nat \ {0} /\ PageCount \in Nat
      BY DEF PlaidSizes
    <3>2. Listed(p.batch) = p.seen
      BY <1>1, <1>2 DEF PullOk
    <3>3. Len(n.all) = n.page * PageCount /\ n.page < MaxPages
      BY <2>7, <3>1
    <3>4. n.accts \cap Listed(n.batch) = {} /\ Listed(n.batch) \cup n.accts = n.seen
      BY <2>7, <3>2
    <3> QED  BY <2>8, <3>3, <3>4 DEF ReadOn
  <2>10. ASSUME NEW r \in p.batch PROVE RowOk(r, names)
    <3>1. RowOk(r, p.names)
      BY <1>2 DEF PullOk
    <3> QED  BY <2>1, <3>1 DEF RowOk
  <2>11. PullOk(n, items)
    BY <1>1, <1>2, <2>1, <2>7, <2>9, <2>10 DEF PullOk, t
  <2> QED  BY <1>1, <2>2, <2>11, OnlyPull
<1> QED  BY <1>4, <1>5 DEF Plaid!ItemAccounts

LEMMA TxnIsTurned ==
  ASSUME PlaidSizes, NEW n \in Txns
  PROVE  /\ Plaid!ToImportTxn(n) \in [id : Txns, amount : Signed] /\ Plaid!ToImportTxn(n).id = n
         /\ Turned(Plaid!ToImportTxn(n))
<1> DEFINE a == Amount[n]  sign == IF a.sign # "-" /\ ~a.zero THEN "-" ELSE ""  x == Plaid!ToImportTxn(n)
<1>1. a \in Signed
  BY DEF PlaidSizes
<1>2. x = [id |-> n, amount |-> [a EXCEPT !.sign = sign]]
  BY DEF Plaid!ToImportTxn, Plaid!NegateAmount
<1> DEFINE v == [a EXCEPT !.sign = sign]
<1>3. sign \in {"", "+", "-"} /\ (sign = "-") = (~a.zero /\ a.sign # "-")
  <2>1. "-" # ""
    OBVIOUS
  <2>2. a.zero \in BOOLEAN
    BY <1>1 DEF Signed
  <2> QED  BY <2>1, <2>2
<1> HIDE DEF sign, a
<1>4. v \in Signed /\ v.sign = sign /\ v.zero = a.zero
  BY <1>1, <1>3 DEF Signed
<1> HIDE DEF v
<1>5. x \in [id : Txns, amount : Signed] /\ x.id = n /\ x.amount = v
  BY <1>2, <1>4 DEF v
<1> HIDE DEF x
<1>6. Turned(x)
  BY <1>3, <1>4, <1>5 DEF Turned, a
<1> QED  BY <1>5, <1>6 DEF x

\* What was read of an item joins the batch.
LEMMA ItemJoins ==
  ASSUME PlaidSizes, PullInv, pull.pc = "page", items' = items, newest' = newest,
         NEW txns \in Seq(Txns), NEW read \in BOOLEAN, Plaid!NextItem(txns, read),
         read /\ ~pull.shifted => \A n \in pull.had : n \in Has(txns)
  PROVE  PullInv'
<1> DEFINE p == pull  t == Head(p.tokens)  name == p.names[Institution[t]]
           on(a) == {m \in Has(txns) : Owner[m] = a}
           row(a) == [acct |-> a, token |-> t, name |-> name, read |-> read, had |-> {n \in p.had : Owner[n] = a},
                      shifted |-> p.shifted, txns |-> {Plaid!ToImportTxn(n) : n \in on(a)}]
           new == {row(a) : a \in p.accts}
           b == [p EXCEPT !.pc = "item", !.tokens = Tail(p.tokens)]
           c == [b EXCEPT !.batch = p.batch \cup new]
<1>1. PullOk(p, items) /\ p \in AnyPull /\ ReadOn(p, items[t]) /\ p.tokens # << >> /\ Institution[t] \in DOMAIN p.names
  BY DEF PullInv, PullOk
<1>2. /\ t \in Tokens /\ Tail(p.tokens) \in Seq(Tokens) /\ p.accts \in SUBSET Listable /\ p.had \in SUBSET Txns
      /\ p.shifted \in BOOLEAN /\ p.batch \in SUBSET ItemRow
  BY <1>1 DEF AnyPull
<1>3. name \in Named
  <2>1. PICK D \in SUBSET Institutions : p.names \in [D -> Named]
    BY <1>1 DEF AnyPull
  <2> QED  BY <1>1, <2>1
<1>4. pull' = c
  <2>1. pull' = [p EXCEPT !.pc = "item", !.tokens = Tail(@), !.batch = @ \cup new]
    BY DEF Plaid!NextItem, Plaid!ToSet, Has
  <2> HIDE DEF new
  <2> QED  BY <1>1, <2>1 DEF AnyPull
<1>5. ASSUME NEW a \in p.accts
      PROVE  row(a) \in ItemRow /\ row(a).acct = a /\ RowOk(row(a), p.names)
  <2> DEFINE x == {Plaid!ToImportTxn(n) : n \in on(a)}
  <2>1. on(a) \in SUBSET Txns
    BY HasBoth
  <2>2. x \in SUBSET [id : Txns, amount : Signed] /\ \A y \in x : Turned(y)
    BY <2>1, TxnIsTurned
  <2>3. ASSUME read, ~p.shifted, NEW n \in p.had, Owner[n] = a PROVE \E y \in x : y.id = n
    <3>1. n \in on(a)
      BY <2>3
    <3> QED  BY <2>1, <3>1, TxnIsTurned
  <2> HIDE DEF x, on
  <2> DEFINE h == {n \in p.had : Owner[n] = a}
             r == [acct |-> a, token |-> t, name |-> name, read |-> read, had |-> h, shifted |-> p.shifted, txns |-> x]
  <2>4. row(a) = r
    BY DEF x
  <2>5. h \in SUBSET Txns /\ (read /\ ~p.shifted => \A n \in h : \E y \in x : y.id = n)
    BY <1>2, <2>3
  <2> HIDE DEF p, t, name, h
  <2>6. r \in ItemRow /\ r.acct = a
    BY <1>2, <1>3, <2>2, <2>5 DEF ItemRow
  <2>7. RowOk(r, p.names)
    BY <1>1, <2>2, <2>5 DEF RowOk, name
  <2> QED  BY <2>4, <2>6, <2>7
<1> HIDE DEF row, name, p, t
<1>6. new \in SUBSET ItemRow /\ Listed(new) = p.accts
  BY <1>5 DEF Listed
<1>7. \A r \in new : RowOk(r, p.names) /\ r.acct \in p.accts
  BY <1>5
<1>8. \A r, s \in new : r.acct = s.acct => r = s
  BY <1>5
<1> HIDE DEF new
<1>9. b \in AnyPull /\ b.pc = "item" /\ b.names = p.names /\ b.seen = p.seen
  BY <1>1, <1>2 DEF AnyPull
<1> HIDE DEF b
<1>10. c \in AnyPull /\ c.pc = "item" /\ c.names = p.names /\ c.seen = p.seen /\ c.batch = p.batch \cup new
  <2>1. p.batch \cup new \in SUBSET ItemRow
    BY <1>2, <1>6
  <2> QED  BY <1>9, <2>1 DEF AnyPull
<1> HIDE DEF c
<1>11. Listed(c.batch) = c.seen
  <2>1. Listed(c.batch) = Listed(p.batch) \cup Listed(new)
    BY <1>10 DEF Listed
  <2> QED  BY <1>1, <1>6, <1>10, <2>1 DEF ReadOn
<1>12. \A r \in c.batch : RowOk(r, c.names)
  BY <1>1, <1>7, <1>10 DEF PullOk
<1>13. ASSUME NEW r \in c.batch, NEW s \in c.batch, r.acct = s.acct PROVE r = s
  <2>1. \A q \in p.batch : q.acct \notin p.accts
    BY <1>1 DEF ReadOn, Listed
  <2>2. r \in p.batch /\ s \in p.batch => r = s
    BY <1>1, <1>13 DEF PullOk
  <2> QED  BY <1>7, <1>8, <1>10, <1>13, <2>1, <2>2
<1>14. PullOk(c, items)
  BY <1>10, <1>11, <1>12, <1>13 DEF PullOk
<1> QED  BY <1>4, <1>14, OnlyPull

\* With as many pages as the transactions need, a walk that ends has read all that it began with.
LEMMA WalkEnds ==
  ASSUME PlaidSizes, NEW S \in SUBSET Txns, NEW l, l = Plaid!Reverse(Plaid!InOrder(S)), NEW page \in Nat, page < MaxPages,
         NEW k, k = page * PageCount, NEW n \in S, Depth(S, n) > k,
         Len(l) <= k + PageCount \/ page + 1 = MaxPages
  PROVE  Depth(S, n) \in DOMAIN l /\ l[Depth(S, n)] = n /\ Depth(S, n) <= k + PageCount
<1>1. MaxTxns \in Nat /\ PageCount \in Nat /\ MaxPages \in Nat /\ MaxPages * PageCount >= MaxTxns
  BY DEF PlaidSizes
<1>2. S \in SUBSET (1 .. MaxTxns)
  BY DEF Txns
<1>3. /\ l \in Seq(S) /\ Len(l) <= MaxTxns
      /\ Depth(S, n) \in 1 .. Len(l) /\ l[Depth(S, n)] = n
  BY <1>1, <1>2, NewestFirst
<1>4. Len(l) \in Nat /\ DOMAIN l = 1 .. Len(l)
  BY <1>3
<1>5. CASE Len(l) <= k + PageCount
  <2>1. k \in Nat
    BY <1>1
  <2> QED  BY <1>1, <1>3, <1>4, <1>5, <2>1
<1>6. CASE page + 1 = MaxPages
  <2>1. (page + 1) * PageCount = k + PageCount
    BY <1>1
  <2>2. k + PageCount >= MaxTxns
    BY <1>1, <1>6, <2>1
  <2>3. k \in Nat
    BY <1>1
  <2> QED  BY <1>1, <1>3, <1>4, <2>2, <2>3
<1> QED  BY <1>5, <1>6

LEMMA ItemReads == ASSUME PlaidSizes, PullInv, Plaid!ItemTransactions PROVE PullInv'
<1> DEFINE p == pull  t == Head(p.tokens)  S == items[t]  l == Plaid!Reverse(Plaid!InOrder(S))  k == Len(p.all)
           got == PageAt(l, k, PageCount)
           all == p.all \o got
<1>1. p.pc = "page" /\ items' = items /\ newest' = newest
  BY DEF Plaid!ItemTransactions
<1>2. PullOk(p, items) /\ p \in AnyPull /\ ReadOn(p, S) /\ p.tokens # << >> /\ items \in [Tokens -> SUBSET Txns]
  BY <1>1 DEF PullInv, PullOk
<1>3. t \in Tokens /\ p.all \in Seq(Txns) /\ p.page \in Nat /\ p.shifted \in BOOLEAN /\ p.had \in SUBSET Txns /\ k \in Nat
  BY <1>2 DEF AnyPull
<1>4. S \in SUBSET Txns /\ MaxTxns \in Nat /\ PageCount \in Nat \ {0} /\ MaxPages \in Nat /\ S \in SUBSET (1 .. MaxTxns)
  BY <1>2, <1>3 DEF PlaidSizes, Txns
<1>5. CASE Plaid!NextItem(<< >>, FALSE)
  <2>1. << >> \in Seq(Txns)
    OBVIOUS
  <2> QED  BY <1>1, <1>5, <2>1, ItemJoins
<1>6. /\ l \in Seq(S) /\ \A n \in S : Depth(S, n) \in 1 .. Len(l) /\ l[Depth(S, n)] = n
  BY <1>4, NewestFirst
<1>7. Len(l) \in Nat /\ DOMAIN l = 1 .. Len(l) /\ l \in Seq(Txns)
  BY <1>4, <1>6
<1> DEFINE last == got = << >> \/ Len(all) >= Len(l) \/ p.page + 1 = MaxPages
<1>8. ASSUME ~Plaid!NextItem(<< >>, FALSE)
      PROVE  IF last THEN Plaid!NextItem(all, TRUE) ELSE pull' = [p EXCEPT !.all = all, !.page = @ + 1]
  BY <1>8 DEF Plaid!ItemTransactions, PageAt
<1> DEFINE z == Len(l)
<1>9. z \in Nat /\ k \in Nat /\ PageCount \in Nat /\ PageCount # 0
  BY <1>3, <1>4, <1>7
<1> HIDE DEF p, t, S, l, k
<1>11. /\ got \in Seq(Txns) /\ \A i \in DOMAIN l : k < i /\ i <= k + PageCount => l[i] \in Has(got)
       /\ k + PageCount <= Len(l) => Len(got) = PageCount
       /\ z < k + PageCount /\ k <= z => Len(got) = z - k
       /\ got = << >> => Len(l) <= k
  <2>1. got \in Seq(Txns) /\ IsPage(got, l, k, PageCount)
    BY <1>7, <1>9, PageHas
  <2> HIDE DEF got
  <2> QED  BY <2>1 DEF IsPage
<1> HIDE DEF got
<1>12. all \in Seq(Txns) /\ Has(all) = Has(p.all) \cup Has(got) /\ Len(all) = k + Len(got)
  BY <1>3, <1>11, HasBoth DEF k
<1>13. Len(got) \in Nat
  BY <1>11
<1> HIDE DEF all
<1>14. ASSUME ~p.shifted
       PROVE  /\ k = p.page * PageCount /\ p.page < MaxPages
              /\ \A n \in p.had : n \in S /\ (n \in Has(p.all) \/ Depth(S, n) > k)
  BY <1>2, <1>14 DEF ReadOn, Missed, k
<1>15. ASSUME ~p.shifted, last, NEW n \in p.had PROVE n \in Has(all)
  <2>1. CASE n \in Has(p.all)
    BY <1>12, <2>1
  <2>2. CASE n \notin Has(p.all)
    <3>1. n \in S /\ Depth(S, n) > k
      BY <1>14, <1>15, <2>2
    <3>2. Len(l) <= k + PageCount \/ p.page + 1 = MaxPages
      <4>1. CASE k + PageCount <= Len(l) /\ Len(all) >= Len(l)
        BY <1>3, <1>4, <1>7, <1>11, <1>12, <4>1
      <4>2. CASE got = << >>
        <5>1. Len(l) <= k /\ Len(l) \in Nat /\ PageCount \in Nat /\ k \in Nat
          BY <1>4, <1>7, <1>9, <1>11, <4>2
        <5> QED  BY <5>1
      <4>3. CASE ~(k + PageCount <= Len(l))
        BY <1>3, <1>4, <1>7, <4>3
      <4> QED  BY <1>15, <4>1, <4>2, <4>3
    <3>3. Depth(S, n) \in DOMAIN l /\ l[Depth(S, n)] = n /\ Depth(S, n) <= k + PageCount
      BY <1>3, <1>4, <1>14, <1>15, <3>1, <3>2, WalkEnds DEF l
    <3>4. n \in Has(got)
      BY <1>11, <3>1, <3>3
    <3> QED  BY <1>12, <3>4
  <2> QED  BY <2>1, <2>2
<1>16. CASE ~Plaid!NextItem(<< >>, FALSE) /\ last
  <2>1. Plaid!NextItem(all, TRUE)
    BY <1>8, <1>16
  <2>2. ~pull.shifted => \A n \in pull.had : n \in Has(all)
    BY <1>15, <1>16 DEF p
  <2> QED  BY <1>1, <1>12, <2>1, <2>2, ItemJoins DEF p
<1>17. CASE ~Plaid!NextItem(<< >>, FALSE) /\ ~last
  <2> DEFINE a == [p EXCEPT !.all = all]  n == [a EXCEPT !.page = p.page + 1]
  <2>1. pull' = n
    <3>1. pull' = [p EXCEPT !.all = all, !.page = @ + 1]
      BY <1>8, <1>17
    <3> QED  BY <1>2, <3>1 DEF AnyPull
  <2>2. /\ a \in AnyPull /\ a.pc = p.pc /\ a.tokens = p.tokens /\ a.seen = p.seen /\ a.names = p.names /\ a.accts = p.accts
        /\ a.had = p.had /\ a.shifted = p.shifted /\ a.batch = p.batch /\ a.all = all
    BY <1>2, <1>12 DEF AnyPull
  <2> HIDE DEF a
  <2>3. /\ n \in AnyPull /\ n.pc = p.pc /\ n.tokens = p.tokens /\ n.seen = p.seen /\ n.names = p.names /\ n.accts = p.accts
        /\ n.had = p.had /\ n.shifted = p.shifted /\ n.batch = p.batch /\ n.all = all /\ n.page = p.page + 1
    <3>1. p.page + 1 \in Nat
      BY <1>3
    <3> QED  BY <2>2, <3>1 DEF AnyPull
  <2> HIDE DEF n
  <2>4. p.page < MaxPages /\ p.page + 1 < MaxPages
    <3>1. p.page < MaxPages /\ p.page + 1 # MaxPages
      BY <1>2, <1>17 DEF ReadOn
    <3> QED  BY <1>3, <1>4, <3>1
  <2>5. ASSUME ~p.shifted PROVE Len(all) = (p.page + 1) * PageCount /\ Missed(n, S)
    <3>1. k + PageCount <= Len(l)
      <4>1. ~(Len(all) >= Len(l)) /\ Len(all) = k + Len(got)
        BY <1>12, <1>17
      <4>2. CASE ~(k + PageCount <= Len(l))
        <5>1. z < k + PageCount
          BY <1>9, <4>2 DEF z
        <5>2. k <= z /\ k + Len(got) < z
          <6> DEFINE g == Len(got)
          <6>1. g \in Nat /\ ~(k + g >= z)
            BY <1>13, <4>1 DEF z
          <6> HIDE DEF g, z
          <6> QED  BY <1>9, <6>1 DEF g
        <5>3. Len(got) = z - k
          BY <1>11, <5>1, <5>2
        <5> QED  BY <1>9, <5>2, <5>3
      <4> QED  BY <4>2
    <3>2. Len(all) = k + PageCount /\ k = p.page * PageCount
      BY <1>11, <1>12, <1>14, <2>5, <3>1
    <3>3. (p.page + 1) * PageCount = p.page * PageCount + PageCount
      BY <1>3, <1>4
    <3>4. ASSUME NEW m \in p.had PROVE m \in S /\ (m \in Has(all) \/ Depth(S, m) > k + PageCount)
      <4>1. m \in S /\ (m \in Has(p.all) \/ Depth(S, m) > k)
        BY <1>14, <2>5, <3>4
      <4>2. Depth(S, m) \in 1 .. Len(l) /\ l[Depth(S, m)] = m
        BY <1>6, <4>1
      <4>3. Depth(S, m) > k /\ ~(Depth(S, m) > k + PageCount) => m \in Has(got)
        <5> DEFINE d == Depth(S, m)
        <5>1. d \in DOMAIN l /\ d \in Nat /\ l[d] = m
          BY <1>7, <4>2
        <5> HIDE DEF d
        <5>2. k < d /\ d <= k + PageCount => l[d] \in Has(got)
          BY <1>11, <5>1
        <5> QED  BY <1>9, <5>1, <5>2 DEF d
      <4> QED  BY <1>12, <4>1, <4>3
    <3> QED  BY <2>3, <3>2, <3>3, <3>4 DEF Missed
  <2>6. ReadOn(n, S)
    BY <1>2, <2>3, <2>4, <2>5 DEF ReadOn
  <2>7. PullOk(n, items)
    BY <1>1, <1>2, <2>3, <2>6 DEF PullOk, S, t
  <2> QED  BY <1>1, <2>1, <2>7, OnlyPull
<1> QED  BY <1>5, <1>16, <1>17

LEMMA PullLeaves == ASSUME PlaidSizes, PullInv, Plaid!FetchEnds \/ Plaid!Taken PROVE PullInv'
<1>1. PullOk(pull, items) /\ pull \in AnyPull /\ items' = items /\ newest' = newest
  BY DEF PullInv, PullOk, Plaid!FetchEnds, Plaid!Taken
<1>2. CASE Plaid!Taken
  <2>1. pull' = Plaid!IdlePull
    BY <1>2 DEF Plaid!Taken
  <2>2. PullOk(pull', items)
    BY <2>1, IdleIsEmpty DEF PullOk, Listed
  <2> QED  BY <1>1, <2>2, OnlyPull
<1>3. CASE Plaid!FetchEnds
  <2> DEFINE p == pull  pc == IF p.batch = {} /\ p.errs > 0 THEN "failed" ELSE "done"  n == [p EXCEPT !.pc = pc]
  <2>1. p.pc = "item" /\ pull' = n
    BY <1>3 DEF Plaid!FetchEnds
  <2>2. pc \in {"failed", "done"} /\ (pc = "failed" => p.batch = {})
    OBVIOUS
  <2> HIDE DEF p, pc
  <2>3. n \in AnyPull /\ n.pc = pc /\ n.seen = p.seen /\ n.batch = p.batch /\ n.names = p.names
    BY <1>1, <2>2 DEF AnyPull, p
  <2> HIDE DEF n
  <2>4. PullOk(n, items)
    BY <1>1, <2>1, <2>2, <2>3 DEF PullOk, p
  <2> QED  BY <1>1, <2>1, <2>4, OnlyPull
<1> QED  BY <1>2, <1>3

LEMMA BankMoves == ASSUME PlaidSizes, PullInv, NEW t \in Tokens, Plaid!Post(t) \/ Plaid!Withdraw(t) PROVE PullInv'
<1> DEFINE S == items[t]
<1>1. /\ PullOk(pull, items) /\ pull \in AnyPull /\ items \in [Tokens -> SUBSET Txns] /\ newest \in [Tokens -> 0 .. MaxTxns]
      /\ pull.pc = "page" /\ t = Head(pull.tokens) /\ ReadOn(pull, S)
  BY DEF PullInv, PullOk, Plaid!Post, Plaid!Withdraw
<1>2. MaxTxns \in Nat /\ S \in SUBSET (1 .. MaxTxns) /\ newest[t] \in 0 .. MaxTxns /\ \A n \in S : n <= newest[t]
  BY <1>1 DEF PlaidSizes, Txns, PullInv
<1>3. ASSUME Plaid!Post(t) PROVE PullInv'
  <2> DEFINE x == newest[t] + 1
  <2>1. newest[t] < MaxTxns /\ newest' = [newest EXCEPT ![t] = x] /\ items' = [items EXCEPT ![t] = S \cup {x}] /\ pull' = pull
    BY <1>3 DEF Plaid!Post
  <2>2. x \in 1 .. MaxTxns /\ x \in Nat /\ \A n \in S : n < x
    BY <1>2, <2>1
  <2>3. S \cup {x} \in SUBSET Txns
    BY <1>2, <2>2 DEF Txns
  <2>4. /\ items' \in [Tokens -> SUBSET Txns] /\ newest' \in [Tokens -> 0 .. MaxTxns]
        /\ items'[t] = S \cup {x} /\ newest'[t] = x /\ \A s \in Tokens : s # t => items'[s] = items[s] /\ newest'[s] = newest[s]
    <3>1. x \in 0 .. MaxTxns
      BY <2>2
    <3> HIDE DEF x, S
    <3> QED  BY <1>1, <2>1, <2>3, <3>1
  <2>5. \A s \in Tokens : \A n \in items'[s] : n <= newest'[s]
    <3> SUFFICES ASSUME NEW s \in Tokens, NEW n \in items'[s] PROVE n <= newest'[s]
      OBVIOUS
    <3>1. CASE s # t
      BY <2>4, <3>1 DEF PullInv
    <3>2. CASE s = t
      BY <1>2, <2>2, <2>4, <3>2
    <3> QED  BY <3>1, <3>2
  <2> HIDE DEF x, S
  <2>6. ASSUME NEW n \in S PROVE Depth(S \cup {x}, n) = Depth(S, n) + 1 /\ Depth(S, n) \in Nat
    <3>1. Depth(S \cup {x}, n) = Depth(S, n) + 1
      BY <1>2, <2>2, <2>6, DeeperBelow
    <3>2. Cardinality(S) \in Nat /\ Cardinality(Below(S, n)) \in 1 .. Cardinality(S)
      BY <1>2, <2>6, RankIs
    <3> QED  BY <3>1, <3>2 DEF Depth
  <2>7. Missed(pull, S) => Missed(pull, S \cup {x})
    <3> SUFFICES ASSUME Missed(pull, S), NEW n \in pull.had, n \notin Has(pull.all)
                 PROVE  n \in S \cup {x} /\ Depth(S \cup {x}, n) > Len(pull.all)
      BY DEF Missed
    <3>1. n \in S /\ Depth(S, n) > Len(pull.all)
      BY DEF Missed
    <3>2. Len(pull.all) \in Nat
      BY <1>1 DEF AnyPull
    <3>3. Depth(S \cup {x}, n) = Depth(S, n) + 1 /\ Depth(S, n) \in Nat
      BY <2>6, <3>1
    <3> DEFINE d == Depth(S, n)  e == Depth(S \cup {x}, n)  u == Len(pull.all)
    <3>4. e = d + 1 /\ d \in Nat /\ u \in Nat /\ d > u
      BY <3>1, <3>2, <3>3
    <3> HIDE DEF d, e, u
    <3>5. e > u
      BY <3>4
    <3> QED  BY <3>1, <3>5 DEF e, u
  <2>8. ReadOn(pull, S \cup {x})
    BY <1>1, <2>7 DEF ReadOn
  <2>9. PullOk(pull', items')
    BY <1>1, <2>1, <2>4, <2>8 DEF PullOk
  <2> QED  BY <2>4, <2>5, <2>9 DEF PullInv
<1>4. ASSUME Plaid!Withdraw(t) PROVE PullInv'
  <2> DEFINE p == pull  n == [p EXCEPT !.shifted = TRUE]
  <2>1. PICK m \in S : items' = [items EXCEPT ![t] = S \ {m}]
    BY <1>4 DEF Plaid!Withdraw
  <2>2. newest' = newest /\ pull' = n
    BY <1>4 DEF Plaid!Withdraw
  <2>3. S \ {m} \in SUBSET Txns
    BY <1>2 DEF Txns
  <2>4. items' \in [Tokens -> SUBSET Txns] /\ \A s \in Tokens : items'[s] \in SUBSET items[s]
    <3> HIDE DEF S
    <3>1. items' \in [Tokens -> SUBSET Txns] /\ \A s \in Tokens : items'[s] = IF s = t THEN S \ {m} ELSE items[s]
      BY <1>1, <2>1, <2>3
    <3> QED  BY <3>1 DEF S
  <2>5. \A s \in Tokens : \A i \in items'[s] : i <= newest'[s]
    BY <2>2, <2>4 DEF PullInv
  <2> HIDE DEF p
  <2>6. /\ n \in AnyPull /\ n.pc = p.pc /\ n.tokens = p.tokens /\ n.seen = p.seen /\ n.names = p.names /\ n.accts = p.accts
        /\ n.batch = p.batch /\ n.page = p.page /\ n.shifted
    BY <1>1 DEF AnyPull, p
  <2> HIDE DEF n
  <2>7. ReadOn(n, items'[t])
    BY <1>1, <2>6 DEF ReadOn, p
  <2>8. PullOk(n, items')
    BY <1>1, <2>6, <2>7 DEF PullOk, p
  <2> QED  BY <1>1, <2>2, <2>4, <2>5, <2>8 DEF PullInv
<1> QED  BY <1>3, <1>4

LEMMA PullGoesOn == ASSUME PlaidSizes, BankedInv, PullInv, [Plaid!Next]_Plaid!vars PROVE PullInv'
<1>1. CASE \E t \in Tokens : Plaid!Post(t) \/ Plaid!Withdraw(t)
  BY <1>1, BankMoves
<1>2. CASE Plaid!FetchBegins
  BY <1>2, PullStarts
<1>3. CASE Plaid!ItemAccounts
  BY <1>3, ItemStarts
<1>4. CASE Plaid!ItemTransactions
  BY <1>4, ItemReads
<1>5. CASE Plaid!FetchEnds \/ Plaid!Taken
  BY <1>5, PullLeaves
<1>6. CASE UNCHANGED <<items, newest, pull>>
  BY <1>6 DEF PullInv
<1> QED  BY <1>1, <1>2, <1>3, <1>4, <1>5, <1>6 DEF Plaid!Next, Plaid!vars

LEMMA PullMeansIt == ASSUME PullInv PROVE Plaid!ItemsAreWhole /\ Plaid!SignsTurned
<1>1. PullOk(pull, items) /\ pull.batch \in SUBSET ItemRow
  BY DEF PullInv, PullOk, AnyPull
<1>2. pull.pc = "done" => {r.acct : r \in pull.batch} = pull.seen
  BY <1>1 DEF PullOk, Listed
<1>3. ASSUME NEW r \in pull.batch, NEW s \in pull.batch
      PROVE  (r.acct = s.acct => r = s) /\ (Institution[r.token] = Institution[s.token] => r.name = s.name)
  BY <1>1 DEF PullOk, RowOk
<1>4. ASSUME NEW r \in pull.batch, r.read, ~r.shifted PROVE r.had \subseteq {x.id : x \in r.txns}
  <2>1. \A n \in r.had : \E x \in r.txns : x.id = n
    BY <1>1, <1>4 DEF PullOk, RowOk
  <2> QED  BY <2>1
<1>5. ASSUME NEW r \in pull.batch, NEW x \in r.txns
      PROVE  (x.amount.sign = "-") = (~x.amount.zero /\ Amount[x.id].sign # "-")
  BY <1>1 DEF PullOk, RowOk, Turned
<1>6. pull.pc = "failed" => pull.batch = {}
  BY <1>1 DEF PullOk
<1> QED  BY <1>2, <1>3, <1>4, <1>5, <1>6 DEF Plaid!ItemsAreWhole, Plaid!SignsTurned

\* However the requests, the pages and the bank interleave: requests that do not overlap leave exactly
\* the banks they name connected, and a fetch has each account of the items it could list once, under
\* one name for an institution and with every transaction that was there when its walk began, its sign
\* turned, unless the walk failed or the bank withdrew one meanwhile.
THEOREM ItemsKept ==
  ASSUME PlaidSizes
  PROVE  Plaid!Spec => [](Plaid!TokensAsAsked /\ Plaid!ItemsAreWhole /\ Plaid!SignsTurned)
<1>1. Plaid!Init => BankedInv /\ PullInv
  BY PlaidTokensBegin, PullBegun
<1>2. BankedInv /\ PullInv /\ [Plaid!Next]_Plaid!vars => (BankedInv /\ PullInv)'
  BY PlaidTokensGoOn, PullGoesOn
<1>3. BankedInv /\ PullInv => Plaid!TokensAsAsked /\ Plaid!ItemsAreWhole /\ Plaid!SignsTurned
  BY PlaidTokensMeanIt, PullMeansIt DEF PlaidSizes
<1> QED  BY <1>1, <1>2, <1>3, PTL DEF Plaid!Spec

-----------------------------------------------------------------------------
(* The chains: watched addresses instead of tokens.  Ethereum first. *)
CONSTANTS Inputs, Normal, Decimals, Tx
VARIABLES height, walk

Eth == INSTANCE EthereumSource WITH
  PageSize <- PageCount, MaxEdits <- MaxLinks, edits <- links, asked <- linked, mixed <- tangled

\* Tokens are the addresses in their normal form.
BookSizes == Config \in Seq(Tokens) /\ \A i \in Inputs : Normal[i] # Bank!None => Normal[i] \in Tokens
EthSizes ==
  /\ BookSizes
  /\ Since \in Nat /\ PageCount \in Nat \ {0} /\ MaxPages \in Nat \ {0}
  /\ Len(Tx) \in Nat /\ Len(Tx) >= 2

Mined == 1 .. Len(Tx)
Payments == {Eth!ToImportTxn(n, a) : n \in Mined, a \in Tokens}
AddressRow == [addr : Tokens, had : SUBSET Mined, rows : Seq(Payments)]
AnyWalk ==
  [pc : {"idle", "address", "page", "failed", "done"}, addrs : Seq(Tokens), start : Nat, page : Nat, all : Seq(Mined),
   had : SUBSET Mined, errs : Nat, batch : Seq(AddressRow)]

\* The transactions of an address in the window, as the chain now has them.
Span(a, start, h) == {n \in 1 .. h : a \in {Tx[n].from, Tx[n].to} /\ n >= start}
Nums(r) == [j \in DOMAIN r.rows |-> r.rows[j].tx]
PaidOnce(r) ==
  /\ Nums(r) \in Seq(Mined) /\ Len(Nums(r)) = Len(r.rows) /\ Once(Nums(r))
  /\ Cardinality(r.had) <= MaxPages * PageCount => \A n \in r.had : n \in Has(Nums(r))

\* What the walk began with stays the beginning of what there is, and what is not read yet comes after the pages read.
ToCome(w, S) ==
  \A n \in w.had : /\ n \in S /\ \A m \in S : m <= n => m \in w.had
                   /\ n \in Has(w.all) \/ Cardinality(Below(S, n)) > w.page * PageCount

WalkOk(w, h) ==
  /\ w \in AnyWalk
  /\ \A i \in DOMAIN w.batch : PaidOnce(w.batch[i])
  /\ w.pc = "page" => w.addrs # << >> /\ w.page < MaxPages /\ ToCome(w, Span(Head(w.addrs), w.start, h))

WalkInv == height \in 0 .. Len(Tx) /\ WalkOk(walk, height)

-----------------------------------------------------------------------------
(* The book is kept by the same code. *)

LEMMA SameBook ==
  ASSUME NEW e, NEW t
  PROVE  /\ \A pc : Eth!ReadTokens(e, pc, t) => Bank!ReadTokens(e, pc, t)
         /\ Eth!WriteTokens(e) => Bank!WriteTokens(e)
         /\ Eth!WriteFails(e) => Bank!WriteFails(e)
         /\ Eth!IdleEditor = Bank!IdleEditor
         /\ \A s : Eth!DedupeTokens(s) = Bank!DedupeTokens(s)
         /\ Eth!ResolveTokens = Bank!ResolveTokens
<1>1. Eth!IdleEditor = Bank!IdleEditor
  BY DEF Eth!IdleEditor, Bank!IdleEditor, Eth!None, Bank!None
<1>2. \A s, I : Eth!AtPlaces(s, I) = Bank!AtPlaces(s, I)
  BY DEF Eth!AtPlaces, Bank!AtPlaces, Eth!InOrder, Bank!InOrder, Eth!Cardinality, Bank!Cardinality
<1>3. \A s : Eth!DedupeTokens(s) = Bank!DedupeTokens(s)
  BY <1>2 DEF Eth!DedupeTokens, Bank!DedupeTokens
<1>4. \A pc : Eth!ReadTokens(e, pc, t) => Bank!ReadTokens(e, pc, t)
  BY DEF Eth!ReadTokens, Bank!ReadTokens
<1>5. Eth!WriteTokens(e) => Bank!WriteTokens(e)
  BY <1>1, <1>2, <1>3 DEF Eth!WriteTokens, Bank!WriteTokens
<1>6. Eth!WriteFails(e) => Bank!WriteFails(e)
  BY <1>1 DEF Eth!WriteFails, Bank!WriteFails
<1>7. Eth!ResolveTokens = Bank!ResolveTokens
  BY <1>3 DEF Eth!ResolveTokens, Bank!ResolveTokens
<1> QED  BY <1>1, <1>3, <1>4, <1>5, <1>6, <1>7

LEMMA BookBegins == ASSUME Eth!TokensInit PROVE BankedInv
<1>1. vault = << >> /\ editor = [e \in Editors |-> Bank!IdleEditor] /\ linked = {} /\ tangled = FALSE
  BY SameBook DEF Eth!TokensInit
<1>2. Bank!IdleEditor \in AnyEditor /\ Bank!IdleEditor.pc = "idle" /\ Once(Bank!IdleEditor.read)
  BY DEF Bank!IdleEditor, AnyEditor, Once
<1>3. vault \in Seq(Tokens) /\ Once(vault) /\ Has(vault) = {}
  BY <1>1 DEF Once, Has
<1> QED  BY <1>1, <1>2, <1>3 DEF BankedInv

LEMMA BookGoesOn == ASSUME BookSizes, BankedInv, Eth!BookNext \/ UNCHANGED Eth!editVars PROVE BankedInv'
<1>1. CASE Eth!BookNext
  <2>1. PICK e \in Editors : \/ \E i \in Inputs : Eth!Add(e, i)
                             \/ \E a \in Tokens : Eth!RemoveCredential(e, a)
                             \/ Eth!WriteTokens(e) \/ Eth!WriteFails(e)
    BY <1>1 DEF Eth!BookNext
  <2>2. ASSUME NEW t \in Tokens, NEW pc \in {"add", "remove"}, Eth!ReadTokens(e, pc, t) PROVE BankedInv'
    <3>1. Bank!ReadTokens(e, pc, t)
      BY <2>2, SameBook
    <3> QED  BY <3>1, BankedReads
  <2>3. CASE \E i \in Inputs : Eth!Add(e, i)
    <3>1. PICK i \in Inputs : Normal[i] # Bank!None /\ Eth!ReadTokens(e, "add", Normal[i])
      BY <2>3 DEF Eth!Add, Eth!SetCredential, Eth!None, Bank!None
    <3>2. Normal[i] \in Tokens
      BY <3>1 DEF BookSizes
    <3> QED  BY <2>2, <3>1, <3>2
  <2>4. CASE \E a \in Tokens : Eth!RemoveCredential(e, a)
    BY <2>2, <2>4 DEF Eth!RemoveCredential
  <2>5. CASE Eth!WriteTokens(e) \/ Eth!WriteFails(e)
    <3>1. Bank!WriteTokens(e) \/ Bank!WriteFails(e)
      BY <2>5, SameBook
    <3> QED  BY <3>1, BankedAnswers
  <2> QED  BY <2>1, <2>3, <2>4, <2>5
<1>2. CASE UNCHANGED Eth!editVars
  <2>1. UNCHANGED Bank!editVars
    BY <1>2 DEF Eth!editVars, Bank!editVars
  <2> QED  BY <2>1, BankedStays
<1> QED  BY <1>1, <1>2

LEMMA BookMeansIt == ASSUME BookSizes, BankedInv PROVE Eth!TokensAsAsked
<1>1. Bank!TokensAsAsked
  BY BankedMeansIt DEF BookSizes
<1>2. Eth!ResolveTokens = Bank!ResolveTokens
  BY SameBook
<1>3. \A s : Eth!ToSet(s) = Bank!ToSet(s) /\ (Eth!IsInjective(s) <=> Bank!IsInjective(s))
  BY DEF Eth!ToSet, Bank!ToSet, Eth!IsInjective, Bank!IsInjective
<1>4. Eth!ListCredentials = Bank!ListCredentials
  BY <1>2, <1>3 DEF Eth!ListCredentials, Bank!ListCredentials
<1> QED  BY <1>1, <1>2, <1>3, <1>4 DEF Eth!TokensAsAsked, Bank!TokensAsAsked

-----------------------------------------------------------------------------
(* The walk of an address. *)

LEMMA OnceCounts == ASSUME NEW T, NEW s \in Seq(T), Once(s) PROVE Cardinality(Has(s)) = Len(s)
<1>1. Len(s) \in Nat /\ DOMAIN s = 1 .. Len(s) /\ s \in [1 .. Len(s) -> T]
  OBVIOUS
<1> DEFINE n == Len(s)
<1> HIDE DEF n
<1>2. s \in [1 .. n -> Has(s)]
  BY <1>1 DEF Has, n
<1>3. s \in Injection(1 .. n, Has(s))
  BY <1>1, <1>2 DEF Once, Injection, IsInjective, n
<1>4. s \in Surjection(1 .. n, Has(s))
  BY <1>1, <1>2 DEF Has, Surjection, n
<1>5. ExistsBijection(1 .. n, Has(s))
  BY <1>3, <1>4 DEF ExistsBijection, Bijection
<1> QED  BY <1>1, <1>5, FS_CountingElements DEF n

LEMMA IdleWalkIs == Eth!IdleWalk \in AnyWalk /\ Eth!IdleWalk.pc = "idle" /\ Eth!IdleWalk.batch = << >>
<1>1. << >> \in Seq(Tokens) /\ << >> \in Seq(Mined) /\ << >> \in Seq(AddressRow)
  OBVIOUS
<1> QED  BY <1>1 DEF Eth!IdleWalk, AnyWalk

LEMMA WalkBegun == ASSUME EthSizes, Eth!Init PROVE WalkInv
<1>1. height = Len(Tx) - 2 /\ walk = Eth!IdleWalk
  BY DEF Eth!Init
<1>2. height \in 0 .. Len(Tx)
  BY <1>1 DEF EthSizes
<1> QED  BY <1>1, <1>2, IdleWalkIs DEF WalkInv, WalkOk

LEMMA OnlyWalk == ASSUME WalkInv, height' = height, WalkOk(walk', height) PROVE WalkInv'
BY DEF WalkInv

LEMMA WalkStarts == ASSUME EthSizes, BankedInv, WalkInv, Eth!FetchBegins PROVE WalkInv'
<1> DEFINE w == Eth!IdleWalk  q == Eth!ResolveTokens
<1>1. PICK start \in Eth!StartBlock : walk' = [w EXCEPT !.pc = "address", !.addrs = q, !.start = start]
  BY DEF Eth!FetchBegins
<1>2. height' = height
  BY DEF Eth!FetchBegins
<1>3. start \in Nat
  BY DEF Eth!StartBlock, EthSizes
<1>4. q \in Seq(Tokens)
  <2>1. q = Bank!ResolveTokens
    BY SameBook
  <2>2. Bank!ResolveTokens \in Seq(Tokens)
    BY ResolvedIs DEF EthSizes, BookSizes
  <2> QED  BY <2>1, <2>2
<1>5. w \in AnyWalk /\ w.batch = << >>
  BY IdleWalkIs
<1> HIDE DEF w, q
<1> DEFINE a == [w EXCEPT !.pc = "address"]  b == [a EXCEPT !.addrs = q]  n == [b EXCEPT !.start = start]
<1>6. walk' = n
  BY <1>1, <1>5 DEF AnyWalk
<1>7. a \in AnyWalk /\ a.pc = "address" /\ a.batch = << >>
  BY <1>5 DEF AnyWalk
<1> HIDE DEF a
<1>8. b \in AnyWalk /\ b.pc = "address" /\ b.batch = << >>
  BY <1>4, <1>7 DEF AnyWalk
<1> HIDE DEF b
<1>9. n \in AnyWalk /\ n.pc = "address" /\ n.batch = << >>
  BY <1>3, <1>8 DEF AnyWalk
<1> HIDE DEF n
<1>10. WalkOk(n, height)
  BY <1>9 DEF WalkOk
<1> QED  BY <1>2, <1>6, <1>10, OnlyWalk

LEMMA SpanIs ==
  ASSUME EthSizes, height \in 0 .. Len(Tx), NEW a, NEW start, NEW S, S = Span(a, start, height)
  PROVE  /\ S \in SUBSET Mined /\ S \in SUBSET (1 .. height) /\ height \in Nat
         /\ S = {n \in Eth!Touches(a) : n >= start}
         /\ \A n \in S : n \in Nat /\ Cardinality(Below(S, n)) \in 1 .. Cardinality(S) /\ Cardinality(S) \in Nat
<1>1. height \in Nat /\ height <= Len(Tx) /\ Len(Tx) \in Nat
  BY DEF EthSizes
<1>2. S \in SUBSET (1 .. height) /\ S \in SUBSET Mined
  BY <1>1 DEF Span, Mined
<1>3. S = {n \in Eth!Touches(a) : n >= start}
  BY DEF Span, Eth!Touches
<1>4. \A n \in S : n \in Nat /\ Cardinality(Below(S, n)) \in 1 .. Cardinality(S) /\ Cardinality(S) \in Nat
  <2> HIDE DEF Span
  <2>1. /\ Cardinality(S) \in Nat
        /\ \A n \in S : Cardinality(Below(S, n)) \in 1 .. Cardinality(S)
    BY <1>1, <1>2, RankIs
  <2> QED  BY <1>2, <2>1
<1> QED  BY <1>1, <1>2, <1>3, <1>4

LinedUp(l, S) ==
  /\ l \in Seq(S) /\ DOMAIN l = 1 .. Cardinality(S) /\ Cardinality(S) \in Nat
  /\ \A x \in S : Cardinality(Below(S, x)) \in DOMAIN l /\ l[Cardinality(Below(S, x))] = x

LEMMA LineIs == ASSUME NEW h \in Nat, NEW S \in SUBSET (1 .. h) PROVE LinedUp(Eth!InOrder(S), S)
<1> DEFINE l == Eth!InOrder(S)
<1>1. l = Ranked(S)
  BY DEF Eth!InOrder, Ranked, Cardinality, Eth!Cardinality, Below
<1> HIDE DEF l
<1>2. /\ l \in Seq(S) /\ DOMAIN l = 1 .. Cardinality(S) /\ Cardinality(S) \in Nat
      /\ \A x \in S : Cardinality(Below(S, x)) \in DOMAIN l /\ l[Cardinality(Below(S, x))] = x
  BY <1>1, RankedIs
<1>3. LinedUp(l, S)
  BY <1>2 DEF LinedUp
<1> QED  BY <1>3 DEF l

LEMMA MinedIsFinite == ASSUME EthSizes, NEW S \in SUBSET Mined PROVE IsFiniteSet(S) /\ Cardinality(S) \in Nat
<1>1. Len(Tx) \in Int /\ 1 \in Int
  BY DEF EthSizes
<1>2. IsFiniteSet(1 .. Len(Tx))
  BY <1>1, FS_Interval
<1>3. S \in SUBSET (1 .. Len(Tx))
  BY DEF Mined
<1>4. IsFiniteSet(S)
  BY <1>2, <1>3, FS_Subset
<1> QED  BY <1>4, FS_CardinalityType

LEMMA AddressStarts == ASSUME EthSizes, WalkInv, Eth!AddressBegins PROVE WalkInv'
<1> DEFINE w == walk  t == Head(w.addrs)  S == Span(t, w.start, height)
           a == [w EXCEPT !.pc = "page", !.page = 0]
           n == [a EXCEPT !.all = << >>, !.had = S]
<1>1. /\ w.addrs # << >> /\ height' = height /\ height \in 0 .. Len(Tx)
      /\ walk' = [w EXCEPT !.pc = "page", !.page = 0, !.all = << >>, !.had = {m \in Eth!Touches(t) : m >= w.start}]
  BY DEF Eth!AddressBegins, WalkInv
<1>2. w \in AnyWalk /\ \A i \in DOMAIN w.batch : PaidOnce(w.batch[i])
  BY DEF WalkInv, WalkOk
<1>3. /\ S \in SUBSET Mined /\ S = {m \in Eth!Touches(t) : m >= w.start}
      /\ \A m \in S : Cardinality(Below(S, m)) \in 1 .. Cardinality(S) /\ Cardinality(S) \in Nat
  BY <1>1, SpanIs
<1> HIDE DEF S
<1>4. walk' = n
  BY <1>1, <1>2, <1>3 DEF AnyWalk
<1> HIDE DEF w, t
<1>5. a \in AnyWalk /\ a.pc = "page" /\ a.addrs = w.addrs /\ a.start = w.start /\ a.page = 0 /\ a.batch = w.batch
  BY <1>2 DEF AnyWalk
<1> HIDE DEF a
<1>6. /\ n \in AnyWalk /\ n.pc = "page" /\ n.addrs = w.addrs /\ n.start = w.start /\ n.page = 0 /\ n.batch = w.batch
      /\ n.had = S /\ n.all = << >>
  <2>1. << >> \in Seq(Mined)
    OBVIOUS
  <2> QED  BY <1>3, <1>5, <2>1 DEF AnyWalk
<1> HIDE DEF n
<1>7. PageCount \in Nat /\ MaxPages \in Nat \ {0}
  BY DEF EthSizes
<1>8. ToCome(n, S)
  BY <1>3, <1>6, <1>7 DEF ToCome
<1>9. WalkOk(n, height)
  BY <1>1, <1>2, <1>6, <1>7, <1>8 DEF WalkOk, S, t
<1> QED  BY <1>1, <1>4, <1>9, OnlyWalk

\* An address's transactions join the batch, each once.
LEMMA AddressJoins ==
  ASSUME EthSizes, WalkInv, walk.pc = "page", height' = height, NEW all \in Seq(Mined), walk' = Eth!AddressDone(all),
         Cardinality(walk.had) <= MaxPages * PageCount => \A n \in walk.had : n \in Has(all)
  PROVE  WalkInv'
<1> DEFINE w == walk  t == Head(w.addrs)  d == Eth!DedupeTokens(all)
           paid == [i \in DOMAIN d |-> Eth!ToImportTxn(d[i], t)]
           r == [addr |-> t, had |-> w.had, rows |-> paid]
           a == [w EXCEPT !.pc = "address", !.addrs = Tail(w.addrs)]
           n == [a EXCEPT !.batch = Append(w.batch, r)]
<1>1. w \in AnyWalk /\ w.addrs # << >> /\ \A i \in DOMAIN w.batch : PaidOnce(w.batch[i])
  BY DEF WalkInv, WalkOk
<1>2. t \in Tokens /\ Tail(w.addrs) \in Seq(Tokens) /\ w.had \in SUBSET Mined /\ w.batch \in Seq(AddressRow)
  BY <1>1 DEF AnyWalk
<1>3. d \in Seq(Mined) /\ Once(d) /\ MadeOf(d, all, DOMAIN all)
  <2>1. d = Bank!DedupeTokens(all)
    BY SameBook
  <2> QED  BY <2>1, DedupeIs
<1>4. walk' = n
  BY <1>1 DEF Eth!AddressDone, AnyWalk
<1> HIDE DEF d
<1>5. Has(all) \subseteq Has(d)
  BY <1>3 DEF MadeOf, Has
<1>6. paid \in Seq(Payments) /\ Nums(r) = d /\ Len(paid) = Len(d)
  <2> DEFINE k == Len(d)
  <2>1. k \in Nat /\ DOMAIN d = 1 .. k /\ \A i \in 1 .. k : d[i] \in Mined
    BY <1>3
  <2>2. d = [i \in 1 .. k |-> d[i]]
    BY <1>3
  <2> HIDE DEF k, t
  <2>3. \A i \in 1 .. k : paid[i] \in Payments /\ paid[i].tx = d[i]
    BY <1>2, <2>1 DEF Payments, Eth!ToImportTxn
  <2>4. paid \in [1 .. k -> Payments] /\ DOMAIN paid = 1 .. k
    BY <2>1, <2>3
  <2> HIDE DEF paid
  <2>5. paid \in Seq(Payments) /\ Len(paid) = k
    BY <2>1, <2>4
  <2>6. Nums(r) = [i \in 1 .. k |-> d[i]]
    BY <2>3, <2>4 DEF Nums
  <2> QED  BY <2>2, <2>5, <2>6 DEF k
<1> HIDE DEF paid, w, t
<1>7. r \in AddressRow /\ r.rows = paid /\ r.had = w.had
  BY <1>2, <1>6 DEF AddressRow
<1> HIDE DEF r
<1>8. PaidOnce(r)
  BY <1>3, <1>5, <1>6, <1>7 DEF PaidOnce, w
<1>9. a \in AnyWalk /\ a.pc = "address" /\ a.batch = w.batch
  BY <1>1, <1>2 DEF AnyWalk
<1> HIDE DEF a
<1> DEFINE b == Append(w.batch, r)
<1>10. b \in Seq(AddressRow) /\ \A i \in DOMAIN b : PaidOnce(b[i])
  <2>1. b \in Seq(AddressRow) /\ DOMAIN b = 1 .. Len(w.batch) + 1 /\ b[Len(w.batch) + 1] = r
        /\ Len(w.batch) \in Nat /\ DOMAIN w.batch = 1 .. Len(w.batch) /\ \A i \in 1 .. Len(w.batch) : b[i] = w.batch[i]
    BY <1>2, <1>7
  <2> HIDE DEF b
  <2>2. \A i \in DOMAIN b : i \in DOMAIN w.batch \/ i = Len(w.batch) + 1
    BY <2>1
  <2> QED  BY <1>1, <1>8, <2>1, <2>2
<1> HIDE DEF b
<1>11. n \in AnyWalk /\ n.pc = "address" /\ n.batch = b
  BY <1>9, <1>10 DEF AnyWalk, b
<1> HIDE DEF n
<1>12. WalkOk(n, height)
  BY <1>10, <1>11 DEF WalkOk
<1> QED  BY <1>4, <1>12, OnlyWalk

\* An address that cannot be read is left out.
AddressFails(w) == [[w EXCEPT !.pc = "address", !.addrs = Tail(w.addrs)] EXCEPT !.errs = w.errs + 1]

LEMMA AddressFailsKeeps ==
  ASSUME WalkInv, walk.pc = "page", height' = height, walk' = AddressFails(walk)
  PROVE  WalkInv'
<1> DEFINE w == walk  a == [w EXCEPT !.pc = "address", !.addrs = Tail(w.addrs)]  n == [a EXCEPT !.errs = w.errs + 1]
<1>1. w \in AnyWalk /\ w.addrs # << >> /\ \A i \in DOMAIN w.batch : PaidOnce(w.batch[i])
  BY DEF WalkInv, WalkOk
<1>2. walk' = n
  BY DEF AddressFails
<1>3. w.addrs \in Seq(Tokens) /\ Tail(w.addrs) \in Seq(Tokens) /\ w.errs + 1 \in Nat
  BY <1>1 DEF AnyWalk
<1> HIDE DEF w
<1>4. a \in AnyWalk /\ a.pc = "address" /\ a.batch = w.batch
  BY <1>1, <1>3 DEF AnyWalk
<1> HIDE DEF a
<1>5. n \in AnyWalk /\ n.pc = "address" /\ n.batch = w.batch
  BY <1>3, <1>4 DEF AnyWalk
<1> HIDE DEF n
<1>6. WalkOk(n, height)
  BY <1>1, <1>5 DEF WalkOk
<1> QED  BY <1>2, <1>6, OnlyWalk

LEMMA WalkReads == ASSUME EthSizes, WalkInv, Eth!TransactionsPage PROVE WalkInv'
<1> DEFINE w == walk  t == Head(w.addrs)  S == Span(t, w.start, height)  l == Eth!InOrder(S)  k == w.page * PageCount
           got == PageAt(l, k, PageCount)
           all == w.all \o got
           last == Len(got) < PageCount \/ w.page + 1 = MaxPages
           a == [w EXCEPT !.page = w.page + 1]  n == [a EXCEPT !.all = all]
<1>1. w.pc = "page" /\ height' = height /\ height \in 0 .. Len(Tx)
  BY DEF Eth!TransactionsPage, WalkInv
<1>2. /\ w \in AnyWalk /\ w.addrs # << >> /\ w.page < MaxPages /\ ToCome(w, S)
      /\ \A i \in DOMAIN w.batch : PaidOnce(w.batch[i])
  BY <1>1 DEF WalkInv, WalkOk
<1>3. /\ w.page \in Nat /\ w.all \in Seq(Mined) /\ w.had \in SUBSET Mined
      /\ PageCount \in Nat /\ PageCount # 0 /\ MaxPages \in Nat /\ MaxPages # 0
  BY <1>2 DEF AnyWalk, EthSizes
<1>4. k \in Nat /\ (w.page + 1) * PageCount = k + PageCount
  BY <1>3
<1>5. /\ S \in SUBSET Mined /\ S \in SUBSET (1 .. height) /\ height \in Nat
      /\ S = {m \in Eth!Touches(t) : m >= w.start}
      /\ \A m \in S : m \in Nat /\ Cardinality(Below(S, m)) \in 1 .. Cardinality(S) /\ Cardinality(S) \in Nat
  BY <1>1, SpanIs
<1> HIDE DEF S
<1>6. /\ l \in Seq(S) /\ DOMAIN l = 1 .. Cardinality(S) /\ Cardinality(S) \in Nat
      /\ \A x \in S : Cardinality(Below(S, x)) \in DOMAIN l /\ l[Cardinality(Below(S, x))] = x
  <2>1. S \in SUBSET (1 .. height) /\ height \in Nat
    BY <1>5
  <2>2. LinedUp(l, S)
    BY <2>1, LineIs
  <2> HIDE DEF l
  <2> QED  BY <2>2 DEF LinedUp
<1>8. \/ walk' = AddressFails(w)
      \/ walk' = IF last THEN Eth!AddressDone(all) ELSE n
  <2>1. got = SubSeq(l, w.page * PageCount + 1,
                     IF Len(l) < (w.page + 1) * PageCount THEN Len(l) ELSE (w.page + 1) * PageCount)
    BY <1>4 DEF PageAt
  <2> DEFINE f == [w EXCEPT !.pc = "address", !.addrs = Tail(w.addrs), !.errs = w.errs + 1]
             m == [w EXCEPT !.page = w.page + 1, !.all = all]
  <2>2. f = AddressFails(w)
    <3> HIDE DEF w
    <3> QED  BY <1>2 DEF AnyWalk, AddressFails
  <2>3. m = n
    <3> HIDE DEF all, w
    <3> QED  BY <1>2 DEF AnyWalk
  <2>4. walk' = f \/ walk' = IF last THEN Eth!AddressDone(all) ELSE m
    <3> HIDE DEF l
    <3>1. l = Eth!InOrder({x \in Eth!Touches(t) : x >= w.start})
      BY <1>5 DEF l
    <3> HIDE DEF got
    <3> QED  BY <2>1, <3>1 DEF Eth!TransactionsPage
  <2> HIDE DEF f, m, n, all, last
  <2> QED  BY <2>2, <2>3, <2>4
<1> HIDE DEF l, k
<1>9. l \in Seq(Mined) /\ Len(l) = Cardinality(S)
  BY <1>5, <1>6
<1> DEFINE c == Cardinality(S)
<1> HIDE DEF c
<1>10. got \in Seq(Mined) /\ IsPage(got, l, k, PageCount)
  BY <1>3, <1>4, <1>9, PageHas
<1> HIDE DEF got
<1>11. all \in Seq(Mined) /\ Has(all) = Has(w.all) \cup Has(got)
  BY <1>3, <1>10, HasBoth
<1> HIDE DEF all
<1>12. ASSUME NEW m \in w.had PROVE m \in S /\ (m \in Has(w.all) \/ Cardinality(Below(S, m)) > k)
  BY <1>2 DEF ToCome, k
<1>13. ASSUME NEW m \in S, Cardinality(Below(S, m)) > k, Cardinality(Below(S, m)) <= k + PageCount PROVE m \in Has(all)
  <2> DEFINE b == Cardinality(Below(S, m))
  <2>1. b \in DOMAIN l /\ l[b] = m /\ k < b /\ b <= k + PageCount
    <3>1. b \in DOMAIN l /\ l[b] = m
      BY <1>6
    <3>2. b \in Nat
      BY <1>5
    <3> QED  BY <1>3, <1>4, <1>13, <3>1, <3>2
  <2> HIDE DEF b
  <2>2. l[b] \in Has(got)
    BY <1>10, <2>1 DEF IsPage
  <2> QED  BY <1>11, <2>1, <2>2
<1>14. CASE walk' = AddressFails(w)
  BY <1>1, <1>14, AddressFailsKeeps
<1>15. CASE walk' = Eth!AddressDone(all) /\ last
  <2>1. ASSUME Cardinality(w.had) <= MaxPages * PageCount, NEW m \in w.had PROVE m \in Has(all)
    <3> DEFINE b == Cardinality(Below(S, m))
    <3>1. m \in S /\ (m \in Has(w.all) \/ b > k)
      BY <1>12, <2>1
    <3>2. b \in 1 .. Cardinality(S) /\ Cardinality(S) \in Nat
      BY <1>5, <3>1
    <3>3. b <= Cardinality(w.had)
      <4>1. IsFiniteSet(w.had)
        BY <1>3, MinedIsFinite
      <4>2. Below(S, m) \in SUBSET w.had
        BY <1>2, <2>1 DEF ToCome, Below
      <4> QED  BY <4>1, <4>2, FS_Subset
    <3>4. Cardinality(w.had) \in Nat
      BY <1>3, MinedIsFinite
    <3>5. b <= k + PageCount
      <4>1. CASE Len(got) < PageCount
        <5>1. ~(k + PageCount <= Len(l))
          <6>1. Len(got) # PageCount
            <7>1. Len(got) \in Nat
              BY <1>10
            <7> QED  BY <1>3, <4>1, <7>1
          <6> QED  BY <1>10, <6>1 DEF IsPage
        <5> HIDE DEF b
        <5> QED  BY <1>3, <1>4, <1>9, <3>2, <5>1
      <4>2. CASE w.page + 1 = MaxPages
        <5>1. MaxPages * PageCount = k + PageCount
          BY <1>4, <4>2
        <5> HIDE DEF b
        <5> QED  BY <1>3, <1>4, <2>1, <3>2, <3>3, <3>4, <5>1
      <4> QED  BY <1>15, <4>1, <4>2
    <3> QED  BY <1>11, <1>13, <3>1, <3>5
  <2> QED  BY <1>1, <1>11, <1>15, <2>1, AddressJoins
<1>16. CASE walk' = n /\ ~last
  <2> HIDE DEF w, t
  <2>1. a \in AnyWalk /\ a.pc = w.pc /\ a.addrs = w.addrs /\ a.start = w.start /\ a.page = w.page + 1 /\ a.batch = w.batch /\ a.had = w.had
    <3>1. w.page + 1 \in Nat
      BY <1>3
    <3> QED  BY <1>2, <3>1 DEF AnyWalk
  <2> HIDE DEF a
  <2>2. /\ n \in AnyWalk /\ n.pc = w.pc /\ n.addrs = w.addrs /\ n.start = w.start /\ n.page = w.page + 1 /\ n.batch = w.batch
        /\ n.had = w.had /\ n.all = all
    BY <1>11, <2>1 DEF AnyWalk
  <2> HIDE DEF n
  <2>3. w.page + 1 < MaxPages
    <3>1. w.page + 1 # MaxPages
      BY <1>16
    <3> QED  BY <1>2, <1>3, <3>1
  <2>4. ASSUME NEW m \in w.had
        PROVE  /\ m \in S /\ \A i \in S : i <= m => i \in w.had
               /\ m \in Has(all) \/ Cardinality(Below(S, m)) > (w.page + 1) * PageCount
    <3> DEFINE b == Cardinality(Below(S, m))
    <3>1. m \in S /\ (m \in Has(w.all) \/ b > k) /\ \A i \in S : i <= m => i \in w.had
      BY <1>2, <1>12, <2>4 DEF ToCome
    <3>2. b \in Nat
      BY <1>5, <3>1
    <3>3. b > k /\ m \notin Has(all) => ~(b <= k + PageCount)
      BY <1>13, <3>1
    <3> HIDE DEF b
    <3>4. b > k /\ m \notin Has(all) => b > k + PageCount
      BY <1>3, <1>4, <3>2, <3>3
    <3> QED  BY <1>4, <1>11, <3>1, <3>4 DEF b
  <2>5. ToCome(n, S)
    BY <2>2, <2>4 DEF ToCome
  <2>6. WalkOk(n, height)
    BY <1>1, <1>2, <2>2, <2>3, <2>5 DEF WalkOk, S, t
  <2> QED  BY <1>1, <1>16, <2>6, OnlyWalk
<1> QED  BY <1>8, <1>14, <1>15, <1>16

LEMMA WalkLeaves == ASSUME WalkInv, Eth!FetchEnds \/ Eth!Taken PROVE WalkInv'
<1>1. WalkOk(walk, height) /\ walk \in AnyWalk /\ height' = height
  BY DEF WalkInv, WalkOk, Eth!FetchEnds, Eth!Taken
<1>2. CASE Eth!Taken
  <2>1. walk' = Eth!IdleWalk
    BY <1>2 DEF Eth!Taken
  <2>2. WalkOk(walk', height)
    BY <2>1, IdleWalkIs DEF WalkOk
  <2> QED  BY <1>1, <2>2, OnlyWalk
<1>3. CASE Eth!FetchEnds
  <2> DEFINE w == walk  pc == IF w.batch = << >> /\ w.errs > 0 THEN "failed" ELSE "done"  n == [w EXCEPT !.pc = pc]
  <2>1. walk' = n
    BY <1>3 DEF Eth!FetchEnds
  <2>2. pc \in {"failed", "done"}
    OBVIOUS
  <2> HIDE DEF w, pc
  <2>3. n \in AnyWalk /\ n.pc = pc /\ n.batch = w.batch
    BY <1>1, <2>2 DEF AnyWalk, w
  <2> HIDE DEF n
  <2>4. WalkOk(n, height)
    BY <1>1, <2>2, <2>3 DEF WalkOk, w
  <2> QED  BY <1>1, <2>1, <2>4, OnlyWalk
<1> QED  BY <1>2, <1>3

\* What the chain adds comes after all that a walk counts on.
LEMMA ChainGrows == ASSUME EthSizes, WalkInv, Eth!Grow PROVE WalkInv'
<1> DEFINE w == walk  t == Head(w.addrs)  S == Span(t, w.start, height)  Z == Span(t, w.start, height + 1)
<1>1. /\ height < Len(Tx) /\ height' = height + 1 /\ walk' = w /\ height \in 0 .. Len(Tx) /\ Len(Tx) \in Nat
      /\ WalkOk(w, height)
  BY DEF Eth!Grow, WalkInv, EthSizes
<1>2. height + 1 \in 0 .. Len(Tx) /\ height \in Nat
  BY <1>1
<1>3. \A m : m \in Z /\ m # height + 1 <=> m \in S
  BY <1>2 DEF Span
<1>4. \A m \in S : m <= height /\ m \in Nat
  BY <1>2 DEF Span
<1>5. ASSUME NEW m \in S PROVE Below(Z, m) = Below(S, m)
  <2>1. ~(height + 1 <= m)
    BY <1>2, <1>4, <1>5
  <2> HIDE DEF S, Z
  <2> QED  BY <1>3, <2>1 DEF Below
<1> HIDE DEF S, Z
<1>6. ToCome(w, S) => ToCome(w, Z)
  <2> SUFFICES ASSUME ToCome(w, S), NEW m \in w.had
               PROVE  /\ m \in Z /\ \A i \in Z : i <= m => i \in w.had
                      /\ m \in Has(w.all) \/ Cardinality(Below(Z, m)) > w.page * PageCount
    BY DEF ToCome
  <2>1. /\ m \in S /\ \A i \in S : i <= m => i \in w.had
        /\ m \in Has(w.all) \/ Cardinality(Below(S, m)) > w.page * PageCount
    BY DEF ToCome
  <2>2. \A i \in Z : i <= m => i \in S
    <3>1. ~(height + 1 <= m)
      BY <1>2, <1>4, <2>1
    <3> QED  BY <1>3, <3>1
  <2> QED  BY <1>3, <1>5, <2>1, <2>2
<1>7. WalkOk(w, height + 1)
  BY <1>1, <1>6 DEF WalkOk, S, Z
<1> QED  BY <1>1, <1>2, <1>7 DEF WalkInv

LEMMA WalkGoesOnward == ASSUME EthSizes, BankedInv, WalkInv, [Eth!Next]_Eth!vars PROVE (BankedInv /\ WalkInv)'
<1>1. BankedInv'
  <2>1. Eth!BookNext \/ UNCHANGED Eth!editVars
    BY DEF Eth!Next, Eth!vars, Eth!Grow, Eth!FetchBegins, Eth!AddressBegins, Eth!TransactionsPage, Eth!FetchEnds, Eth!Taken
  <2> QED  BY <2>1, BookGoesOn DEF EthSizes
<1>2. WalkInv'
  <2>1. CASE UNCHANGED <<height, walk>>
    BY <2>1 DEF WalkInv
  <2>2. CASE Eth!Grow
    BY <2>2, ChainGrows
  <2>3. CASE Eth!FetchBegins
    BY <2>3, WalkStarts
  <2>4. CASE Eth!AddressBegins
    BY <2>4, AddressStarts
  <2>5. CASE Eth!TransactionsPage
    BY <2>5, WalkReads
  <2>6. CASE Eth!FetchEnds \/ Eth!Taken
    BY <2>6, WalkLeaves
  <2> QED  BY <2>1, <2>2, <2>3, <2>4, <2>5, <2>6 DEF Eth!Next, Eth!vars
<1> QED  BY <1>1, <1>2

LEMMA WalkMeansIt == ASSUME WalkInv PROVE Eth!WalkIsWhole
<1> SUFFICES ASSUME NEW i \in DOMAIN walk.batch, NEW r, r = walk.batch[i], NEW txs, txs = {r.rows[j].tx : j \in DOMAIN r.rows}
             PROVE  /\ Cardinality(txs) = Len(r.rows)
                    /\ Cardinality(r.had) <= MaxPages * PageCount => r.had \subseteq txs
  BY DEF Eth!WalkIsWhole, Cardinality, Eth!Cardinality
<1>1. PaidOnce(r)
  BY DEF WalkInv, WalkOk
<1>2. txs = Has(Nums(r))
  BY DEF Has, Nums
<1>3. Cardinality(Has(Nums(r))) = Len(Nums(r))
  BY <1>1, OnceCounts DEF PaidOnce
<1> QED  BY <1>1, <1>2, <1>3 DEF PaidOnce

\* However the chain grows between the pages: an address in the batch has every transaction of the
\* window that the chain had when its walk began, once, as long as the walk's pages can hold them;
\* and requests that do not overlap leave exactly the addresses they name watched.
THEOREM WalksKept ==
  ASSUME EthSizes
  PROVE  Eth!Spec => [](Eth!TokensAsAsked /\ Eth!WalkIsWhole)
<1>1. Eth!Init => BankedInv /\ WalkInv
  BY BookBegins, WalkBegun DEF Eth!Init
<1>2. BankedInv /\ WalkInv /\ [Eth!Next]_Eth!vars => (BankedInv /\ WalkInv)'
  BY WalkGoesOnward
<1>3. BankedInv /\ WalkInv => Eth!TokensAsAsked /\ Eth!WalkIsWhole
  BY BookMeansIt, WalkMeansIt DEF EthSizes
<1> QED  BY <1>1, <1>2, <1>3, PTL DEF Eth!Spec

-----------------------------------------------------------------------------
(* Bitcoin: the mempool, then the chain from its end. *)
CONSTANTS Ins, Outs, BlockTime
VARIABLES mined, mempool, scan

Btc == INSTANCE BitcoinSource WITH
  MaxEdits <- MaxLinks, edits <- links, asked <- linked, mixed <- tangled

\* The chain fits in the pages of a scan.
BtcSizes ==
  /\ BookSizes /\ PageCount \in Nat \ {0} /\ MaxPages \in Nat \ {0}
  /\ MaxTxns \in Nat /\ MaxTxns >= 2 /\ MaxPages * PageCount >= MaxTxns

Sighted == [tx : Txns, confirmed : BOOLEAN]
Movements == {Btc!ToImportTxn(x, a) : x \in Sighted, a \in Tokens}
ScanRow == [addr : Tokens, had : SUBSET Txns, rows : Seq(Movements)]
AnyScan ==
  [pc : {"idle", "mempool", "chain", "failed", "done"}, addrs : Seq(Tokens), last : Nat, page : Nat, all : Seq(Sighted),
   had : SUBSET Txns, errs : Nat, batch : Seq(ScanRow)]

TxNums(s) == [j \in DOMAIN s |-> s[j].tx]
TxsOf(s) == {x.tx : x \in Has(s)}
MarkedAs(q, b) == [i \in DOMAIN q |-> [tx |-> q[i], confirmed |-> b]]

\* A block before the window stands above it.
Excused(a, n, h) == \E m \in n .. h : a \in Btc!Moves(m) /\ BlockTime[m] < Since

RowScanned(r, h) == Once(TxNums(r.rows)) /\ \A n \in r.had : n \in Has(TxNums(r.rows)) \/ Excused(r.addr, n, h)

\* What a scan has still to read, and that it fits in the pages left.
Unread(w, h) == {n \in 1 .. h : Head(w.addrs) \in Btc!Moves(n) /\ (w.last # 0 => n < w.last)}
PagesLeft(w, S) == w.last # 0 /\ S # {} => Cardinality(S) + w.page * PageCount <= MaxTxns
ReadBack(w, h) ==
  /\ w.addrs # << >> /\ w.page < MaxPages /\ w.last <= h /\ (w.last = 0 => w.page = 0)
  /\ \A n \in w.had : n \in TxsOf(w.all) \/ n \in Unread(w, h)
  /\ PagesLeft(w, Unread(w, h))

ScanOk(w, h) ==
  /\ w \in AnyScan
  /\ \A i \in DOMAIN w.batch : RowScanned(w.batch[i], h)
  /\ w.pc = "chain" => ReadBack(w, h)

PoolInv == mined \in Nat /\ \E c \in Nat : mined + c <= MaxTxns /\ mempool = (mined + 1) .. (mined + c)
ScanInv == PoolInv /\ ScanOk(scan, mined)

-----------------------------------------------------------------------------
(* The book is the same as Ethereum's. *)

LEMMA SameAddresses ==
  /\ Btc!TokensInit => Eth!TokensInit
  /\ Btc!BookNext => Eth!BookNext
  /\ (UNCHANGED Btc!editVars) => UNCHANGED Eth!editVars
  /\ Btc!ResolveTokens = Eth!ResolveTokens
  /\ Eth!TokensAsAsked => Btc!TokensAsAsked
  /\ \A s, I : Btc!AtPlaces(s, I) = Bank!AtPlaces(s, I)
<1>1. Btc!IdleEditor = Eth!IdleEditor
  BY DEF Eth!IdleEditor, Btc!IdleEditor, Eth!None, Btc!None
<1>2. \A s, I : Btc!AtPlaces(s, I) = Eth!AtPlaces(s, I)
  BY DEF Eth!AtPlaces, Btc!AtPlaces, Eth!InOrder, Btc!InOrder, Eth!Cardinality, Btc!Cardinality
<1>3. \A s : Btc!DedupeTokens(s) = Eth!DedupeTokens(s)
  BY <1>2 DEF Btc!DedupeTokens, Eth!DedupeTokens
<1>4. Btc!ResolveTokens = Eth!ResolveTokens
  BY <1>3 DEF Btc!ResolveTokens, Eth!ResolveTokens
<1>5. Btc!TokensInit => Eth!TokensInit
  BY <1>1 DEF Btc!TokensInit, Eth!TokensInit
<1>6. Btc!BookNext => Eth!BookNext
  <2> SUFFICES ASSUME NEW e \in Editors,
                      \/ \E i \in Inputs : Btc!Add(e, i)
                      \/ \E a \in Tokens : Btc!RemoveCredential(e, a)
                      \/ Btc!WriteTokens(e) \/ Btc!WriteFails(e)
               PROVE  Eth!BookNext
    BY DEF Btc!BookNext
  <2>1. \A s : Btc!ToSet(s) = Eth!ToSet(s)
    BY DEF Btc!ToSet, Eth!ToSet
  <2>2. \A pc, t : Btc!ReadTokens(e, pc, t) => Eth!ReadTokens(e, pc, t)
    BY DEF Btc!ReadTokens, Eth!ReadTokens
  <2>3. CASE \E i \in Inputs : Btc!Add(e, i)
    BY <2>2, <2>3 DEF Btc!Add, Eth!Add, Btc!SetCredential, Eth!SetCredential, Btc!None, Eth!None, Eth!BookNext
  <2>4. CASE \E a \in Tokens : Btc!RemoveCredential(e, a)
    BY <2>1, <2>2, <2>4 DEF Btc!RemoveCredential, Eth!RemoveCredential, Eth!BookNext
  <2>5. CASE Btc!WriteTokens(e)
    <3>1. Eth!WriteTokens(e)
      BY <1>1, <1>2, <1>3, <2>5 DEF Btc!WriteTokens, Eth!WriteTokens
    <3> QED  BY <3>1 DEF Eth!BookNext
  <2>6. CASE Btc!WriteFails(e)
    <3>1. Eth!WriteFails(e)
      BY <1>1, <2>6 DEF Btc!WriteFails, Eth!WriteFails
    <3> QED  BY <3>1 DEF Eth!BookNext
  <2> QED  BY <2>3, <2>4, <2>5, <2>6
<1>7. (UNCHANGED Btc!editVars) => UNCHANGED Eth!editVars
  BY DEF Btc!editVars, Eth!editVars
<1>8. Eth!TokensAsAsked => Btc!TokensAsAsked
  <2>1. \A s : Btc!ToSet(s) = Eth!ToSet(s) /\ (Btc!IsInjective(s) <=> Eth!IsInjective(s))
    BY DEF Btc!ToSet, Eth!ToSet, Btc!IsInjective, Eth!IsInjective
  <2>2. Btc!ListCredentials = Eth!ListCredentials
    BY <1>4, <2>1 DEF Btc!ListCredentials, Eth!ListCredentials
  <2> QED  BY <1>4, <2>1, <2>2 DEF Btc!TokensAsAsked, Eth!TokensAsAsked
<1>9. \A s, I : Btc!AtPlaces(s, I) = Bank!AtPlaces(s, I)
  BY DEF Bank!AtPlaces, Btc!AtPlaces, Bank!InOrder, Btc!InOrder, Bank!Cardinality, Btc!Cardinality
<1> QED  BY <1>4, <1>5, <1>6, <1>7, <1>8, <1>9

-----------------------------------------------------------------------------
(* Transactions as a scan notes them. *)

LEMMA MarkedIs ==
  ASSUME NEW q \in Seq(Txns), NEW b \in BOOLEAN
  PROVE  MarkedAs(q, b) \in Seq(Sighted) /\ TxsOf(MarkedAs(q, b)) = Has(q)
<1> DEFINE n == Len(q)  s == MarkedAs(q, b)
<1>1. n \in Nat /\ DOMAIN q = 1 .. n /\ \A i \in 1 .. n : q[i] \in Txns
  OBVIOUS
<1> HIDE DEF n
<1>2. /\ DOMAIN s = 1 .. n
      /\ \A i \in 1 .. n : s[i] = [tx |-> q[i], confirmed |-> b]
  BY <1>1 DEF MarkedAs
<1>3. s = [i \in 1 .. n |-> s[i]]
  BY <1>1 DEF MarkedAs
<1> HIDE DEF s
<1>4. \A i \in 1 .. n : s[i] \in Sighted /\ s[i].tx = q[i]
  BY <1>1, <1>2 DEF Sighted
<1>5. s \in Seq(Sighted)
  BY <1>1, <1>3, <1>4
<1>6. TxsOf(s) = Has(q)
  BY <1>1, <1>2, <1>4 DEF TxsOf, Has
<1> QED  BY <1>5, <1>6 DEF s

LEMMA TxsOfBoth ==
  ASSUME NEW a \in Seq(Sighted), NEW b \in Seq(Sighted)
  PROVE  a \o b \in Seq(Sighted) /\ TxsOf(a \o b) = TxsOf(a) \cup TxsOf(b)
<1>1. a \o b \in Seq(Sighted) /\ Has(a \o b) = Has(a) \cup Has(b)
  BY HasBoth
<1> QED  BY <1>1 DEF TxsOf

\* The first sight of each transaction.
FirstSights(s) == Btc!AtPlaces(s, {i \in DOMAIN s : \A j \in 1 .. i - 1 : s[j].tx # s[i].tx})

LEMMA FirstSightsAre ==
  ASSUME NEW s \in Seq(Sighted), NEW q, q = FirstSights(s)
  PROVE  q \in Seq(Sighted) /\ Once(TxNums(q)) /\ TxsOf(s) \subseteq TxsOf(q)
<1> DEFINE I == {i \in DOMAIN s : \A j \in 1 .. i - 1 : s[j].tx # s[i].tx}
<1>1. q = Bank!AtPlaces(s, I)
  BY SameAddresses DEF FirstSights
<1>2. I \in SUBSET DOMAIN s /\ DOMAIN s = 1 .. Len(s) /\ Len(s) \in Nat
  OBVIOUS
<1>3. ASSUME NEW i \in I, NEW j \in I, s[i].tx = s[j].tx PROVE i = j
  <2> SUFFICES ASSUME NEW m \in I, NEW n \in I, m < n PROVE s[m].tx # s[n].tx
    BY <1>2, <1>3
  <2>1. m \in 1 .. n - 1
    BY <1>2
  <2> QED  BY <2>1
<1>4. ASSUME NEW i \in DOMAIN s PROVE \E j \in I : s[j].tx = s[i].tx
  <2> DEFINE E == {j \in DOMAIN s : s[j].tx = s[i].tx}
  <2>1. E \in SUBSET Nat /\ E # {}
    BY <1>2
  <2>2. PICK m \in E : \A n \in E : m <= n
    BY <2>1, SmallestOf
  <2>3. \A j \in 1 .. m - 1 : s[j].tx # s[m].tx
    <3> SUFFICES ASSUME NEW j \in 1 .. m - 1, s[j].tx = s[m].tx PROVE FALSE
      OBVIOUS
    <3>1. j \in E /\ j < m
      BY <1>2
    <3> QED  BY <1>2, <2>2, <3>1
  <2> QED  BY <2>3
<1> HIDE DEF I
<1>5. Apiece(s, I)
  BY <1>3 DEF Apiece
<1>6. q \in Seq(Sighted) /\ MadeOf(q, s, I) /\ Once(q)
  BY <1>1, <1>2, <1>5, PlacesAre
<1>7. ASSUME NEW m \in DOMAIN q, NEW n \in DOMAIN q, q[m].tx = q[n].tx PROVE m = n
  <2>1. PICK i \in I : q[m] = s[i]
    BY <1>6 DEF MadeOf
  <2>2. PICK j \in I : q[n] = s[j]
    BY <1>6 DEF MadeOf
  <2>3. q[m] = q[n]
    BY <1>3, <1>7, <2>1, <2>2
  <2> QED  BY <1>6, <2>3 DEF Once
<1>8. Once(TxNums(q))
  BY <1>7 DEF Once, TxNums
<1>9. ASSUME NEW x \in Has(s) PROVE x.tx \in TxsOf(q)
  <2>1. PICK i \in DOMAIN s : x = s[i]
    BY DEF Has
  <2>2. PICK j \in I : s[j].tx = s[i].tx
    BY <1>4
  <2>3. PICK n \in DOMAIN q : q[n] = s[j]
    BY <1>6 DEF MadeOf
  <2> QED  BY <2>1, <2>2, <2>3 DEF TxsOf, Has
<1> QED  BY <1>6, <1>8, <1>9 DEF TxsOf

-----------------------------------------------------------------------------
(* The chain from its end. *)

Backward(l, S) ==
  /\ l \in Seq(S) /\ Len(l) = Cardinality(S) /\ Cardinality(S) \in Nat
  /\ \A i \in DOMAIN l : Depth(S, l[i]) = i
  /\ \A n \in S : Depth(S, n) \in DOMAIN l /\ l[Depth(S, n)] = n
  /\ \A m, n \in S : m < n => Depth(S, n) < Depth(S, m)

LEMMA FromTheEnd ==
  ASSUME NEW k \in Nat, NEW S \in SUBSET (1 .. k)
  PROVE  Backward(Btc!Reverse(Btc!InOrder(S)), S) /\ Cardinality(S) <= k
<1> DEFINE q == Ranked(S)  C == Cardinality(S)  r == [i \in 1 .. C |-> q[(C - i) + 1]]
           l == Btc!Reverse(Btc!InOrder(S))
<1>1. /\ q \in Seq(S) /\ DOMAIN q = 1 .. C /\ C \in Nat
      /\ \A n \in DOMAIN q : q[n] \in S /\ Cardinality(Below(S, q[n])) = n
      /\ \A x \in S : Cardinality(Below(S, x)) \in DOMAIN q /\ q[Cardinality(Below(S, x))] = x
  BY RankedIs
<1>2. C <= k
  <2>1. IsFiniteSet(1 .. k) /\ Cardinality(1 .. k) = k
    BY FS_Interval
  <2> QED  BY <2>1, FS_Subset
<1>3. Btc!InOrder(S) = q
  BY DEF Btc!InOrder, Ranked, Cardinality, Btc!Cardinality, Below
<1> HIDE DEF q
<1>4. Len(q) = C
  BY <1>1
<1>5. l = r
  BY <1>3, <1>4 DEF Btc!Reverse
<1> HIDE DEF l
<1>6. \A m, n \in S : m < n => Cardinality(Below(S, m)) < Cardinality(Below(S, n))
  BY RankIs
<1> HIDE DEF C
<1>7. \A i \in 1 .. C : (C - i) + 1 \in 1 .. C
  BY <1>1
<1>8. \A i \in 1 .. C : r[i] \in S /\ Cardinality(Below(S, r[i])) = (C - i) + 1
  BY <1>1, <1>7
<1>9. r \in Seq(S) /\ Len(r) = C /\ DOMAIN r = 1 .. C
  BY <1>1, <1>8
<1>10. \A n \in S : Depth(S, n) = (C - Cardinality(Below(S, n))) + 1 /\ Cardinality(Below(S, n)) \in 1 .. C
  BY <1>1 DEF Depth, C
<1>11. ASSUME NEW i \in DOMAIN r PROVE Depth(S, r[i]) = i
  <2> DEFINE y == r[i]  b == Cardinality(Below(S, y))
  <2>1. i \in 1 .. C /\ y \in S /\ b = (C - i) + 1
    BY <1>8, <1>9
  <2>2. Depth(S, y) = (C - b) + 1
    BY <1>10, <2>1
  <2> HIDE DEF y, b
  <2>3. Depth(S, y) = i
    BY <1>1, <2>1, <2>2
  <2> QED  BY <2>3 DEF y
<1>12. ASSUME NEW n \in S PROVE Depth(S, n) \in DOMAIN r /\ r[Depth(S, n)] = n
  <2> DEFINE b == Cardinality(Below(S, n))
  <2>1. b \in 1 .. C /\ q[b] = n /\ Depth(S, n) = (C - b) + 1
    BY <1>1, <1>10
  <2> HIDE DEF b
  <2>2. (C - b) + 1 \in 1 .. C /\ (C - ((C - b) + 1)) + 1 = b
    BY <1>1, <2>1
  <2> QED  BY <2>1, <2>2
<1>13. ASSUME NEW m \in S, NEW n \in S, m < n PROVE Depth(S, n) < Depth(S, m)
  <2> DEFINE a == Cardinality(Below(S, m))  b == Cardinality(Below(S, n))
  <2>1. a < b /\ a \in 1 .. C /\ b \in 1 .. C /\ Depth(S, m) = (C - a) + 1 /\ Depth(S, n) = (C - b) + 1
    BY <1>6, <1>10, <1>13
  <2> HIDE DEF a, b
  <2> QED  BY <1>1, <2>1
<1> HIDE DEF r
<1>14. Backward(r, S)
  BY <1>1, <1>9, <1>11, <1>12, <1>13 DEF Backward, C
<1> QED  BY <1>2, <1>5, <1>14 DEF l, C

\* What the first page has, and what is left below it.
BeginOf(g, l, S, c) ==
  /\ g \in Seq(S) /\ Len(g) \in Nat /\ DOMAIN g = 1 .. Len(g)
  /\ \A i \in DOMAIN g : g[i] = l[i] /\ i \in DOMAIN l
  /\ Len(g) = (IF Cardinality(S) < c THEN Cardinality(S) ELSE c)

LEMMA PageBack ==
  ASSUME NEW k \in Nat, NEW S \in SUBSET (1 .. k), NEW c \in Nat, c # 0, NEW l, Backward(l, S), NEW g, g = PageAt(l, 0, c)
  PROVE  BeginOf(g, l, S, c)
<1> DEFINE n == Len(l)  z == IF n < c THEN n ELSE c
<1>1. l \in Seq(S) /\ n \in Nat /\ DOMAIN l = 1 .. n /\ n = Cardinality(S) /\ \A i \in 1 .. n : l[i] \in S
  BY DEF Backward
<1>2. g = SubSeq(l, 1, z)
  BY <1>1 DEF PageAt
<1> HIDE DEF n
<1>3. z \in Nat /\ z <= n
  BY <1>1
<1> HIDE DEF z
<1>4. Len(g) = z /\ DOMAIN g = 1 .. z /\ \A i \in 1 .. z : g[i] = l[i]
  BY <1>1, <1>2, <1>3
<1>5. \A i \in 1 .. z : i \in 1 .. n
  BY <1>1, <1>3
<1>6. g \in Seq(S)
  BY <1>1, <1>2, <1>3, <1>4, <1>5
<1> QED  BY <1>1, <1>3, <1>4, <1>5, <1>6 DEF z, BeginOf

\* Below the last of a page stands what is deeper, and nothing when the page was not full.
LeftOf(R, S, z) ==
  /\ \A n \in S : Depth(S, n) <= z \/ n \in R
  /\ Cardinality(R) = Cardinality(S) - z /\ z \in Nat
  /\ R # {} => z < Cardinality(S)

LEMMA LeftBelow ==
  ASSUME NEW k \in Nat, NEW S \in SUBSET (1 .. k), NEW l, Backward(l, S), NEW z \in DOMAIN l, NEW R, R = {n \in S : n < l[z]}
  PROVE  LeftOf(R, S, z)
<1> DEFINE x == l[z]
<1>1. x \in S /\ Depth(S, x) = z /\ Cardinality(S) \in Nat /\ z \in Nat
  BY DEF Backward
<1> HIDE DEF x
<1>2. R \in SUBSET S /\ R = {n \in S : n < x} /\ x \notin R
  <2>1. R \in SUBSET S /\ R = {n \in S : n < x}
    BY DEF x
  <2>2. x \in Nat
    BY <1>1
  <2> QED  BY <2>1, <2>2
<1>3. \A n \in S : Depth(S, n) \in 1 .. Cardinality(S)
  BY DEF Backward
<1>4. ASSUME NEW n \in S PROVE Depth(S, n) <= z \/ n \in R
  <2>1. x < n => Depth(S, n) < z
    BY <1>1, <1>4 DEF Backward
  <2>2. x = n => Depth(S, n) = z
    BY <1>1
  <2>3. n < x \/ n = x \/ x < n
    BY <1>1, <1>4
  <2>4. Depth(S, n) \in Nat
    BY <1>3
  <2> QED  BY <1>1, <1>2, <2>1, <2>2, <2>3, <2>4
<1>5. ASSUME NEW n \in R PROVE z < Cardinality(S)
  <2>1. n \in S /\ n < x
    BY <1>2
  <2>2. z < Depth(S, n)
    BY <1>1, <2>1 DEF Backward
  <2>3. Depth(S, n) \in 1 .. Cardinality(S)
    BY <1>3, <2>1
  <2> QED  BY <1>1, <2>2, <2>3
<1>6. Cardinality(R) = Cardinality(S) - z
  <2>1. IsFiniteSet(R)
    <3>1. IsFiniteSet(1 .. k)
      BY FS_Interval
    <3>2. R \in SUBSET (1 .. k)
      BY <1>2
    <3> QED  BY <3>1, <3>2, FS_Subset
  <2>2. Below(S, x) = R \cup {x}
    <3>1. \A n \in S : n <= x <=> n < x \/ n = x
      BY <1>1
    <3> QED  BY <1>1, <1>2, <3>1 DEF Below
  <2>3. Cardinality(Below(S, x)) = Cardinality(R) + 1 /\ Cardinality(R) \in Nat
    BY <1>2, <2>1, <2>2, FS_AddElement, FS_CardinalityType
  <2> DEFINE C == Cardinality(S)  b == Cardinality(Below(S, x))  r == Cardinality(R)
  <2>4. z = (C - b) + 1 /\ b = r + 1 /\ r \in Nat /\ C \in Nat
    BY <1>1, <2>3 DEF Depth
  <2> HIDE DEF C, b, r
  <2>5. r = C - z
    BY <1>1, <2>4
  <2> QED  BY <2>5 DEF r, C
<1> QED  BY <1>1, <1>4, <1>5, <1>6 DEF LeftOf

-----------------------------------------------------------------------------
(* The scan of an address. *)

LEMMA IdleScanIs == Btc!IdleScan \in AnyScan /\ Btc!IdleScan.pc = "idle" /\ Btc!IdleScan.batch = << >>
<1>1. << >> \in Seq(Tokens) /\ << >> \in Seq(Sighted) /\ << >> \in Seq(ScanRow)
  OBVIOUS
<1> QED  BY <1>1 DEF Btc!IdleScan, AnyScan

LEMMA ScanBegun == ASSUME BtcSizes, Btc!Init PROVE ScanInv
<1>1. mined = MaxTxns - 2 /\ mempool = {} /\ scan = Btc!IdleScan
  BY DEF Btc!Init
<1>2. PoolInv
  <2>1. mined \in Nat /\ mined + 0 <= MaxTxns /\ mempool = (mined + 1) .. (mined + 0)
    BY <1>1 DEF BtcSizes
  <2> QED  BY <2>1 DEF PoolInv
<1>3. ScanOk(scan, mined)
  BY <1>1, IdleScanIs DEF ScanOk
<1> QED  BY <1>2, <1>3 DEF ScanInv

LEMMA OnlyScan == ASSUME ScanInv, mined' = mined, mempool' = mempool, ScanOk(scan', mined) PROVE ScanInv'
<1>1. PoolInv'
  BY DEF ScanInv, PoolInv
<1> QED  BY <1>1 DEF ScanInv

LEMMA ScanStarts == ASSUME BtcSizes, BankedInv, ScanInv, Btc!FetchBegins PROVE ScanInv'
<1> DEFINE w == Btc!IdleScan  q == Btc!ResolveTokens
<1>1. scan' = [w EXCEPT !.pc = "mempool", !.addrs = q] /\ mined' = mined /\ mempool' = mempool
  BY DEF Btc!FetchBegins
<1>2. q \in Seq(Tokens)
  <2>1. q = Bank!ResolveTokens
    BY SameAddresses, SameBook
  <2>2. Bank!ResolveTokens \in Seq(Tokens)
    BY ResolvedIs DEF BtcSizes, BookSizes
  <2> QED  BY <2>1, <2>2
<1>3. w \in AnyScan /\ w.batch = << >>
  BY IdleScanIs
<1> HIDE DEF w, q
<1> DEFINE a == [w EXCEPT !.pc = "mempool"]  n == [a EXCEPT !.addrs = q]
<1>4. scan' = n
  BY <1>1, <1>3 DEF AnyScan
<1>5. a \in AnyScan /\ a.pc = "mempool" /\ a.batch = << >>
  BY <1>3 DEF AnyScan
<1> HIDE DEF a
<1>6. n \in AnyScan /\ n.pc = "mempool" /\ n.batch = << >>
  BY <1>2, <1>5 DEF AnyScan
<1> HIDE DEF n
<1>7. ScanOk(n, mined)
  BY <1>6 DEF ScanOk
<1> QED  BY <1>1, <1>4, <1>7, OnlyScan

\* An address that cannot be read is left out.
ScanFails(w) == [[w EXCEPT !.pc = "mempool", !.addrs = Tail(w.addrs)] EXCEPT !.errs = w.errs + 1]

LEMMA ScanFailsKeeps ==
  ASSUME ScanInv, scan.addrs # << >>, mined' = mined, mempool' = mempool, scan' = ScanFails(scan)
  PROVE  ScanInv'
<1> DEFINE w == scan  a == [w EXCEPT !.pc = "mempool", !.addrs = Tail(w.addrs)]  n == [a EXCEPT !.errs = w.errs + 1]
<1>1. w \in AnyScan /\ \A i \in DOMAIN w.batch : RowScanned(w.batch[i], mined)
  BY DEF ScanInv, ScanOk
<1>2. scan' = n
  BY DEF ScanFails
<1>3. w.addrs \in Seq(Tokens) /\ w.addrs # << >> /\ Tail(w.addrs) \in Seq(Tokens) /\ w.errs + 1 \in Nat
  BY <1>1 DEF AnyScan
<1> HIDE DEF w
<1>4. a \in AnyScan /\ a.pc = "mempool" /\ a.batch = w.batch
  BY <1>1, <1>3 DEF AnyScan
<1> HIDE DEF a
<1>5. n \in AnyScan /\ n.pc = "mempool" /\ n.batch = w.batch
  BY <1>3, <1>4 DEF AnyScan
<1> HIDE DEF n
<1>6. ScanOk(n, mined)
  BY <1>1, <1>5 DEF ScanOk
<1> QED  BY <1>2, <1>6, OnlyScan

LEMMA ScanJoins ==
  ASSUME ScanInv, scan.addrs # << >>, mined' = mined, mempool' = mempool,
         NEW all \in Seq(Sighted), scan' = Btc!AddressDone(all),
         \A n \in scan.had : n \in TxsOf(all) \/ Excused(Head(scan.addrs), n, mined)
  PROVE  ScanInv'
<1> DEFINE w == scan  t == Head(w.addrs)  d == FirstSights(all)
           got == [i \in DOMAIN d |-> Btc!ToImportTxn(d[i], t)]
           r == [addr |-> t, had |-> w.had, rows |-> got]
           a == [w EXCEPT !.pc = "mempool", !.addrs = Tail(w.addrs)]
           b == Append(w.batch, r)
           n == [a EXCEPT !.batch = b]
<1>1. w \in AnyScan /\ w.addrs # << >> /\ \A i \in DOMAIN w.batch : RowScanned(w.batch[i], mined)
  BY DEF ScanInv, ScanOk
<1>2. t \in Tokens /\ Tail(w.addrs) \in Seq(Tokens) /\ w.had \in SUBSET Txns /\ w.batch \in Seq(ScanRow)
  BY <1>1 DEF AnyScan
<1>3. d \in Seq(Sighted) /\ Once(TxNums(d)) /\ TxsOf(all) \subseteq TxsOf(d)
  BY FirstSightsAre
<1>4. scan' = n
  BY <1>1 DEF Btc!AddressDone, FirstSights, AnyScan
<1> HIDE DEF d
<1>5. got \in Seq(Movements) /\ TxNums(got) = TxNums(d)
  <2> DEFINE k == Len(d)
  <2>1. k \in Nat /\ DOMAIN d = 1 .. k /\ \A i \in 1 .. k : d[i] \in Sighted
    BY <1>3
  <2> HIDE DEF k, t
  <2>2. \A i \in 1 .. k : got[i] \in Movements /\ got[i].tx = d[i].tx
    BY <1>2, <2>1 DEF Movements, Btc!ToImportTxn
  <2>3. got \in [1 .. k -> Movements] /\ DOMAIN got = 1 .. k
    BY <2>1, <2>2
  <2> HIDE DEF got
  <2>4. got \in Seq(Movements)
    BY <2>1, <2>3
  <2>5. TxNums(got) = TxNums(d)
    BY <2>1, <2>2, <2>3 DEF TxNums
  <2> QED  BY <2>4, <2>5
<1>6. Has(TxNums(d)) = TxsOf(d)
  BY DEF Has, TxNums, TxsOf
<1>7. \A m \in w.had : m \in TxsOf(all) \/ Excused(t, m, mined)
  OBVIOUS
<1> HIDE DEF got, w, t
<1>8. r \in ScanRow /\ r.rows = got /\ r.had = w.had /\ r.addr = t
  BY <1>2, <1>5 DEF ScanRow
<1> HIDE DEF r
<1>9. RowScanned(r, mined)
  BY <1>3, <1>5, <1>6, <1>7, <1>8 DEF RowScanned
<1>10. a \in AnyScan /\ a.pc = "mempool" /\ a.batch = w.batch
  BY <1>1, <1>2 DEF AnyScan
<1> HIDE DEF a
<1>11. b \in Seq(ScanRow) /\ \A i \in DOMAIN b : RowScanned(b[i], mined)
  <2>1. b \in Seq(ScanRow) /\ DOMAIN b = 1 .. Len(w.batch) + 1 /\ b[Len(w.batch) + 1] = r
        /\ Len(w.batch) \in Nat /\ DOMAIN w.batch = 1 .. Len(w.batch) /\ \A i \in 1 .. Len(w.batch) : b[i] = w.batch[i]
    BY <1>2, <1>8
  <2> HIDE DEF b
  <2>2. \A i \in DOMAIN b : i \in DOMAIN w.batch \/ i = Len(w.batch) + 1
    BY <2>1
  <2> QED  BY <1>1, <1>9, <2>1, <2>2
<1> HIDE DEF b
<1>12. n \in AnyScan /\ n.pc = "mempool" /\ n.batch = b
  BY <1>10, <1>11 DEF AnyScan
<1> HIDE DEF n
<1>13. ScanOk(n, mined)
  BY <1>11, <1>12 DEF ScanOk
<1> QED  BY <1>4, <1>13, OnlyScan

LEMMA MempoolReads == ASSUME BtcSizes, ScanInv, Btc!MempoolPage PROVE ScanInv'
<1> DEFINE w == scan  t == Head(w.addrs)
           found == {n \in mempool : t \in Btc!Moves(n)}
           q == Btc!InOrder(found)
           all == MarkedAs(q, FALSE)
           had == {n \in 1 .. mined + Cardinality(mempool) : t \in Btc!Moves(n)}
           a == [w EXCEPT !.pc = "chain", !.last = 0]  b == [a EXCEPT !.page = 0]
           c == [b EXCEPT !.all = all]  n == [c EXCEPT !.had = had]
<1>1. mined' = mined /\ mempool' = mempool /\ w.addrs # << >>
  BY DEF Btc!MempoolPage
<1>2. w \in AnyScan /\ \A i \in DOMAIN w.batch : RowScanned(w.batch[i], mined)
  BY DEF ScanInv, ScanOk
<1>3. PICK k \in Nat : mined \in Nat /\ mined + k <= MaxTxns /\ mempool = (mined + 1) .. (mined + k)
  BY DEF ScanInv, PoolInv
<1>4. /\ Cardinality(mempool) = k
      /\ MaxTxns \in Nat /\ MaxPages \in Nat /\ MaxPages # 0
  <2>1. Cardinality(mempool) = IF mined + 1 > mined + k THEN 0 ELSE (mined + k) - (mined + 1) + 1
    BY <1>3, FS_Interval
  <2> QED  BY <1>3, <2>1 DEF BtcSizes
<1>5. found \in SUBSET (1 .. MaxTxns) /\ had \in SUBSET Txns
  BY <1>3, <1>4 DEF Txns
<1>6. had = {m \in 1 .. mined + k : t \in Btc!Moves(m)}
  BY <1>4
<1> HIDE DEF found
<1>7. q \in Seq(Txns) /\ Has(q) = found
  <2>1. q = Ranked(found)
    BY DEF Btc!InOrder, Ranked, Cardinality, Btc!Cardinality, Below
  <2> HIDE DEF q
  <2>2. /\ q \in Seq(found)
        /\ \A x \in found : Cardinality(Below(found, x)) \in DOMAIN q /\ q[Cardinality(Below(found, x))] = x
    BY <1>4, <1>5, <2>1, RankedIs
  <2>3. Has(q) = found
    BY <2>2 DEF Has
  <2>4. q \in Seq(Txns)
    <3>1. found \in SUBSET Txns
      BY <1>5 DEF Txns
    <3>2. Len(q) \in Nat /\ DOMAIN q = 1 .. Len(q) /\ \A i \in 1 .. Len(q) : q[i] \in Txns
      BY <2>2, <3>1
    <3>3. q = [i \in 1 .. Len(q) |-> q[i]]
      BY <2>2
    <3> QED  BY <3>2, <3>3
  <2> QED  BY <2>3, <2>4
<1>8. all \in Seq(Sighted) /\ TxsOf(all) = found
  BY <1>7, MarkedIs
<1>9. scan' = ScanFails(w) \/ scan' = n
  <2> DEFINE f == [w EXCEPT !.pc = "mempool", !.addrs = Tail(w.addrs), !.errs = w.errs + 1]
             m == [w EXCEPT !.pc = "chain", !.last = 0, !.page = 0, !.all = all, !.had = had]
  <2>1. f = ScanFails(w)
    <3> HIDE DEF w
    <3> QED  BY <1>2 DEF AnyScan, ScanFails
  <2>2. m = n
    <3> HIDE DEF all, had, w
    <3> QED  BY <1>2 DEF AnyScan
  <2>3. scan' = f \/ scan' = m
    BY DEF Btc!MempoolPage, Btc!AddressFails, MarkedAs, found, Cardinality, Btc!Cardinality
  <2> QED  BY <2>1, <2>2, <2>3
<1>10. CASE scan' = ScanFails(w)
  BY <1>1, <1>10, ScanFailsKeeps
<1>11. CASE scan' = n
  <2> HIDE DEF all, had, w, t
  <2>1. a \in AnyScan /\ a.pc = "chain" /\ a.addrs = w.addrs /\ a.last = 0 /\ a.batch = w.batch
    BY <1>2 DEF AnyScan
  <2> HIDE DEF a
  <2>2. b \in AnyScan /\ b.pc = "chain" /\ b.addrs = w.addrs /\ b.last = 0 /\ b.page = 0 /\ b.batch = w.batch
    BY <2>1 DEF AnyScan
  <2> HIDE DEF b
  <2>3. c \in AnyScan /\ c.pc = "chain" /\ c.addrs = w.addrs /\ c.last = 0 /\ c.page = 0 /\ c.batch = w.batch /\ c.all = all
    BY <1>8, <2>2 DEF AnyScan
  <2> HIDE DEF c
  <2>4. /\ n \in AnyScan /\ n.pc = "chain" /\ n.addrs = w.addrs /\ n.last = 0 /\ n.page = 0 /\ n.batch = w.batch
        /\ n.all = all /\ n.had = had
    BY <1>5, <2>3 DEF AnyScan
  <2> HIDE DEF n
  <2>5. ASSUME NEW m \in had PROVE m \in TxsOf(all) \/ m \in Unread(n, mined)
    <3>1. m \in 1 .. mined + k /\ t \in Btc!Moves(m)
      BY <1>6, <2>5
    <3>2. CASE m <= mined
      <4>1. m \in 1 .. mined
        BY <1>3, <3>1, <3>2
      <4> QED  BY <2>4, <3>1, <4>1 DEF Unread, t
    <3>3. CASE ~(m <= mined)
      <4>1. m \in mempool
        BY <1>3, <3>1, <3>3
      <4> QED  BY <1>8, <3>1, <4>1 DEF found
    <3> QED  BY <3>2, <3>3
  <2>6. ReadBack(n, mined)
    <3>1. 0 < MaxPages /\ 0 <= mined
      BY <1>3, <1>4
    <3> QED  BY <1>1, <2>4, <2>5, <3>1 DEF ReadBack, PagesLeft, w
  <2>7. ScanOk(n, mined)
    BY <1>2, <2>4, <2>6 DEF ScanOk
  <2> QED  BY <1>1, <1>11, <2>7, OnlyScan
<1> QED  BY <1>9, <1>10, <1>11

Least(S, m) == m \in S /\ \A n \in S : m <= n

LEMMA LeastIs == ASSUME NEW S \in SUBSET Nat, S # {} PROVE Least(S, Btc!Min(S))
<1> DEFINE z == CHOOSE m \in S : \A n \in S : m <= n
<1>1. \E m \in S : \A n \in S : m <= n
  BY SmallestOf
<1>2. z \in S /\ \A n \in S : z <= n
  BY <1>1
<1>3. Btc!Min(S) = z
  BY DEF Btc!Min
<1> HIDE DEF z
<1> QED  BY <1>2, <1>3 DEF Least

\* What becomes of a scan with a page of the chain.
TooOld(g) == {i \in DOMAIN g : BlockTime[g[i]] < Since}
KeptOf(g) == IF TooOld(g) = {} THEN g ELSE SubSeq(g, 1, Btc!Min(TooOld(g)) - 1)
Noted(w, g) == w.all \o MarkedAs(KeptOf(g), TRUE)
WithPage(w, g) ==
  IF g = << >> \/ TooOld(g) # {} \/ w.page + 1 = MaxPages THEN Btc!AddressDone(Noted(w, g))
  ELSE [w EXCEPT !.last = g[Len(g)], !.page = w.page + 1, !.all = Noted(w, g)]

\* What a page of the chain adds, and why nothing of the rest is missed.
LEMMA ChainReads == ASSUME BtcSizes, ScanInv, Btc!ChainPage PROVE ScanInv'
<1> DEFINE w == scan  t == Head(w.addrs)  S == Unread(w, mined)  l == Btc!Reverse(Btc!InOrder(S))
           g == PageAt(l, 0, PageCount)
           old == TooOld(g)  keep == KeptOf(g)  all == Noted(w, g)
           last == g = << >> \/ old # {} \/ w.page + 1 = MaxPages
           x == g[Len(g)]
           a == [w EXCEPT !.last = x]  b == [a EXCEPT !.page = w.page + 1]  n == [b EXCEPT !.all = all]
<1>1. mined' = mined /\ mempool' = mempool /\ w.pc = "chain"
  BY DEF Btc!ChainPage
<1>2. w \in AnyScan /\ (\A i \in DOMAIN w.batch : RowScanned(w.batch[i], mined)) /\ ReadBack(w, mined)
  BY <1>1 DEF ScanInv, ScanOk
<1>3. mined \in Nat /\ mined <= MaxTxns /\ MaxTxns \in Nat
  <2>1. PICK k \in Nat : mined \in Nat /\ mined + k <= MaxTxns
    BY DEF ScanInv, PoolInv
  <2> QED  BY <2>1 DEF BtcSizes
<1>4. /\ w.page \in Nat /\ w.last \in Nat /\ w.all \in Seq(Sighted) /\ w.had \in SUBSET Txns
      /\ PageCount \in Nat /\ PageCount # 0 /\ MaxPages \in Nat /\ MaxPages # 0 /\ MaxPages * PageCount >= MaxTxns
  BY <1>2 DEF AnyScan, BtcSizes
<1>5. /\ w.addrs # << >> /\ w.page < MaxPages /\ w.last <= mined /\ (w.last = 0 => w.page = 0)
      /\ PagesLeft(w, S)
      /\ \A m \in w.had : m \in TxsOf(w.all) \/ m \in S
  BY <1>2 DEF ReadBack
<1>6. S \in SUBSET (1 .. mined) /\ S \in SUBSET Txns /\ S = {m \in 1 .. mined : t \in Btc!Moves(m) /\ (w.last # 0 => m < w.last)}
  BY <1>3 DEF Unread, Txns
<1> HIDE DEF S
<1>7. Backward(l, S) /\ Cardinality(S) <= mined /\ Cardinality(S) \in Nat
  BY <1>3, <1>6, FromTheEnd DEF Backward
<1>8. scan' = ScanFails(w) \/ scan' = IF last THEN Btc!AddressDone(all) ELSE n
  <2> DEFINE f == [w EXCEPT !.pc = "mempool", !.addrs = Tail(w.addrs), !.errs = w.errs + 1]
             m == [w EXCEPT !.last = x, !.page = w.page + 1, !.all = all]
  <2>1. f = ScanFails(w)
    <3> HIDE DEF w
    <3> QED  BY <1>2 DEF AnyScan, ScanFails
  <2>2. m = n
    <3> HIDE DEF all, x, w
    <3> QED  BY <1>2 DEF AnyScan
  <2>3. l = Btc!Reverse(Btc!InOrder({y \in 1 .. mined : t \in Btc!Moves(y) /\ (w.last # 0 => y < w.last)}))
    BY <1>6
  <2>4. g = SubSeq(l, 1, IF Len(l) < PageCount THEN Len(l) ELSE PageCount)
    BY <1>4 DEF PageAt
  <2> DEFINE k == Btc!Reverse(Btc!InOrder({y \in 1 .. mined : t \in Btc!Moves(y) /\ (w.last # 0 => y < w.last)}))
             h == SubSeq(k, 1, IF Len(k) < PageCount THEN Len(k) ELSE PageCount)
  <2>5. scan' = f \/ scan' = WithPage(w, h)
    BY DEF Btc!ChainPage, Btc!AddressFails, WithPage, Noted, KeptOf, TooOld, MarkedAs
  <2>6. h = g
    <3> HIDE DEF k, l
    <3> QED  BY <2>3, <2>4 DEF k
  <2>7. WithPage(w, g) = IF last THEN Btc!AddressDone(all) ELSE m
    BY DEF WithPage
  <2> HIDE DEF f, m, n, last, all, g, h
  <2> QED  BY <2>1, <2>2, <2>5, <2>6, <2>7
<1> HIDE DEF l
<1>9. /\ g \in Seq(S) /\ Len(g) \in Nat /\ DOMAIN g = 1 .. Len(g)
      /\ \A i \in DOMAIN g : g[i] = l[i] /\ i \in DOMAIN l
      /\ Len(g) = (IF Cardinality(S) < PageCount THEN Cardinality(S) ELSE PageCount)
  <2>1. g = PageAt(l, 0, PageCount)
    OBVIOUS
  <2> HIDE DEF g
  <2>2. BeginOf(g, l, S, PageCount)
    BY <1>3, <1>4, <1>6, <1>7, <2>1, PageBack
  <2> QED  BY <2>2 DEF BeginOf
<1> HIDE DEF g
<1>10. ASSUME NEW m \in S, NEW z \in Nat, Depth(S, m) <= z, z <= Len(g) PROVE \E i \in DOMAIN g : i <= z /\ g[i] = m
  <2> DEFINE d == Depth(S, m)
  <2>1. d \in DOMAIN l /\ l[d] = m /\ d \in 1 .. Len(l)
    BY <1>7 DEF Backward
  <2> HIDE DEF d
  <2>2. d \in DOMAIN g
    BY <1>9, <1>10, <2>1 DEF d
  <2> QED  BY <1>9, <1>10, <2>1, <2>2 DEF d
<1>11. g \in Seq(Txns)
  <2>1. \A i \in 1 .. Len(g) : g[i] \in Txns
    BY <1>6, <1>9
  <2>2. g = [i \in 1 .. Len(g) |-> g[i]]
    BY <1>9
  <2> QED  BY <1>9, <2>1, <2>2
<1>12. CASE scan' = ScanFails(w)
  BY <1>1, <1>5, <1>12, ScanFailsKeeps
<1>13. CASE scan' = Btc!AddressDone(all) /\ old # {}
  <2> DEFINE z == Btc!Min(old)
  <2>1. old \in SUBSET Nat /\ old \in SUBSET DOMAIN g /\ old # {}
    BY <1>9, <1>13 DEF TooOld
  <2> HIDE DEF old
  <2>2. z \in old
    <3>1. Least(old, z)
      BY <2>1, LeastIs
    <3> HIDE DEF z
    <3> QED  BY <3>1 DEF Least
  <2>3. z \in 1 .. Len(g) /\ BlockTime[g[z]] < Since
    BY <1>9, <2>2 DEF TooOld, old
  <2>4. keep = SubSeq(g, 1, z - 1)
    BY <2>1 DEF KeptOf, old
  <2> HIDE DEF z, old, keep
  <2>5. keep \in Seq(Txns) /\ \A i \in DOMAIN g : i < z => g[i] \in Has(keep)
    <3>1. z - 1 \in Nat /\ z - 1 <= Len(g)
      BY <1>9, <2>3
    <3> DEFINE y == z - 1
    <3> HIDE DEF y
    <3>2. /\ SubSeq(g, 1, y) \in Seq(Txns) /\ DOMAIN SubSeq(g, 1, y) = 1 .. y
          /\ \A i \in 1 .. y : SubSeq(g, 1, y)[i] = g[i]
      BY <1>9, <1>11, <3>1 DEF y
    <3>3. \A i \in DOMAIN g : i < z => i \in 1 .. y
      BY <1>9, <2>3 DEF y
    <3> QED  BY <2>4, <3>2, <3>3 DEF Has, y
  <2>6. all \in Seq(Sighted) /\ TxsOf(all) = TxsOf(w.all) \cup Has(keep)
    <3>1. all = w.all \o MarkedAs(keep, TRUE)
      BY DEF Noted, keep
    <3> QED  BY <1>4, <2>5, <3>1, MarkedIs, TxsOfBoth
  <2>7. ASSUME NEW m \in w.had PROVE m \in TxsOf(all) \/ Excused(t, m, mined)
    <3>1. CASE m \in TxsOf(w.all)
      BY <2>6, <3>1
    <3>2. CASE m \in S
      <4> DEFINE y == g[z]
      <4>1. y \in S /\ Depth(S, y) = z /\ z \in Nat
        BY <1>7, <1>9, <2>3 DEF Backward
      <4>2. BlockTime[y] < Since
        BY <2>3
      <4> HIDE DEF y
      <4>3. CASE m <= y
        <5>1. y \in m .. mined /\ t \in Btc!Moves(y)
          BY <1>6, <3>2, <4>1, <4>3
        <5> QED  BY <4>2, <5>1 DEF Excused
      <4>4. CASE ~(m <= y)
        <5>1. y < m
          BY <1>6, <3>2, <4>1, <4>4
        <5>2. Depth(S, m) < z
          BY <1>7, <3>2, <4>1, <5>1 DEF Backward
        <5>3. Depth(S, m) \in Nat
          BY <1>7, <3>2 DEF Backward
        <5>4. Depth(S, m) <= z - 1 /\ z - 1 \in Nat /\ z - 1 <= Len(g)
          BY <1>9, <2>3, <5>2, <5>3
        <5>5. PICK i \in DOMAIN g : i <= z - 1 /\ g[i] = m
          BY <1>10, <3>2, <5>4
        <5>6. i < z
          BY <1>9, <2>3, <5>5
        <5> QED  BY <2>5, <2>6, <5>5, <5>6
      <4> QED  BY <4>3, <4>4
    <3> QED  BY <1>5, <3>1, <3>2
  <2> QED  BY <1>1, <1>5, <1>13, <2>6, <2>7, ScanJoins
<1>14. ASSUME old = {}
       PROVE  all \in Seq(Sighted) /\ TxsOf(all) = TxsOf(w.all) \cup Has(g)
  <2>1. all = w.all \o MarkedAs(g, TRUE)
    BY <1>14 DEF Noted, KeptOf
  <2> QED  BY <1>4, <1>11, <2>1, MarkedIs, TxsOfBoth
<1>15. CASE scan' = Btc!AddressDone(all) /\ old = {} /\ last
  <2>1. ASSUME NEW m \in S PROVE m \in Has(g)
    <3>1. Depth(S, m) \in 1 .. Cardinality(S) /\ m \in S
      BY <1>7 DEF Backward
    <3>2. Cardinality(S) <= Len(g)
      <4>1. CASE g = << >>
        BY <1>4, <1>7, <1>9, <4>1
      <4>2. CASE w.page + 1 = MaxPages
        <5> DEFINE c == Cardinality(S)  q == w.page * PageCount
        <5>1. MaxPages * PageCount = q + PageCount /\ q \in Nat
          BY <1>4, <4>2
        <5>2. c + q <= MaxTxns
          <6>1. CASE w.last = 0
            <7>1. q = 0
              BY <1>4, <1>5, <6>1
            <7> HIDE DEF q
            <7> QED  BY <1>3, <1>7, <7>1
          <6>2. CASE w.last # 0
            BY <1>5, <3>1, <6>2 DEF PagesLeft
          <6> QED  BY <6>1, <6>2
        <5> HIDE DEF c, q
        <5>3. c <= PageCount /\ c \in Nat
          BY <1>3, <1>4, <1>7, <5>1, <5>2 DEF c
        <5> QED  BY <1>4, <1>9, <5>3 DEF c
      <4> QED  BY <1>15, <4>1, <4>2
    <3>3. Depth(S, m) <= Len(g)
      BY <1>7, <1>9, <3>1, <3>2
    <3> QED  BY <1>9, <1>10, <3>3 DEF Has
  <2>2. \A m \in w.had : m \in TxsOf(all)
    BY <1>5, <1>14, <1>15, <2>1
  <2> HIDE DEF all
  <2> QED  BY <1>1, <1>5, <1>14, <1>15, <2>2, ScanJoins
<1>16. CASE scan' = n /\ ~last
  <2> DEFINE z == Len(g)  R == {m \in S : m < x}
  <2>1. z \in DOMAIN g /\ z \in DOMAIN l /\ x = l[z] /\ old = {} /\ w.page + 1 # MaxPages
    <3>1. z # 0
      BY <1>9, <1>16
    <3> QED  BY <1>9, <1>16, <3>1
  <2>2. x \in S /\ x \in 1 .. mined
    <3>1. g[z] \in S
      BY <1>9, <2>1
    <3> QED  BY <1>6, <3>1
  <2>3. /\ \A m \in S : Depth(S, m) <= z \/ m \in R
        /\ Cardinality(R) = Cardinality(S) - z /\ z \in Nat
        /\ R # {} => z < Cardinality(S)
    <3>1. R = {m \in S : m < l[z]}
      BY <2>1
    <3> HIDE DEF R, z
    <3>2. LeftOf(R, S, z)
      BY <1>3, <1>6, <1>7, <2>1, <3>1, LeftBelow
    <3> QED  BY <3>2 DEF LeftOf
  <2>4. all \in Seq(Sighted) /\ TxsOf(all) = TxsOf(w.all) \cup Has(g)
    BY <1>14, <2>1
  <2> HIDE DEF w, x, all
  <2>5. /\ a \in AnyScan /\ a.pc = "chain" /\ a.addrs = w.addrs /\ a.last = x /\ a.batch = w.batch /\ a.had = w.had
    <3>1. x \in Nat
      BY <2>2
    <3> QED  BY <1>1, <1>2, <3>1 DEF AnyScan, w
  <2> HIDE DEF a
  <2>6. /\ b \in AnyScan /\ b.pc = "chain" /\ b.addrs = w.addrs /\ b.last = x /\ b.page = w.page + 1 /\ b.batch = w.batch
        /\ b.had = w.had
    <3>1. w.page + 1 \in Nat
      BY <1>4
    <3> QED  BY <2>5, <3>1 DEF AnyScan
  <2> HIDE DEF b
  <2>7. /\ n \in AnyScan /\ n.pc = "chain" /\ n.addrs = w.addrs /\ n.last = x /\ n.page = w.page + 1 /\ n.batch = w.batch
        /\ n.had = w.had /\ n.all = all
    BY <2>4, <2>6 DEF AnyScan
  <2> HIDE DEF n
  <2>8. Unread(n, mined) = R
    <3>1. x # 0 /\ x \in Nat
      BY <2>2
    <3>2. \A m \in 1 .. mined : m < x => (w.last # 0 => m < w.last)
      <4>1. w.last # 0 => x < w.last
        BY <1>6, <2>2
      <4> QED  BY <1>3, <1>4, <2>2, <4>1
    <3>3. \A m : m \in Unread(n, mined) <=> m \in 1 .. mined /\ t \in Btc!Moves(m) /\ m < x
      BY <2>7, <3>1 DEF Unread
    <3>4. \A m : m \in S <=> m \in 1 .. mined /\ t \in Btc!Moves(m) /\ (w.last # 0 => m < w.last)
      BY <1>6
    <3> QED  BY <3>2, <3>3, <3>4
  <2> HIDE DEF R
  <2>9. \A m \in w.had : m \in TxsOf(all) \/ m \in R
    <3> SUFFICES ASSUME NEW m \in S PROVE m \in Has(g) \/ m \in R
      BY <1>5, <2>4
    <3>1. CASE m \in R
      BY <3>1
    <3>2. CASE Depth(S, m) <= z
      BY <1>9, <1>10, <3>2 DEF Has
    <3> QED  BY <2>3, <3>1, <3>2
  <2>10. R # {} => Cardinality(R) + (w.page + 1) * PageCount <= MaxTxns
    <3> SUFFICES ASSUME R # {} PROVE Cardinality(R) + (w.page + 1) * PageCount <= MaxTxns
      OBVIOUS
    <3> DEFINE c == Cardinality(S)  q == w.page * PageCount
    <3>1. (w.page + 1) * PageCount = q + PageCount /\ q \in Nat
      BY <1>4
    <3>2. c + q <= MaxTxns
      <4>1. CASE w.last = 0
        <5>1. q = 0
          BY <1>4, <1>5, <4>1
        <5> HIDE DEF q
        <5> QED  BY <1>3, <1>7, <5>1
      <4>2. CASE w.last # 0
        BY <1>5, <2>2, <4>2 DEF PagesLeft
      <4> QED  BY <4>1, <4>2
    <3>3. z = PageCount
      BY <1>4, <1>7, <1>9, <2>3
    <3>4. Cardinality(R) = c - PageCount /\ c \in Nat
      BY <1>7, <2>3, <3>3
    <3> HIDE DEF c, q
    <3> QED  BY <1>3, <1>4, <3>1, <3>2, <3>4
  <2>11. w.page + 1 < MaxPages /\ x <= mined /\ x # 0
    BY <1>3, <1>4, <1>5, <2>1, <2>2
  <2>12. ReadBack(n, mined)
    BY <1>5, <2>7, <2>8, <2>9, <2>10, <2>11 DEF ReadBack, PagesLeft
  <2>13. ScanOk(n, mined)
    BY <1>2, <2>7, <2>12 DEF ScanOk
  <2> QED  BY <1>1, <1>16, <2>13, OnlyScan
<1> HIDE DEF all, n, last, old
<1> QED  BY <1>8, <1>12, <1>13, <1>15, <1>16 DEF last

LEMMA ScanLeaves == ASSUME ScanInv, Btc!FetchEnds \/ Btc!Taken PROVE ScanInv'
<1>1. ScanOk(scan, mined) /\ scan \in AnyScan /\ mined' = mined /\ mempool' = mempool
  BY DEF ScanInv, ScanOk, Btc!FetchEnds, Btc!Taken
<1>2. CASE Btc!Taken
  <2>1. scan' = Btc!IdleScan
    BY <1>2 DEF Btc!Taken
  <2>2. ScanOk(scan', mined)
    BY <2>1, IdleScanIs DEF ScanOk
  <2> QED  BY <1>1, <2>2, OnlyScan
<1>3. CASE Btc!FetchEnds
  <2> DEFINE w == scan  pc == IF w.batch = << >> /\ w.errs > 0 THEN "failed" ELSE "done"  n == [w EXCEPT !.pc = pc]
  <2>1. scan' = n
    BY <1>3 DEF Btc!FetchEnds
  <2>2. pc \in {"failed", "done"}
    OBVIOUS
  <2> HIDE DEF w, pc
  <2>3. n \in AnyScan /\ n.pc = pc /\ n.batch = w.batch
    BY <1>1, <2>2 DEF AnyScan, w
  <2> HIDE DEF n
  <2>4. ScanOk(n, mined)
    BY <1>1, <2>2, <2>3 DEF ScanOk, w
  <2> QED  BY <1>1, <2>1, <2>4, OnlyScan
<1> QED  BY <1>2, <1>3

LEMMA BroadcastKeeps == ASSUME BtcSizes, ScanInv, Btc!Broadcast PROVE ScanInv'
<1>1. PICK c \in Nat : mined \in Nat /\ mined + c <= MaxTxns /\ mempool = (mined + 1) .. (mined + c)
  BY DEF ScanInv, PoolInv
<1>2. Cardinality(mempool) = c
  <2>1. Cardinality(mempool) = IF mined + 1 > mined + c THEN 0 ELSE (mined + c) - (mined + 1) + 1
    BY <1>1, FS_Interval
  <2> QED  BY <1>1, <2>1
<1>3. mined' = mined /\ scan' = scan /\ mined + c < MaxTxns /\ mempool' = mempool \cup {mined + c + 1}
  BY <1>2 DEF Btc!Broadcast, Cardinality, Btc!Cardinality
<1>4. c + 1 \in Nat /\ mined + (c + 1) <= MaxTxns
  BY <1>1, <1>3 DEF BtcSizes
<1>5. mempool' = (mined + 1) .. (mined + (c + 1))
  BY <1>1, <1>3
<1> QED  BY <1>1, <1>3, <1>4, <1>5 DEF ScanInv, PoolInv

\* A block more leaves what a scan has to read below where it is, and excuses no less.
LEMMA MineKeeps == ASSUME BtcSizes, ScanInv, Btc!Mine PROVE ScanInv'
<1> DEFINE w == scan  h == mined + 1  S == Unread(w, mined)  Z == Unread(w, h)
<1>1. PICK c \in Nat : mined \in Nat /\ mined + c <= MaxTxns /\ mempool = (mined + 1) .. (mined + c)
  BY DEF ScanInv, PoolInv
<1>2. mempool # {} /\ mined' = h /\ mempool' = mempool \ {h} /\ scan' = w
  BY DEF Btc!Mine
<1>3. c # 0
  <2> SUFFICES ASSUME c = 0 PROVE FALSE
    OBVIOUS
  <2> QED  BY <1>1, <1>2
<1>4. c - 1 \in Nat /\ h \in Nat /\ h + (c - 1) <= MaxTxns
  BY <1>1, <1>3
<1>5. mempool' = (h + 1) .. (h + (c - 1))
  BY <1>1, <1>2
<1>6. PoolInv'
  BY <1>2, <1>4, <1>5 DEF PoolInv
<1>7. w \in AnyScan /\ (\A i \in DOMAIN w.batch : RowScanned(w.batch[i], mined)) /\ (w.pc = "chain" => ReadBack(w, mined))
  BY DEF ScanInv, ScanOk
<1>8. ASSUME NEW r \in ScanRow, RowScanned(r, mined) PROVE RowScanned(r, h)
  <2>1. ASSUME NEW n \in r.had, Excused(r.addr, n, mined) PROVE Excused(r.addr, n, h)
    <3>1. PICK m \in n .. mined : r.addr \in Btc!Moves(m) /\ BlockTime[m] < Since
      BY <2>1 DEF Excused
    <3>2. m \in n .. h
      <4>1. n \in Int
        BY <2>1 DEF ScanRow, Txns
      <4> QED  BY <1>1, <3>1, <4>1
    <3> QED  BY <3>1, <3>2 DEF Excused
  <2> HIDE DEF h
  <2> QED  BY <1>8, <2>1 DEF RowScanned
<1>9. ASSUME NEW i \in DOMAIN w.batch PROVE RowScanned(w.batch[i], h)
  <2>1. w.batch \in Seq(ScanRow)
    BY <1>7 DEF AnyScan
  <2> HIDE DEF w, h
  <2>2. w.batch[i] \in ScanRow
    BY <2>1
  <2> QED  BY <1>7, <1>8, <2>2
<1>10. ASSUME w.pc = "chain" PROVE ReadBack(w, h)
  <2>1. /\ w.addrs # << >> /\ w.page < MaxPages /\ w.last <= mined /\ (w.last = 0 => w.page = 0)
        /\ \A n \in w.had : n \in TxsOf(w.all) \/ n \in S
        /\ PagesLeft(w, S)
    BY <1>7, <1>10 DEF ReadBack
  <2>2. w.last \in Nat
    BY <1>7 DEF AnyScan
  <2>3. \A n : n \in S => n \in Z
    BY <1>1 DEF Unread
  <2>4. w.last # 0 => Z = S
    <3> SUFFICES ASSUME w.last # 0 PROVE \A n : n \in Z => n \in S
      BY <2>3
    <3>1. \A n \in 1 .. h : n < w.last => n \in 1 .. mined
      BY <1>1, <2>1, <2>2
    <3> QED  BY <3>1 DEF Unread
  <2>5. w.last <= h
    BY <1>1, <2>1, <2>2
  <2> HIDE DEF S, Z, w, h
  <2>6. PagesLeft(w, Z)
    BY <2>1, <2>4 DEF PagesLeft
  <2> QED  BY <2>1, <2>3, <2>5, <2>6 DEF ReadBack, Z
<1> HIDE DEF w, h
<1>11. ScanOk(w, h)
  BY <1>7, <1>9, <1>10 DEF ScanOk
<1> QED  BY <1>2, <1>6, <1>11 DEF ScanInv

LEMMA ScanGoesOn == ASSUME BtcSizes, BankedInv, ScanInv, [Btc!Next]_Btc!vars PROVE (BankedInv /\ ScanInv)'
<1>1. BankedInv'
  <2>1. Btc!BookNext \/ UNCHANGED Btc!editVars
    BY DEF Btc!Next, Btc!vars, Btc!Broadcast, Btc!Mine, Btc!FetchBegins, Btc!MempoolPage, Btc!ChainPage, Btc!FetchEnds, Btc!Taken
  <2>2. Eth!BookNext \/ UNCHANGED Eth!editVars
    BY <2>1, SameAddresses
  <2> QED  BY <2>2, BookGoesOn DEF BtcSizes
<1>2. ScanInv'
  <2>1. CASE UNCHANGED <<mined, mempool, scan>>
    <3>1. mined' = mined /\ mempool' = mempool /\ scan' = scan
      BY <2>1
    <3> QED  BY <3>1, OnlyScan DEF ScanInv
  <2>2. CASE Btc!Broadcast
    BY <2>2, BroadcastKeeps
  <2>3. CASE Btc!Mine
    BY <2>3, MineKeeps
  <2>4. CASE Btc!FetchBegins
    BY <2>4, ScanStarts
  <2>5. CASE Btc!MempoolPage
    BY <2>5, MempoolReads
  <2>6. CASE Btc!ChainPage
    BY <2>6, ChainReads
  <2>7. CASE Btc!FetchEnds \/ Btc!Taken
    BY <2>7, ScanLeaves
  <2> QED  BY <2>1, <2>2, <2>3, <2>4, <2>5, <2>6, <2>7 DEF Btc!Next, Btc!vars
<1> QED  BY <1>1, <1>2

LEMMA ScanMeansIt == ASSUME BtcSizes, ScanInv PROVE Btc!AddressScanned
<1>1. scan \in AnyScan /\ \A i \in DOMAIN scan.batch : RowScanned(scan.batch[i], mined)
  BY DEF ScanInv, ScanOk
<1>2. SUFFICES ASSUME NEW i \in DOMAIN scan.batch, NEW r, r = scan.batch[i], NEW txs, txs = {r.rows[j].tx : j \in DOMAIN r.rows}
               PROVE  /\ Cardinality(txs) = Len(r.rows)
                      /\ \A n \in r.had : n \in txs \/ \E m \in n .. mined : r.addr \in Btc!Moves(m) /\ BlockTime[m] < Since
  <2> DEFINE row(i) == scan.batch[i]  found(i) == {row(i).rows[j].tx : j \in DOMAIN row(i).rows}
  <2>1. ASSUME \A i \in DOMAIN scan.batch :
                 /\ Cardinality(found(i)) = Len(row(i).rows)
                 /\ \A n \in row(i).had : n \in found(i) \/ \E m \in n .. mined : row(i).addr \in Btc!Moves(m) /\ BlockTime[m] < Since
        PROVE  Btc!AddressScanned
    BY <2>1 DEF Btc!AddressScanned, Cardinality, Btc!Cardinality
  <2> HIDE DEF row, found
  <2> QED  BY <2>1 DEF row, found
<1>3. r \in ScanRow /\ RowScanned(r, mined)
  <2>1. scan.batch \in Seq(ScanRow)
    BY <1>1 DEF AnyScan
  <2> QED  BY <1>1, <1>2, <2>1
<1>4. r.rows \in Seq(Movements)
  BY <1>3 DEF ScanRow
<1> DEFINE q == TxNums(r.rows)  T == {m.tx : m \in Movements}
<1>5. txs = Has(q)
  BY <1>2 DEF Has, TxNums
<1>6. q \in Seq(T) /\ Len(q) = Len(r.rows)
  <2> DEFINE k == Len(r.rows)
  <2>1. k \in Nat /\ DOMAIN r.rows = 1 .. k /\ \A j \in 1 .. k : r.rows[j] \in Movements
    BY <1>4
  <2> HIDE DEF k
  <2>2. q = [j \in 1 .. k |-> r.rows[j].tx] /\ \A j \in 1 .. k : r.rows[j].tx \in T
    BY <2>1 DEF TxNums
  <2> HIDE DEF q, T
  <2> QED  BY <2>1, <2>2 DEF k
<1> HIDE DEF q, T
<1>7. Once(q)
  BY <1>3 DEF RowScanned, q
<1>8. Cardinality(Has(q)) = Len(q)
  BY <1>6, <1>7, OnceCounts
<1>9. \A n \in r.had : n \in Has(q) \/ \E m \in n .. mined : r.addr \in Btc!Moves(m) /\ BlockTime[m] < Since
  BY <1>3 DEF RowScanned, Excused, q
<1> QED  BY <1>5, <1>6, <1>8, <1>9

\* A scanned address has each transaction once, and every one the node knew of when the scan began
\* unless a block before the window stands above it, and the addresses are those asked for.
THEOREM ScansKept == ASSUME BtcSizes PROVE Btc!Spec => [](Btc!TokensAsAsked /\ Btc!AddressScanned)
<1>1. Btc!Init => BankedInv /\ ScanInv
  BY SameAddresses, BookBegins, ScanBegun DEF Btc!Init
<1>2. BankedInv /\ ScanInv /\ [Btc!Next]_Btc!vars => (BankedInv /\ ScanInv)'
  BY ScanGoesOn
<1>3. BankedInv /\ ScanInv => Btc!TokensAsAsked /\ Btc!AddressScanned
  BY BookMeansIt, SameAddresses, ScanMeansIt DEF BtcSizes
<1> QED  BY <1>1, <1>2, <1>3, PTL DEF Btc!Spec

=============================================================================
