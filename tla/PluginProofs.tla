----------------------------- MODULE PluginProofs -----------------------------
(*************************************************************************)
(* A plugin is stopped once, its callers are answered, its VM is not     *)
(* used after it was closed, and one request at a time leaves one        *)
(* instance: for any number of requests, clients and instances and any   *)
(* size of a queue. Then what is inside and around it, each as an        *)
(* instance of its module: its network, its VM and its files.            *)
(*************************************************************************)
EXTENDS PluginLifecycle, FiniteSetTheorems, TLAPS

\* The queue has a size, and a job nobody waits for is told from a client's.
Sizes == QueueSize \in Nat /\ MaxInstances \in Nat /\ Event \notin Clients

Ops == {"load", "stop", "install", "update", "uninstall"}
Pcs == {"idle", "enable", "disable", "load", "take", "close", "wait", "insert", "start", "swap", "remove"}
AnyInst == [queue : Seq(Clients \cup {Event}), closed : BOOLEAN,
            worker : {"unstarted", "ready", "busy", "ended"}, job : Clients \cup {Event}, vm : {"open", "closed"}]
AnyCaller == [op : Ops, pc : Pcs, new : Instances \cup {None}, old : Instances \cup {None}]
AnyClient == [pc : {"idle", "send", "await", "done", "unloaded"}, of : Instances \cup {None}]

\* The steps an operation goes through.
OnScript(r) ==
  /\ r.pc \in {"enable", "load", "insert", "start"} => r.op = "load"
  /\ r.pc = "disable" => r.op = "stop"
  /\ r.pc = "swap" => r.op \in {"install", "update"}
  /\ r.pc = "remove" => r.op = "uninstall"
  /\ r.pc \in {"take", "close", "wait"} => r.op # "install"

Typed ==
  /\ row \in {"absent", "disabled", "enabled"}
  /\ made \in Nat /\ made <= MaxInstances
  /\ loaded \in Instances \cup {None} /\ target \in Instances \cup {None} /\ ending \in Instances \cup {None}
  /\ inst \in [Instances -> AnyInst] /\ \A i \in Instances : Len(inst[i].queue) <= QueueSize
  /\ caller \in [Callers -> AnyCaller] /\ \A c \in Callers : OnScript(caller[c])
  /\ events \in Nat
  /\ client \in [Clients -> AnyClient]
  /\ replied \subseteq Clients /\ ctxDone \in BOOLEAN
  /\ run \in {"reconcile", "loop", "close", "wait", "stopped"}
  /\ panic \in {"none", "send", "close"} /\ raced \subseteq {"requests", "shutdown"}

-----------------------------------------------------------------------------
(* What the steps make of a caller, an instance and a client. *)

\* The step makes this of the caller c and leaves the others as they are.
Moves(c, op, pc, new, old) ==
  /\ caller' = [caller EXCEPT ![c] = [op |-> op, pc |-> pc, new |-> new, old |-> old]]
  /\ caller'[c] = [op |-> op, pc |-> pc, new |-> new, old |-> old]
  /\ \A d \in Callers \ {c} : caller'[d] = caller[d]
Idles(c) == Moves(c, "stop", "idle", None, None)
Steps(c, pc) == Moves(c, caller[c].op, pc, caller[c].new, caller[c].old)

\* A step that sets one caller leaves the others.
LEMMA CallerMoves ==
    ASSUME Typed, NEW c \in Callers, NEW op, NEW pc, NEW new, NEW old,
           caller' = [caller EXCEPT ![c] = [op |-> op, pc |-> pc, new |-> new, old |-> old]]
    PROVE  Moves(c, op, pc, new, old)
BY DEF Moves, Typed

LEMMA Begun ==
    ASSUME NEW op, NEW pc
    PROVE  [IdleCaller EXCEPT !.op = op, !.pc = pc] = [op |-> op, pc |-> pc, new |-> None, old |-> None]
<1> DEFINE r == [IdleCaller EXCEPT !.op = op]
<1>1. IdleCaller \in [op : {"stop"}, pc : {"idle"}, new : {None}, old : {None}]
  BY DEF IdleCaller
<1>2. r = [op |-> op, pc |-> "idle", new |-> None, old |-> None]
  BY <1>1
<1>3. r \in [op : {op}, pc : {"idle"}, new : {None}, old : {None}]
  BY <1>2
<1> HIDE DEF r
<1>4. [r EXCEPT !.pc = pc] = [op |-> op, pc |-> pc, new |-> None, old |-> None]
  BY <1>3
<1>5. QED
  BY <1>4 DEF r

LEMMA GoEffect ==
    ASSUME Typed, NEW c \in Callers, NEW pc, Go(c, pc)
    PROVE  IF pc = "idle" THEN Idles(c) ELSE Steps(c, pc)
<1>1. c \in DOMAIN caller /\ caller[c] \in AnyCaller
  BY DEF Typed
<1>2. CASE pc = "idle"
  <2>1. caller' = [caller EXCEPT ![c] = [op |-> "stop", pc |-> "idle", new |-> None, old |-> None]]
    BY <1>1, <1>2 DEF Go, IdleCaller
  <2>2. QED
    BY <1>2, <2>1, CallerMoves DEF Idles
<1>3. CASE pc # "idle"
  <2>1. [caller[c] EXCEPT !.pc = pc] = [op |-> caller[c].op, pc |-> pc, new |-> caller[c].new, old |-> caller[c].old]
    BY <1>1 DEF AnyCaller
  <2>2. caller' = [caller EXCEPT ![c] = [op |-> caller[c].op, pc |-> pc, new |-> caller[c].new, old |-> caller[c].old]]
    BY <1>1, <1>3, <2>1 DEF Go
  <2>3. QED
    BY <1>3, <2>2, CallerMoves DEF Steps
<1>4. QED
  BY <1>2, <1>3

\* Where a caller goes once nothing is loaded.
Unloads(c) ==
  \/ caller[c].op = "load" /\ Steps(c, "insert")
  \/ caller[c].op = "stop" /\ Idles(c)
  \/ caller[c].op = "update" /\ Steps(c, "swap")
  \/ caller[c].op = "uninstall" /\ Steps(c, "remove")

LEMMA UnloadEffect ==
    ASSUME Typed, NEW c \in Callers, caller[c].pc \in {"take", "close", "wait"}, Go(c, AfterUnload(caller[c].op))
    PROVE  Unloads(c)
<1>1. caller[c].op \in {"load", "stop", "update", "uninstall"}
  BY DEF Typed, OnScript, AnyCaller, Ops
<1>2. CASE caller[c].op = "load"
  <2>1. Go(c, "insert")
    BY <1>2 DEF AfterUnload
  <2>2. QED
    BY <1>2, <2>1, GoEffect DEF Unloads
<1>3. CASE caller[c].op = "stop"
  <2>1. Go(c, "idle")
    BY <1>3 DEF AfterUnload
  <2>2. QED
    BY <1>3, <2>1, GoEffect DEF Unloads
<1>4. CASE caller[c].op = "update"
  <2>1. Go(c, "swap")
    BY <1>4 DEF AfterUnload
  <2>2. QED
    BY <1>4, <2>1, GoEffect DEF Unloads
<1>5. CASE caller[c].op = "uninstall"
  <2>1. Go(c, "remove")
    BY <1>5 DEF AfterUnload
  <2>2. QED
    BY <1>5, <2>1, GoEffect DEF Unloads
<1>6. QED
  BY <1>1, <1>2, <1>3, <1>4, <1>5

LEMMA CallerEffect ==
    ASSUME Typed, NEW c \in Callers
    PROVE  /\ \A op, pc : Begin(c, op, pc) => Moves(c, op, pc, None, None)
           /\ WriteEnabled(c) => \/ caller[c].pc = "enable" /\ Steps(c, "load")
                                 \/ caller[c].pc = "disable" /\ Steps(c, "take")
           /\ Load(c) => Moves(c, caller[c].op, "take", made + 1, caller[c].old)
           /\ LoadFails(c) => Idles(c)
           /\ Take(c) => \/ loaded = None /\ Unloads(c)
                         \/ loaded # None /\ Moves(c, caller[c].op, "close", caller[c].new, loaded)
           /\ CloseQueue(c) => Steps(c, "wait")
           /\ Wait(c) => Unloads(c)
           /\ Insert(c) => Steps(c, "start")
           /\ StartWorker(c) => Idles(c)
           /\ Swap(c) => \/ Idles(c)
                         \/ caller[c].op = "update" /\ Moves(c, "load", "load", None, None)
           /\ Remove(c) => Idles(c)
<1>1. c \in DOMAIN caller /\ caller[c] \in AnyCaller /\ OnScript(caller[c])
  BY DEF Typed
<1>2. ASSUME NEW op, NEW pc, Begin(c, op, pc)
      PROVE  Moves(c, op, pc, None, None)
  <2>1. [IdleCaller EXCEPT !.op = op, !.pc = pc] = [op |-> op, pc |-> pc, new |-> None, old |-> None]
    BY Begun
  <2>2. caller' = [caller EXCEPT ![c] = [op |-> op, pc |-> pc, new |-> None, old |-> None]]
    BY <1>2, <2>1, Zenon DEF Begin
  <2>3. QED
    BY <2>2, CallerMoves
<1>3. ASSUME WriteEnabled(c)
      PROVE  \/ caller[c].pc = "enable" /\ Steps(c, "load")
             \/ caller[c].pc = "disable" /\ Steps(c, "take")
  <2>1. \/ caller[c].pc = "enable" /\ Go(c, "load")
        \/ caller[c].pc = "disable" /\ Go(c, "take")
    BY <1>3 DEF WriteEnabled
  <2>2. QED
    BY <2>1, GoEffect
<1>4. ASSUME Load(c)
      PROVE  Moves(c, caller[c].op, "take", made + 1, caller[c].old)
  <2> DEFINE r == [op |-> caller[c].op, pc |-> "take", new |-> made + 1, old |-> caller[c].old]
  <2>1. caller' = [caller EXCEPT ![c].pc = "take", ![c].new = made + 1]
    BY <1>4 DEF Load
  <2>2. caller'[c] = r /\ \A d \in Callers \ {c} : caller'[d] = caller[d]
    BY <1>1, <2>1 DEF AnyCaller, Typed
  <2>3. caller' = [caller EXCEPT ![c] = r]
    BY <1>1, <2>1, <2>2 DEF Typed
  <2>4. QED
    BY <2>3, CallerMoves
<1>5. LoadFails(c) => Idles(c)
  BY GoEffect DEF LoadFails
<1>6. ASSUME Take(c)
      PROVE  \/ loaded = None /\ Unloads(c)
             \/ loaded # None /\ Moves(c, caller[c].op, "close", caller[c].new, loaded)
  <2>1. CASE loaded = None
    BY <1>6, <2>1, UnloadEffect DEF Take
  <2>2. CASE loaded # None
    <3>1. caller' = [caller EXCEPT ![c] = [op |-> caller[c].op, pc |-> "close", new |-> caller[c].new, old |-> loaded]]
      BY <1>1, <1>6, <2>2 DEF Take, AnyCaller
    <3>2. QED
      BY <2>2, <3>1, CallerMoves
  <2>3. QED
    BY <2>1, <2>2
<1>7. CloseQueue(c) => Steps(c, "wait")
  BY GoEffect DEF CloseQueue
<1>8. Wait(c) => Unloads(c)
  BY UnloadEffect DEF Wait
<1>9. Insert(c) => Steps(c, "start")
  BY GoEffect DEF Insert
<1>10. StartWorker(c) => Idles(c)
  BY GoEffect DEF StartWorker
<1>11. ASSUME Swap(c)
       PROVE  \/ Idles(c)
              \/ caller[c].op = "update" /\ Moves(c, "load", "load", None, None)
  <2>1. \/ Go(c, "idle")
        \/ caller[c].op # "install" /\ caller' = [caller EXCEPT ![c] = [op |-> "load", pc |-> "load", new |-> None, old |-> None]]
    BY <1>11 DEF Swap, IdleCaller
  <2>2. caller[c].op \in {"install", "update"}
    BY <1>1, <1>11 DEF Swap, OnScript
  <2>3. QED
    BY <2>1, <2>2, GoEffect, CallerMoves
<1>12. Remove(c) => Idles(c)
  BY GoEffect DEF Remove
<1>13. QED
  BY <1>2, <1>3, <1>4, <1>5, <1>6, <1>7, <1>8, <1>9, <1>10, <1>11, <1>12

-----------------------------------------------------------------------------
At(c, pcs) == caller[c].pc \in pcs
HasNew(c) == caller[c].op = "load" /\ At(c, {"take", "close", "wait", "insert", "start"})
Made == 1 .. made

\* An instance that anybody has in hand was loaded.
Bounded ==
  /\ loaded <= made /\ target <= made /\ ending <= made
  /\ run = "close" => ending # None
  /\ \A c \in Callers : /\ HasNew(c) => caller[c].new \in Made
                        /\ At(c, {"close", "wait"}) => caller[c].old \in Made
  /\ \A k \in Clients : client[k].pc \in {"send", "await"} => client[k].of \in Made
  /\ \A i \in Instances : i > made => inst[i].worker = "unstarted"

\* The step makes this of the instance i and leaves the others as they are.
Sets(i, queue, closed, worker, job, vm) ==
  /\ inst' = [inst EXCEPT ![i] = [queue |-> queue, closed |-> closed, worker |-> worker, job |-> job, vm |-> vm]]
  /\ inst'[i] = [queue |-> queue, closed |-> closed, worker |-> worker, job |-> job, vm |-> vm]
  /\ \A j \in Instances \ {i} : inst'[j] = inst[j]
Closes(i) == Sets(i, inst[i].queue, TRUE, inst[i].worker, inst[i].job, inst[i].vm)
Frees(i)  == Sets(i, inst[i].queue, inst[i].closed, inst[i].worker, inst[i].job, "closed")
Works(i, worker, job) == Sets(i, inst[i].queue, inst[i].closed, worker, job, inst[i].vm)
Queues(i, job) == Sets(i, Append(inst[i].queue, job), inst[i].closed, inst[i].worker, inst[i].job, inst[i].vm)

LEMMA InstSets ==
    ASSUME Typed, NEW i \in Instances, NEW queue, NEW closed, NEW worker, NEW job, NEW vm,
           inst' = [inst EXCEPT ![i] = [queue |-> queue, closed |-> closed, worker |-> worker, job |-> job, vm |-> vm]]
    PROVE  Sets(i, queue, closed, worker, job, vm)
BY DEF Sets, Typed

LEMMA Closing ==
    ASSUME NEW r \in AnyInst, NEW b
    PROVE  /\ [r EXCEPT !.closed = b] = [queue |-> r.queue, closed |-> b, worker |-> r.worker, job |-> r.job, vm |-> r.vm]
           /\ [r EXCEPT !.queue = b] = [queue |-> b, closed |-> r.closed, worker |-> r.worker, job |-> r.job, vm |-> r.vm]
<1>1. [r EXCEPT !.closed = b] = [queue |-> r.queue, closed |-> b, worker |-> r.worker, job |-> r.job, vm |-> r.vm]
  BY DEF AnyInst
<1>2. [r EXCEPT !.queue = b] = [queue |-> b, closed |-> r.closed, worker |-> r.worker, job |-> r.job, vm |-> r.vm]
  BY DEF AnyInst
<1>3. QED
  BY <1>1, <1>2

LEMMA InstEffect ==
    ASSUME Sizes, Typed, Bounded
    PROVE  /\ \A c \in Callers :
                /\ Load(c) => made + 1 \in Instances /\ Sets(made + 1, << >>, FALSE, "unstarted", Event, "open")
                /\ CloseQueue(c) => caller[c].old \in Made /\ Closes(caller[c].old)
                /\ Wait(c) => caller[c].old \in Made /\ Frees(caller[c].old)
                /\ StartWorker(c) => /\ caller[c].new \in Made
                                     /\ Works(caller[c].new, "ready", inst[caller[c].new].job)
           /\ \A i \in Instances :
                /\ WorkerTakes(i) => Sets(i, Tail(inst[i].queue), inst[i].closed, "busy", Head(inst[i].queue), inst[i].vm)
                /\ WorkerFinishes(i) => Works(i, "ready", Event)
                /\ WorkerEnds(i) => Works(i, "ended", inst[i].job)
           /\ DispatchSend => target \in Made /\ (inst' = inst \/ Queues(target, Event))
           /\ ShutdownClose => ending \in Made /\ Closes(ending)
           /\ ShutdownDone => inst' = inst \/ (ending \in Made /\ Frees(ending))
           /\ \A k \in Clients : ClientSends(k) => client[k].of \in Made /\ Queues(client[k].of, k)
<1>1. Made \subseteq Instances
  BY DEF Sizes, Typed, Made, Instances
<1>2. \A i \in Instances : i \in DOMAIN inst /\ inst[i] \in AnyInst
  BY DEF Typed
<1>3. ASSUME NEW c \in Callers, Load(c)
      PROVE  made + 1 \in Instances /\ Sets(made + 1, << >>, FALSE, "unstarted", Event, "open")
  <2>1. made + 1 \in Instances
    BY <1>3 DEF Sizes, Load, Typed, Instances
  <2>2. QED
    BY <1>3, <2>1, InstSets DEF Load, Fresh
<1>4. ASSUME NEW c \in Callers, CloseQueue(c)
      PROVE  caller[c].old \in Made /\ Closes(caller[c].old)
  <2> DEFINE i == caller[c].old
  <2>1. i \in Made /\ inst' = [inst EXCEPT ![i].closed = TRUE]
    BY <1>4 DEF CloseQueue, Bounded, At
  <2> HIDE DEF i
  <2>2. [inst[i] EXCEPT !.closed = TRUE] =
          [queue |-> inst[i].queue, closed |-> TRUE, worker |-> inst[i].worker, job |-> inst[i].job, vm |-> inst[i].vm]
    BY <1>1, <1>2, <2>1, Closing
  <2>3. Closes(i)
    BY <1>1, <1>2, <2>1, <2>2, InstSets DEF Closes
  <2>4. QED
    BY <2>1, <2>3 DEF i
<1>5. ASSUME NEW c \in Callers, Wait(c)
      PROVE  caller[c].old \in Made /\ Frees(caller[c].old)
  <2> DEFINE i == caller[c].old
  <2>1. i \in Made /\ inst' = [inst EXCEPT ![i].vm = "closed"]
    BY <1>5 DEF Wait, Bounded, At
  <2> HIDE DEF i
  <2>2. [inst[i] EXCEPT !.vm = "closed"] =
          [queue |-> inst[i].queue, closed |-> inst[i].closed, worker |-> inst[i].worker, job |-> inst[i].job, vm |-> "closed"]
    BY <1>1, <1>2, <2>1 DEF AnyInst
  <2>3. Frees(i)
    BY <1>1, <1>2, <2>1, <2>2, InstSets DEF Frees
  <2>4. QED
    BY <2>1, <2>3 DEF i
<1>6. ASSUME NEW c \in Callers, StartWorker(c)
      PROVE  caller[c].new \in Made /\ Works(caller[c].new, "ready", inst[caller[c].new].job)
  <2> DEFINE i == caller[c].new
  <2>1. HasNew(c)
    BY <1>6 DEF StartWorker, HasNew, At, Typed, OnScript
  <2>2. i \in Made /\ inst' = [inst EXCEPT ![i].worker = "ready"]
    BY <1>6, <2>1 DEF StartWorker, Bounded
  <2> HIDE DEF i
  <2>3. [inst[i] EXCEPT !.worker = "ready"] =
          [queue |-> inst[i].queue, closed |-> inst[i].closed, worker |-> "ready", job |-> inst[i].job, vm |-> inst[i].vm]
    BY <1>1, <1>2, <2>2 DEF AnyInst
  <2>4. Works(i, "ready", inst[i].job)
    BY <1>1, <1>2, <2>2, <2>3, InstSets DEF Works
  <2>5. QED
    BY <2>2, <2>4 DEF i
<1>7. ASSUME NEW i \in Instances, WorkerTakes(i)
      PROVE  Sets(i, Tail(inst[i].queue), inst[i].closed, "busy", Head(inst[i].queue), inst[i].vm)
  <2> DEFINE r == [queue |-> Tail(inst[i].queue), closed |-> inst[i].closed, worker |-> "busy",
                   job |-> Head(inst[i].queue), vm |-> inst[i].vm]
  <2>1. inst' = [inst EXCEPT ![i].queue = Tail(@), ![i].job = Head(inst[i].queue), ![i].worker = "busy"]
    BY <1>7 DEF WorkerTakes
  <2>2. inst'[i] = r /\ \A j \in Instances \ {i} : inst'[j] = inst[j]
    BY <1>2, <2>1 DEF AnyInst, Typed
  <2>3. inst' = [inst EXCEPT ![i] = r]
    BY <1>2, <2>1, <2>2 DEF Typed
  <2>4. QED
    BY <2>3, InstSets
<1>8. ASSUME NEW i \in Instances, WorkerFinishes(i)
      PROVE  Works(i, "ready", Event)
  <2> DEFINE r == [queue |-> inst[i].queue, closed |-> inst[i].closed, worker |-> "ready", job |-> Event, vm |-> inst[i].vm]
  <2>1. inst' = [inst EXCEPT ![i].worker = "ready", ![i].job = Event]
    BY <1>8 DEF WorkerFinishes
  <2>2. inst'[i] = r /\ \A j \in Instances \ {i} : inst'[j] = inst[j]
    BY <1>2, <2>1 DEF AnyInst, Typed
  <2>3. inst' = [inst EXCEPT ![i] = r]
    BY <1>2, <2>1, <2>2 DEF Typed
  <2>4. QED
    BY <2>3, InstSets DEF Works
<1>9. ASSUME NEW i \in Instances, WorkerEnds(i)
      PROVE  Works(i, "ended", inst[i].job)
  <2>1. inst' = [inst EXCEPT ![i].worker = "ended"]
    BY <1>9 DEF WorkerEnds
  <2>2. [inst[i] EXCEPT !.worker = "ended"] =
          [queue |-> inst[i].queue, closed |-> inst[i].closed, worker |-> "ended", job |-> inst[i].job, vm |-> inst[i].vm]
    BY <1>2 DEF AnyInst
  <2>3. QED
    BY <1>2, <2>1, <2>2, InstSets DEF Works
<1>10. ASSUME NEW i \in Instances, NEW j, inst' = [inst EXCEPT ![i].queue = Append(@, j)]
       PROVE  Queues(i, j)
  <2>1. [inst[i] EXCEPT !.queue = Append(@, j)] =
          [queue |-> Append(inst[i].queue, j), closed |-> inst[i].closed, worker |-> inst[i].worker,
           job |-> inst[i].job, vm |-> inst[i].vm]
    BY <1>2, Closing
  <2>2. QED
    BY <1>2, <1>10, <2>1, InstSets DEF Queues
<1>11. ASSUME DispatchSend
       PROVE  target \in Made /\ (inst' = inst \/ Queues(target, Event))
  <2>1. target \in Made
    BY <1>11 DEF DispatchSend, Bounded, Made, Typed, Instances, None
  <2>2. inst' = inst \/ inst' = [inst EXCEPT ![target].queue = Append(@, Event)]
    BY <1>11 DEF DispatchSend
  <2>3. QED
    BY <1>1, <1>10, <2>1, <2>2
<1>12. ASSUME ShutdownClose
       PROVE  ending \in Made /\ Closes(ending)
  <2>1. ending \in Made
    BY <1>12 DEF ShutdownClose, Bounded, Made, Typed, Instances, None
  <2>2. [inst[ending] EXCEPT !.closed = TRUE] =
          [queue |-> inst[ending].queue, closed |-> TRUE, worker |-> inst[ending].worker, job |-> inst[ending].job,
           vm |-> inst[ending].vm]
    BY <1>1, <1>2, <2>1, Closing
  <2>3. inst' = [inst EXCEPT ![ending].closed = TRUE]
    BY <1>12 DEF ShutdownClose
  <2>4. QED
    BY <1>1, <1>2, <2>1, <2>2, <2>3, InstSets DEF Closes
<1>13. ASSUME ShutdownDone
       PROVE  inst' = inst \/ (ending \in Made /\ Frees(ending))
  <2>1. CASE ending = None
    BY <1>13, <2>1 DEF ShutdownDone
  <2>2. CASE ending # None
    <3>1. ending \in Made
      BY <2>2 DEF Bounded, Made, Typed, Instances, None
    <3>2. [inst[ending] EXCEPT !.vm = "closed"] =
            [queue |-> inst[ending].queue, closed |-> inst[ending].closed, worker |-> inst[ending].worker,
             job |-> inst[ending].job, vm |-> "closed"]
      BY <1>1, <1>2, <3>1 DEF AnyInst
    <3>3. inst' = [inst EXCEPT ![ending].vm = "closed"]
      BY <1>13, <2>2 DEF ShutdownDone
    <3>4. QED
      BY <1>1, <1>2, <3>1, <3>2, <3>3, InstSets DEF Frees
  <2>3. QED
    BY <2>1, <2>2
<1>14. ASSUME NEW k \in Clients, ClientSends(k)
       PROVE  client[k].of \in Made /\ Queues(client[k].of, k)
  <2>1. client[k].of \in Made /\ inst' = [inst EXCEPT ![client[k].of].queue = Append(@, k)]
    BY <1>14 DEF ClientSends, Bounded
  <2>2. QED
    BY <1>1, <1>10, <2>1
<1>15. QED
  BY <1>3, <1>4, <1>5, <1>6, <1>7, <1>8, <1>9, <1>11, <1>12, <1>13, <1>14

\* What stays of the instances.
LEMMA InstStays ==
    ASSUME Typed, NEW i \in Instances
    PROVE  /\ Closes(i) => \A j \in Instances :
                /\ inst'[j].queue = inst[j].queue /\ inst'[j].worker = inst[j].worker
                /\ inst'[j].job = inst[j].job /\ inst'[j].vm = inst[j].vm /\ (j # i => inst'[j] = inst[j])
           /\ Frees(i) => \A j \in Instances :
                /\ inst'[j].queue = inst[j].queue /\ inst'[j].worker = inst[j].worker
                /\ inst'[j].job = inst[j].job /\ inst'[j].closed = inst[j].closed /\ (j # i => inst'[j] = inst[j])
           /\ \A worker, job : Works(i, worker, job) => \A j \in Instances :
                /\ inst'[j].queue = inst[j].queue /\ inst'[j].closed = inst[j].closed
                /\ inst'[j].vm = inst[j].vm /\ (j # i => inst'[j] = inst[j])
           /\ \A job : Queues(i, job) => \A j \in Instances :
                /\ inst'[j].worker = inst[j].worker /\ inst'[j].closed = inst[j].closed
                /\ inst'[j].job = inst[j].job /\ inst'[j].vm = inst[j].vm /\ (j # i => inst'[j] = inst[j])
<1>1. ASSUME Closes(i), NEW j \in Instances
      PROVE  /\ inst'[j].queue = inst[j].queue /\ inst'[j].worker = inst[j].worker
             /\ inst'[j].job = inst[j].job /\ inst'[j].vm = inst[j].vm /\ (j # i => inst'[j] = inst[j])
  BY <1>1 DEF Closes, Sets
<1>2. ASSUME Frees(i), NEW j \in Instances
      PROVE  /\ inst'[j].queue = inst[j].queue /\ inst'[j].worker = inst[j].worker
             /\ inst'[j].job = inst[j].job /\ inst'[j].closed = inst[j].closed /\ (j # i => inst'[j] = inst[j])
  BY <1>2 DEF Frees, Sets
<1>3. ASSUME NEW worker, NEW job, Works(i, worker, job), NEW j \in Instances
      PROVE  /\ inst'[j].queue = inst[j].queue /\ inst'[j].closed = inst[j].closed
             /\ inst'[j].vm = inst[j].vm /\ (j # i => inst'[j] = inst[j])
  BY <1>3 DEF Works, Sets
<1>4. ASSUME NEW job, Queues(i, job), NEW j \in Instances
      PROVE  /\ inst'[j].worker = inst[j].worker /\ inst'[j].closed = inst[j].closed
             /\ inst'[j].job = inst[j].job /\ inst'[j].vm = inst[j].vm /\ (j # i => inst'[j] = inst[j])
  BY <1>4 DEF Queues, Sets
<1>5. QED
  BY <1>1, <1>2, <1>3, <1>4

LEMMA MadeInstances ==
    ASSUME Sizes, Typed
    PROVE  Made \subseteq Instances /\ None \notin Made
BY DEF Sizes, Typed, Made, Instances, None

\* The step makes this of the client k and leaves the others as they are.
Turns(k, pc, of) ==
  /\ client' = [client EXCEPT ![k] = [pc |-> pc, of |-> of]]
  /\ client'[k] = [pc |-> pc, of |-> of]
  /\ \A l \in Clients \ {k} : client'[l] = client[l]

LEMMA ClientEffect ==
    ASSUME Typed, NEW k \in Clients
    PROVE  /\ ClientLooksUp(k) => Turns(k, "send", loaded)
           /\ ClientSends(k) => Turns(k, "await", client[k].of)
           /\ ClientIsRefused(k) \/ ClientIsAnswered(k) \/ ClientGivesUp(k) => Turns(k, "done", None)
           /\ WorkerIsGone(k) => Turns(k, "unloaded", None)
<1>1. k \in DOMAIN client /\ client[k] \in AnyClient
  BY DEF Typed
<1>2. ASSUME NEW pc, NEW of, client' = [client EXCEPT ![k] = [pc |-> pc, of |-> of]]
      PROVE  Turns(k, pc, of)
  BY <1>1, <1>2 DEF Turns, Typed
<1>3. ASSUME NEW pc, ClientIs(k, pc), pc # "await"
      PROVE  Turns(k, pc, None)
  BY <1>2, <1>3 DEF ClientIs
<1>4. ASSUME ClientIs(k, "await")
      PROVE  Turns(k, "await", client[k].of)
  BY <1>1, <1>2, <1>4 DEF ClientIs
<1>5. ClientLooksUp(k) => Turns(k, "send", loaded)
  BY <1>2 DEF ClientLooksUp
<1>6. ClientSends(k) => Turns(k, "await", client[k].of)
  BY <1>4 DEF ClientSends
<1>7. ClientIsRefused(k) \/ ClientIsAnswered(k) \/ ClientGivesUp(k) => Turns(k, "done", None)
  BY <1>3 DEF ClientIsRefused, ClientIsAnswered, ClientGivesUp
<1>8. WorkerIsGone(k) => Turns(k, "unloaded", None)
  BY <1>3 DEF WorkerIsGone
<1>9. QED
  BY <1>5, <1>6, <1>7, <1>8

-----------------------------------------------------------------------------
\* What a request may begin with.
Legal(op, pc) ==
  \/ row # "absent" /\ op = "load" /\ pc = "enable"
  \/ row # "absent" /\ op = "stop" /\ pc = "disable"
  \/ row # "absent" /\ op = "stop" /\ pc = "take"
  \/ row = "enabled" /\ op = "load" /\ pc = "load"
  \/ loaded = None /\ op = "install" /\ pc = "swap"
  \/ loaded # None /\ op = "update" /\ pc = "take"
  \/ row # "absent" /\ op = "uninstall" /\ pc = "take"
Begins(c) == \E op \in Ops, pc \in Pcs : Legal(op, pc) /\ Begin(c, op, pc)

LEMMA RequestIs ==
    ASSUME RequestStep
    PROVE  Register \/ \E c \in Callers : Begins(c)
<1>1. ASSUME NEW c \in Requests, SetEnabled(c) \/ Reload(c) \/ Install(c) \/ Uninstall(c)
      PROVE  Begins(c)
  <2>1. CASE SetEnabled(c)
    BY <2>1 DEF SetEnabled, Begins, Legal, Ops, Pcs
  <2>2. CASE Reload(c)
    BY <2>2 DEF Reload, Begins, Legal, Ops, Pcs
  <2>3. CASE Install(c)
    BY <2>3 DEF Install, Begins, Legal, Ops, Pcs
  <2>4. CASE Uninstall(c)
    BY <2>4 DEF Uninstall, Begins, Legal, Ops, Pcs
  <2>5. QED
    BY <1>1, <2>1, <2>2, <2>3, <2>4
<1>2. QED
  BY <1>1 DEF RequestStep, Callers

\* Who changes what.
LEMMA WhoMoves ==
    ASSUME Next
    PROVE  /\ caller' = caller \/ \E c \in Callers : Begins(c) \/ CallerStep(c)
           /\ \/ inst' = inst
              \/ \E c \in Callers : Load(c) \/ CloseQueue(c) \/ Wait(c) \/ StartWorker(c)
              \/ \E i \in Instances : WorkerStep(i)
              \/ DispatchSend \/ ShutdownClose \/ ShutdownDone
              \/ \E k \in Clients : ClientSends(k)
           /\ client' = client \/ \E k \in Clients : ClientLooksUp(k) \/ ClientStep(k) \/ ClientGivesUp(k)
           /\ made' = made \/ \E c \in Callers : Load(c)
<1>1. Register => UNCHANGED <<inst, client, made, caller>>
  BY DEF Register, clientVars
<1>2. ASSUME NEW c \in Callers, Begins(c)
      PROVE  UNCHANGED <<inst, client, made>>
  BY <1>2 DEF Begins, Begin, clientVars
<1>3. ASSUME NEW c \in Callers, CallerStep(c)
      PROVE  /\ client' = client
             /\ inst' = inst \/ Load(c) \/ CloseQueue(c) \/ Wait(c) \/ StartWorker(c)
             /\ made' = made \/ Load(c)
  BY <1>3 DEF CallerStep, WriteEnabled, Load, LoadFails, Take, CloseQueue, Wait, Insert, StartWorker, Swap, Remove, clientVars
<1>4. ASSUME NEW i \in Instances, WorkerStep(i)
      PROVE  UNCHANGED <<caller, client, made>>
  BY <1>4 DEF WorkerStep, WorkerTakes, WorkerFinishes, WorkerEnds, clientVars
<1>5. ASSUME RunStep \/ DispatchTargets \/ CancelRun
      PROVE  /\ UNCHANGED <<caller, client, made>>
             /\ inst' = inst \/ DispatchSend \/ ShutdownClose \/ ShutdownDone
  BY <1>5 DEF RunStep, RunLoop, DispatchTargets, DispatchSend, CancelRun, ShutdownTake, ShutdownClose, ShutdownDone, clientVars
<1>6. ASSUME NEW k \in Clients, ClientLooksUp(k) \/ ClientStep(k) \/ ClientGivesUp(k)
      PROVE  /\ UNCHANGED <<caller, made>>
             /\ inst' = inst \/ ClientSends(k)
  BY <1>6 DEF ClientStep, ClientLooksUp, ClientSends, ClientIsRefused, ClientIsAnswered, WorkerIsGone, ClientGivesUp
<1>7. QED
  BY <1>1, <1>2, <1>3, <1>4, <1>5, <1>6, RequestIs DEF Next

\* Every caller stays on the script of its operation.
LEMMA CallersTyped ==
    ASSUME Sizes, Typed, Bounded, Next
    PROVE  caller' \in [Callers -> AnyCaller] /\ \A c \in Callers : OnScript(caller'[c])
<1> DEFINE Ok == caller' \in [Callers -> AnyCaller] /\ \A c \in Callers : OnScript(caller'[c])
           Some == Instances \cup {None}
<1>1. ASSUME NEW c \in Callers, NEW op \in Ops, NEW pc \in Pcs, NEW new \in Some, NEW old \in Some,
             OnScript([op |-> op, pc |-> pc, new |-> new, old |-> old]), Moves(c, op, pc, new, old)
      PROVE  Ok
  <2>1. [op |-> op, pc |-> pc, new |-> new, old |-> old] \in AnyCaller
    BY DEF AnyCaller
  <2>2. caller' \in [Callers -> AnyCaller]
    BY <1>1, <2>1 DEF Moves, Typed
  <2>3. \A d \in Callers : OnScript(caller'[d])
    BY <1>1 DEF Moves, Typed
  <2>4. QED
    BY <2>2, <2>3
<1> HIDE DEF Ok
<1>2. None \in Some /\ loaded \in Some
  BY DEF Typed
<1>3. ASSUME NEW c \in Callers, Idles(c)
      PROVE  Ok
  <2>1. OnScript([op |-> "stop", pc |-> "idle", new |-> None, old |-> None])
    BY DEF OnScript
  <2>2. QED
    BY <1>1, <1>2, <1>3, <2>1 DEF Idles, Ops, Pcs
<1>4. ASSUME NEW c \in Callers
      PROVE  /\ caller[c].op \in Ops /\ caller[c].pc \in Pcs /\ caller[c].new \in Some /\ caller[c].old \in Some
             /\ OnScript(caller[c])
  BY DEF Typed, AnyCaller
<1>5. ASSUME NEW c \in Callers, NEW pc \in Pcs, Steps(c, pc), NEW op, op = caller[c].op,
             OnScript([op |-> op, pc |-> pc, new |-> caller[c].new, old |-> caller[c].old])
      PROVE  Ok
  BY <1>1, <1>4, <1>5 DEF Steps
<1>6. ASSUME NEW c \in Callers, Unloads(c)
      PROVE  Ok
  <2>1. CASE caller[c].op = "load" /\ Steps(c, "insert")
    BY <1>5, <2>1 DEF OnScript, Pcs
  <2>2. CASE caller[c].op = "update" /\ Steps(c, "swap")
    BY <1>5, <2>2 DEF OnScript, Pcs
  <2>3. CASE caller[c].op = "uninstall" /\ Steps(c, "remove")
    BY <1>5, <2>3 DEF OnScript, Pcs
  <2>4. QED
    BY <1>3, <1>6, <2>1, <2>2, <2>3 DEF Unloads
<1>7. ASSUME NEW c \in Callers, Begins(c)
      PROVE  Ok
  <2>1. PICK op \in Ops, pc \in Pcs : Legal(op, pc) /\ Begin(c, op, pc)
    BY <1>7 DEF Begins
  <2>2. Moves(c, op, pc, None, None)
    BY <2>1, CallerEffect
  <2>3. OnScript([op |-> op, pc |-> pc, new |-> None, old |-> None])
    BY <2>1 DEF Legal, OnScript
  <2>4. QED
    BY <1>1, <1>2, <2>2, <2>3
<1>8. ASSUME NEW c \in Callers, CallerStep(c)
      PROVE  Ok
  <2>1. CASE WriteEnabled(c)
    <3>1. \/ caller[c].pc = "enable" /\ Steps(c, "load")
          \/ caller[c].pc = "disable" /\ Steps(c, "take")
      BY <2>1, CallerEffect
    <3>2. (caller[c].pc = "enable" => caller[c].op = "load") /\ (caller[c].pc = "disable" => caller[c].op = "stop")
      BY <1>4 DEF OnScript
    <3>3. QED
      BY <1>5, <3>1, <3>2 DEF OnScript, Pcs
  <2>2. CASE Load(c)
    <3>1. Moves(c, "load", "take", made + 1, caller[c].old) /\ made + 1 \in Some
      BY <1>4, <2>2, CallerEffect, InstEffect DEF OnScript, Load
    <3>2. OnScript([op |-> "load", pc |-> "take", new |-> made + 1, old |-> caller[c].old])
      BY DEF OnScript
    <3>3. QED
      BY <1>1, <1>4, <3>1, <3>2 DEF Ops, Pcs
  <2>3. CASE Take(c)
    <3>1. CASE Unloads(c)
      BY <1>6, <3>1
    <3>2. CASE Moves(c, caller[c].op, "close", caller[c].new, loaded)
      <4>1. OnScript([op |-> caller[c].op, pc |-> "close", new |-> caller[c].new, old |-> loaded])
        BY <1>4, <2>3 DEF OnScript, Take
      <4>2. QED
        BY <1>1, <1>2, <1>4, <3>2, <4>1 DEF Pcs
    <3>3. QED
      BY <2>3, <3>1, <3>2, CallerEffect
  <2>4. CASE CloseQueue(c)
    <3>1. Steps(c, "wait") /\ OnScript([op |-> caller[c].op, pc |-> "wait", new |-> caller[c].new, old |-> caller[c].old])
      BY <1>4, <2>4, CallerEffect DEF OnScript, CloseQueue
    <3>2. QED
      BY <1>5, <3>1 DEF Pcs
  <2>5. CASE Insert(c)
    <3>1. Steps(c, "start") /\ OnScript([op |-> caller[c].op, pc |-> "start", new |-> caller[c].new, old |-> caller[c].old])
      BY <1>4, <2>5, CallerEffect DEF OnScript, Insert
    <3>2. QED
      BY <1>5, <3>1 DEF Pcs
  <2>6. CASE Swap(c)
    <3>1. OnScript([op |-> "load", pc |-> "load", new |-> None, old |-> None])
      BY DEF OnScript
    <3>2. Idles(c) \/ Moves(c, "load", "load", None, None)
      BY <2>6, CallerEffect
    <3>3. QED
      BY <1>1, <1>2, <1>3, <3>1, <3>2 DEF Ops, Pcs
  <2>7. CASE Wait(c)
    BY <1>6, <2>7, CallerEffect
  <2>8. CASE LoadFails(c) \/ StartWorker(c) \/ Remove(c)
    BY <1>3, <2>8, CallerEffect
  <2>9. QED
    BY <1>8, <2>1, <2>2, <2>3, <2>4, <2>5, <2>6, <2>7, <2>8 DEF CallerStep
<1>9. CASE caller' = caller
  BY <1>9 DEF Ok, Typed
<1>10. QED
  BY <1>7, <1>8, <1>9, WhoMoves DEF Ok

Jobs == Clients \cup {Event}

LEMMA InstsTyped ==
    ASSUME Sizes, Typed, Bounded, Next
    PROVE  inst' \in [Instances -> AnyInst] /\ \A i \in Instances : Len(inst'[i].queue) <= QueueSize
<1> DEFINE Ok == inst' \in [Instances -> AnyInst] /\ \A i \in Instances : Len(inst'[i].queue) <= QueueSize
<1>1. ASSUME NEW i \in Instances, NEW queue, NEW closed, NEW worker, NEW job, NEW vm,
             [queue |-> queue, closed |-> closed, worker |-> worker, job |-> job, vm |-> vm] \in AnyInst,
             Len(queue) <= QueueSize, Sets(i, queue, closed, worker, job, vm)
      PROVE  Ok
  <2>1. inst' \in [Instances -> AnyInst]
    BY <1>1 DEF Sets, Typed
  <2>2. \A j \in Instances : Len(inst'[j].queue) <= QueueSize
    BY <1>1 DEF Sets, Typed
  <2>3. QED
    BY <2>1, <2>2
<1> SUFFICES Ok
  OBVIOUS
<1> HIDE DEF Ok
<1>2. ASSUME NEW i \in Instances
      PROVE  inst[i] \in AnyInst /\ inst[i].queue \in Seq(Jobs) /\ Len(inst[i].queue) <= QueueSize /\ inst[i].job \in Jobs
  BY DEF Typed, AnyInst, Jobs
<1>3. Made \subseteq Instances
  BY DEF Sizes, Typed, Made, Instances
<1>4. ASSUME NEW i \in Made, Closes(i)
      PROVE  Ok
  <2>1. [queue |-> inst[i].queue, closed |-> TRUE, worker |-> inst[i].worker, job |-> inst[i].job, vm |-> inst[i].vm]
          \in AnyInst
    BY <1>2, <1>3 DEF AnyInst
  <2>2. QED
    BY <1>1, <1>2, <1>3, <1>4, <2>1 DEF Closes
<1>5. ASSUME NEW i \in Made, Frees(i)
      PROVE  Ok
  <2>1. [queue |-> inst[i].queue, closed |-> inst[i].closed, worker |-> inst[i].worker, job |-> inst[i].job, vm |-> "closed"]
          \in AnyInst
    BY <1>2, <1>3 DEF AnyInst
  <2>2. QED
    BY <1>1, <1>2, <1>3, <1>5, <2>1 DEF Frees
<1>6. ASSUME NEW i \in Instances, NEW worker \in {"ready", "ended"}, NEW job \in Jobs, Works(i, worker, job)
      PROVE  Ok
  <2>1. [queue |-> inst[i].queue, closed |-> inst[i].closed, worker |-> worker, job |-> job, vm |-> inst[i].vm] \in AnyInst
    BY <1>2, <1>3 DEF AnyInst, Jobs
  <2>2. QED
    BY <1>1, <1>2, <1>6, <2>1 DEF Works
<1>7. ASSUME NEW i \in Made, NEW job \in Jobs, Queues(i, job), Len(inst[i].queue) # QueueSize
      PROVE  Ok
  <2>1. inst[i] \in AnyInst /\ i \in Instances /\ inst[i].queue \in Seq(Jobs) /\ Len(inst[i].queue) <= QueueSize
    BY <1>2, <1>3
  <2>2. Append(inst[i].queue, job) \in Seq(Jobs) /\ Len(Append(inst[i].queue, job)) = Len(inst[i].queue) + 1
    BY <2>1
  <2>3. Len(inst[i].queue) + 1 <= QueueSize
    BY <1>7, <2>1 DEF Sizes
  <2>4. Len(Append(inst[i].queue, job)) <= QueueSize
    BY <2>2, <2>3
  <2> DEFINE q == Append(inst[i].queue, job)
  <2> HIDE DEF q
  <2>5. q \in Seq(Jobs) /\ Len(q) <= QueueSize
    BY <2>2, <2>4 DEF q
  <2>6. [queue |-> q, closed |-> inst[i].closed, worker |-> inst[i].worker, job |-> inst[i].job, vm |-> inst[i].vm] \in AnyInst
    BY <2>1, <2>5 DEF AnyInst, Jobs
  <2>7. Sets(i, q, inst[i].closed, inst[i].worker, inst[i].job, inst[i].vm)
    BY <1>7 DEF Queues, q
  <2>8. QED
    BY <1>1, <2>1, <2>5, <2>6, <2>7
<1>8. Event \in Jobs /\ Clients \subseteq Jobs
  BY DEF Jobs
<1>9. ASSUME NEW c \in Callers, Load(c) \/ CloseQueue(c) \/ Wait(c) \/ StartWorker(c)
      PROVE  Ok
  <2>1. CASE Load(c)
    <3>1. made + 1 \in Instances /\ Sets(made + 1, << >>, FALSE, "unstarted", Event, "open")
      BY <2>1, InstEffect
    <3>2. << >> \in Seq(Jobs) /\ Len(<< >>) <= QueueSize
      BY DEF Sizes
    <3>3. [queue |-> << >>, closed |-> FALSE, worker |-> "unstarted", job |-> Event, vm |-> "open"] \in AnyInst
      BY <1>8, <3>2 DEF AnyInst, Jobs
    <3>4. QED
      BY <1>1, <3>1, <3>2, <3>3
  <2>2. CASE CloseQueue(c)
    BY <1>4, <2>2, InstEffect
  <2>3. CASE Wait(c)
    BY <1>5, <2>3, InstEffect
  <2>4. CASE StartWorker(c)
    <3>1. caller[c].new \in Made /\ Works(caller[c].new, "ready", inst[caller[c].new].job)
      BY <2>4, InstEffect
    <3>2. QED
      BY <1>2, <1>3, <1>6, <3>1
  <2>5. QED
    BY <1>9, <2>1, <2>2, <2>3, <2>4
<1>10. ASSUME NEW i \in Instances, WorkerStep(i)
       PROVE  Ok
  <2>1. CASE WorkerTakes(i)
    <3>1. Sets(i, Tail(inst[i].queue), inst[i].closed, "busy", Head(inst[i].queue), inst[i].vm) /\ inst[i].queue # << >>
      BY <2>1, InstEffect DEF WorkerTakes
    <3>2. /\ Tail(inst[i].queue) \in Seq(Jobs) /\ Head(inst[i].queue) \in Jobs
          /\ Len(Tail(inst[i].queue)) = Len(inst[i].queue) - 1
      BY <1>2, <3>1
    <3>3. Len(Tail(inst[i].queue)) <= QueueSize
      BY <1>2, <3>2 DEF Sizes
    <3> DEFINE q == Tail(inst[i].queue)
               j == Head(inst[i].queue)
    <3> HIDE DEF q, j
    <3>4. q \in Seq(Jobs) /\ Len(q) <= QueueSize /\ j \in Jobs
      BY <3>2, <3>3 DEF q, j
    <3>5. [queue |-> q, closed |-> inst[i].closed, worker |-> "busy", job |-> j, vm |-> inst[i].vm] \in AnyInst
      BY <1>2, <3>4 DEF AnyInst, Jobs
    <3>6. Sets(i, q, inst[i].closed, "busy", j, inst[i].vm)
      BY <3>1 DEF q, j
    <3>7. QED
      BY <1>1, <3>4, <3>5, <3>6
  <2>2. CASE WorkerFinishes(i)
    BY <1>6, <1>8, <2>2, InstEffect
  <2>3. CASE WorkerEnds(i)
    BY <1>2, <1>6, <2>3, InstEffect
  <2>4. QED
    BY <1>10, <2>1, <2>2, <2>3 DEF WorkerStep
<1>11. CASE DispatchSend
  <2>1. target \in Made /\ (inst' = inst \/ (Queues(target, Event) /\ Len(inst[target].queue) # QueueSize))
    <3>1. target \in Made /\ (inst' = inst \/ Queues(target, Event))
      BY <1>11, InstEffect
    <3>2. inst' = inst \/ Len(inst[target].queue) # QueueSize
      BY <1>11 DEF DispatchSend
    <3>3. QED
      BY <3>1, <3>2
  <2>2. CASE inst' = inst
    BY <2>2 DEF Ok, Typed
  <2>3. CASE Queues(target, Event) /\ Len(inst[target].queue) # QueueSize
    BY <1>7, <1>8, <2>1, <2>3
  <2>4. QED
    BY <2>1, <2>2, <2>3
<1>12. CASE ShutdownClose
  <2>1. ending \in Made /\ Closes(ending)
    BY <1>12, InstEffect
  <2>2. QED
    BY <1>4, <2>1
<1>13. CASE inst' = inst
  BY <1>13 DEF Ok, Typed
<1>14. CASE ShutdownDone
  <2>1. inst' = inst \/ (ending \in Made /\ Frees(ending))
    BY <1>14, InstEffect
  <2>2. QED
    BY <1>5, <1>13, <2>1
<1>15. ASSUME NEW k \in Clients, ClientSends(k)
       PROVE  Ok
  <2>1. client[k].of \in Made /\ Queues(client[k].of, k) /\ Len(inst[client[k].of].queue) < QueueSize
    BY <1>15, InstEffect DEF ClientSends
  <2>2. Len(inst[client[k].of].queue) # QueueSize
    BY <1>2, <1>3, <2>1 DEF Sizes
  <2>3. QED
    BY <1>7, <1>8, <2>1, <2>2
<1>16. QED
  BY <1>9, <1>10, <1>11, <1>12, <1>13, <1>14, <1>15, WhoMoves DEF Ok

LEMMA ClientsTyped ==
    ASSUME Typed, Next
    PROVE  client' \in [Clients -> AnyClient]
<1>1. ASSUME NEW k \in Clients, NEW pc \in {"send", "await", "done", "unloaded"}, NEW of \in Instances \cup {None},
             Turns(k, pc, of)
      PROVE  client' \in [Clients -> AnyClient]
  <2>1. [pc |-> pc, of |-> of] \in AnyClient
    BY DEF AnyClient
  <2>2. QED
    BY <1>1, <2>1 DEF Turns, Typed
<1>2. CASE client' = client
  BY <1>2 DEF Typed
<1>3. ASSUME NEW k \in Clients, ClientLooksUp(k) \/ ClientStep(k) \/ ClientGivesUp(k)
      PROVE  client' \in [Clients -> AnyClient]
  <2>1. client[k].of \in Instances \cup {None} /\ loaded \in Instances \cup {None} /\ None \in Instances \cup {None}
    BY DEF Typed, AnyClient
  <2>2. \E pc \in {"send", "await", "done", "unloaded"}, of \in Instances \cup {None} : Turns(k, pc, of)
    BY <1>3, <2>1, ClientEffect DEF ClientStep
  <2>3. QED
    BY <1>1, <2>2
<1>4. QED
  BY <1>2, <1>3, WhoMoves

\* Every step keeps the types.
LEMMA TypesKept ==
    ASSUME Sizes, Typed, Bounded, Next
    PROVE  Typed'
<1> DEFINE Rest == /\ row' \in {"absent", "disabled", "enabled"}
                   /\ made' \in Nat /\ made' <= MaxInstances
                   /\ {loaded', target', ending'} \subseteq Instances \cup {None}
                   /\ events' \in Nat /\ replied' \subseteq Clients /\ ctxDone' \in BOOLEAN
                   /\ run' \in {"reconcile", "loop", "close", "wait", "stopped"}
                   /\ panic' \in {"none", "send", "close"} /\ raced' \subseteq {"requests", "shutdown"}
<1>1. Register => Rest
  BY DEF Register, Typed, loopVars, clientVars
<1>2. ASSUME NEW c \in Callers, Begins(c)
      PROVE  Rest
  BY <1>2 DEF Begins, Begin, Typed, loopVars, clientVars
<1>3. ASSUME NEW c \in Callers, CallerStep(c)
      PROVE  Rest
  <2>1. CASE WriteEnabled(c)
    BY <2>1 DEF WriteEnabled, Typed, loopVars, clientVars
  <2>2. CASE Load(c)
    <3>1. made' \in Nat /\ made' <= MaxInstances
      BY <2>2 DEF Load, Typed, Sizes
    <3>2. QED
      BY <2>2, <3>1 DEF Load, Typed, loopVars, clientVars
  <2>3. CASE LoadFails(c) \/ Wait(c) \/ StartWorker(c)
    BY <2>3 DEF LoadFails, Wait, StartWorker, Typed, loopVars, clientVars
  <2>4. CASE Take(c)
    BY <2>4 DEF Take, Typed, loopVars, clientVars
  <2>5. CASE CloseQueue(c)
    BY <2>5 DEF CloseQueue, Typed, loopVars, clientVars
  <2>6. CASE Insert(c)
    <3>1. caller[c].new \in Instances \cup {None}
      BY DEF Typed, AnyCaller
    <3>2. QED
      BY <2>6, <3>1 DEF Insert, Typed, loopVars, clientVars
  <2>7. CASE Swap(c)
    BY <2>7 DEF Swap, Typed, loopVars, clientVars
  <2>8. CASE Remove(c)
    BY <2>8 DEF Remove, Typed, loopVars, clientVars
  <2>9. QED
    BY <1>3, <2>1, <2>2, <2>3, <2>4, <2>5, <2>6, <2>7, <2>8 DEF CallerStep
<1>4. ASSUME NEW i \in Instances, WorkerStep(i)
      PROVE  Rest
  <2>1. CASE WorkerTakes(i) \/ WorkerEnds(i)
    BY <2>1 DEF WorkerTakes, WorkerEnds, Typed, loopVars, clientVars
  <2>2. CASE WorkerFinishes(i)
    <3>1. inst[i].job \in Clients \cup {Event}
      BY DEF Typed, AnyInst
    <3>2. QED
      BY <2>2, <3>1 DEF WorkerFinishes, Typed, loopVars
  <2>3. QED
    BY <1>4, <2>1, <2>2 DEF WorkerStep
<1>5. ASSUME RunStep \/ DispatchTargets \/ CancelRun
      PROVE  Rest
  <2>1. CASE RunLoop \/ CancelRun
    BY <2>1 DEF RunLoop, CancelRun, Typed, clientVars
  <2>2. CASE DispatchTargets
    BY <2>2 DEF DispatchTargets, Typed, clientVars
  <2>3. CASE DispatchSend
    BY <2>3 DEF DispatchSend, Typed, clientVars
  <2>4. CASE ShutdownTake
    BY <2>4 DEF ShutdownTake, Race, Typed, clientVars
  <2>5. CASE ShutdownClose
    BY <2>5 DEF ShutdownClose, Typed, clientVars
  <2>6. CASE ShutdownDone
    BY <2>6 DEF ShutdownDone, Typed, clientVars
  <2>7. QED
    BY <1>5, <2>1, <2>2, <2>3, <2>4, <2>5, <2>6 DEF RunStep
<1>6. ASSUME NEW k \in Clients, ClientLooksUp(k) \/ ClientStep(k) \/ ClientGivesUp(k)
      PROVE  Rest
  BY <1>6 DEF ClientStep, ClientLooksUp, ClientSends, ClientIsRefused, ClientIsAnswered, WorkerIsGone, ClientGivesUp,
              Typed, loopVars
<1>7. Rest
  BY <1>1, <1>2, <1>3, <1>4, <1>5, <1>6, RequestIs DEF Next
<1> HIDE DEF Rest
<1>8. QED
  BY <1>7, CallersTyped, InstsTyped, ClientsTyped DEF Rest, Typed

\* What anybody has in hand was loaded, after every step.
LEMMA BoundsKept ==
    ASSUME Sizes, Typed, Bounded, Next
    PROVE  Bounded'
<1> DEFINE Frame == UNCHANGED <<target, client, run, ending>>
<1>1. ASSUME NEW c \in Callers, Begins(c)
      PROVE  Bounded'
  <2>1. PICK op \in Ops, pc \in Pcs : Legal(op, pc) /\ Begin(c, op, pc)
    BY <1>1 DEF Begins
  <2>2. Moves(c, op, pc, None, None)
    BY <2>1, CallerEffect
  <2>3. UNCHANGED <<loaded, made, inst>> /\ Frame
    BY <2>1 DEF Begin, loopVars, clientVars
  <2>4. \A d \in Callers : /\ HasNew(d)' => d # c /\ HasNew(d)
                           /\ At(d, {"close", "wait"})' => d # c /\ At(d, {"close", "wait"})
    BY <2>1, <2>2 DEF Moves, HasNew, At, Legal
  <2>5. QED
    BY <2>2, <2>3, <2>4 DEF Bounded, Moves, Made
<1>2. ASSUME NEW c \in Callers, CallerStep(c)
      PROVE  Bounded'
  <2>1. CASE WriteEnabled(c)
    <3>1. Steps(c, "load") \/ (Steps(c, "take") /\ caller[c].pc = "disable")
      BY <2>1, CallerEffect
    <3>2. UNCHANGED <<loaded, made, inst>> /\ Frame
      BY <2>1 DEF WriteEnabled, loopVars, clientVars
    <3>3. QED
      BY <3>1, <3>2 DEF Bounded, Steps, Moves, Made, HasNew, At, Typed, OnScript
  <2>2. CASE Load(c)
    <3>1. Moves(c, caller[c].op, "take", made + 1, caller[c].old)
      BY <2>2, CallerEffect
    <3>2. UNCHANGED loaded /\ Frame /\ made' = made + 1
      BY <2>2 DEF Load, loopVars, clientVars
    <3>3. \A i \in Instances : i > made + 1 => inst'[i] = inst[i]
      BY <2>2, InstEffect DEF Sets, Typed
    <3>4. \A d \in Callers : /\ HasNew(d)' => caller'[d].new \in Made \cup {made + 1}
                             /\ At(d, {"close", "wait"})' => caller'[d].old \in Made
      BY <3>1 DEF Bounded, Moves, HasNew, At
    <3>5. Made' = Made \cup {made + 1} /\ made <= made + 1
      BY <3>2 DEF Made, Typed
    <3>6. \A i \in Instances : i > made + 1 => inst'[i].worker = "unstarted"
      BY <3>3 DEF Bounded, Typed, Instances
    <3>7. loaded' <= made' /\ target' <= made' /\ ending' <= made'
      BY <3>2 DEF Bounded, Typed, Instances, None
    <3>8. QED
      BY <3>2, <3>4, <3>5, <3>6, <3>7 DEF Bounded
  <2>3. CASE LoadFails(c) \/ Swap(c) \/ Remove(c)
    <3>1. Idles(c) \/ Moves(c, "load", "load", None, None)
      BY <2>3, CallerEffect
    <3>2. UNCHANGED <<loaded, made, inst>> /\ Frame
      BY <2>3 DEF LoadFails, Swap, Remove, loopVars, clientVars
    <3>3. QED
      BY <3>1, <3>2 DEF Bounded, Idles, Moves, Made, HasNew, At
  <2>4. CASE Take(c)
    <3>1. Unloads(c) \/ (loaded # None /\ Moves(c, caller[c].op, "close", caller[c].new, loaded))
      BY <2>4, CallerEffect
    <3>2. UNCHANGED <<made, inst>> /\ Frame /\ loaded' = None /\ caller[c].pc = "take"
      BY <2>4 DEF Take, loopVars, clientVars
    <3>3. QED
      BY <3>1, <3>2 DEF Bounded, Unloads, Idles, Steps, Moves, Made, HasNew, At, Typed, Instances, None
  <2>5. CASE CloseQueue(c)
    <3>1. Steps(c, "wait")
      BY <2>5, CallerEffect
    <3>2. UNCHANGED <<loaded, made>> /\ Frame /\ caller[c].pc = "close"
      BY <2>5 DEF CloseQueue, loopVars, clientVars
    <3>3. \A i \in Instances : inst'[i].worker = inst[i].worker
      BY <2>5, InstEffect, InstStays, MadeInstances
    <3>4. QED
      BY <3>1, <3>2, <3>3 DEF Bounded, Steps, Moves, Made, HasNew, At
  <2>6. CASE Wait(c)
    <3>1. Unloads(c)
      BY <2>6, CallerEffect
    <3>2. UNCHANGED <<loaded, made>> /\ Frame /\ caller[c].pc = "wait"
      BY <2>6 DEF Wait, loopVars, clientVars
    <3>3. \A i \in Instances : inst'[i].worker = inst[i].worker
      BY <2>6, InstEffect, InstStays, MadeInstances
    <3>4. QED
      BY <3>1, <3>2, <3>3 DEF Bounded, Unloads, Idles, Steps, Moves, Made, HasNew, At
  <2>7. CASE Insert(c)
    <3>1. Steps(c, "start")
      BY <2>7, CallerEffect
    <3>2. UNCHANGED <<made, inst>> /\ Frame /\ caller[c].pc = "insert" /\ loaded' = caller[c].new
      BY <2>7 DEF Insert, loopVars, clientVars
    <3>3. HasNew(c)
      BY <3>2 DEF HasNew, At, Typed, OnScript
    <3>4. QED
      BY <3>1, <3>2, <3>3 DEF Bounded, Steps, Moves, Made, HasNew, At
  <2>8. CASE StartWorker(c)
    <3>1. Idles(c)
      BY <2>8, CallerEffect
    <3>2. UNCHANGED <<loaded, made>> /\ Frame
      BY <2>8 DEF StartWorker, loopVars, clientVars
    <3>3. \A i \in Instances \ Made : inst'[i] = inst[i]
      <4>1. caller[c].new \in Made /\ Works(caller[c].new, "ready", inst[caller[c].new].job)
        BY <2>8, InstEffect
      <4>2. QED
        BY <4>1, InstStays, MadeInstances
    <3>4. \A i \in Instances : i > made => i \notin Made
      BY DEF Made, Typed
    <3>5. QED
      BY <3>1, <3>2, <3>3, <3>4 DEF Bounded, Idles, Moves, Made, HasNew, At
  <2>9. QED
    BY <1>2, <2>1, <2>2, <2>3, <2>4, <2>5, <2>6, <2>7, <2>8 DEF CallerStep
<1>3. CASE Register
  BY <1>3 DEF Register, Bounded, HasNew, At, Made, loopVars, clientVars
<1>4. ASSUME NEW i \in Instances, WorkerStep(i)
      PROVE  Bounded'
  <2>1. inst[i].worker # "unstarted" /\ \A j \in Instances \ {i} : inst'[j] = inst[j]
    BY <1>4, InstEffect DEF WorkerStep, WorkerTakes, WorkerFinishes, WorkerEnds, Sets, Works
  <2>2. UNCHANGED <<loaded, made, caller>> /\ Frame
    BY <1>4 DEF WorkerStep, WorkerTakes, WorkerFinishes, WorkerEnds, loopVars, clientVars
  <2>3. QED
    BY <2>1, <2>2 DEF Bounded, HasNew, At, Made
<1>5. CASE RunLoop \/ DispatchTargets \/ CancelRun \/ ShutdownTake
  <2>1. UNCHANGED <<made, caller, client, inst>>
    BY <1>5 DEF RunLoop, DispatchTargets, CancelRun, ShutdownTake, clientVars
  <2>2. loaded' <= made /\ target' <= made /\ ending' <= made /\ (run' = "close" => ending' # None)
    BY <1>5 DEF RunLoop, DispatchTargets, CancelRun, ShutdownTake, Bounded, Typed, None
  <2>3. QED
    BY <2>1, <2>2 DEF Bounded, HasNew, At, Made
<1>6. CASE DispatchSend
  <2>1. \A i \in Instances : inst'[i].worker = inst[i].worker
    BY <1>6, InstEffect, InstStays, MadeInstances
  <2>2. UNCHANGED <<made, caller, client, loaded, ending, run>> /\ target' = None
    BY <1>6 DEF DispatchSend, clientVars
  <2>3. QED
    BY <2>1, <2>2 DEF Bounded, HasNew, At, Made, None, Typed
<1>7. CASE ShutdownClose \/ ShutdownDone
  <2>1. \A i \in Instances : inst'[i].worker = inst[i].worker
    BY <1>7, InstEffect, InstStays, MadeInstances
  <2>2. UNCHANGED <<made, caller, client, loaded, ending, target>> /\ run' \in {"wait", "stopped"}
    BY <1>7 DEF ShutdownClose, ShutdownDone, clientVars
  <2>3. QED
    BY <2>1, <2>2 DEF Bounded, HasNew, At, Made
<1>8. ASSUME NEW k \in Clients, ClientLooksUp(k) \/ ClientStep(k) \/ ClientGivesUp(k)
      PROVE  Bounded'
  <2>1. UNCHANGED <<made, caller, loaded, ending, target, run>>
    BY <1>8 DEF ClientStep, ClientLooksUp, ClientSends, ClientIsRefused, ClientIsAnswered, WorkerIsGone, ClientGivesUp, loopVars
  <2>2. \A i \in Instances : inst'[i].worker = inst[i].worker
    <3>1. CASE ClientSends(k)
      BY <3>1, InstEffect, InstStays, MadeInstances
    <3>2. CASE ~ClientSends(k)
      BY <1>8, <3>2 DEF ClientStep, ClientLooksUp, ClientIsRefused, ClientIsAnswered, WorkerIsGone, ClientGivesUp
    <3>3. QED
      BY <3>1, <3>2
  <2>3. \A l \in Clients : client'[l].pc \in {"send", "await"} => client'[l].of \in Made
    <3>1. CASE ClientLooksUp(k)
      <4>1. Turns(k, "send", loaded) /\ loaded # None
        BY <3>1, ClientEffect DEF ClientLooksUp
      <4>2. QED
        BY <4>1 DEF Turns, Bounded, Made, Typed, Instances, None
    <3>2. CASE ClientSends(k)
      <4>1. Turns(k, "await", client[k].of)
        BY <3>2, ClientEffect
      <4>2. client[k].pc = "send"
        BY <3>2 DEF ClientSends
      <4>3. QED
        BY <4>1, <4>2 DEF Turns, Bounded
    <3>3. CASE ~ClientLooksUp(k) /\ ~ClientSends(k)
      <4>1. Turns(k, "done", None) \/ Turns(k, "unloaded", None)
        BY <1>8, <3>3, ClientEffect DEF ClientStep
      <4>2. QED
        BY <4>1 DEF Turns, Bounded
    <3>4. QED
      BY <3>1, <3>2, <3>3
  <2>4. QED
    BY <2>1, <2>2, <2>3 DEF Bounded, HasNew, At, Made
<1>9. QED
  BY <1>1, <1>2, <1>3, <1>4, <1>5, <1>6, <1>7, <1>8, RequestIs DEF Next, RunStep

-----------------------------------------------------------------------------
(***************************************************************************)
(* Each instance is in one hand: waiting to be put into the map, in the    *)
(* map, or taken out by the one that is about to close its queue.          *)
(***************************************************************************)
Unmapped(c) == HasNew(c) /\ caller[c].pc # "start"
Closer(c) == At(c, {"close"})

MapOpen == loaded # None => ~inst[loaded].closed
EndOwned == run = "close" => ending # loaded /\ ~inst[ending].closed
NewOwned ==
  \A c \in Callers : Unmapped(c) =>
    /\ caller[c].new # loaded /\ ~inst[caller[c].new].closed
    /\ run = "close" => caller[c].new # ending
OldOwned ==
  \A c \in Callers : Closer(c) =>
    /\ caller[c].old # loaded /\ ~inst[caller[c].old].closed
    /\ run = "close" => caller[c].old # ending
Apart ==
  \A c, d \in Callers : Closer(d) =>
    /\ Unmapped(c) => caller[c].new # caller[d].old
    /\ Closer(c) /\ c # d => caller[c].old # caller[d].old
Owned == MapOpen /\ EndOwned /\ NewOwned /\ OldOwned /\ Apart

\* The worker of an instance is started by the one that made it, once; it ends with its queue.
WorkersOwned ==
  /\ \A c \in Callers : HasNew(c) => inst[caller[c].new].worker = "unstarted"
  /\ \A c, d \in Callers : HasNew(c) /\ HasNew(d) /\ c # d => caller[c].new # caller[d].new
  /\ \A i \in Made : inst[i].worker = "unstarted" => \E c \in Callers : HasNew(c) /\ caller[c].new = i
  /\ \A i \in Instances : inst[i].worker = "ended" => inst[i].closed /\ inst[i].queue = << >>

LEMMA OwnedKept ==
    ASSUME Sizes, Typed, Bounded, Owned, WorkersOwned, Next
    PROVE  Owned' /\ (panic # "close" => panic' # "close")
<1> DEFINE Shut == \A i \in Instances : inst'[i].closed = inst[i].closed
           Others(c) == \A d \in Callers : d # c =>
                          /\ Unmapped(d)' <=> Unmapped(d)
                          /\ Closer(d)' <=> Closer(d)
                          /\ caller'[d].new = caller[d].new /\ caller'[d].old = caller[d].old
           Goal == Owned' /\ (panic # "close" => panic' # "close")
<1>1. Made \subseteq Instances /\ None \notin Made
  BY MadeInstances
<1>2. ASSUME NEW c \in Callers, NEW op, NEW pc, NEW new, NEW old, Moves(c, op, pc, new, old)
      PROVE  /\ Others(c)
             /\ Unmapped(c)' <=> op = "load" /\ pc \in {"take", "close", "wait", "insert"}
             /\ Closer(c)' <=> pc = "close"
             /\ caller'[c].new = new /\ caller'[c].old = old
  BY <1>2 DEF Moves, Unmapped, Closer, HasNew, At
<1>3. \A c \in Callers : /\ Unmapped(c) => caller[c].new \in Made
                         /\ Closer(c) => caller[c].old \in Made
  BY DEF Bounded, Unmapped, Closer, At
<1>0. /\ loaded \in Made \cup {None} /\ ending \in Made \cup {None}
      /\ run = "close" => ending # None
  BY DEF Bounded, Made, Typed, Instances, None
<1> SUFFICES Goal
  OBVIOUS
<1> HIDE DEF Goal, Others
<1>4. ASSUME NEW c \in Callers, Others(c), ~Closer(c)', Unmapped(c)' => Unmapped(c) /\ caller'[c].new = caller[c].new,
             Shut, UNCHANGED <<loaded, run, ending, panic>>
      PROVE  Goal
  <2>1. MapOpen'
    BY <1>0, <1>1, <1>3, <1>4 DEF Owned, MapOpen, EndOwned, NewOwned, OldOwned, Apart, Others
  <2>2. EndOwned'
    BY <1>0, <1>1, <1>3, <1>4 DEF Owned, MapOpen, EndOwned, NewOwned, OldOwned, Apart, Others
  <2>3. NewOwned'
    BY <1>0, <1>1, <1>3, <1>4 DEF Owned, MapOpen, EndOwned, NewOwned, OldOwned, Apart, Others
  <2>4. OldOwned'
    BY <1>0, <1>1, <1>3, <1>4 DEF Owned, MapOpen, EndOwned, NewOwned, OldOwned, Apart, Others
  <2>5. Apart'
    BY <1>0, <1>1, <1>3, <1>4 DEF Owned, MapOpen, EndOwned, NewOwned, OldOwned, Apart, Others
  <2>6. QED
    BY <1>4, <2>1, <2>2, <2>3, <2>4, <2>5 DEF Owned, Goal
<1>5. ASSUME NEW c \in Callers, Begins(c)
      PROVE  Goal
  <2>1. PICK op \in Ops, pc \in Pcs : Legal(op, pc) /\ Begin(c, op, pc)
    BY <1>5 DEF Begins
  <2>2. Moves(c, op, pc, None, None)
    BY <2>1, CallerEffect
  <2>3. UNCHANGED <<loaded, inst, run, ending, panic>>
    BY <2>1 DEF Begin, loopVars
  <2>4. ~Closer(c)' /\ ~Unmapped(c)' /\ Others(c)
    BY <1>2, <2>1, <2>2 DEF Legal
  <2>5. QED
    BY <1>4, <2>3, <2>4
<1>6. ASSUME NEW c \in Callers, CallerStep(c)
      PROVE  Goal
  <2>1. CASE WriteEnabled(c)
    <3>1. Steps(c, "load") \/ (Steps(c, "take") /\ caller[c].op = "stop")
      BY <2>1, CallerEffect DEF Typed, OnScript
    <3>2. ~Closer(c)' /\ ~Unmapped(c)' /\ Others(c)
      BY <1>2, <3>1 DEF Steps
    <3>3. UNCHANGED <<loaded, inst, run, ending, panic>>
      BY <2>1 DEF WriteEnabled, loopVars
    <3>4. QED
      BY <1>4, <3>2, <3>3
  <2>2. CASE Load(c)
    <3>1. Moves(c, caller[c].op, "take", made + 1, caller[c].old)
      BY <2>2, CallerEffect
    <3>2. ~Closer(c)' /\ caller'[c].new = made + 1 /\ Others(c)
      BY <1>2, <3>1
    <3>3. /\ made + 1 \in Instances /\ ~inst'[made + 1].closed
          /\ \A i \in Made : i \in Instances /\ i # made + 1 /\ inst'[i] = inst[i]
      BY <1>1, <2>2, InstEffect DEF Sets, Made, Typed
    <3>4. UNCHANGED <<loaded, run, ending, panic>>
      BY <2>2 DEF Load, loopVars, clientVars
    <3>5. loaded \in Made \cup {None} /\ ending \in Made \cup {None} /\ (run = "close" => ending # None) /\ made + 1 # None
      BY DEF Bounded, Made, Typed, Instances, None
    <3>6. QED
      <4>1. MapOpen'
        BY <1>3, <3>2, <3>3, <3>4, <3>5 DEF Owned, MapOpen, EndOwned, NewOwned, OldOwned, Apart, Others
      <4>2. EndOwned'
        BY <1>3, <3>2, <3>3, <3>4, <3>5 DEF Owned, MapOpen, EndOwned, NewOwned, OldOwned, Apart, Others
      <4>3. NewOwned'
        BY <1>3, <3>2, <3>3, <3>4, <3>5 DEF Owned, MapOpen, EndOwned, NewOwned, OldOwned, Apart, Others
      <4>4. OldOwned'
        BY <1>3, <3>2, <3>3, <3>4, <3>5 DEF Owned, MapOpen, EndOwned, NewOwned, OldOwned, Apart, Others
      <4>5. Apart'
        BY <1>3, <3>2, <3>3, <3>4, <3>5 DEF Owned, MapOpen, EndOwned, NewOwned, OldOwned, Apart, Others
      <4>6. QED
        BY <1>3, <3>2, <3>3, <3>4, <3>5, <4>1, <4>2, <4>3, <4>4, <4>5 DEF Owned, Goal
  <2>3. CASE LoadFails(c) \/ Swap(c) \/ Remove(c) \/ StartWorker(c)
    <3>1. Idles(c) \/ Moves(c, "load", "load", None, None)
      BY <2>3, CallerEffect
    <3>2. ~Closer(c)' /\ ~Unmapped(c)' /\ Others(c)
      BY <1>2, <3>1 DEF Idles
    <3>3. UNCHANGED <<loaded, run, ending, panic>>
      BY <2>3 DEF LoadFails, Swap, Remove, StartWorker, loopVars
    <3>4. Shut
      <4>1. CASE StartWorker(c)
        <5>1. caller[c].new \in Made /\ Works(caller[c].new, "ready", inst[caller[c].new].job)
          BY <4>1, InstEffect
        <5>2. QED
          BY <1>1, <5>1, InstStays
      <4>2. CASE ~StartWorker(c)
        BY <2>3, <4>2 DEF LoadFails, Swap, Remove
      <4>3. QED
        BY <4>1, <4>2
    <3>5. QED
      BY <1>4, <3>2, <3>3, <3>4
  <2>4. CASE Take(c)
    <3>1. UNCHANGED <<inst, run, ending, panic>> /\ loaded' = None /\ caller[c].pc = "take"
      BY <2>4 DEF Take, loopVars
    <3>2. loaded \in Made \cup {None} /\ ending \in Made \cup {None} /\ (run = "close" => ending # None)
      BY DEF Bounded, Made, Typed, Instances, None
    <3>3. CASE Unloads(c)
      <4>1. ~Closer(c)' /\ (Unmapped(c)' => Unmapped(c) /\ caller'[c].new = caller[c].new) /\ Others(c)
        BY <1>2, <3>1, <3>3 DEF Unloads, Steps, Idles, Unmapped, HasNew, At
      <4>2. QED
        <5>1. MapOpen'
          BY <1>1, <1>3, <3>1, <3>2, <4>1 DEF Owned, MapOpen, EndOwned, NewOwned, OldOwned, Apart, Others
        <5>2. EndOwned'
          BY <1>1, <1>3, <3>1, <3>2, <4>1 DEF Owned, MapOpen, EndOwned, NewOwned, OldOwned, Apart, Others
        <5>3. NewOwned'
          BY <1>1, <1>3, <3>1, <3>2, <4>1 DEF Owned, MapOpen, EndOwned, NewOwned, OldOwned, Apart, Others
        <5>4. OldOwned'
          BY <1>1, <1>3, <3>1, <3>2, <4>1 DEF Owned, MapOpen, EndOwned, NewOwned, OldOwned, Apart, Others
        <5>5. Apart'
          BY <1>1, <1>3, <3>1, <3>2, <4>1 DEF Owned, MapOpen, EndOwned, NewOwned, OldOwned, Apart, Others
        <5>6. QED
          BY <1>1, <1>3, <3>1, <3>2, <4>1, <5>1, <5>2, <5>3, <5>4, <5>5 DEF Owned, Goal
    <3>4. CASE loaded # None /\ Moves(c, caller[c].op, "close", caller[c].new, loaded)
      <4>1. Closer(c)' /\ caller'[c].old = loaded /\ Others(c)
            /\ (Unmapped(c)' => Unmapped(c)) /\ caller'[c].new = caller[c].new
        BY <1>2, <3>1, <3>4 DEF Unmapped, HasNew, At
      <4>2. QED
        <5>1. MapOpen'
          BY <1>1, <1>3, <3>1, <3>2, <3>4, <4>1 DEF Owned, MapOpen, EndOwned, NewOwned, OldOwned, Apart, Others
        <5>2. EndOwned'
          BY <1>1, <1>3, <3>1, <3>2, <3>4, <4>1 DEF Owned, MapOpen, EndOwned, NewOwned, OldOwned, Apart, Others
        <5>3. NewOwned'
          BY <1>1, <1>3, <3>1, <3>2, <3>4, <4>1 DEF Owned, MapOpen, EndOwned, NewOwned, OldOwned, Apart, Others
        <5>4. OldOwned'
          BY <1>1, <1>3, <3>1, <3>2, <3>4, <4>1 DEF Owned, MapOpen, EndOwned, NewOwned, OldOwned, Apart, Others
        <5>5. Apart'
          BY <1>1, <1>3, <3>1, <3>2, <3>4, <4>1 DEF Owned, MapOpen, EndOwned, NewOwned, OldOwned, Apart, Others
        <5>6. QED
          BY <1>1, <1>3, <3>1, <3>2, <3>4, <4>1, <5>1, <5>2, <5>3, <5>4, <5>5 DEF Owned, Goal
    <3>5. QED
      BY <2>4, <3>3, <3>4, CallerEffect
  <2>5. CASE CloseQueue(c)
    <3>1. Steps(c, "wait") /\ caller[c].pc = "close"
      BY <2>5, CallerEffect DEF CloseQueue
    <3>2. ~Closer(c)' /\ (Unmapped(c)' <=> Unmapped(c)) /\ caller'[c].new = caller[c].new /\ Others(c) /\ Closer(c)
      BY <1>2, <3>1 DEF Steps, Unmapped, Closer, HasNew, At
    <3>3. \A i \in Instances : i # caller[c].old => inst'[i] = inst[i]
      BY <1>1, <2>5, InstEffect, InstStays
    <3>4. UNCHANGED <<loaded, run, ending>> /\ panic' = IF inst[caller[c].old].closed THEN "close" ELSE panic
      BY <2>5 DEF CloseQueue, loopVars
    <3>5. loaded \in Made \cup {None} /\ ending \in Made \cup {None} /\ (run = "close" => ending # None)
      BY DEF Bounded, Made, Typed, Instances, None
    <3>6. panic' = panic
      BY <3>2, <3>4 DEF Owned, OldOwned
    <3>7. QED
      <4>1. MapOpen'
        BY <1>1, <1>3, <3>2, <3>3, <3>4, <3>5, <3>6 DEF Owned, MapOpen, EndOwned, NewOwned, OldOwned, Apart, Others
      <4>2. EndOwned'
        BY <1>1, <1>3, <3>2, <3>3, <3>4, <3>5, <3>6 DEF Owned, MapOpen, EndOwned, NewOwned, OldOwned, Apart, Others
      <4>3. NewOwned'
        BY <1>1, <1>3, <3>2, <3>3, <3>4, <3>5, <3>6 DEF Owned, MapOpen, EndOwned, NewOwned, OldOwned, Apart, Others
      <4>4. OldOwned'
        BY <1>1, <1>3, <3>2, <3>3, <3>4, <3>5, <3>6 DEF Owned, MapOpen, EndOwned, NewOwned, OldOwned, Apart, Others
      <4>5. Apart'
        BY <1>1, <1>3, <3>2, <3>3, <3>4, <3>5, <3>6 DEF Owned, MapOpen, EndOwned, NewOwned, OldOwned, Apart, Others
      <4>6. QED
        BY <1>1, <1>3, <3>2, <3>3, <3>4, <3>5, <3>6, <4>1, <4>2, <4>3, <4>4, <4>5 DEF Owned, Goal
  <2>6. CASE Wait(c)
    <3>1. Unloads(c) /\ caller[c].pc = "wait"
      BY <2>6, CallerEffect DEF Wait
    <3>2. ~Closer(c)' /\ (Unmapped(c)' => Unmapped(c) /\ caller'[c].new = caller[c].new) /\ Others(c)
      BY <1>2, <3>1 DEF Unloads, Steps, Idles, Unmapped, HasNew, At
    <3>3. UNCHANGED <<loaded, run, ending, panic>>
      BY <2>6 DEF Wait, loopVars
    <3>4. Shut
      <4>1. caller[c].old \in Made /\ Frees(caller[c].old)
        BY <2>6, InstEffect
      <4>2. QED
        BY <1>1, <4>1, InstStays
    <3>5. QED
      BY <1>4, <3>2, <3>3, <3>4
  <2>7. CASE Insert(c)
    <3>1. Steps(c, "start") /\ caller[c].pc = "insert"
      BY <2>7, CallerEffect DEF Insert
    <3>2. ~Closer(c)' /\ ~Unmapped(c)' /\ Others(c) /\ Unmapped(c)
      BY <1>2, <3>1 DEF Steps, Unmapped, HasNew, At, Typed, OnScript
    <3>3. UNCHANGED <<inst, run, ending, panic>> /\ loaded' = caller[c].new
      BY <2>7 DEF Insert, loopVars
    <3>4. \A d \in Callers : Unmapped(d) /\ d # c => caller[d].new # caller[c].new
      BY <3>2 DEF WorkersOwned, Unmapped
    <3>5. QED
      <4>1. MapOpen'
        BY <1>1, <1>3, <3>2, <3>3, <3>4 DEF Owned, MapOpen, EndOwned, NewOwned, OldOwned, Apart, Others
      <4>2. EndOwned'
        BY <1>1, <1>3, <3>2, <3>3, <3>4 DEF Owned, MapOpen, EndOwned, NewOwned, OldOwned, Apart, Others
      <4>3. NewOwned'
        BY <1>1, <1>3, <3>2, <3>3, <3>4 DEF Owned, MapOpen, EndOwned, NewOwned, OldOwned, Apart, Others
      <4>4. OldOwned'
        BY <1>1, <1>3, <3>2, <3>3, <3>4 DEF Owned, MapOpen, EndOwned, NewOwned, OldOwned, Apart, Others
      <4>5. Apart'
        BY <1>1, <1>3, <3>2, <3>3, <3>4 DEF Owned, MapOpen, EndOwned, NewOwned, OldOwned, Apart, Others
      <4>6. QED
        BY <1>1, <1>3, <3>2, <3>3, <3>4, <4>1, <4>2, <4>3, <4>4, <4>5 DEF Owned, Goal
  <2>8. QED
    BY <1>6, <2>1, <2>2, <2>3, <2>4, <2>5, <2>6, <2>7 DEF CallerStep
<1>7. ASSUME UNCHANGED <<caller, loaded, run, ending, panic>>, Shut
      PROVE  Goal
  BY <1>1, <1>3, <1>7 DEF Owned, MapOpen, EndOwned, NewOwned, OldOwned, Apart, Goal, Unmapped, Closer, HasNew, At, Bounded, Made, Typed, Instances, None
<1>8. CASE Register
  BY <1>7, <1>8 DEF Register, loopVars, clientVars
<1>9. ASSUME NEW i \in Instances, WorkerStep(i)
      PROVE  Goal
  <2>1. UNCHANGED <<caller, loaded, run, ending, panic>>
    BY <1>9 DEF WorkerStep, WorkerTakes, WorkerFinishes, WorkerEnds, loopVars
  <2>2. Shut
    <3>1. CASE WorkerTakes(i)
      <4>1. Sets(i, Tail(inst[i].queue), inst[i].closed, "busy", Head(inst[i].queue), inst[i].vm)
        BY <3>1, InstEffect
      <4>2. QED
        BY <4>1 DEF Sets
    <3>2. CASE WorkerFinishes(i) \/ WorkerEnds(i)
      BY <3>2, InstEffect, InstStays
    <3>3. QED
      BY <1>9, <3>1, <3>2 DEF WorkerStep
  <2>3. QED
    BY <1>7, <2>1, <2>2
<1>10. CASE DispatchTargets \/ CancelRun
  BY <1>7, <1>10 DEF DispatchTargets, CancelRun, clientVars
<1>11. CASE DispatchSend
  <2>1. UNCHANGED <<caller, loaded, run, ending>> /\ panic' \in {"send", panic}
    BY <1>11 DEF DispatchSend, clientVars
  <2>2. Shut
    BY <1>1, <1>11, InstEffect, InstStays
  <2>3. QED
    BY <1>1, <1>3, <2>1, <2>2 DEF Owned, MapOpen, EndOwned, NewOwned, OldOwned, Apart, Goal, Unmapped, Closer, HasNew, At, Bounded, Made, Typed, Instances, None
<1>12. CASE RunLoop
  <2>1. UNCHANGED <<caller, loaded, inst, ending, panic>> /\ run' = "loop"
    BY <1>12 DEF RunLoop, clientVars
  <2>2. QED
    BY <2>1 DEF Owned, MapOpen, EndOwned, NewOwned, OldOwned, Apart, Goal, Unmapped, Closer, HasNew, At
<1>13. CASE ShutdownTake
  <2>1. /\ UNCHANGED <<caller, inst, panic>> /\ loaded' = None /\ ending' = loaded
        /\ run' = IF loaded = None THEN "wait" ELSE "close"
    BY <1>13 DEF ShutdownTake, clientVars
  <2>2. QED
    BY <1>1, <1>3, <2>1 DEF Owned, MapOpen, EndOwned, NewOwned, OldOwned, Apart, Goal, Unmapped, Closer, HasNew, At
<1>14. CASE ShutdownClose
  <2>1. /\ UNCHANGED <<caller, loaded, ending>> /\ run = "close" /\ run' = "wait"
        /\ panic' = IF inst[ending].closed THEN "close" ELSE panic
    BY <1>14 DEF ShutdownClose, clientVars
  <2>2. \A i \in Instances : i # ending => inst'[i] = inst[i]
    BY <1>1, <1>14, InstEffect, InstStays
  <2>3. loaded \in Made \cup {None}
    BY DEF Bounded, Made, Typed, Instances, None
  <2>4. QED
    BY <1>1, <1>3, <2>1, <2>2, <2>3 DEF Owned, MapOpen, EndOwned, NewOwned, OldOwned, Apart, Goal, Unmapped, Closer, HasNew, At
<1>15. CASE ShutdownDone
  <2>1. UNCHANGED <<caller, loaded, ending, panic>> /\ run' = "stopped"
    BY <1>15 DEF ShutdownDone, clientVars
  <2>2. Shut
    BY <1>1, <1>15, InstEffect, InstStays
  <2>3. loaded \in Made \cup {None}
    BY DEF Bounded, Made, Typed, Instances, None
  <2>4. QED
    BY <1>1, <1>3, <2>1, <2>2, <2>3 DEF Owned, MapOpen, EndOwned, NewOwned, OldOwned, Apart, Goal, Unmapped, Closer, HasNew, At
<1>16. ASSUME NEW k \in Clients, ClientLooksUp(k) \/ ClientStep(k) \/ ClientGivesUp(k)
       PROVE  Goal
  <2>1. UNCHANGED <<caller, loaded, run, ending, panic>>
    BY <1>16 DEF ClientStep, ClientLooksUp, ClientSends, ClientIsRefused, ClientIsAnswered, WorkerIsGone, ClientGivesUp, loopVars
  <2>2. Shut
    <3>1. CASE ClientSends(k)
      BY <1>1, <3>1, InstEffect, InstStays
    <3>2. CASE ~ClientSends(k)
      BY <1>16, <3>2 DEF ClientStep, ClientLooksUp, ClientIsRefused, ClientIsAnswered, WorkerIsGone, ClientGivesUp
    <3>3. QED
      BY <3>1, <3>2
  <2>3. QED
    BY <1>7, <2>1, <2>2
<1>17. QED
  BY <1>5, <1>6, <1>8, <1>9, <1>10, <1>11, <1>12, <1>13, <1>14, <1>15, <1>16, RequestIs DEF Next, RunStep

\* An ended worker stays ended: its queue is closed and empty, and nothing is added to a closed queue.
LEMMA EndedKept ==
    ASSUME Sizes, Typed, Bounded, WorkersOwned, Next
    PROVE  \A i \in Instances : inst'[i].worker = "ended" => inst'[i].closed /\ inst'[i].queue = << >>
<1> DEFINE Ends == \A i \in Instances : inst'[i].worker = "ended" => inst'[i].closed /\ inst'[i].queue = << >>
<1>1. Made \subseteq Instances
  BY MadeInstances
<1>2. \A i \in Instances : inst[i].worker = "ended" => inst[i].closed /\ inst[i].queue = << >>
  BY DEF WorkersOwned
<1> SUFFICES Ends
  OBVIOUS
<1> HIDE DEF Ends
<1>3. ASSUME NEW i \in Instances, inst'[i].worker = "ended" => inst'[i].closed /\ inst'[i].queue = << >>,
             \A j \in Instances \ {i} : inst'[j] = inst[j]
      PROVE  Ends
  BY <1>2, <1>3 DEF Ends
<1>4. ASSUME \A i \in Instances : /\ inst'[i].worker = inst[i].worker /\ inst'[i].queue = inst[i].queue
                                  /\ inst[i].closed => inst'[i].closed
      PROVE  Ends
  BY <1>2, <1>4 DEF Ends
<1>5. ASSUME NEW c \in Callers, Load(c) \/ CloseQueue(c) \/ Wait(c) \/ StartWorker(c)
      PROVE  Ends
  <2>1. CASE Load(c)
    <3>1. made + 1 \in Instances /\ Sets(made + 1, << >>, FALSE, "unstarted", Event, "open")
      BY <2>1, InstEffect
    <3>2. QED
      BY <1>3, <3>1 DEF Sets
  <2>2. CASE CloseQueue(c)
    <3>1. caller[c].old \in Instances /\ Closes(caller[c].old)
      BY <1>1, <2>2, InstEffect
    <3>2. QED
      BY <1>4, <3>1 DEF Closes, Sets
  <2>3. CASE Wait(c)
    <3>1. caller[c].old \in Instances /\ Frees(caller[c].old)
      BY <1>1, <2>3, InstEffect
    <3>2. QED
      BY <1>4, <3>1 DEF Frees, Sets
  <2>4. CASE StartWorker(c)
    <3>1. caller[c].new \in Instances /\ Works(caller[c].new, "ready", inst[caller[c].new].job)
      BY <1>1, <2>4, InstEffect
    <3>2. QED
      BY <1>3, <3>1 DEF Works, Sets
  <2>5. QED
    BY <1>5, <2>1, <2>2, <2>3, <2>4
<1>6. ASSUME NEW i \in Instances, WorkerStep(i)
      PROVE  Ends
  <2>1. CASE WorkerTakes(i)
    <3>1. Sets(i, Tail(inst[i].queue), inst[i].closed, "busy", Head(inst[i].queue), inst[i].vm)
      BY <2>1, InstEffect
    <3>2. QED
      BY <1>3, <3>1 DEF Sets
  <2>2. CASE WorkerFinishes(i)
    <3>1. Works(i, "ready", Event)
      BY <2>2, InstEffect
    <3>2. QED
      BY <1>3, <3>1 DEF Works, Sets
  <2>3. CASE WorkerEnds(i)
    <3>1. Works(i, "ended", inst[i].job) /\ inst[i].closed /\ inst[i].queue = << >>
      BY <2>3, InstEffect DEF WorkerEnds
    <3>2. QED
      BY <1>3, <3>1 DEF Works, Sets
  <2>4. QED
    BY <1>6, <2>1, <2>2, <2>3 DEF WorkerStep
<1>7. ASSUME NEW i \in Instances, NEW job, Queues(i, job), ~inst[i].closed
      PROVE  Ends
  BY <1>2, <1>3, <1>7 DEF Queues, Sets
<1>8. CASE inst' = inst
  BY <1>4, <1>8
<1>9. CASE DispatchSend
  <2>1. target \in Instances /\ (inst' = inst \/ Queues(target, Event))
    BY <1>1, <1>9, InstEffect
  <2>2. inst' = inst \/ ~inst[target].closed
    BY <1>9 DEF DispatchSend
  <2>3. QED
    BY <1>7, <1>8, <2>1, <2>2
<1>10. CASE ShutdownClose
  <2>1. ending \in Instances /\ Closes(ending)
    BY <1>1, <1>10, InstEffect
  <2>2. QED
    BY <1>4, <2>1 DEF Closes, Sets
<1>11. CASE ShutdownDone
  <2>1. inst' = inst \/ (ending \in Instances /\ Frees(ending))
    BY <1>1, <1>11, InstEffect
  <2>2. CASE ending \in Instances /\ Frees(ending)
    BY <1>4, <2>2 DEF Frees, Sets
  <2>3. QED
    BY <1>8, <2>1, <2>2
<1>12. ASSUME NEW k \in Clients, ClientSends(k)
       PROVE  Ends
  <2>1. client[k].of \in Instances /\ Queues(client[k].of, k) /\ ~inst[client[k].of].closed
    BY <1>1, <1>12, InstEffect DEF ClientSends
  <2>2. QED
    BY <1>7, <2>1
<1>13. QED
  BY <1>5, <1>6, <1>8, <1>9, <1>10, <1>11, <1>12, WhoMoves

\* Apart from the one that loads an instance and the one that starts its worker,
\* no step changes who has which instance in hand.
LEMMA HandsKept ==
    ASSUME Sizes, Typed, Bounded, Next, ~ \E c \in Callers : Load(c) \/ StartWorker(c)
    PROVE  \A d \in Callers : (HasNew(d)' <=> HasNew(d)) /\ (HasNew(d) => caller'[d].new = caller[d].new)
<1> DEFINE Keeps(d) == (HasNew(d)' <=> HasNew(d)) /\ (HasNew(d) => caller'[d].new = caller[d].new)
           Goal == \A d \in Callers : Keeps(d)
<1> SUFFICES Goal
  OBVIOUS
<1> HIDE DEF Goal
<1>1. ASSUME NEW c \in Callers, NEW op, NEW pc, NEW new, NEW old, Moves(c, op, pc, new, old),
             HasNew(c) <=> op = "load" /\ pc \in {"take", "close", "wait", "insert", "start"},
             HasNew(c) => new = caller[c].new
      PROVE  Goal
  <2>1. \A d \in Callers \ {c} : Keeps(d)
    BY <1>1 DEF Moves, HasNew, At
  <2>2. Keeps(c)
    BY <1>1 DEF Moves, HasNew, At
  <2>3. QED
    BY <2>1, <2>2 DEF Goal
<1>2. ASSUME NEW c \in Callers, Begins(c)
      PROVE  Goal
  <2>1. PICK op \in Ops, pc \in Pcs : Legal(op, pc) /\ Begin(c, op, pc)
    BY <1>2 DEF Begins
  <2>2. Moves(c, op, pc, None, None)
    BY <2>1, CallerEffect
  <2>3. ~HasNew(c) /\ ~(op = "load" /\ pc \in {"take", "close", "wait", "insert", "start"})
    BY <2>1 DEF Legal, Begin, HasNew, At
  <2>4. QED
    BY <1>1, <2>2, <2>3
<1>3. ASSUME NEW c \in Callers, CallerStep(c)
      PROVE  Goal
  <2>1. CASE WriteEnabled(c)
    <3>1. (caller[c].pc = "enable" /\ Steps(c, "load")) \/ (caller[c].op = "stop" /\ caller[c].pc = "disable" /\ Steps(c, "take"))
      BY <2>1, CallerEffect DEF Typed, OnScript
    <3>2. QED
      BY <1>1, <3>1 DEF Steps, HasNew, At
  <2>2. CASE LoadFails(c) \/ Swap(c) \/ Remove(c)
    <3>1. Moves(c, "stop", "idle", None, None) \/ Moves(c, "load", "load", None, None)
      BY <2>2, CallerEffect DEF Idles
    <3>2. ~HasNew(c)
      BY <2>2 DEF LoadFails, Swap, Remove, HasNew, At
    <3>3. QED
      BY <1>1, <3>1, <3>2
  <2>3. ASSUME Unloads(c), caller[c].pc \in {"take", "wait"}
        PROVE  Goal
    <3>1. CASE Steps(c, "insert") /\ caller[c].op = "load"
      BY <1>1, <2>3, <3>1 DEF Steps, HasNew, At
    <3>2. CASE Idles(c) /\ caller[c].op = "stop"
      BY <1>1, <3>2 DEF Idles, HasNew, At
    <3>3. CASE Steps(c, "swap") /\ caller[c].op = "update"
      BY <1>1, <3>3 DEF Steps, HasNew, At
    <3>4. CASE Steps(c, "remove") /\ caller[c].op = "uninstall"
      BY <1>1, <3>4 DEF Steps, HasNew, At
    <3>5. QED
      BY <2>3, <3>1, <3>2, <3>3, <3>4 DEF Unloads
  <2>4. CASE Take(c)
    <3>1. caller[c].pc = "take"
      BY <2>4 DEF Take
    <3>2. CASE Moves(c, caller[c].op, "close", caller[c].new, loaded)
      BY <1>1, <3>1, <3>2 DEF HasNew, At
    <3>3. QED
      BY <2>3, <2>4, <3>1, <3>2, CallerEffect
  <2>5. CASE Wait(c)
    <3>1. caller[c].pc = "wait" /\ Unloads(c)
      BY <2>5, CallerEffect DEF Wait
    <3>2. QED
      BY <2>3, <3>1
  <2>6. CASE CloseQueue(c)
    <3>1. Steps(c, "wait") /\ caller[c].pc = "close"
      BY <2>6, CallerEffect DEF CloseQueue
    <3>2. QED
      BY <1>1, <3>1 DEF Steps, HasNew, At
  <2>7. CASE Insert(c)
    <3>1. Steps(c, "start") /\ caller[c].pc = "insert"
      BY <2>7, CallerEffect DEF Insert
    <3>2. QED
      BY <1>1, <3>1 DEF Steps, HasNew, At
  <2>8. QED
    BY <1>3, <2>1, <2>2, <2>4, <2>5, <2>6, <2>7 DEF CallerStep
<1>4. CASE caller' = caller
  BY <1>4 DEF Goal, HasNew, At
<1>5. QED
  BY <1>2, <1>3, <1>4, WhoMoves

\* Nor does it start a worker.
LEMMA NobodyStarts ==
    ASSUME Sizes, Typed, Bounded, Next, ~ \E c \in Callers : Load(c) \/ StartWorker(c)
    PROVE  made' = made /\ \A i \in Instances : inst'[i].worker = "unstarted" <=> inst[i].worker = "unstarted"
<1> DEFINE Same == \A i \in Instances : inst'[i].worker = "unstarted" <=> inst[i].worker = "unstarted"
<1>1. Made \subseteq Instances
  BY MadeInstances
<1> SUFFICES Same
  BY WhoMoves
<1> HIDE DEF Same
<1>2. ASSUME \A i \in Instances : inst'[i].worker = inst[i].worker
      PROVE  Same
  BY <1>2 DEF Same
<1>3. ASSUME NEW c \in Callers, CloseQueue(c) \/ Wait(c)
      PROVE  Same
  <2>1. caller[c].old \in Instances /\ (Closes(caller[c].old) \/ Frees(caller[c].old))
    BY <1>1, <1>3, InstEffect
  <2>2. QED
    BY <1>2, <2>1, InstStays
<1>4. ASSUME NEW i \in Instances, WorkerStep(i)
      PROVE  Same
  <2>1. inst[i].worker \in Started
    BY <1>4 DEF WorkerStep, WorkerTakes, WorkerFinishes, WorkerEnds, Started
  <2>2. CASE WorkerTakes(i)
    <3>1. Sets(i, Tail(inst[i].queue), inst[i].closed, "busy", Head(inst[i].queue), inst[i].vm)
      BY <2>2, InstEffect
    <3>2. inst'[i].worker = "busy" /\ \A j \in Instances \ {i} : inst'[j] = inst[j]
      BY <3>1 DEF Sets
    <3>3. QED
      BY <2>1, <3>2 DEF Same, Started
  <2>3. CASE WorkerFinishes(i) \/ WorkerEnds(i)
    <3>1. Works(i, "ready", Event) \/ Works(i, "ended", inst[i].job)
      BY <2>3, InstEffect
    <3>2. inst'[i].worker \in {"ready", "ended"} /\ \A j \in Instances \ {i} : inst'[j] = inst[j]
      BY <3>1 DEF Works, Sets
    <3>3. QED
      BY <2>1, <3>2 DEF Same, Started
  <2>4. QED
    BY <1>4, <2>2, <2>3 DEF WorkerStep
<1>5. CASE DispatchSend
  BY <1>1, <1>2, <1>5, InstEffect, InstStays
<1>6. CASE ShutdownClose
  BY <1>1, <1>2, <1>6, InstEffect, InstStays
<1>7. CASE ShutdownDone
  BY <1>1, <1>2, <1>7, InstEffect, InstStays
<1>8. ASSUME NEW k \in Clients, ClientSends(k)
      PROVE  Same
  BY <1>1, <1>2, <1>8, InstEffect, InstStays
<1>9. QED
  BY <1>2, <1>3, <1>4, <1>5, <1>6, <1>7, <1>8, WhoMoves

\* A worker is started by the one that has its instance in hand, and by nobody twice.
LEMMA WorkersKept ==
    ASSUME Sizes, Typed, Bounded, WorkersOwned, Next
    PROVE  WorkersOwned'
<1> DEFINE Ends == \A i \in Instances : inst'[i].worker = "ended" => inst'[i].closed /\ inst'[i].queue = << >>
<1>1. Made \subseteq Instances
  BY MadeInstances
<1>2. \A c \in Callers : HasNew(c) => caller[c].new \in Made
  BY DEF Bounded
<1>3. Ends
  BY EndedKept
<1> HIDE DEF Ends
<1>4. ASSUME NEW c \in Callers, Load(c)
      PROVE  WorkersOwned'
  <2>1. Moves(c, caller[c].op, "take", made + 1, caller[c].old) /\ caller[c].op = "load" /\ caller[c].pc = "load"
    BY <1>4, CallerEffect DEF Load, Typed, OnScript
  <2>2. made + 1 \in Instances /\ Sets(made + 1, << >>, FALSE, "unstarted", Event, "open") /\ made' = made + 1
    BY <1>4, InstEffect DEF Load
  <2>3. Made' = Made \cup {made + 1} /\ made + 1 \notin Made
    BY <2>2 DEF Made, Typed
  <2>4. inst'[made + 1].worker = "unstarted" /\ \A i \in Made : inst'[i] = inst[i]
    BY <1>1, <2>2, <2>3 DEF Sets
  <2>5. /\ ~HasNew(c) /\ HasNew(c)' /\ caller'[c].new = made + 1
        /\ \A d \in Callers \ {c} : (HasNew(d)' <=> HasNew(d)) /\ caller'[d].new = caller[d].new
    BY <2>1 DEF Moves, HasNew, At
  <2>6. \A d \in Callers : HasNew(d)' => inst'[caller'[d].new].worker = "unstarted"
    BY <1>2, <2>4, <2>5 DEF WorkersOwned
  <2>7. \A d, e \in Callers : HasNew(d)' /\ HasNew(e)' /\ d # e => caller'[d].new # caller'[e].new
    BY <1>2, <2>3, <2>5 DEF WorkersOwned
  <2>8. ASSUME NEW i \in Made', inst'[i].worker = "unstarted"
        PROVE  \E d \in Callers : HasNew(d)' /\ caller'[d].new = i
    <3>1. CASE i = made + 1
      BY <2>5, <3>1
    <3>2. CASE i \in Made
      <4>1. inst[i].worker = "unstarted"
        BY <2>4, <2>8, <3>2
      <4>2. PICK d \in Callers : HasNew(d) /\ caller[d].new = i
        BY <3>2, <4>1 DEF WorkersOwned
      <4>3. QED
        BY <2>5, <4>2
    <3>3. QED
      BY <2>3, <2>8, <3>1, <3>2
  <2>9. QED
    BY <1>3, <2>6, <2>7, <2>8 DEF WorkersOwned, Ends
<1>5. ASSUME NEW c \in Callers, StartWorker(c)
      PROVE  WorkersOwned'
  <2>1. Idles(c) /\ HasNew(c)
    BY <1>5, CallerEffect DEF StartWorker, HasNew, At, Typed, OnScript
  <2>2. caller[c].new \in Made /\ Works(caller[c].new, "ready", inst[caller[c].new].job) /\ made' = made
    BY <1>5, InstEffect DEF StartWorker
  <2>3. Made' = Made
    BY <2>2 DEF Made
  <2>4. inst'[caller[c].new].worker = "ready" /\ \A i \in Instances : i # caller[c].new => inst'[i] = inst[i]
    BY <2>2 DEF Works, Sets
  <2>5. ~HasNew(c)' /\ \A d \in Callers \ {c} : (HasNew(d)' <=> HasNew(d)) /\ caller'[d].new = caller[d].new
    BY <2>1 DEF Idles, Moves, HasNew, At
  <2>6. \A d \in Callers : HasNew(d) /\ d # c => caller[d].new \in Instances /\ caller[d].new # caller[c].new
    BY <1>1, <1>2, <2>1 DEF WorkersOwned
  <2>7. \A d \in Callers : HasNew(d)' => inst'[caller'[d].new].worker = "unstarted"
    BY <2>4, <2>5, <2>6 DEF WorkersOwned
  <2>8. \A d, e \in Callers : HasNew(d)' /\ HasNew(e)' /\ d # e => caller'[d].new # caller'[e].new
    BY <2>5 DEF WorkersOwned
  <2>9. ASSUME NEW i \in Made', inst'[i].worker = "unstarted"
        PROVE  \E d \in Callers : HasNew(d)' /\ caller'[d].new = i
    <3>1. i \in Made /\ i \in Instances /\ i # caller[c].new /\ inst[i].worker = "unstarted"
      BY <1>1, <2>3, <2>4, <2>9
    <3>2. PICK d \in Callers : HasNew(d) /\ caller[d].new = i
      BY <3>1 DEF WorkersOwned
    <3>3. QED
      BY <2>5, <3>1, <3>2
  <2>10. QED
    BY <1>3, <2>7, <2>8, <2>9 DEF WorkersOwned, Ends
<1>6. CASE ~ \E c \in Callers : Load(c) \/ StartWorker(c)
  <2>1. \A d \in Callers : (HasNew(d)' <=> HasNew(d)) /\ (HasNew(d) => caller'[d].new = caller[d].new)
    BY <1>6, HandsKept
  <2>2. made' = made /\ \A i \in Instances : inst'[i].worker = "unstarted" <=> inst[i].worker = "unstarted"
    BY <1>6, NobodyStarts
  <2>3. Made' = Made
    BY <2>2 DEF Made
  <2>4. \A d \in Callers : HasNew(d)' => inst'[caller'[d].new].worker = "unstarted"
    BY <1>1, <1>2, <2>1, <2>2 DEF WorkersOwned
  <2>5. \A d, e \in Callers : HasNew(d)' /\ HasNew(e)' /\ d # e => caller'[d].new # caller'[e].new
    BY <2>1 DEF WorkersOwned
  <2>6. \A i \in Made' : inst'[i].worker = "unstarted" => \E d \in Callers : HasNew(d)' /\ caller'[d].new = i
    BY <1>1, <2>1, <2>2, <2>3 DEF WorkersOwned
  <2>7. QED
    BY <1>3, <2>4, <2>5, <2>6 DEF WorkersOwned, Ends
<1>7. QED
  BY <1>4, <1>5, <1>6

-----------------------------------------------------------------------------
(***************************************************************************)
(* A client that waits has its reply, or its job is in the queue or with   *)
(* the worker.                                                             *)
(***************************************************************************)
Has(q, k) == \E n \in DOMAIN q : q[n] = k
Pending(k, i) == Has(inst[i].queue, k) \/ (inst[i].worker = "busy" /\ inst[i].job = k)
Fine(k) ==
  /\ client[k].pc # "unloaded"
  /\ client[k].pc = "await" => k \in replied \/ Pending(k, client[k].of)
Answered == \A k \in Clients : Fine(k)

LEMMA SetsTo ==
    ASSUME NEW i \in Instances, NEW queue, NEW closed, NEW worker, NEW job, NEW vm,
           Sets(i, queue, closed, worker, job, vm)
    PROVE  /\ inst'[i].queue = queue /\ inst'[i].closed = closed /\ inst'[i].worker = worker
           /\ inst'[i].job = job /\ inst'[i].vm = vm
BY DEF Sets

LEMMA HasAppend ==
    ASSUME NEW q \in Seq(Jobs), NEW j \in Jobs, NEW k
    PROVE  Has(Append(q, j), k) <=> Has(q, k) \/ j = k
<1> DEFINE a == Append(q, j)
<1>1. Len(a) = Len(q) + 1 /\ a \in Seq(Jobs) /\ a[Len(a)] = j /\ \A n \in 1 .. Len(q) : a[n] = q[n]
  OBVIOUS
<1>2. DOMAIN q = 1 .. Len(q) /\ DOMAIN a = 1 .. Len(a) /\ Len(q) \in Nat
  BY <1>1
<1> HIDE DEF a
<1>3. Has(a, k) <=> Has(q, k) \/ j = k
  BY <1>1, <1>2 DEF Has
<1>4. QED
  BY <1>3 DEF a

LEMMA HasTail ==
    ASSUME NEW q \in Seq(Jobs), q # << >>, NEW k, Has(q, k)
    PROVE  Head(q) = k \/ Has(Tail(q), k)
<1>1. PICK n \in 1 .. Len(q) : q[n] = k
  BY DEF Has
<1>2. CASE n = 1
  BY <1>1, <1>2
<1>3. CASE n # 1
  <2>1. n - 1 \in 1 .. Len(q) - 1 /\ Len(Tail(q)) = Len(q) - 1 /\ Tail(q) \in Seq(Jobs)
    BY <1>1, <1>3
  <2>2. n - 1 \in DOMAIN Tail(q)
    BY <2>1
  <2>3. Tail(q)[n - 1] = q[n]
    BY <1>1, <2>1
  <2>4. QED
    BY <1>1, <2>2, <2>3 DEF Has
<1>4. QED
  BY <1>2, <1>3

\* No step loses a job: it stays in the queue, goes to the worker, or is answered.
LEMMA PendingKept ==
    ASSUME Sizes, Typed, Bounded, WorkersOwned, Next, NEW k \in Clients, NEW i \in Made, Pending(k, i)
    PROVE  k \in replied' \/ Pending(k, i)'
<1> DEFINE Goal == k \in replied' \/ Pending(k, i)'
<1>1. Made \subseteq Instances /\ i \in Instances
  BY MadeInstances
<1>2. inst[i].queue \in Seq(Jobs) /\ inst[i].job \in Jobs /\ Event \in Jobs /\ Clients \subseteq Jobs /\ k # Event
  BY <1>1 DEF Typed, AnyInst, Jobs, Sizes
<1> SUFFICES Goal
  OBVIOUS
<1> HIDE DEF Goal
<1>3. CASE inst'[i].queue = inst[i].queue /\ inst'[i].worker = inst[i].worker /\ inst'[i].job = inst[i].job
  BY <1>3 DEF Pending, Goal
<1>4. CASE inst'[i] = inst[i]
  BY <1>3, <1>4
<1>5. ASSUME NEW job \in Jobs, Queues(i, job)
      PROVE  Goal
  <2>1. /\ inst'[i].queue = Append(inst[i].queue, job) /\ inst'[i].worker = inst[i].worker
        /\ inst'[i].job = inst[i].job
    BY <1>5 DEF Queues, Sets
  <2>2. Has(inst[i].queue, k) => Has(inst'[i].queue, k)
    BY <1>2, <2>1, HasAppend
  <2>3. QED
    BY <2>1, <2>2 DEF Has, Pending, Goal
<1>6. ASSUME NEW j \in Instances, NEW job \in Jobs, Queues(j, job)
      PROVE  Goal
  BY <1>1, <1>4, <1>5, <1>6 DEF Queues, Sets
<1>7. ASSUME NEW c \in Callers, Load(c) \/ CloseQueue(c) \/ Wait(c) \/ StartWorker(c)
      PROVE  Goal
  <2>1. CASE Load(c)
    <3>1. Sets(made + 1, << >>, FALSE, "unstarted", Event, "open")
      BY <2>1, InstEffect
    <3>2. i # made + 1
      BY DEF Made, Typed
    <3>3. QED
      BY <1>1, <1>4, <3>1, <3>2 DEF Sets
  <2>2. CASE CloseQueue(c)
    <3>1. caller[c].old \in Instances /\ Closes(caller[c].old)
      BY <1>1, <2>2, InstEffect
    <3>2. QED
      BY <1>1, <1>3, <3>1, InstStays
  <2>3. CASE Wait(c)
    <3>1. caller[c].old \in Instances /\ Frees(caller[c].old)
      BY <1>1, <2>3, InstEffect
    <3>2. QED
      BY <1>1, <1>3, <3>1, InstStays
  <2>4. CASE StartWorker(c)
    <3>1. HasNew(c)
      BY <2>4 DEF StartWorker, HasNew, At, Typed, OnScript
    <3>2. inst[caller[c].new].worker = "unstarted"
      BY <3>1 DEF WorkersOwned
    <3>3. caller[c].new \in Instances /\ Works(caller[c].new, "ready", inst[caller[c].new].job)
      BY <1>1, <2>4, InstEffect
    <3>4. inst'[i].queue = inst[i].queue /\ (i # caller[c].new => inst'[i] = inst[i])
      BY <1>1, <3>3, InstStays
    <3>5. CASE i = caller[c].new
      <4>1. Has(inst[i].queue, k)
        BY <3>2, <3>5 DEF Pending
      <4>2. QED
        BY <3>4, <4>1 DEF Has, Pending, Goal
    <3>6. QED
      BY <1>4, <3>4, <3>5
  <2>5. QED
    BY <1>7, <2>1, <2>2, <2>3, <2>4
<1>8. ASSUME NEW j \in Instances, WorkerStep(j)
      PROVE  Goal
  <2>1. CASE i # j
    <3>1. inst'[i] = inst[i]
      BY <1>1, <1>8, <2>1, InstEffect DEF WorkerStep, Works, Sets
    <3>2. QED
      BY <1>4, <3>1
  <2>2. CASE i = j /\ WorkerTakes(i)
    <3>1. Sets(i, Tail(inst[i].queue), inst[i].closed, "busy", Head(inst[i].queue), inst[i].vm)
      BY <1>1, <2>2, InstEffect
    <3>2. inst'[i].queue = Tail(inst[i].queue) /\ inst'[i].worker = "busy" /\ inst'[i].job = Head(inst[i].queue)
      BY <1>1, <3>1, SetsTo
    <3>3. inst[i].worker = "ready" /\ inst[i].queue # << >>
      BY <2>2 DEF WorkerTakes
    <3>4. Has(inst[i].queue, k)
      BY <3>3 DEF Pending
    <3>5. Head(inst[i].queue) = k \/ Has(Tail(inst[i].queue), k)
      BY <1>2, <3>3, <3>4, HasTail
    <3>6. CASE Head(inst[i].queue) = k
      BY <3>2, <3>6 DEF Pending, Goal
    <3>7. CASE Has(Tail(inst[i].queue), k)
      <4>1. Has(inst'[i].queue, k)
        BY <3>2, <3>7
      <4>2. QED
        BY <4>1 DEF Has, Pending, Goal
    <3>8. QED
      BY <3>5, <3>6, <3>7
  <2>3. CASE i = j /\ WorkerFinishes(i)
    <3>1. Works(i, "ready", Event)
      BY <1>1, <2>3, InstEffect
    <3>2. inst'[i].queue = inst[i].queue
      BY <3>1 DEF Works, Sets
    <3>3. replied' = replied \cup ({inst[i].job} \ {Event})
      BY <2>3 DEF WorkerFinishes
    <3>4. QED
      BY <1>2, <3>2, <3>3 DEF Pending, Goal
  <2>4. CASE i = j /\ WorkerEnds(i)
    <3>1. inst[i].worker = "ready" /\ inst[i].queue = << >>
      BY <2>4 DEF WorkerEnds
    <3>2. ~Pending(k, i)
      BY <3>1 DEF Pending, Has
    <3>3. QED
      BY <3>2
  <2>5. QED
    BY <1>8, <2>1, <2>2, <2>3, <2>4 DEF WorkerStep
<1>9. CASE DispatchSend
  <2>1. target \in Instances /\ (inst' = inst \/ Queues(target, Event))
    BY <1>1, <1>9, InstEffect
  <2>2. QED
    BY <1>2, <1>4, <1>6, <2>1
<1>10. CASE ShutdownClose
  <2>1. ending \in Instances /\ Closes(ending)
    BY <1>1, <1>10, InstEffect
  <2>2. QED
    BY <1>1, <1>3, <2>1, InstStays
<1>11. CASE ShutdownDone
  <2>1. inst' = inst \/ (ending \in Instances /\ Frees(ending))
    BY <1>1, <1>11, InstEffect
  <2>2. QED
    BY <1>1, <1>3, <2>1, InstStays
<1>12. ASSUME NEW l \in Clients, ClientSends(l)
       PROVE  Goal
  <2>1. client[l].of \in Instances /\ Queues(client[l].of, l)
    BY <1>1, <1>12, InstEffect
  <2>2. QED
    BY <1>2, <1>6, <2>1
<1>13. QED
  BY <1>4, <1>7, <1>8, <1>9, <1>10, <1>11, <1>12, WhoMoves

\* Replies stay where they are.
LEMMA RepliesStay ==
    ASSUME Next
    PROVE  replied \subseteq replied'
<1>1. ASSUME NEW c \in Callers, Begins(c) \/ CallerStep(c)
      PROVE  replied' = replied
  BY <1>1 DEF Begins, Begin, CallerStep, WriteEnabled, Load, LoadFails, Take, CloseQueue, Wait, Insert, StartWorker, Swap, Remove,
              clientVars
<1>2. Register \/ RunStep \/ DispatchTargets \/ CancelRun => replied' = replied
  BY DEF Register, RunStep, RunLoop, DispatchSend, DispatchTargets, CancelRun, ShutdownTake, ShutdownClose, ShutdownDone,
         clientVars
<1>3. ASSUME NEW i \in Instances, WorkerStep(i)
      PROVE  replied \subseteq replied'
  BY <1>3 DEF WorkerStep, WorkerTakes, WorkerFinishes, WorkerEnds, clientVars
<1>4. ASSUME NEW k \in Clients, ClientLooksUp(k) \/ ClientStep(k) \/ ClientGivesUp(k)
      PROVE  replied' = replied
  BY <1>4 DEF ClientStep, ClientLooksUp, ClientSends, ClientIsRefused, ClientIsAnswered, WorkerIsGone, ClientGivesUp
<1>5. QED
  BY <1>1, <1>2, <1>3, <1>4, RequestIs DEF Next

LEMMA AnsweredKept ==
    ASSUME Sizes, Typed, Bounded, WorkersOwned, Answered, Next
    PROVE  Answered'
<1>1. ASSUME NEW k \in Clients, client'[k] = client[k]
      PROVE  Fine(k)'
  <2>1. client[k].pc # "unloaded"
    BY DEF Answered, Fine
  <2>2. CASE client[k].pc = "await"
    <3>1. PICK i \in Made : i = client[k].of /\ (k \in replied \/ Pending(k, i))
      BY <2>2 DEF Answered, Fine, Bounded
    <3>2. CASE k \in replied
      <4>1. k \in replied'
        BY <3>2, RepliesStay
      <4>2. QED
        BY <1>1, <2>1, <4>1 DEF Fine
    <3>3. CASE Pending(k, i)
      <4>1. k \in replied' \/ Pending(k, i)'
        BY <3>3, PendingKept
      <4>2. client'[k].of = i
        BY <1>1, <3>1
      <4>3. QED
        BY <1>1, <2>1, <4>1, <4>2 DEF Fine, Pending
    <3>4. QED
      BY <3>1, <3>2, <3>3
  <2>3. QED
    BY <1>1, <2>1, <2>2 DEF Fine
<1>2. ASSUME NEW k \in Clients, NEW pc \in {"send", "done"}, NEW of, Turns(k, pc, of)
      PROVE  Answered'
  <2>1. client'[k].pc = pc
    BY <1>2 DEF Turns
  <2>2. Fine(k)'
    BY <2>1 DEF Fine
  <2>3. \A l \in Clients \ {k} : Fine(l)'
    BY <1>1, <1>2 DEF Turns
  <2>4. QED
    BY <2>2, <2>3 DEF Answered
<1>3. ASSUME NEW k \in Clients, ClientSends(k)
      PROVE  Answered'
  <2>1. Turns(k, "await", client[k].of) /\ client[k].of \in Made /\ Queues(client[k].of, k)
    BY <1>3, ClientEffect, InstEffect
  <2>2. client'[k].pc = "await" /\ client'[k].of = client[k].of
    BY <2>1 DEF Turns
  <2>3. inst[client[k].of].queue \in Seq(Jobs) /\ k \in Jobs
    BY <2>1, MadeInstances DEF Typed, AnyInst, Jobs
  <2>4. inst'[client[k].of].queue = Append(inst[client[k].of].queue, k)
    BY <2>1 DEF Queues, Sets
  <2>5. Has(inst'[client[k].of].queue, k)
    BY <2>3, <2>4, HasAppend
  <2>6. Fine(k)'
    BY <2>2, <2>5 DEF Fine, Has, Pending
  <2>7. \A l \in Clients \ {k} : Fine(l)'
    BY <1>1, <2>1 DEF Turns
  <2>8. QED
    BY <2>6, <2>7 DEF Answered
<1>4. ASSUME NEW k \in Clients
      PROVE  ~WorkerIsGone(k)
  <2>1. SUFFICES ASSUME WorkerIsGone(k)
                 PROVE  FALSE
    OBVIOUS
  <2>2. client[k].pc = "await" /\ inst[client[k].of].worker = "ended" /\ k \notin replied
    BY <2>1 DEF WorkerIsGone
  <2>3. client[k].of \in Instances /\ Pending(k, client[k].of)
    BY <2>2, MadeInstances DEF Bounded, Answered, Fine
  <2>4. inst[client[k].of].queue = << >>
    BY <2>2, <2>3 DEF WorkersOwned
  <2>5. QED
    BY <2>2, <2>3, <2>4 DEF Pending, Has
<1>5. ASSUME NEW k \in Clients, ClientLooksUp(k) \/ ClientStep(k) \/ ClientGivesUp(k)
      PROVE  Answered'
  <2>1. ClientSends(k) \/ Turns(k, "send", loaded) \/ Turns(k, "done", None)
    BY <1>4, <1>5, ClientEffect DEF ClientStep
  <2>2. QED
    BY <1>2, <1>3, <2>1
<1>6. CASE client' = client
  <2>1. \A k \in Clients : Fine(k)'
    BY <1>1, <1>6
  <2>2. QED
    BY <2>1 DEF Answered
<1>7. QED
  BY <1>5, <1>6, WhoMoves

-----------------------------------------------------------------------------
(***************************************************************************)
(* Once Run shuts down nothing else goes on, unless it is noted as a race; *)
(* a VM is closed after its worker has ended.                              *)
(***************************************************************************)
ShutsDown == run \in {"close", "wait", "stopped"}
Signalled == ShutsDown => ctxDone /\ ("shutdown" \notin raced => Quiet)
EndsFirst == "shutdown" \notin raced => \A i \in Instances : inst[i].vm = "closed" => inst[i].worker = "ended"

\* What overlaps is noted and never forgotten.
LEMMA Overlaps ==
    ASSUME Typed, Next
    PROVE  /\ raced \subseteq raced'
           /\ \A c \in Callers : Begins(c) => /\ Quiet \/ "requests" \in raced'
                                              /\ ctxDone => "shutdown" \in raced'
           /\ ShutdownTake => Quiet \/ "shutdown" \in raced'
           /\ ctxDone => ctxDone'
           /\ run' = run \/ RunLoop \/ ShutdownTake \/ ShutdownClose \/ ShutdownDone
<1> DEFINE Frame == UNCHANGED <<raced, ctxDone, run>>
<1>1. ASSUME NEW c \in Callers, Begins(c)
      PROVE  /\ raced' = raced \cup (IF Quiet THEN {} ELSE {"requests"}) \cup (IF ctxDone THEN {"shutdown"} ELSE {})
             /\ UNCHANGED <<ctxDone, run>>
  BY <1>1 DEF Begins, Begin, loopVars
<1>2. ASSUME NEW c \in Callers, CallerStep(c)
      PROVE  Frame
  BY <1>2 DEF CallerStep, WriteEnabled, Load, LoadFails, Take, CloseQueue, Wait, Insert, StartWorker, Swap, Remove, loopVars
<1>3. Register => Frame
  BY DEF Register, loopVars
<1>4. ASSUME NEW i \in Instances, WorkerStep(i)
      PROVE  Frame
  BY <1>4 DEF WorkerStep, WorkerTakes, WorkerFinishes, WorkerEnds, loopVars
<1>5. DispatchTargets \/ DispatchSend => Frame
  BY DEF DispatchTargets, DispatchSend
<1>6. CancelRun => UNCHANGED <<raced, run>> /\ ctxDone'
  BY DEF CancelRun
<1>7. RunLoop \/ ShutdownClose \/ ShutdownDone => UNCHANGED <<raced, ctxDone>>
  BY DEF RunLoop, ShutdownClose, ShutdownDone
<1>8. ShutdownTake => raced' = raced \cup (IF Quiet THEN {} ELSE {"shutdown"}) /\ ctxDone' = ctxDone
  BY DEF ShutdownTake, Race
<1>9. ASSUME NEW k \in Clients, ClientLooksUp(k) \/ ClientStep(k) \/ ClientGivesUp(k)
      PROVE  Frame
  BY <1>9 DEF ClientStep, ClientLooksUp, ClientSends, ClientIsRefused, ClientIsAnswered, WorkerIsGone, ClientGivesUp, loopVars
<1>10. raced \subseteq raced' /\ (ctxDone => ctxDone')
  BY <1>1, <1>2, <1>3, <1>4, <1>5, <1>6, <1>7, <1>8, <1>9, RequestIs DEF Next, RunStep
<1>11. run' = run \/ RunLoop \/ ShutdownTake \/ ShutdownClose \/ ShutdownDone
  BY <1>1, <1>2, <1>3, <1>4, <1>5, <1>6, <1>9, RequestIs DEF Next, RunStep
<1>12. QED
  BY <1>1, <1>8, <1>10, <1>11

\* A step of a request is made by one that is under way.
LEMMA Underway ==
    ASSUME NEW c \in Callers, CallerStep(c)
    PROVE  ~Quiet
BY DEF CallerStep, WriteEnabled, Load, LoadFails, Take, CloseQueue, Wait, Insert, StartWorker, Swap, Remove, Quiet

LEMMA SignalledKept ==
    ASSUME Sizes, Typed, Bounded, Signalled, Next
    PROVE  Signalled'
<1>1. ShutsDown' => ctxDone'
  <2>1. run' = run \/ RunLoop \/ ShutdownTake \/ ShutdownClose \/ ShutdownDone
    BY Overlaps
  <2>2. CASE run' = run
    BY <2>2, Overlaps DEF Signalled, ShutsDown
  <2>3. CASE RunLoop
    BY <2>3 DEF RunLoop, ShutsDown
  <2>4. CASE ShutdownTake
    BY <2>4 DEF ShutdownTake
  <2>5. CASE ShutdownClose \/ ShutdownDone
    BY <2>5 DEF ShutdownClose, ShutdownDone, Signalled, ShutsDown
  <2>6. QED
    BY <2>1, <2>2, <2>3, <2>4, <2>5
<1>2. ASSUME ShutsDown', "shutdown" \notin raced'
      PROVE  Quiet
  <2>1. "shutdown" \notin raced
    BY <1>2, Overlaps
  <2>2. CASE ShutsDown
    BY <2>1, <2>2 DEF Signalled
  <2>3. CASE ~ShutsDown
    <3>1. ShutdownTake
      BY <1>2, <2>3, Overlaps DEF ShutsDown, RunLoop, ShutdownClose, ShutdownDone
    <3>2. QED
      BY <1>2, <3>1, Overlaps
  <2>4. QED
    BY <2>2, <2>3
<1>3. ASSUME ShutsDown', "shutdown" \notin raced'
      PROVE  Quiet'
  <2>1. Quiet
    BY <1>2, <1>3
  <2>2. CASE caller' = caller
    BY <2>1, <2>2 DEF Quiet
  <2>3. ASSUME NEW c \in Callers, Begins(c)
        PROVE  FALSE
    <3>1. run' = run
      BY <2>3 DEF Begins, Begin, loopVars
    <3>2. ctxDone
      BY <1>3, <3>1 DEF Signalled, ShutsDown
    <3>3. QED
      BY <1>3, <2>3, <3>2, Overlaps
  <2>4. ASSUME NEW c \in Callers, CallerStep(c)
        PROVE  FALSE
    BY <2>1, <2>4, Underway
  <2>5. QED
    BY <2>2, <2>3, <2>4, WhoMoves
<1>4. QED
  BY <1>1, <1>3 DEF Signalled

LEMMA EndsFirstKept ==
    ASSUME Sizes, Typed, Bounded, WorkersOwned, Signalled, EndsFirst, Next
    PROVE  EndsFirst'
<1> DEFINE Goal == \A i \in Instances : inst'[i].vm = "closed" => inst'[i].worker = "ended"
<1> SUFFICES ASSUME "shutdown" \notin raced'
             PROVE  Goal
  BY DEF EndsFirst
<1> HIDE DEF Goal
<1>1. Made \subseteq Instances
  BY MadeInstances
<1>2. "shutdown" \notin raced /\ \A i \in Instances : inst[i].vm = "closed" => inst[i].worker = "ended"
  BY Overlaps DEF EndsFirst
<1>3. CASE \A i \in Instances : inst'[i].vm = inst[i].vm /\ inst'[i].worker = inst[i].worker
  BY <1>2, <1>3 DEF Goal
<1>4. ASSUME NEW i \in Instances, inst'[i].vm = "closed" => inst'[i].worker = "ended",
             \A j \in Instances \ {i} : inst'[j] = inst[j]
      PROVE  Goal
  BY <1>2, <1>4 DEF Goal
<1>5. ASSUME NEW i \in Instances, NEW worker, NEW job, Works(i, worker, job), inst[i].worker # "ended"
      PROVE  Goal
  <2>1. inst'[i].vm = inst[i].vm /\ \A j \in Instances \ {i} : inst'[j] = inst[j]
    BY <1>5 DEF Works, Sets
  <2>2. QED
    BY <1>2, <1>4, <1>5, <2>1
<1>6. ASSUME NEW i \in Instances, Frees(i), inst[i].worker = "ended"
      PROVE  Goal
  <2>1. inst'[i].worker = inst[i].worker /\ \A j \in Instances \ {i} : inst'[j] = inst[j]
    BY <1>6 DEF Frees, Sets
  <2>2. QED
    BY <1>4, <1>6, <2>1
<1>7. ASSUME NEW c \in Callers, Load(c) \/ CloseQueue(c) \/ Wait(c) \/ StartWorker(c)
      PROVE  Goal
  <2>1. CASE Load(c)
    <3>1. made + 1 \in Instances /\ Sets(made + 1, << >>, FALSE, "unstarted", Event, "open")
      BY <2>1, InstEffect
    <3>2. inst'[made + 1].vm = "open" /\ \A j \in Instances \ {made + 1} : inst'[j] = inst[j]
      BY <3>1 DEF Sets
    <3>3. QED
      BY <1>4, <3>1, <3>2
  <2>2. CASE CloseQueue(c)
    <3>1. caller[c].old \in Instances /\ Closes(caller[c].old)
      BY <1>1, <2>2, InstEffect
    <3>2. QED
      BY <1>3, <3>1, InstStays
  <2>3. CASE Wait(c)
    <3>1. caller[c].old \in Instances /\ Frees(caller[c].old)
      BY <1>1, <2>3, InstEffect
    <3>2. inst[caller[c].old].worker = "ended"
      BY <2>3 DEF Wait
    <3>3. QED
      BY <1>6, <3>1, <3>2
  <2>4. CASE StartWorker(c)
    <3>1. HasNew(c)
      BY <2>4 DEF StartWorker, HasNew, At, Typed, OnScript
    <3>2. inst[caller[c].new].worker = "unstarted"
      BY <3>1 DEF WorkersOwned
    <3>3. caller[c].new \in Instances /\ Works(caller[c].new, "ready", inst[caller[c].new].job)
      BY <1>1, <2>4, InstEffect
    <3>4. QED
      BY <1>5, <3>2, <3>3
  <2>5. QED
    BY <1>7, <2>1, <2>2, <2>3, <2>4
<1>8. ASSUME NEW i \in Instances, WorkerStep(i)
      PROVE  Goal
  <2>1. inst[i].worker \in {"ready", "busy"}
    BY <1>8 DEF WorkerStep, WorkerTakes, WorkerFinishes, WorkerEnds
  <2>2. CASE WorkerTakes(i)
    <3>1. Sets(i, Tail(inst[i].queue), inst[i].closed, "busy", Head(inst[i].queue), inst[i].vm)
      BY <2>2, InstEffect
    <3>2. inst'[i].vm = inst[i].vm
      BY <3>1, SetsTo
    <3>3. \A j \in Instances \ {i} : inst'[j] = inst[j]
      BY <3>1 DEF Sets
    <3>4. QED
      BY <1>2, <1>4, <2>1, <3>2, <3>3
  <2>3. CASE WorkerFinishes(i) \/ WorkerEnds(i)
    BY <1>5, <2>1, <2>3, InstEffect
  <2>4. QED
    BY <1>8, <2>2, <2>3 DEF WorkerStep
<1>9. CASE DispatchSend
  <2>1. target \in Instances /\ (inst' = inst \/ Queues(target, Event))
    BY <1>1, <1>9, InstEffect
  <2>2. QED
    BY <1>3, <2>1, InstStays
<1>10. CASE ShutdownClose
  <2>1. ending \in Instances /\ Closes(ending)
    BY <1>1, <1>10, InstEffect
  <2>2. QED
    BY <1>3, <2>1, InstStays
<1>11. CASE ShutdownDone
  <2>1. CASE inst' = inst
    BY <1>3, <2>1
  <2>2. CASE ending \in Made /\ Frees(ending)
    <3>1. inst[ending].worker \notin Started /\ run = "wait" /\ raced' = raced
      BY <1>1, <1>11, <2>2 DEF ShutdownDone
    <3>2. Quiet
      BY <3>1 DEF Signalled, ShutsDown
    <3>3. inst[ending].worker # "unstarted"
      BY <2>2, <3>2 DEF WorkersOwned, Quiet, HasNew, At
    <3>4. inst[ending].worker = "ended"
      BY <1>1, <2>2, <3>1, <3>3 DEF Typed, AnyInst, Started
    <3>5. QED
      BY <1>1, <1>6, <2>2, <3>4
  <2>3. QED
    BY <1>11, <2>1, <2>2, InstEffect
<1>12. ASSUME NEW k \in Clients, ClientSends(k)
       PROVE  Goal
  <2>1. client[k].of \in Instances /\ Queues(client[k].of, k)
    BY <1>1, <1>12, InstEffect
  <2>2. QED
    BY <1>3, <2>1, InstStays
<1>13. CASE inst' = inst
  BY <1>3, <1>13
<1>14. QED
  BY <1>7, <1>8, <1>9, <1>10, <1>11, <1>12, <1>13, WhoMoves

-----------------------------------------------------------------------------
(***************************************************************************)
(* With one request at a time every instance that was loaded is accounted  *)
(* for: it is in the map, closed, or in the hands of the one request or of *)
(* the shutdown.                                                           *)
(***************************************************************************)
Single == \A c, d \in Callers : ~At(c, {"idle"}) /\ ~At(d, {"idle"}) => c = d
Fits(c) ==
  /\ At(c, {"close", "wait", "insert", "swap", "remove"}) => loaded = None
  /\ At(c, {"start"}) => loaded = caller[c].new
  /\ At(c, {"enable"}) => row # "absent" /\ (loaded # None => row = "enabled")
  /\ caller[c].op \in {"load", "update"} /\ ~At(c, {"idle", "enable"}) => row = "enabled"
Fitting ==
  /\ ShutsDown => loaded = None
  /\ \A c \in Callers : Fits(c)
  /\ Quiet /\ loaded # None => row = "enabled"
Accounted(i) ==
  \/ i = loaded \/ inst[i].vm = "closed"
  \/ \E c \in Callers : At(c, {"close", "wait"}) /\ caller[c].old = i
  \/ \E c \in Callers : HasNew(c) /\ caller[c].new = i
  \/ run \in {"close", "wait"} /\ ending = i
Alone == raced = {} => Single /\ Fitting /\ \A i \in Made : Accounted(i)

\* A request that begins while another is under way is a race.
LEMMA SingleKept ==
    ASSUME Typed, Single, Next, raced' = {}
    PROVE  Single'
<1>1. ASSUME NEW c \in Callers, NEW op, NEW pc, NEW new, NEW old, Moves(c, op, pc, new, old),
             \A d \in Callers \ {c} : At(d, {"idle"})
      PROVE  Single'
  BY <1>1 DEF Single, Moves, At
<1>2. ASSUME NEW c \in Callers, Begins(c)
      PROVE  Single'
  <2>1. PICK op \in Ops, pc \in Pcs : Begin(c, op, pc)
    BY <1>2 DEF Begins
  <2>2. Moves(c, op, pc, None, None)
    BY <2>1, CallerEffect
  <2>3. Quiet
    BY <1>2, Overlaps
  <2>4. QED
    BY <1>1, <2>2, <2>3 DEF Quiet, At
<1>3. ASSUME NEW c \in Callers, CallerStep(c)
      PROVE  Single'
  <2>1. ~At(c, {"idle"})
    BY <1>3 DEF CallerStep, WriteEnabled, Load, LoadFails, Take, CloseQueue, Wait, Insert, StartWorker, Swap, Remove, At
  <2>2. \A d \in Callers \ {c} : At(d, {"idle"})
    BY <2>1 DEF Single
  <2>3. \E op, pc, new, old : Moves(c, op, pc, new, old)
    <3>1. CASE WriteEnabled(c)
      BY <3>1, CallerEffect DEF Steps
    <3>2. CASE Load(c)
      BY <3>2, CallerEffect
    <3>3. CASE LoadFails(c) \/ StartWorker(c) \/ Remove(c)
      BY <3>3, CallerEffect DEF Idles
    <3>4. CASE Take(c) \/ Wait(c)
      BY <3>4, CallerEffect DEF Unloads, Idles, Steps
    <3>5. CASE CloseQueue(c) \/ Insert(c)
      BY <3>5, CallerEffect DEF Steps
    <3>6. CASE Swap(c)
      BY <3>6, CallerEffect DEF Idles
    <3>7. QED
      BY <1>3, <3>1, <3>2, <3>3, <3>4, <3>5, <3>6 DEF CallerStep
  <2>4. QED
    BY <1>1, <2>2, <2>3
<1>4. CASE caller' = caller
  BY <1>4 DEF Single, At
<1>5. QED
  BY <1>2, <1>3, <1>4, WhoMoves

LEMMA FittingKept ==
    ASSUME Sizes, Typed, Bounded, Signalled, raced = {}, Single, Fitting, Next, raced' = {}
    PROVE  Fitting'
<1>1. ASSUME NEW c \in Callers, NEW op, NEW pc, NEW new, NEW old, Moves(c, op, pc, new, old),
             \A d \in Callers \ {c} : At(d, {"idle"}), ~ShutsDown',
             pc \in {"close", "wait", "insert", "swap", "remove"} => loaded' = None,
             pc = "start" => loaded' = new,
             pc = "enable" => row' # "absent" /\ (loaded' # None => row' = "enabled"),
             op \in {"load", "update"} /\ pc \notin {"idle", "enable"} => row' = "enabled",
             pc = "idle" /\ loaded' # None => row' = "enabled"
      PROVE  Fitting'
  <2>1. caller'[c].op = op /\ caller'[c].pc = pc /\ caller'[c].new = new
    BY <1>1 DEF Moves
  <2>2. \A d \in Callers \ {c} : caller'[d].pc = "idle"
    BY <1>1 DEF Moves, At
  <2>3. Fits(c)'
    BY <1>1, <2>1 DEF Fits, At
  <2>4. \A d \in Callers \ {c} : Fits(d)'
    BY <2>2 DEF Fits, At
  <2>5. (Quiet /\ loaded # None => row = "enabled")'
    BY <1>1, <2>1 DEF Quiet
  <2>6. QED
    BY <1>1, <2>3, <2>4, <2>5 DEF Fitting
<1>2. ASSUME NEW c \in Callers, Begins(c)
      PROVE  Fitting'
  <2>1. PICK op \in Ops, pc \in Pcs : Legal(op, pc) /\ Begin(c, op, pc)
    BY <1>2 DEF Begins
  <2>2. Moves(c, op, pc, None, None) /\ UNCHANGED <<row, loaded, run>>
    BY <2>1, CallerEffect DEF Begin, loopVars
  <2>3. Quiet /\ ~ctxDone
    BY <1>2, Overlaps
  <2>4. ~ShutsDown' /\ \A d \in Callers \ {c} : At(d, {"idle"})
    BY <2>2, <2>3 DEF Signalled, ShutsDown, Quiet, At
  <2>5. loaded # None => row = "enabled"
    BY <2>3 DEF Fitting
  <2>6. /\ pc = "swap" => loaded = None
        /\ pc = "enable" => row # "absent"
        /\ op \in {"load", "update"} /\ pc # "enable" => row = "enabled"
        /\ pc \in {"enable", "disable", "take", "load", "swap"}
    BY <2>1, <2>5 DEF Legal
  <2>7. QED
    BY <1>1, <2>2, <2>4, <2>5, <2>6
<1>3. ASSUME NEW c \in Callers, CallerStep(c)
      PROVE  Fitting'
  <2>1. Fits(c) /\ ~At(c, {"idle"})
    BY <1>3 DEF Fitting, CallerStep, WriteEnabled, Load, LoadFails, Take, CloseQueue, Wait, Insert, StartWorker, Swap, Remove, At
  <2>2. \A d \in Callers \ {c} : At(d, {"idle"})
    BY <2>1 DEF Single
  <2>3. ~ShutsDown
    BY <1>3, Underway DEF Signalled
  <2>4. run' = run
    BY <1>3 DEF CallerStep, WriteEnabled, Load, LoadFails, Take, CloseQueue, Wait, Insert, StartWorker, Swap, Remove, loopVars
  <2>5. ~ShutsDown'
    BY <2>3, <2>4 DEF ShutsDown
  <2>6. OnScript(caller[c]) /\ caller[c] \in AnyCaller
    BY DEF Typed
  <2>7. CASE WriteEnabled(c)
    <3>1. CASE caller[c].pc = "enable" /\ Steps(c, "load")
      <4>1. row' = "enabled" /\ loaded' = loaded
        BY <2>1, <2>7, <3>1 DEF WriteEnabled, Fits, At
      <4>2. QED
        BY <1>1, <2>2, <2>5, <3>1, <4>1 DEF Steps
    <3>2. CASE caller[c].pc = "disable" /\ Steps(c, "take")
      <4>1. caller[c].op = "stop"
        BY <2>6, <3>2 DEF OnScript
      <4>2. QED
        BY <1>1, <2>2, <2>5, <3>2, <4>1 DEF Steps
    <3>3. QED
      BY <2>7, <3>1, <3>2, CallerEffect
  <2>8. CASE Load(c)
    <3>1. Moves(c, caller[c].op, "take", made + 1, caller[c].old)
      BY <2>8, CallerEffect
    <3>2. UNCHANGED <<row, loaded>> /\ caller[c].pc = "load"
      BY <2>8 DEF Load
    <3>3. caller[c].op \in {"load", "update"} => row = "enabled"
      BY <2>1, <3>2 DEF Fits, At
    <3>4. QED
      BY <1>1, <2>2, <2>5, <3>1, <3>2, <3>3
  <2>9. CASE LoadFails(c)
    <3>1. Idles(c) /\ row' = row /\ caller[c].pc = "load"
      BY <2>9, CallerEffect DEF LoadFails
    <3>2. row = "enabled"
      BY <2>1, <2>6, <3>1 DEF Fits, At, OnScript
    <3>3. QED
      BY <1>1, <2>2, <2>5, <3>1, <3>2 DEF Idles
  <2>10. ASSUME Unloads(c), row' = row, loaded' = None, caller[c].pc \in {"take", "wait"}
         PROVE  Fitting'
    <3>1. caller[c].op \in {"load", "update"} => row = "enabled"
      BY <2>1, <2>10 DEF Fits, At
    <3>2. CASE Steps(c, "insert") /\ caller[c].op = "load"
      BY <1>1, <2>2, <2>5, <2>10, <3>1, <3>2 DEF Steps
    <3>3. CASE Idles(c)
      BY <1>1, <2>2, <2>5, <2>10, <3>3 DEF Idles
    <3>4. CASE Steps(c, "swap") /\ caller[c].op = "update"
      BY <1>1, <2>2, <2>5, <2>10, <3>1, <3>4 DEF Steps
    <3>5. CASE Steps(c, "remove") /\ caller[c].op = "uninstall"
      BY <1>1, <2>2, <2>5, <2>10, <3>5 DEF Steps
    <3>6. QED
      BY <2>10, <3>2, <3>3, <3>4, <3>5 DEF Unloads
  <2>11. CASE Take(c)
    <3>1. loaded' = None /\ row' = row /\ caller[c].pc = "take"
      BY <2>11 DEF Take
    <3>2. caller[c].op \in {"load", "update"} => row = "enabled"
      BY <2>1, <3>1 DEF Fits, At
    <3>3. CASE Moves(c, caller[c].op, "close", caller[c].new, loaded)
      BY <1>1, <2>2, <2>5, <3>1, <3>2, <3>3
    <3>4. QED
      BY <2>10, <2>11, <3>1, <3>3, CallerEffect
  <2>12. CASE CloseQueue(c)
    <3>1. Steps(c, "wait") /\ UNCHANGED <<row, loaded>> /\ caller[c].pc = "close"
      BY <2>12, CallerEffect DEF CloseQueue
    <3>2. loaded = None /\ (caller[c].op \in {"load", "update"} => row = "enabled")
      BY <2>1, <3>1 DEF Fits, At
    <3>3. QED
      BY <1>1, <2>2, <2>5, <3>1, <3>2 DEF Steps
  <2>13. CASE Wait(c)
    <3>1. Unloads(c) /\ UNCHANGED <<row, loaded>> /\ caller[c].pc = "wait"
      BY <2>13, CallerEffect DEF Wait
    <3>2. loaded = None
      BY <2>1, <3>1 DEF Fits, At
    <3>3. QED
      BY <2>10, <3>1, <3>2
  <2>14. CASE Insert(c)
    <3>1. Steps(c, "start") /\ row' = row /\ loaded' = caller[c].new /\ caller[c].pc = "insert"
      BY <2>14, CallerEffect DEF Insert
    <3>2. row = "enabled"
      BY <2>1, <2>6, <3>1 DEF Fits, At, OnScript
    <3>3. QED
      BY <1>1, <2>2, <2>5, <3>1, <3>2 DEF Steps
  <2>15. CASE StartWorker(c)
    <3>1. Idles(c) /\ UNCHANGED <<row, loaded>> /\ caller[c].pc = "start"
      BY <2>15, CallerEffect DEF StartWorker
    <3>2. row = "enabled"
      BY <2>1, <2>6, <3>1 DEF Fits, At, OnScript
    <3>3. QED
      BY <1>1, <2>2, <2>5, <3>1, <3>2 DEF Idles
  <2>16. CASE Swap(c)
    <3>1. loaded' = loaded /\ loaded = None /\ caller[c].pc = "swap"
      BY <2>1, <2>16 DEF Swap, Fits, At
    <3>2. CASE Idles(c)
      BY <1>1, <2>2, <2>5, <3>1, <3>2 DEF Idles
    <3>3. CASE caller[c].op = "update" /\ Moves(c, "load", "load", None, None)
      <4>1. row = "enabled"
        BY <2>1, <3>1, <3>3 DEF Fits, At
      <4>2. row' = row
        BY <2>16, <4>1 DEF Swap
      <4>3. QED
        BY <1>1, <2>2, <2>5, <3>1, <3>3, <4>1, <4>2
    <3>4. QED
      BY <2>16, <3>2, <3>3, CallerEffect
  <2>17. CASE Remove(c)
    <3>1. Idles(c) /\ loaded' = loaded /\ caller[c].pc = "remove"
      BY <2>17, CallerEffect DEF Remove
    <3>2. loaded = None
      BY <2>1, <3>1 DEF Fits, At
    <3>3. QED
      BY <1>1, <2>2, <2>5, <3>1, <3>2 DEF Idles
  <2>18. QED
    BY <1>3, <2>7, <2>8, <2>9, <2>11, <2>12, <2>13, <2>14, <2>15, <2>16, <2>17 DEF CallerStep
<1>4. CASE Register
  <2>1. row = "absent" /\ row' = "disabled" /\ UNCHANGED <<caller, loaded, run>>
    BY <1>4 DEF Register, loopVars
  <2>2. QED
    BY <2>1 DEF Fitting, Fits, ShutsDown, Quiet, At
<1>5. ASSUME UNCHANGED <<caller, row, loaded>>, ShutsDown' => ShutsDown
      PROVE  Fitting'
  BY <1>5 DEF Fitting, Fits, Quiet, At
<1>6. ASSUME NEW i \in Instances, WorkerStep(i)
      PROVE  Fitting'
  BY <1>5, <1>6 DEF WorkerStep, WorkerTakes, WorkerFinishes, WorkerEnds, loopVars, ShutsDown
<1>7. CASE DispatchSend \/ DispatchTargets \/ CancelRun \/ RunLoop \/ ShutdownClose \/ ShutdownDone
  BY <1>5, <1>7 DEF DispatchSend, DispatchTargets, CancelRun, RunLoop, ShutdownClose, ShutdownDone, ShutsDown
<1>8. CASE ShutdownTake
  <2>1. Quiet
    BY <1>8, Overlaps
  <2>2. caller' = caller /\ loaded' = None
    BY <1>8 DEF ShutdownTake
  <2>3. QED
    BY <2>1, <2>2 DEF Fitting, Fits, Quiet, At
<1>9. ASSUME NEW k \in Clients, ClientLooksUp(k) \/ ClientStep(k) \/ ClientGivesUp(k)
      PROVE  Fitting'
  BY <1>5, <1>9 DEF ClientStep, ClientLooksUp, ClientSends, ClientIsRefused, ClientIsAnswered, WorkerIsGone, ClientGivesUp,
                    loopVars, ShutsDown
<1>10. QED
  BY <1>2, <1>3, <1>4, <1>6, <1>7, <1>8, <1>9, RequestIs DEF Next, RunStep

\* A VM that was closed stays closed.
LEMMA VmStaysClosed ==
    ASSUME Sizes, Typed, Bounded, Next, NEW i \in Made, inst[i].vm = "closed"
    PROVE  inst'[i].vm = "closed"
<1>1. Made \subseteq Instances /\ i \in Instances
  BY MadeInstances
<1>2. CASE inst'[i].vm = inst[i].vm
  BY <1>2
<1>3. ASSUME NEW c \in Callers, Load(c) \/ CloseQueue(c) \/ Wait(c) \/ StartWorker(c)
      PROVE  inst'[i].vm = "closed"
  <2>1. CASE Load(c)
    <3>1. Sets(made + 1, << >>, FALSE, "unstarted", Event, "open")
      BY <2>1, InstEffect
    <3>2. i # made + 1
      BY DEF Made, Typed
    <3>3. QED
      BY <1>1, <1>2, <3>1, <3>2 DEF Sets
  <2>2. CASE CloseQueue(c)
    <3>1. caller[c].old \in Instances /\ Closes(caller[c].old)
      BY <1>1, <2>2, InstEffect
    <3>2. QED
      BY <1>1, <1>2, <3>1, InstStays
  <2>3. CASE Wait(c)
    <3>1. caller[c].old \in Instances /\ Frees(caller[c].old)
      BY <1>1, <2>3, InstEffect
    <3>2. QED
      BY <1>1, <3>1 DEF Frees, Sets
  <2>4. CASE StartWorker(c)
    <3>1. caller[c].new \in Instances /\ Works(caller[c].new, "ready", inst[caller[c].new].job)
      BY <1>1, <2>4, InstEffect
    <3>2. QED
      BY <1>1, <1>2, <3>1, InstStays
  <2>5. QED
    BY <1>3, <2>1, <2>2, <2>3, <2>4
<1>4. ASSUME NEW j \in Instances, WorkerStep(j)
      PROVE  inst'[i].vm = "closed"
  <2>1. CASE WorkerTakes(j)
    <3>1. Sets(j, Tail(inst[j].queue), inst[j].closed, "busy", Head(inst[j].queue), inst[j].vm)
      BY <2>1, InstEffect
    <3>2. inst'[j].vm = inst[j].vm
      BY <3>1, SetsTo
    <3>3. \A l \in Instances \ {j} : inst'[l] = inst[l]
      BY <3>1 DEF Sets
    <3>4. QED
      BY <1>1, <1>2, <3>2, <3>3
  <2>2. CASE WorkerFinishes(j) \/ WorkerEnds(j)
    <3>1. Works(j, "ready", Event) \/ Works(j, "ended", inst[j].job)
      BY <2>2, InstEffect
    <3>2. QED
      BY <1>1, <1>2, <3>1, InstStays
  <2>3. QED
    BY <1>4, <2>1, <2>2 DEF WorkerStep
<1>5. ASSUME NEW j \in Instances, NEW job, Queues(j, job)
      PROVE  inst'[i].vm = "closed"
  BY <1>1, <1>2, <1>5, InstStays
<1>6. CASE DispatchSend
  <2>1. target \in Instances /\ (inst' = inst \/ Queues(target, Event))
    BY <1>1, <1>6, InstEffect
  <2>2. QED
    BY <1>2, <1>5, <2>1
<1>7. CASE ShutdownClose
  <2>1. ending \in Instances /\ Closes(ending)
    BY <1>1, <1>7, InstEffect
  <2>2. QED
    BY <1>1, <1>2, <2>1, InstStays
<1>8. CASE ShutdownDone
  <2>1. inst' = inst \/ (ending \in Instances /\ Frees(ending))
    BY <1>1, <1>8, InstEffect
  <2>2. QED
    BY <1>1, <1>2, <2>1 DEF Frees, Sets
<1>9. ASSUME NEW k \in Clients, ClientSends(k)
      PROVE  inst'[i].vm = "closed"
  <2>1. client[k].of \in Instances /\ Queues(client[k].of, k)
    BY <1>1, <1>9, InstEffect
  <2>2. QED
    BY <1>5, <2>1
<1>10. QED
  BY <1>2, <1>3, <1>4, <1>6, <1>7, <1>8, <1>9, WhoMoves

\* Nothing is lost of the instances that were loaded.
LEMMA AccountedKept ==
    ASSUME Sizes, Typed, Bounded, Signalled, raced = {}, Single, Fitting, \A i \in Made : Accounted(i), Next, raced' = {}
    PROVE  \A i \in Made' : Accounted(i)'
<1> DEFINE Goal == \A i \in Made' : Accounted(i)'
           News(d) == HasNew(d) => HasNew(d)' /\ caller'[d].new = caller[d].new
           Olds(d) == At(d, {"close", "wait"}) => At(d, {"close", "wait"})' /\ caller'[d].old = caller[d].old
           Ends == run \in {"close", "wait"} => run' \in {"close", "wait"} /\ ending' = ending
<1> SUFFICES Goal
  OBVIOUS
<1> HIDE DEF Goal, News, Olds, Ends
<1>1. \A i \in Made : inst[i].vm = "closed" => inst'[i].vm = "closed"
  BY VmStaysClosed
<1>2. ASSUME NEW i \in Made,
             i = loaded => i = loaded' \/ \E c \in Callers : At(c, {"close", "wait"})' /\ caller'[c].old = i,
             \A d \in Callers : /\ HasNew(d) /\ caller[d].new = i => News(d) \/ i = loaded'
                                /\ At(d, {"close", "wait"}) /\ caller[d].old = i => Olds(d) \/ inst'[i].vm = "closed",
             run \in {"close", "wait"} /\ ending = i => Ends \/ inst'[i].vm = "closed"
      PROVE  Accounted(i)'
  <2>1. CASE i = loaded
    BY <1>2, <2>1 DEF Accounted
  <2>2. CASE inst[i].vm = "closed"
    BY <1>1, <2>2 DEF Accounted
  <2>3. ASSUME NEW c \in Callers, At(c, {"close", "wait"}), caller[c].old = i
        PROVE  Accounted(i)'
    BY <1>2, <2>3 DEF Accounted, Olds
  <2>4. ASSUME NEW c \in Callers, HasNew(c), caller[c].new = i
        PROVE  Accounted(i)'
    BY <1>2, <2>4 DEF Accounted, News
  <2>5. CASE run \in {"close", "wait"} /\ ending = i
    BY <1>2, <2>5 DEF Accounted, Ends
  <2>6. Accounted(i)
    OBVIOUS
  <2>7. QED
    BY <2>1, <2>2, <2>3, <2>4, <2>5, <2>6 DEF Accounted
<1>3. ASSUME made' = made, loaded' = loaded, \A d \in Callers : News(d) /\ Olds(d), Ends
      PROVE  Goal
  <2>1. \A i \in Made : Accounted(i)'
    BY <1>2, <1>3
  <2>2. QED
    BY <1>3, <2>1 DEF Goal, Made
<1>4. ASSUME NEW c \in Callers, NEW op, NEW pc, NEW new, NEW old, Moves(c, op, pc, new, old)
      PROVE  \A d \in Callers \ {c} : News(d) /\ Olds(d)
  BY <1>4 DEF Moves, News, Olds, HasNew, At
<1>5. ASSUME NEW c \in Callers, Begins(c)
      PROVE  Goal
  <2>1. PICK op \in Ops, pc \in Pcs : Legal(op, pc) /\ Begin(c, op, pc)
    BY <1>5 DEF Begins
  <2>2. Moves(c, op, pc, None, None) /\ UNCHANGED <<made, loaded, run, ending>> /\ caller[c].pc = "idle"
    BY <2>1, CallerEffect DEF Begin, loopVars
  <2>3. News(c) /\ Olds(c) /\ Ends
    BY <2>2 DEF News, Olds, Ends, HasNew, At
  <2>4. QED
    BY <1>3, <1>4, <2>2, <2>3
<1>6. ASSUME NEW c \in Callers, CallerStep(c)
      PROVE  Goal
  <2>1. UNCHANGED <<run, ending>> /\ Ends
    BY <1>6 DEF CallerStep, WriteEnabled, Load, LoadFails, Take, CloseQueue, Wait, Insert, StartWorker, Swap, Remove, loopVars, Ends
  <2>2. Fits(c) /\ OnScript(caller[c])
    BY DEF Fitting, Typed
  <2>3. CASE WriteEnabled(c) \/ LoadFails(c) \/ Swap(c) \/ Remove(c)
    <3>1. UNCHANGED <<made, loaded>> /\ caller[c].pc \in {"enable", "disable", "load", "swap", "remove"}
      BY <2>3 DEF WriteEnabled, LoadFails, Swap, Remove
    <3>2. Steps(c, "load") \/ Steps(c, "take") \/ Idles(c) \/ Moves(c, "load", "load", None, None)
      BY <2>3, CallerEffect
    <3>3. News(c) /\ Olds(c)
      BY <3>1 DEF News, Olds, HasNew, At
    <3>4. QED
      BY <1>3, <1>4, <2>1, <3>1, <3>2, <3>3 DEF Steps, Idles
  <2>4. CASE Load(c)
    <3>1. Moves(c, caller[c].op, "take", made + 1, caller[c].old) /\ caller[c].pc = "load" /\ caller[c].op = "load"
      BY <2>2, <2>4, CallerEffect DEF Load, OnScript
    <3>2. made' = made + 1 /\ loaded' = loaded
      BY <2>4 DEF Load
    <3>3. Made' = Made \cup {made + 1}
      BY <3>2 DEF Made, Typed
    <3>4. HasNew(c)' /\ caller'[c].new = made + 1 /\ News(c) /\ Olds(c)
      BY <3>1 DEF Moves, HasNew, At, News, Olds
    <3>5. \A i \in Made : Accounted(i)'
      BY <1>2, <1>4, <2>1, <3>1, <3>2, <3>4
    <3>6. ASSUME NEW i, i = made + 1
          PROVE  Accounted(i)'
      BY <3>4, <3>6 DEF Accounted
    <3>7. QED
      BY <3>3, <3>5, <3>6 DEF Goal
  <2>5. ASSUME ~Load(c), ~StartWorker(c)
        PROVE  \A d \in Callers : News(d)
    <3>1. \A d \in Callers \ {c} : caller'[d] = caller[d]
      BY <1>6, <2>5, CallerEffect DEF CallerStep, Unloads, Steps, Idles, Moves
    <3>2. News(c)
      <4>1. CASE caller[c].op # "load" \/ caller[c].pc \notin {"take", "close", "wait", "insert", "start"}
        BY <4>1 DEF News, HasNew, At
      <4>2. ASSUME NEW op, NEW pc, NEW old, Moves(c, op, pc, caller[c].new, old),
                   op = "load", pc \in {"close", "wait", "insert", "start"}
            PROVE  News(c)
        BY <4>2 DEF News, HasNew, At, Moves
      <4>3. CASE Take(c) \/ Wait(c)
        <5>1. Unloads(c) \/ Moves(c, caller[c].op, "close", caller[c].new, loaded)
          BY <4>3, CallerEffect
        <5>2. CASE caller[c].op = "load"
          BY <4>2, <5>1, <5>2 DEF Unloads, Steps
        <5>3. QED
          BY <4>1, <5>2
      <4>4. CASE CloseQueue(c) \/ Insert(c)
        <5>1. Steps(c, "wait") \/ Steps(c, "start")
          BY <4>4, CallerEffect
        <5>2. CASE caller[c].op = "load"
          BY <4>2, <5>1, <5>2 DEF Steps
        <5>3. QED
          BY <4>1, <5>2
      <4>5. QED
        BY <1>6, <2>5, <4>1, <4>3, <4>4 DEF CallerStep, WriteEnabled, LoadFails, Swap, Remove
    <3>3. QED
      BY <3>1, <3>2 DEF News, HasNew, At
  <2>6. CASE Take(c)
    <3>1. made' = made /\ loaded' = None /\ caller[c].pc = "take" /\ \A d \in Callers : News(d)
      BY <2>5, <2>6 DEF Take, Load, StartWorker
    <3>2. Olds(c)
      BY <3>1 DEF Olds, At
    <3>3. CASE loaded = None /\ Unloads(c)
      BY <1>3, <1>4, <2>1, <3>1, <3>2, <3>3 DEF Unloads, Steps, Idles
    <3>4. CASE loaded # None /\ Moves(c, caller[c].op, "close", caller[c].new, loaded)
      <4>1. At(c, {"close", "wait"})' /\ caller'[c].old = loaded
        BY <3>4 DEF Moves, At
      <4>2. \A i \in Made : Accounted(i)'
        BY <1>2, <1>4, <2>1, <3>1, <3>2, <3>4, <4>1
      <4>3. QED
        BY <3>1, <4>2 DEF Goal, Made
    <3>5. QED
      BY <2>6, <3>3, <3>4, CallerEffect
  <2>7. CASE CloseQueue(c)
    <3>1. UNCHANGED <<made, loaded>> /\ caller[c].pc = "close" /\ Steps(c, "wait") /\ \A d \in Callers : News(d)
      BY <2>5, <2>7, CallerEffect DEF CloseQueue, Load, StartWorker
    <3>2. Olds(c)
      BY <3>1 DEF Olds, At, Steps, Moves
    <3>3. QED
      BY <1>3, <1>4, <2>1, <3>1, <3>2 DEF Steps
  <2>8. CASE Wait(c)
    <3>1. UNCHANGED <<made, loaded>> /\ caller[c].pc = "wait" /\ Unloads(c) /\ \A d \in Callers : News(d)
      BY <2>5, <2>8, CallerEffect DEF Wait, Load, StartWorker
    <3>2. caller[c].old \in Made /\ Frees(caller[c].old)
      BY <2>8, InstEffect
    <3>3. inst'[caller[c].old].vm = "closed"
      BY <3>2 DEF Frees, Sets
    <3>4. \A d \in Callers \ {c} : Olds(d)
      BY <1>4, <3>1 DEF Unloads, Steps, Idles
    <3>5. \A i \in Made : Accounted(i)'
      BY <1>2, <2>1, <3>1, <3>3, <3>4
    <3>6. QED
      BY <3>1, <3>5 DEF Goal, Made
  <2>9. CASE Insert(c)
    <3>1. made' = made /\ caller[c].pc = "insert" /\ Steps(c, "start") /\ \A d \in Callers : News(d)
      BY <2>5, <2>9, CallerEffect DEF Insert, Load, StartWorker
    <3>2. loaded = None /\ Olds(c)
      BY <2>2, <3>1 DEF Fits, At, Olds
    <3>3. \A i \in Made : i # loaded
      BY <3>2, MadeInstances
    <3>4. \A i \in Made : Accounted(i)'
      BY <1>2, <1>4, <2>1, <3>1, <3>2, <3>3 DEF Steps
    <3>5. QED
      BY <3>1, <3>4 DEF Goal, Made
  <2>10. CASE StartWorker(c)
    <3>1. UNCHANGED <<made, loaded>> /\ caller[c].pc = "start" /\ Idles(c)
      BY <2>10, CallerEffect DEF StartWorker
    <3>2. loaded = caller[c].new /\ Olds(c)
      BY <2>2, <3>1 DEF Fits, At, Olds
    <3>3. \A i \in Made : Accounted(i)'
      BY <1>2, <1>4, <2>1, <3>1, <3>2 DEF Idles
    <3>4. QED
      BY <3>1, <3>3 DEF Goal, Made
  <2>11. QED
    BY <1>6, <2>3, <2>4, <2>6, <2>7, <2>8, <2>9, <2>10 DEF CallerStep
<1>7. ASSUME caller' = caller
      PROVE  \A d \in Callers : News(d) /\ Olds(d)
  BY <1>7 DEF News, Olds, HasNew, At
<1>8. ASSUME UNCHANGED <<caller, made, loaded>>, Ends
      PROVE  Goal
  BY <1>3, <1>7, <1>8
<1>9. CASE Register \/ DispatchTargets \/ DispatchSend \/ CancelRun \/ RunLoop \/ ShutdownClose
  BY <1>8, <1>9 DEF Register, DispatchTargets, DispatchSend, CancelRun, RunLoop, ShutdownClose, loopVars, Ends
<1>10. ASSUME NEW i \in Instances, WorkerStep(i)
       PROVE  Goal
  BY <1>8, <1>10 DEF WorkerStep, WorkerTakes, WorkerFinishes, WorkerEnds, loopVars, Ends
<1>11. ASSUME NEW k \in Clients, ClientLooksUp(k) \/ ClientStep(k) \/ ClientGivesUp(k)
       PROVE  Goal
  BY <1>8, <1>11 DEF ClientStep, ClientLooksUp, ClientSends, ClientIsRefused, ClientIsAnswered, WorkerIsGone, ClientGivesUp,
                     loopVars, Ends
<1>12. CASE ShutdownTake
  <2>1. UNCHANGED <<caller, made>> /\ run = "loop" /\ ending' = loaded /\ (loaded # None => run' = "close")
    BY <1>12 DEF ShutdownTake
  <2>2. ASSUME NEW i \in Made
        PROVE  Accounted(i)'
    <3>1. CASE i = loaded
      BY <2>1, <3>1, MadeInstances DEF Accounted
    <3>2. CASE i # loaded
      BY <1>2, <1>7, <2>1, <3>2 DEF Ends
    <3>3. QED
      BY <3>1, <3>2
  <2>3. QED
    BY <2>1, <2>2 DEF Goal, Made
<1>13. CASE ShutdownDone
  <2>1. UNCHANGED <<caller, made, loaded, ending>>
    BY <1>13 DEF ShutdownDone
  <2>2. ending \in Made => inst'[ending].vm = "closed"
    <3>1. (ending # None /\ inst' = [inst EXCEPT ![ending].vm = "closed"]) \/ ending = None
      BY <1>13 DEF ShutdownDone
    <3>2. QED
      BY <3>1, MadeInstances DEF Typed, AnyInst
  <2>3. \A i \in Made : Accounted(i)'
    BY <1>2, <1>7, <2>1, <2>2
  <2>4. QED
    BY <2>1, <2>3 DEF Goal, Made
<1>14. QED
  BY <1>5, <1>6, <1>9, <1>10, <1>11, <1>12, <1>13, RequestIs DEF Next, RunStep

-----------------------------------------------------------------------------
(* The inductive invariant and what follows from it. *)

IInv ==
  /\ Typed /\ Bounded /\ Owned /\ WorkersOwned /\ Answered /\ Signalled /\ EndsFirst /\ Alone
  /\ panic # "close"

LEMMA InitHolds ==
    ASSUME Sizes, Init
    PROVE  IInv
<1> DEFINE load == [op |-> "load", pc |-> "load", new |-> None, old |-> None]
<1>1. \A c \in Callers : caller[c] = IF c = Boot /\ row = "enabled" THEN load ELSE IdleCaller
  <2>1. [IdleCaller EXCEPT !.op = "load", !.pc = "load"] = load
    BY Begun
  <2>2. QED
    BY <2>1, Zenon DEF Init
<1>2. IdleCaller = [op |-> "stop", pc |-> "idle", new |-> None, old |-> None]
  BY DEF IdleCaller
<1>3. \A c \in Callers : \/ caller[c].pc = "idle"
                         \/ c = Boot /\ row = "enabled" /\ caller[c].op = "load" /\ caller[c].pc = "load"
  BY <1>1, <1>2
<1>4. \A i \in Instances : inst[i] = Fresh
  BY DEF Init
<1>5. Typed
  <2>1. load \in AnyCaller /\ IdleCaller \in AnyCaller /\ OnScript(load) /\ OnScript(IdleCaller)
    BY <1>2 DEF AnyCaller, Ops, Pcs, OnScript
  <2>2. caller \in [Callers -> AnyCaller] /\ \A c \in Callers : OnScript(caller[c])
    <3>1. \A c \in Callers : caller[c] \in AnyCaller /\ OnScript(caller[c])
      BY <1>1, <2>1
    <3>2. caller = [c \in Callers |-> caller[c]]
      BY DEF Init
    <3>3. QED
      BY <3>1, <3>2
  <2>3. Fresh \in AnyInst
    <3>1. << >> \in Seq(Clients \cup {Event})
      OBVIOUS
    <3>2. QED
      BY <3>1 DEF Fresh, AnyInst
  <2>4. inst \in [Instances -> AnyInst] /\ \A i \in Instances : Len(inst[i].queue) <= QueueSize
    BY <1>4, <2>3 DEF Init, Fresh, Sizes
  <2>5. client \in [Clients -> AnyClient]
    BY DEF Init, IdleClient, AnyClient
  <2>6. made \in Nat /\ made <= MaxInstances /\ events \in Nat
    BY DEF Init, Sizes
  <2>7. /\ row \in {"absent", "disabled", "enabled"} /\ replied \subseteq Clients /\ ctxDone \in BOOLEAN
        /\ run \in {"reconcile", "loop", "close", "wait", "stopped"}
        /\ panic \in {"none", "send", "close"} /\ raced \subseteq {"requests", "shutdown"}
        /\ {loaded, target, ending} \subseteq Instances \cup {None}
    BY DEF Init
  <2>8. QED
    BY <2>2, <2>4, <2>5, <2>6, <2>7 DEF Typed
<1>6. Bounded
  BY <1>3, <1>4 DEF Init, Bounded, HasNew, At, IdleClient, Fresh, None
<1>7. Owned
  BY <1>3 DEF Init, Owned, MapOpen, EndOwned, NewOwned, OldOwned, Apart, Unmapped, Closer, HasNew, At
<1>8. WorkersOwned
  BY <1>3, <1>4 DEF Init, WorkersOwned, HasNew, At, Fresh, Made
<1>9. Answered
  BY DEF Init, Answered, Fine, IdleClient
<1>10. Signalled /\ EndsFirst
  BY <1>4 DEF Init, Signalled, ShutsDown, EndsFirst, Fresh
<1>11. Alone
  BY <1>3 DEF Init, Alone, Single, Fitting, Fits, ShutsDown, At, Made
<1>12. QED
  BY <1>5, <1>6, <1>7, <1>8, <1>9, <1>10, <1>11 DEF IInv, Init

LEMMA StepHolds ==
    ASSUME Sizes, IInv, [Next]_vars
    PROVE  IInv'
<1>1. CASE Next
  <2>1. Typed /\ Bounded /\ Owned /\ WorkersOwned /\ Answered /\ Signalled /\ EndsFirst /\ Alone
    BY DEF IInv
  <2>2. Typed' /\ Bounded'
    BY <1>1, <2>1, TypesKept, BoundsKept
  <2>3. Owned' /\ panic' # "close"
    BY <1>1, <2>1, OwnedKept DEF IInv
  <2>4. WorkersOwned' /\ Answered'
    BY <1>1, <2>1, WorkersKept, AnsweredKept
  <2>5. Signalled' /\ EndsFirst'
    BY <1>1, <2>1, SignalledKept, EndsFirstKept
  <2>6. Alone'
    <3>1. SUFFICES ASSUME raced' = {}
                   PROVE  Single' /\ Fitting' /\ \A i \in Made' : Accounted(i)'
      BY DEF Alone
    <3>2. raced = {}
      BY <1>1, <2>1, <3>1, Overlaps
    <3>3. Single /\ Fitting /\ \A i \in Made : Accounted(i)
      BY <2>1, <3>2 DEF Alone
    <3>4. QED
      BY <1>1, <2>1, <3>1, <3>2, <3>3, SingleKept, FittingKept, AccountedKept
  <2>7. QED
    BY <2>2, <2>3, <2>4, <2>5, <2>6 DEF IInv
<1>2. CASE UNCHANGED vars
  BY <1>2 DEF vars, loopVars, clientVars, IInv, Typed, Bounded, HasNew, At, Made, Owned, MapOpen, EndOwned, NewOwned, OldOwned,
              Apart, Unmapped, Closer, WorkersOwned, Answered, Fine, Pending, Has, Signalled, ShutsDown, Quiet, EndsFirst,
              Alone, Single, Fitting, Fits, Accounted
<1>3. QED
  BY <1>1, <1>2

LEMMA Holds ==
    ASSUME Sizes
    PROVE  Spec => []IInv
<1>1. Init => IInv
  BY InitHolds
<1>2. IInv /\ [Next]_vars => IInv'
  BY StepHolds
<1>3. QED
  BY <1>1, <1>2, PTL DEF Spec

\* The types of the lifecycle's state: a queue never holds more than QueueSize jobs,
\* and every instance in hand was loaded.
THEOREM LifecycleTypes ==
    ASSUME Sizes
    PROVE  Spec => []TypeOK
<1>1. IInv => TypeOK
  <2>1. SUFFICES ASSUME IInv
                 PROVE  TypeOK
    OBVIOUS
  <2>2. Typed /\ Bounded
    BY <2>1 DEF IInv
  <2>3. ASSUME NEW i \in Instances
        PROVE  /\ inst[i].worker \in {"unstarted", "ready", "busy", "ended"}
               /\ Len(inst[i].queue) <= QueueSize
               /\ \A n \in DOMAIN inst[i].queue : inst[i].queue[n] \in Clients \cup {Event}
    BY <2>2 DEF Typed, AnyInst
  <2>4. QED
    BY <2>2, <2>3 DEF TypeOK, Typed, Bounded
<1>2. QED
  BY <1>1, Holds, PTL

\* close(inst.queue) panics if the channel is closed already; nothing guards it but
\* the map, from which unload and shutdown take an instance before they stop it.
\* However many requests overlap with each other and with the shutdown, no instance
\* is stopped twice.
THEOREM NobodyClosesTwice ==
    ASSUME Sizes
    PROVE  Spec => []StoppedOnce
<1>1. IInv => StoppedOnce
  BY DEF IInv, StoppedOnce
<1>2. QED
  BY <1>1, Holds, PTL

\* A job that was accepted is answered: enqueueRender's caller never finds the worker
\* gone and no reply, whatever replaces or unloads the plugin meanwhile.
THEOREM AcceptedJobsAreAnswered ==
    ASSUME Sizes
    PROVE  Spec => []AcceptedIsAnswered
<1>1. IInv => AcceptedIsAnswered
  BY DEF IInv, Answered, Fine, AcceptedIsAnswered
<1>2. QED
  BY <1>1, Holds, PTL

\* stop waits for the worker before it closes the VM, and shutdown for all of them, so
\* a hook never runs in a closed VM.
THEOREM HooksRunInOpenVms ==
    ASSUME Sizes
    PROVE  Spec => []VmOpenWhileUsed
<1>1. ASSUME IInv
      PROVE  VmOpenWhileUsed
  <2>1. \A i \in Instances : inst[i].vm \in {"open", "closed"}
    BY <1>1 DEF IInv, Typed, AnyInst
  <2>2. QED
    BY <1>1, <2>1 DEF IInv, EndsFirst, VmOpenWhileUsed
<1>2. QED
  BY <1>1, Holds, PTL

\* The instances whose worker is alive are one at most.
LEMMA OneStarted ==
    ASSUME Sizes, IInv, raced = {}
    PROVE  \E x : {i \in Instances : inst[i].worker \in Started} \subseteq {x}
<1> DEFINE live == {i \in Instances : inst[i].worker \in Started}
<1>1. Typed /\ Bounded /\ WorkersOwned /\ Signalled /\ EndsFirst /\ Single /\ Fitting /\ \A i \in Made : Accounted(i)
  BY DEF IInv, Alone
<1>2. ASSUME NEW i \in live
      PROVE  \/ i = loaded
             \/ \E c \in Callers : At(c, {"close", "wait"}) /\ caller[c].old = i
             \/ run \in {"close", "wait"} /\ ending = i
  <2>1. i \in Instances /\ inst[i].worker \in {"ready", "busy"}
    BY DEF Started
  <2>2. i \in Made
    BY <1>1, <2>1 DEF Bounded, Made, Instances, Typed
  <2>3. inst[i].vm # "closed"
    BY <1>1, <2>1 DEF EndsFirst
  <2>4. ~ \E c \in Callers : HasNew(c) /\ caller[c].new = i
    BY <1>1, <2>1 DEF WorkersOwned
  <2>5. QED
    BY <1>1, <2>2, <2>3, <2>4 DEF Accounted
<1> HIDE DEF live
<1>3. None \notin live
  BY DEF live, Instances, None
<1>4. CASE loaded # None
  <2>1. ~ShutsDown /\ \A c \in Callers : ~At(c, {"close", "wait"})
    BY <1>1, <1>4 DEF Fitting, Fits, At
  <2>2. live \subseteq {loaded}
    BY <1>2, <2>1 DEF ShutsDown
  <2>3. QED
    BY <2>2 DEF live
<1>5. CASE loaded = None /\ run \in {"close", "wait"}
  <2>1. Quiet
    BY <1>1, <1>5 DEF Signalled, ShutsDown
  <2>2. live \subseteq {ending}
    BY <1>2, <1>3, <1>5, <2>1 DEF Quiet, At
  <2>3. QED
    BY <2>2 DEF live
<1>6. CASE loaded = None /\ run \notin {"close", "wait"} /\ \E c \in Callers : At(c, {"close", "wait"})
  <2>1. PICK c \in Callers : At(c, {"close", "wait"})
    BY <1>6
  <2>2. \A d \in Callers : At(d, {"close", "wait"}) => d = c
    BY <1>1, <2>1 DEF Single, At
  <2>3. live \subseteq {caller[c].old}
    BY <1>2, <1>3, <1>6, <2>2
  <2>4. QED
    BY <2>3 DEF live
<1>7. CASE loaded = None /\ run \notin {"close", "wait"} /\ ~ \E c \in Callers : At(c, {"close", "wait"})
  <2>1. live \subseteq {None}
    BY <1>2, <1>3, <1>7
  <2>2. QED
    BY <2>1 DEF live
<1>8. QED
  BY <1>4, <1>5, <1>6, <1>7

\* load replaces any prior instance.  While no two requests overlap the plugin has one
\* worker at most, and at rest every instance but the one in the map has closed its VM,
\* and the one in the map belongs to an enabled plugin.
THEOREM OneAtATime ==
    ASSUME Sizes
    PROVE  Spec => []OneInstance
<1>1. ASSUME IInv, raced = {}
      PROVE  Cardinality({i \in Instances : inst[i].worker \in Started}) <= 1
  <2> DEFINE live == {i \in Instances : inst[i].worker \in Started}
  <2>1. PICK x : live \subseteq {x}
    BY <1>1, OneStarted
  <2> HIDE DEF live
  <2>2. live = {} \/ live = {x}
    BY <2>1
  <2>3. Cardinality(live) \in {0, 1}
    BY <2>2, FS_EmptySet, FS_Singleton
  <2>4. QED
    BY <2>3 DEF live
<1>2. ASSUME IInv, raced = {}, Quiet, run = "loop"
      PROVE  /\ loaded # None => row = "enabled"
             /\ \A i \in 1 .. made \ {loaded} : inst[i].vm = "closed"
  <2>1. Fitting /\ \A i \in Made : Accounted(i)
    BY <1>2 DEF IInv, Alone
  <2>2. \A i \in Made \ {loaded} : inst[i].vm = "closed"
    BY <1>2, <2>1 DEF Accounted, Quiet, HasNew, At
  <2>3. QED
    BY <1>2, <2>1, <2>2 DEF Fitting, Made
<1>3. IInv => OneInstance
  BY <1>1, <1>2 DEF OneInstance
<1>4. QED
  BY <1>3, Holds, PTL

\* All of it at once, as the runs check it.
THEOREM LivesAreKept ==
    ASSUME Sizes
    PROVE  Spec => []PluginLives
BY LifecycleTypes, NobodyClosesTwice, HooksRunInOpenVms, OneAtATime, AcceptedJobsAreAnswered, PTL DEF PluginLives

-----------------------------------------------------------------------------
(* The network of a plugin. *)
CONSTANTS Hosts, Addresses, Public, Rate, MaxRedirects, LogSize, MaxClock, MaxFetches, MaxLoads, MaxChanges
VARIABLES netClock, dns, allow, grants, gate, req, conns, admitted, netLog, fetched

Net == INSTANCE Egress WITH clock <- netClock, log <- netLog, made <- fetched

\* There are public addresses, a budget, a first request before the redirects, and a ring.
NetSizes ==
  /\ Public \subseteq Addresses /\ Public # {}
  /\ Rate \in Nat /\ MaxRedirects \in Nat \ {0} /\ LogSize \in Nat /\ MaxClock \in Nat

AnyGate == [allow : SUBSET Hosts, grants : SUBSET Hosts, tokens : 0 .. Rate, last : Nat]
AnyReq == [pc : {"idle", "resolve", "dial", "wait"}, host : Hosts \cup {"none"}, hops : Nat, ips : Seq(Addresses)]
AnyConn == [hop : Nat, host : Hosts, ip : Addresses, allow : SUBSET Hosts, grants : SUBSET Hosts]
AnyCount == [fetches : Nat, ended : Nat, loads : Nat, changes : Nat]

NetTyped ==
  /\ netClock \in Nat /\ netClock <= MaxClock
  /\ dns \in [Hosts -> Net!Lists] /\ allow \subseteq Hosts /\ grants \subseteq Hosts
  /\ gate \in AnyGate /\ req \in AnyReq /\ fetched \in AnyCount
  /\ admitted \in Seq(Nat) /\ netLog \in Seq(Nat)

\* The fetch under way is to a host the gate declares, and may be redirected again.
ReqSound == req.pc # "idle" => req.host \in gate.allow /\ req.hops < MaxRedirects

\* What the bucket holds and what passed since the i-th request is within what it got since.
BucketSound ==
  /\ gate.last <= netClock
  /\ \A i \in 1 .. Len(admitted) :
       /\ admitted[i] <= gate.last
       /\ gate.tokens + (Len(admitted) - i + 1) <= Rate + (gate.last - admitted[i])

NetInv == NetTyped /\ ReqSound /\ BucketSound /\ Net!DeclaredOnly /\ Net!WithinRate /\ Net!AllLogged

LEMMA ListIsSeq == ASSUME NEW l \in Net!Lists PROVE l \in Seq(Addresses)
<1>1. CASE l = << >>
  BY <1>1
<1>2. ASSUME NEW a \in Addresses, l = <<a>> PROVE l \in Seq(Addresses)
  BY <1>2
<1>3. ASSUME NEW a \in Addresses, NEW b \in Addresses, l = <<a, b>> PROVE l \in Seq(Addresses)
  BY <1>3
<1>4. QED
  BY <1>1, <1>2, <1>3 DEF Net!Lists

LEMMA NoReqIs == Net!NoReq \in AnyReq /\ Net!NoReq.pc = "idle" /\ Net!NoReq.hops = 0
BY DEF Net!NoReq, AnyReq

\* A fetch that ends leaves the newest entry; the ring drops its oldest when it is full.
LEMMA Recorded ==
  ASSUME NetSizes, NetTyped, Net!AllLogged,
         NEW n, n = fetched.ended + 1, NEW l, l = Net!Record
  PROVE  /\ l \in Seq(Nat)
         /\ Len(l) = IF n < LogSize THEN n ELSE LogSize
         /\ \A i \in 1 .. Len(l) : l[i] = n - Len(l) + i
<1> DEFINE a == Append(netLog, n)
<1>1. fetched.ended \in Nat /\ n \in Nat /\ netLog \in Seq(Nat) /\ LogSize \in Nat
  BY DEF NetTyped, AnyCount, NetSizes
<1>2. a \in Seq(Nat) /\ Len(a) = Len(netLog) + 1 /\ a[Len(netLog) + 1] = n /\ \A i \in 1 .. Len(netLog) : a[i] = netLog[i]
  BY <1>1
<1>3. l = IF Len(a) > LogSize THEN Tail(a) ELSE a
  BY DEF Net!Record
<1>4. /\ Len(netLog) = IF n - 1 < LogSize THEN n - 1 ELSE LogSize
      /\ \A i \in 1 .. Len(netLog) : netLog[i] = n - 1 - Len(netLog) + i
  BY <1>1 DEF Net!AllLogged
<1>5. \A i \in 1 .. Len(a) : a[i] = n - Len(a) + i
  <2> SUFFICES ASSUME NEW i \in 1 .. Len(a) PROVE a[i] = n - Len(a) + i
    OBVIOUS
  <2> Len(netLog) \in Nat
    BY <1>1
  <2>1. CASE i = Len(netLog) + 1
    BY <1>1, <1>2, <2>1
  <2>2. CASE i \in 1 .. Len(netLog)
    <3>1. a[i] = netLog[i] /\ netLog[i] = n - 1 - Len(netLog) + i /\ Len(a) = Len(netLog) + 1
      BY <1>2, <1>4, <2>2
    <3>2. i \in Int /\ n - 1 - Len(netLog) + i = n - (Len(netLog) + 1) + i
      BY <1>1, <2>2
    <3>3. QED
      BY <3>1, <3>2
  <2>3. QED
    BY <1>2, <2>1, <2>2
<1> HIDE DEF a
<1>6. Len(netLog) \in Nat
  BY <1>1
<1>7. CASE Len(a) > LogSize
  <2>1. l = Tail(a) /\ Len(a) # 0
    BY <1>1, <1>2, <1>3, <1>6, <1>7
  <2>2. l \in Seq(Nat) /\ Len(l) = Len(a) - 1 /\ \A i \in 1 .. Len(l) : l[i] = a[i + 1]
    BY <1>2, <2>1
  <2>3. Len(l) = LogSize /\ ~(n < LogSize)
    BY <1>1, <1>2, <1>4, <1>6, <1>7, <2>2
  <2>4. ASSUME NEW i \in 1 .. Len(l) PROVE l[i] = n - Len(l) + i
    <3>1. i + 1 \in 1 .. Len(a) /\ l[i] = a[i + 1]
      BY <1>2, <1>6, <2>2
    <3>2. a[i + 1] = n - Len(a) + (i + 1)
      BY <3>1, <1>5
    <3>3. Len(a) \in Nat /\ i \in Nat
      BY <1>2, <1>6, <2>2
    <3>4. \A p, q, r \in Int : p - q + (r + 1) = p - (q - 1) + r
      OBVIOUS
    <3>5. n - Len(a) + (i + 1) = n - (Len(a) - 1) + i
      <4>1. n \in Int /\ Len(a) \in Int /\ i \in Int
        BY <1>1, <3>3
      <4>2. QED
        BY <4>1, <3>4, Zenon
    <3>6. QED
      BY <2>2, <3>1, <3>2, <3>5
  <2>5. QED
    BY <2>2, <2>3, <2>4
<1>8. CASE ~(Len(a) > LogSize)
  <2>1. l = a /\ Len(a) = n /\ n <= LogSize
    BY <1>1, <1>2, <1>3, <1>4, <1>6, <1>8
  <2>2. Len(l) = IF n < LogSize THEN n ELSE LogSize
    BY <1>1, <2>1
  <2>3. QED
    BY <1>2, <1>5, <2>1, <2>2
<1>9. QED
  BY <1>7, <1>8

LEMMA NetStarts == ASSUME NetSizes PROVE Net!Init => NetInv
<1> SUFFICES ASSUME Net!Init PROVE NetInv
  OBVIOUS
<1> USE DEF NetSizes
<1>1. netClock = 0 /\ allow \subseteq Hosts /\ grants = {} /\ req = Net!NoReq /\ conns = {} /\ admitted = << >> /\ netLog = << >>
      /\ fetched = [fetches |-> 0, ended |-> 0, loads |-> 0, changes |-> 0]
  BY DEF Net!Init
<1>2. gate = [allow |-> allow, grants |-> {}, tokens |-> Rate, last |-> 0]
  BY <1>1 DEF Net!Init, Net!GateOf
<1>3. gate \in AnyGate
  BY <1>1, <1>2 DEF AnyGate
<1>4. fetched \in AnyCount
  BY <1>1 DEF AnyCount
<1>5. (CHOOSE a \in Public : TRUE) \in Addresses
  BY DEF NetSizes
<1>6. dns \in [Hosts -> Net!Lists]
  BY <1>5 DEF Net!Init, Net!Lists
<1>7. NetTyped
  BY <1>1, <1>3, <1>4, <1>6, NoReqIs DEF NetTyped
<1>8. ReqSound
  BY <1>1, NoReqIs DEF ReqSound
<1>9. BucketSound
  BY <1>1, <1>2 DEF BucketSound
<1>10. Net!DeclaredOnly /\ Net!WithinRate
  BY <1>1 DEF Net!DeclaredOnly, Net!WithinRate
<1>11. Net!AllLogged
  BY <1>1, NoReqIs DEF Net!AllLogged
<1>12. QED
  BY <1>7, <1>8, <1>9, <1>10, <1>11 DEF NetInv

\* A step that leaves the clock, the gate and what it let pass alone.
LEMMA GateRests ==
  ASSUME NetInv, UNCHANGED <<netClock, gate, admitted>>
  PROVE  BucketSound' /\ Net!WithinRate'
BY DEF NetInv, BucketSound, Net!WithinRate

LEMMA ConnsRest ==
  ASSUME NetInv, conns' = conns
  PROVE  Net!DeclaredOnly'
BY DEF NetInv, Net!DeclaredOnly

\* A step within a fetch leaves the log alone.
LEMMA LogRests ==
  ASSUME NetInv, UNCHANGED <<fetched, netLog>>, req.pc # "idle", req'.pc # "idle"
  PROVE  Net!AllLogged'
BY DEF NetInv, Net!AllLogged

LEMMA CountIs ==
  ASSUME NEW c \in AnyCount
  PROVE  LET x == [c EXCEPT !.ended = c.ended + 1]
             y == [c EXCEPT !.fetches = @ + 1, !.ended = c.ended + 1]
             z == [c EXCEPT !.fetches = @ + 1]
             w == [c EXCEPT !.loads = @ + 1]
             v == [c EXCEPT !.changes = @ + 1]
         IN  /\ x \in AnyCount /\ x.ended = c.ended + 1 /\ x.fetches = c.fetches
             /\ y \in AnyCount /\ y.ended = c.ended + 1 /\ y.fetches = c.fetches + 1
             /\ z \in AnyCount /\ z.ended = c.ended /\ z.fetches = c.fetches + 1
             /\ w \in AnyCount /\ w.ended = c.ended /\ w.fetches = c.fetches
             /\ v \in AnyCount /\ v.ended = c.ended /\ v.fetches = c.fetches
<1>1. c.fetches \in Nat /\ c.ended \in Nat /\ c.loads \in Nat /\ c.changes \in Nat
  BY DEF AnyCount
<1>2. LET x == [c EXCEPT !.ended = c.ended + 1] IN x \in AnyCount /\ x.ended = c.ended + 1 /\ x.fetches = c.fetches
  BY <1>1 DEF AnyCount
<1>3. LET y == [c EXCEPT !.fetches = @ + 1, !.ended = c.ended + 1]
      IN  y \in AnyCount /\ y.ended = c.ended + 1 /\ y.fetches = c.fetches + 1
  <2> DEFINE d == [c EXCEPT !.fetches = @ + 1]
             y == [d EXCEPT !.ended = c.ended + 1]
  <2>1. d \in AnyCount /\ d.ended = c.ended /\ d.fetches = c.fetches + 1
    BY <1>1 DEF AnyCount
  <2>2. y = [c EXCEPT !.fetches = @ + 1, !.ended = c.ended + 1]
    OBVIOUS
  <2> HIDE DEF d
  <2>3. y \in AnyCount /\ y.ended = c.ended + 1 /\ y.fetches = c.fetches + 1
    BY <1>1, <2>1 DEF AnyCount
  <2>4. QED
    BY <2>2, <2>3
<1>4. LET z == [c EXCEPT !.fetches = @ + 1] IN z \in AnyCount /\ z.ended = c.ended /\ z.fetches = c.fetches + 1
  BY <1>1 DEF AnyCount
<1>5. LET w == [c EXCEPT !.loads = @ + 1] IN w \in AnyCount /\ w.ended = c.ended /\ w.fetches = c.fetches
  BY <1>1 DEF AnyCount
<1>6. LET v == [c EXCEPT !.changes = @ + 1] IN v \in AnyCount /\ v.ended = c.ended /\ v.fetches = c.fetches
  BY <1>1 DEF AnyCount
<1>7. QED
  BY <1>2, <1>3, <1>4, <1>5, <1>6

LEMMA Ends ==
  ASSUME NetSizes, NetInv, req.pc # "idle", Net!Ended, UNCHANGED <<netClock, dns, allow, grants, gate, conns, admitted>>
  PROVE  NetInv'
<1> DEFINE n == fetched.ended + 1
           l == Net!Record
<1>1. /\ l \in Seq(Nat) /\ Len(l) = (IF n < LogSize THEN n ELSE LogSize)
      /\ \A i \in 1 .. Len(l) : l[i] = n - Len(l) + i
  BY Recorded DEF NetInv
<1>2. req' = Net!NoReq /\ netLog' = l /\ fetched' = [fetched EXCEPT !.ended = n]
  BY DEF Net!Ended
<1>3. fetched' \in AnyCount /\ fetched'.ended = n /\ fetched'.fetches = fetched.fetches
  BY <1>2, CountIs DEF NetInv, NetTyped
<1> HIDE DEF l
<1>4. NetTyped'
  BY <1>1, <1>2, <1>3, NoReqIs DEF NetInv, NetTyped
<1>5. ReqSound'
  BY <1>2, NoReqIs DEF ReqSound
<1>6. fetched.ended \in Nat /\ fetched.fetches \in Nat /\ n = fetched.fetches
  BY DEF NetInv, NetTyped, AnyCount, Net!AllLogged
<1> HIDE DEF n
<1>7 Net!AllLogged'
  <2>1. netLog' \in Seq(Nat) /\ DOMAIN netLog' = 1 .. Len(netLog')
    BY <1>1, <1>2, <1>3, <1>6, NoReqIs
  <2>2. /\ Len(netLog') = (IF fetched'.ended < LogSize THEN fetched'.ended ELSE LogSize)
        /\ \A i \in DOMAIN netLog' : netLog'[i] = fetched'.ended - Len(netLog') + i
    BY <2>1, <1>1, <1>2, <1>3, <1>6, NoReqIs
  <2>3. req'.pc = "idle" /\ fetched'.ended = fetched'.fetches /\ fetched'.fetches \in Nat
    BY <1>1, <1>2, <1>3, <1>6, NoReqIs DEF AnyCount
  <2>4. QED
    BY <2>2, <2>3 DEF Net!AllLogged
<1>8. QED
  BY <1>4, <1>5, <1>7, GateRests, ConnsRest DEF NetInv

\* A request that is refused before it counts is an entry of its own.
LEMMA RefusedIs ==
  ASSUME NetSizes, NetInv, req.pc = "idle", req' = req, Net!Refused
  PROVE  /\ fetched' \in AnyCount /\ netLog' \in Seq(Nat) /\ Net!AllLogged'
<1> DEFINE n == fetched.ended + 1
           l == Net!Record
<1>1. /\ l \in Seq(Nat) /\ Len(l) = (IF n < LogSize THEN n ELSE LogSize)
      /\ \A i \in 1 .. Len(l) : l[i] = n - Len(l) + i
  BY Recorded DEF NetInv
<1>2. netLog' = l /\ fetched' = [fetched EXCEPT !.fetches = @ + 1, !.ended = n]
  BY DEF Net!Refused
<1>3. fetched' \in AnyCount /\ fetched'.ended = n /\ fetched'.fetches = fetched.fetches + 1
  BY <1>2, CountIs DEF NetInv, NetTyped
<1> HIDE DEF l
<1>4. fetched.ended \in Nat /\ fetched.fetches \in Nat /\ n = fetched.fetches + 1
  BY DEF NetInv, NetTyped, AnyCount, Net!AllLogged
<1> HIDE DEF n
<1>5 Net!AllLogged'
  <2>1. netLog' \in Seq(Nat) /\ DOMAIN netLog' = 1 .. Len(netLog')
    BY <1>1, <1>2, <1>3, <1>4
  <2>2. /\ Len(netLog') = (IF fetched'.ended < LogSize THEN fetched'.ended ELSE LogSize)
        /\ \A i \in DOMAIN netLog' : netLog'[i] = fetched'.ended - Len(netLog') + i
    BY <2>1, <1>1, <1>2, <1>3, <1>4
  <2>3. req'.pc = "idle" /\ fetched'.ended = fetched'.fetches /\ fetched'.fetches \in Nat
    BY <1>1, <1>2, <1>3, <1>4 DEF AnyCount
  <2>4. QED
    BY <2>2, <2>3 DEF Net!AllLogged
<1>6. QED
  BY <1>1, <1>2, <1>3, <1>5

\* What a refill makes of the bucket.
LEMMA RefillIs ==
  ASSUME NetSizes, NetTyped, BucketSound
  PROVE  /\ Net!Refill(gate) \in 0 .. Rate
         /\ Net!Refill(gate) <= gate.tokens + (netClock - gate.last)
<1>1. gate.tokens \in Nat /\ gate.tokens <= Rate /\ gate.last \in Nat /\ netClock \in Nat /\ gate.last <= netClock /\ Rate \in Nat
  BY DEF NetSizes, NetTyped, AnyGate, BucketSound
<1>2. QED
  BY <1>1 DEF Net!Refill

\* A gate whose bucket holds t now.
LEMMA GateIs ==
  ASSUME NetTyped, NEW t \in 0 .. Rate
  PROVE  LET g == [gate EXCEPT !.tokens = t, !.last = netClock]
         IN  g \in AnyGate /\ g.tokens = t /\ g.last = netClock /\ g.allow = gate.allow /\ g.grants = gate.grants
<1> DEFINE d == [gate EXCEPT !.tokens = t]
           g == [d EXCEPT !.last = netClock]
<1>1. gate \in AnyGate /\ netClock \in Nat
  BY DEF NetTyped
<1>2. d \in AnyGate /\ d.tokens = t /\ d.allow = gate.allow /\ d.grants = gate.grants
  BY <1>1 DEF AnyGate
<1>3. g = [gate EXCEPT !.tokens = t, !.last = netClock]
  OBVIOUS
<1> HIDE DEF d
<1>4. g \in AnyGate /\ g.tokens = t /\ g.last = netClock /\ g.allow = gate.allow /\ g.grants = gate.grants
  BY <1>1, <1>2 DEF AnyGate
<1>5. QED
  BY <1>3, <1>4

LEMMA NetLimited ==
  ASSUME NetSizes, NetInv, NEW h \in Hosts, Net!FetchLimited(h)
  PROVE  NetInv'
<1> DEFINE t == Net!Refill(gate)
<1>1. t \in 0 .. Rate /\ t <= gate.tokens + (netClock - gate.last)
  BY RefillIs DEF NetInv
<1>2. gate' = [gate EXCEPT !.tokens = t, !.last = netClock]
  BY DEF Net!FetchLimited
<1> HIDE DEF t
<1>3. gate' \in AnyGate /\ gate'.tokens = t /\ gate'.last = netClock
  BY <1>1, <1>2, GateIs DEF NetInv
<1>4. UNCHANGED <<netClock, dns, allow, grants, req, conns, admitted>> /\ req.pc = "idle" /\ Net!Refused
  BY DEF Net!FetchLimited
<1>5. fetched' \in AnyCount /\ netLog' \in Seq(Nat) /\ Net!AllLogged'
  BY <1>4, RefusedIs
<1>6. NetTyped'
  BY <1>3, <1>4, <1>5 DEF NetInv, NetTyped
<1>7. ReqSound'
  BY <1>4 DEF ReqSound
<1>8. BucketSound'
  <2>1. gate.last \in Nat /\ gate.tokens \in Nat /\ netClock \in Nat /\ Rate \in Nat /\ gate.last <= netClock /\ admitted \in Seq(Nat)
    BY DEF NetInv, NetTyped, AnyGate, BucketSound, NetSizes
  <2>2. ASSUME NEW i \in 1 .. Len(admitted)
        PROVE  admitted[i] <= netClock /\ t + (Len(admitted) - i + 1) <= Rate + (netClock - admitted[i])
    <3> DEFINE at == admitted[i]
               since == Len(admitted) - i + 1
               last == gate.last
               held == gate.tokens
    <3>1. at <= last /\ held + since <= Rate + (last - at)
      BY DEF NetInv, BucketSound
    <3>2. at \in Int /\ since \in Int /\ t \in Int /\ last \in Int /\ held \in Int
      BY <1>1, <2>1
    <3>3. last <= netClock /\ t <= held + (netClock - last)
      BY <1>1, <2>1
    <3> HIDE DEF at, since, last, held
    <3>4. at <= netClock /\ t + since <= Rate + (netClock - at)
      BY <2>1, <3>1, <3>2, <3>3
    <3>5. QED
      BY <3>4 DEF at, since
  <2>3. QED
    BY <1>3, <1>4, <2>1, <2>2 DEF BucketSound
<1>9. Net!WithinRate'
  BY <1>4 DEF NetInv, Net!WithinRate
<1>10. QED
  BY <1>4, <1>5, <1>6, <1>7, <1>8, <1>9, ConnsRest DEF NetInv

LEMMA NetFetch ==
  ASSUME NetSizes, NetInv, NEW h \in Hosts, Net!Fetch(h)
  PROVE  NetInv'
<1> DEFINE t == Net!Refill(gate)
           q == [Net!NoReq EXCEPT !.pc = "resolve", !.host = h]
           a == Append(admitted, netClock)
           n == Len(admitted)
<1>1. t \in 0 .. Rate /\ t <= gate.tokens + (netClock - gate.last) /\ t >= 1
  BY RefillIs DEF NetInv, Net!Fetch
<1>2. gate' = [gate EXCEPT !.tokens = t - 1, !.last = netClock] /\ t - 1 \in 0 .. Rate
  BY <1>1 DEF Net!Fetch, NetSizes
<1>3. req' = q /\ q \in AnyReq /\ q.pc = "resolve" /\ q.host = h /\ q.hops = 0
  <2>1. q = [pc |-> "resolve", host |-> h, hops |-> 0, ips |-> << >>]
    <3> DEFINE d == [Net!NoReq EXCEPT !.pc = "resolve"]
    <3>1. d = [pc |-> "resolve", host |-> "none", hops |-> 0, ips |-> << >>]
      BY DEF Net!NoReq
    <3>2. q = [d EXCEPT !.host = h]
      BY DEF Net!NoReq
    <3> HIDE DEF d
    <3>3. QED
      BY <3>1, <3>2
  <2>2. req' = q
    BY DEF Net!Fetch
  <2> HIDE DEF q
  <2>3. QED
    BY <2>1, <2>2 DEF AnyReq
<1> HIDE DEF t, q
<1>4. gate' \in AnyGate /\ gate'.tokens = t - 1 /\ gate'.last = netClock /\ gate'.allow = gate.allow
  BY <1>2, GateIs DEF NetInv
<1>5. /\ UNCHANGED <<netClock, dns, allow, grants, netLog>> /\ req.pc = "idle" /\ conns' = {} /\ admitted' = a
      /\ fetched' = [fetched EXCEPT !.fetches = @ + 1] /\ h \in gate.allow
  BY DEF Net!Fetch
<1>6. fetched' \in AnyCount /\ fetched'.ended = fetched.ended /\ fetched'.fetches = fetched.fetches + 1
  BY <1>5, CountIs DEF NetInv, NetTyped
<1>7. /\ gate.last \in Nat /\ gate.tokens \in Nat /\ netClock \in Nat /\ Rate \in Nat /\ gate.last <= netClock
      /\ admitted \in Seq(Nat) /\ n \in Nat
  BY DEF NetInv, NetTyped, AnyGate, BucketSound, NetSizes
<1>8. a \in Seq(Nat) /\ Len(a) = n + 1 /\ a[n + 1] = netClock /\ \A i \in 1 .. n : a[i] = admitted[i]
  BY <1>7
<1> HIDE DEF a
<1>9. NetTyped'
  BY <1>3, <1>4, <1>5, <1>6, <1>8 DEF NetInv, NetTyped
<1>10. ReqSound'
  BY <1>3, <1>4, <1>5 DEF ReqSound, NetSizes
<1>11. ASSUME NEW i \in 1 .. n
       PROVE  admitted[i] <= netClock /\ (t - 1) + ((n + 1) - i + 1) <= Rate + (netClock - admitted[i])
  <2>1. admitted[i] <= gate.last /\ gate.tokens + (n - i + 1) <= Rate + (gate.last - admitted[i])
    BY DEF NetInv, BucketSound
  <2> DEFINE at == admitted[i]
             since == n - i + 1
             last == gate.last
             held == gate.tokens
  <2>2. at \in Int /\ since \in Int /\ t \in Int /\ last \in Int /\ held \in Int
    BY <1>1, <1>7
  <2>3. last <= netClock /\ t <= held + (netClock - last) /\ at <= last /\ held + since <= Rate + (last - at)
    BY <1>1, <1>7, <2>1
  <2>4. (n + 1) - i + 1 = since + 1
    BY <1>7
  <2> HIDE DEF at, since, last, held
  <2>5. at <= netClock /\ (t - 1) + (since + 1) <= Rate + (netClock - at)
    BY <1>7, <2>2, <2>3
  <2>6. QED
    BY <2>4, <2>5 DEF at
<1>12. BucketSound'
  <2>1. ASSUME NEW i \in 1 .. n + 1
        PROVE  a[i] <= netClock /\ (t - 1) + ((n + 1) - i + 1) <= Rate + (netClock - a[i])
    <3>1. CASE i \in 1 .. n
      BY <3>1, <1>8, <1>11
    <3>2. CASE i = n + 1
      BY <3>2, <1>1, <1>7, <1>8
    <3>3. QED
      BY <1>7, <3>1, <3>2
  <2>2. QED
    BY <1>4, <1>5, <1>7, <1>8, <2>1 DEF BucketSound
<1>13. Net!WithinRate'
  <2>1. ASSUME NEW i \in DOMAIN a, NEW j \in DOMAIN a, i <= j
        PROVE  j - i + 1 <= Rate + (a[j] - a[i])
    <3>0. i \in 1 .. n + 1 /\ j \in 1 .. n + 1
      BY <1>8
    <3>1. CASE j \in 1 .. n
      <4>1. i \in 1 .. n
        BY <1>7, <2>1, <3>0, <3>1
      <4>2. i \in DOMAIN admitted /\ j \in DOMAIN admitted
        BY <1>7, <3>1, <4>1
      <4>3. j - i + 1 <= Rate + (admitted[j] - admitted[i])
        BY <2>1, <4>2 DEF NetInv, Net!WithinRate
      <4>4. QED
        BY <1>8, <3>1, <4>1, <4>3
    <3>2. CASE j = n + 1 /\ i \in 1 .. n
      <4> DEFINE at == admitted[i]
                 since == (n + 1) - i + 1
      <4>1. a[j] = netClock /\ a[i] = at
        BY <1>8, <3>2
      <4>2. at \in Int /\ since \in Int /\ t \in Int /\ t >= 1
        BY <1>1, <1>7, <3>2
      <4>3. (t - 1) + since <= Rate + (netClock - at)
        BY <1>11, <3>2
      <4>4. j - i + 1 = since
        BY <3>2
      <4> HIDE DEF at, since
      <4>5. QED
        BY <1>7, <4>1, <4>2, <4>3, <4>4
    <3>3. CASE j = n + 1 /\ i = n + 1
      BY <1>1, <1>7, <1>8, <3>3
    <3>4. QED
      BY <1>7, <3>0, <3>1, <3>2, <3>3
  <2>2. QED
    BY <1>5, <2>1 DEF Net!WithinRate
<1>14. Net!DeclaredOnly'
  BY <1>5 DEF Net!DeclaredOnly
<1>15. Net!AllLogged'
  <2>1. fetched.ended = fetched.fetches /\ fetched.fetches \in Nat
    BY <1>5 DEF NetInv, NetTyped, AnyCount, Net!AllLogged
  <2>2. fetched'.ended = fetched'.fetches - 1
    BY <1>6, <2>1
  <2>3. QED
    BY <1>3, <1>5, <1>6, <2>2 DEF NetInv, Net!AllLogged
<1>16. QED
  BY <1>9, <1>10, <1>12, <1>13, <1>14, <1>15 DEF NetInv

\* A step within a fetch, to a request that is sound.
LEMMA Within ==
  ASSUME NetInv, NEW q \in AnyReq, req' = q, req.pc # "idle", q.pc # "idle",
         q.host \in gate.allow, q.hops < MaxRedirects, Net!DeclaredOnly',
         UNCHANGED <<netClock, dns, allow, grants, gate, admitted, netLog, fetched>>
  PROVE  NetInv'
<1>1. NetTyped'
  BY DEF NetInv, NetTyped
<1>2. ReqSound'
  BY DEF ReqSound
<1>3. QED
  BY <1>1, <1>2, GateRests, LogRests DEF NetInv

\* A request with the addresses to dial.
LEMMA DialsTo ==
  ASSUME NEW r \in AnyReq, NEW l \in Seq(Addresses), NEW z, z = [r EXCEPT !.ips = l]
  PROVE  z \in AnyReq /\ z.pc = r.pc /\ z.host = r.host /\ z.hops = r.hops
BY DEF AnyReq

LEMMA NetResolve == ASSUME NetSizes, NetInv, Net!Resolve PROVE NetInv'
<1> DEFINE q == [req EXCEPT !.pc = "dial", !.ips = dns[req.host]]
<1>1. req.pc = "resolve" /\ req.host \in gate.allow /\ req' = q /\ UNCHANGED <<netClock, dns, allow, grants, gate, conns, admitted, netLog, fetched>>
  BY DEF Net!Resolve
<1>2. req \in AnyReq /\ gate.allow \subseteq Hosts /\ dns \in [Hosts -> Net!Lists]
  BY DEF NetInv, NetTyped, AnyGate
<1>3. dns[req.host] \in Seq(Addresses)
  BY <1>1, <1>2, ListIsSeq
<1>4. q \in AnyReq /\ q.pc = "dial" /\ q.host = req.host /\ q.hops = req.hops
  <2> DEFINE d == [req EXCEPT !.pc = "dial"]
  <2>1. d \in AnyReq /\ d.pc = "dial" /\ d.host = req.host /\ d.hops = req.hops
    BY <1>2 DEF AnyReq
  <2>2. q = [d EXCEPT !.ips = dns[req.host]]
    OBVIOUS
  <2> HIDE DEF d, q
  <2>3. QED
    BY <1>3, <2>1, <2>2, DialsTo
<1> HIDE DEF q
<1>5. req.hops < MaxRedirects
  BY <1>1 DEF NetInv, ReqSound
<1>6. QED
  BY <1>1, <1>4, <1>5, Within, ConnsRest

LEMMA NetDial == ASSUME NetSizes, NetInv, Net!Dial PROVE NetInv'
<1> DEFINE q == [req EXCEPT !.pc = "wait"]
           c == [hop |-> req.hops, host |-> req.host, ip |-> Net!Dialled(req), allow |-> gate.allow, grants |-> gate.grants]
<1>1. /\ req.pc = "dial" /\ req' = q /\ conns' = conns \cup {c} /\ Net!IpAllowed(req.host, req.ips[1])
      /\ UNCHANGED <<netClock, dns, allow, grants, gate, admitted, netLog, fetched>>
  BY DEF Net!Dial
<1>2. req \in AnyReq /\ req.host \in gate.allow /\ req.hops < MaxRedirects
  BY <1>1 DEF NetInv, NetTyped, ReqSound
<1>3. q \in AnyReq /\ q.pc = "wait" /\ q.host = req.host /\ q.hops = req.hops
  BY <1>2 DEF AnyReq
<1>4. c.host \in c.allow /\ (c.ip \in Public \/ c.host \in c.grants) /\ c.hop < MaxRedirects
  BY <1>1, <1>2 DEF Net!IpAllowed, Net!Dialled
<1> HIDE DEF c, q
<1>5. Net!DeclaredOnly'
  BY <1>1, <1>4 DEF NetInv, Net!DeclaredOnly
<1>6. QED
  BY <1>1, <1>2, <1>3, <1>5, Within

LEMMA NetNextAddress == ASSUME NetSizes, NetInv, Net!NextAddress PROVE NetInv'
<1> DEFINE q == [req EXCEPT !.ips = Tail(req.ips)]
<1>1. req.pc = "dial" /\ req.ips # << >> /\ req' = q /\ UNCHANGED <<netClock, dns, allow, grants, gate, conns, admitted, netLog, fetched>>
  BY DEF Net!NextAddress
<1>2. req \in AnyReq /\ req.host \in gate.allow /\ req.hops < MaxRedirects
  BY <1>1 DEF NetInv, NetTyped, ReqSound
<1>3. Tail(req.ips) \in Seq(Addresses)
  BY <1>1, <1>2 DEF AnyReq
<1>4. q \in AnyReq /\ q.pc = "dial" /\ q.host = req.host /\ q.hops = req.hops
  <2> DEFINE l == Tail(req.ips)
  <2>1. q = [req EXCEPT !.ips = l]
    OBVIOUS
  <2> HIDE DEF l, q
  <2>2. l \in Seq(Addresses)
    BY <1>3 DEF l
  <2>3. QED
    BY <1>1, <1>2, <2>1, <2>2, DialsTo
<1> HIDE DEF q
<1>5. QED
  BY <1>1, <1>2, <1>4, Within, ConnsRest

LEMMA NetRedirect == ASSUME NetSizes, NetInv, NEW h \in Hosts, Net!Redirect(h) PROVE NetInv'
<1> DEFINE q == [pc |-> "resolve", host |-> h, hops |-> req.hops + 1, ips |-> << >>]
<1>1. /\ req.pc = "wait" /\ req.hops + 1 < MaxRedirects /\ h \in gate.allow
      /\ req' = [req EXCEPT !.pc = "resolve", !.hops = @ + 1, !.host = h, !.ips = << >>]
      /\ UNCHANGED <<netClock, dns, allow, grants, gate, conns, admitted, netLog, fetched>>
  BY DEF Net!Redirect
<1>2. req \in AnyReq
  BY DEF NetInv, NetTyped
<1>3. req.hops \in Nat /\ req = [pc |-> req.pc, host |-> req.host, hops |-> req.hops, ips |-> req.ips]
  BY <1>2 DEF AnyReq
<1>4. req' = q
  BY <1>1, <1>3
<1>5. q \in AnyReq /\ q.pc = "resolve" /\ q.host = h /\ q.hops = req.hops + 1
  BY <1>3 DEF AnyReq
<1> HIDE DEF q
<1>6. QED
  BY <1>1, <1>4, <1>5, Within, ConnsRest

LEMMA NetRefused == ASSUME NetSizes, NetInv, NEW h \in Hosts, Net!FetchRefused(h) PROVE NetInv'
<1>1. req.pc = "idle" /\ Net!Refused /\ UNCHANGED <<netClock, dns, allow, grants, gate, req, conns, admitted>>
  BY DEF Net!FetchRefused
<1>2. fetched' \in AnyCount /\ netLog' \in Seq(Nat) /\ Net!AllLogged'
  BY <1>1, RefusedIs
<1>3. NetTyped'
  BY <1>1, <1>2 DEF NetInv, NetTyped
<1>4. ReqSound'
  BY <1>1 DEF ReqSound
<1>5. QED
  BY <1>1, <1>2, <1>3, <1>4, GateRests, ConnsRest DEF NetInv

\* The gate is made anew: a full bucket, and nothing let pass.
LEMMA NetLoaded ==
  ASSUME NetSizes, NetInv, NEW a \in SUBSET Hosts, NEW g \in SUBSET Hosts, Net!Idle, Net!Loaded(a, g),
         allow' \subseteq Hosts, grants' \subseteq Hosts, UNCHANGED <<netClock, dns, req, conns, netLog>>
  PROVE  NetInv'
<1>1. gate' = [allow |-> a, grants |-> g, tokens |-> Rate, last |-> netClock] /\ admitted' = << >>
      /\ fetched' = [fetched EXCEPT !.loads = @ + 1] /\ req.pc = "idle"
  BY DEF Net!Loaded, Net!GateOf, Net!Idle
<1>2. gate' \in AnyGate /\ gate'.last = netClock /\ netClock \in Nat
  BY <1>1 DEF AnyGate, NetInv, NetTyped, NetSizes
<1>3. fetched' \in AnyCount /\ fetched'.ended = fetched.ended /\ fetched'.fetches = fetched.fetches
  BY <1>1, CountIs DEF NetInv, NetTyped
<1>4. NetTyped'
  BY <1>1, <1>2, <1>3 DEF NetInv, NetTyped
<1>5. ReqSound'
  BY <1>1 DEF ReqSound
<1>6. BucketSound'
  BY <1>1, <1>2 DEF BucketSound
<1>7. Net!WithinRate'
  BY <1>1 DEF Net!WithinRate
<1>8. Net!AllLogged'
  BY <1>1, <1>3 DEF NetInv, Net!AllLogged
<1>9. QED
  BY <1>4, <1>5, <1>6, <1>7, <1>8, ConnsRest DEF NetInv

LEMMA NetGates == ASSUME NetSizes, NetInv, NEW g \in SUBSET Hosts, Net!SetEnabled(g) \/ Net!Update(g) PROVE NetInv'
<1>1. allow \in SUBSET Hosts /\ grants \in SUBSET Hosts
  BY DEF NetInv, NetTyped
<1>2. CASE Net!SetEnabled(g)
  BY <1>1, <1>2, NetLoaded DEF Net!SetEnabled
<1>3. CASE Net!Update(g)
  BY <1>1, <1>3, NetLoaded DEF Net!Update
<1>4. QED
  BY <1>2, <1>3

LEMMA NetTick == ASSUME NetSizes, NetInv, Net!Tick PROVE NetInv'
<1>1. netClock' = netClock + 1 /\ netClock < MaxClock /\ UNCHANGED <<dns, allow, grants, gate, req, conns, admitted, netLog, fetched>>
  BY DEF Net!Tick
<1>2. netClock \in Nat /\ netClock' \in Nat /\ netClock' <= MaxClock
  BY <1>1 DEF NetInv, NetTyped, NetSizes
<1>3. NetTyped'
  BY <1>1, <1>2 DEF NetInv, NetTyped
<1>4. ReqSound'
  BY <1>1 DEF NetInv, ReqSound
<1>5. gate.last \in Nat
  BY DEF NetInv, NetTyped, AnyGate
<1>6. BucketSound'
  BY <1>1, <1>2, <1>5 DEF NetInv, BucketSound
<1>7. Net!WithinRate'
  BY <1>1 DEF NetInv, Net!WithinRate
<1>8. Net!AllLogged'
  BY <1>1 DEF NetInv, Net!AllLogged
<1>9. QED
  BY <1>1, <1>3, <1>4, <1>6, <1>7, <1>8, ConnsRest DEF NetInv

LEMMA NetRename == ASSUME NetSizes, NetInv, NEW h \in Hosts, NEW ips \in Net!Lists, Net!Rename(h, ips) PROVE NetInv'
<1>1. /\ dns' = [dns EXCEPT ![h] = ips] /\ fetched' = [fetched EXCEPT !.changes = @ + 1]
      /\ UNCHANGED <<netClock, allow, grants, gate, req, conns, admitted, netLog>>
  BY DEF Net!Rename
<1>2. fetched' \in AnyCount /\ fetched'.ended = fetched.ended /\ fetched'.fetches = fetched.fetches
  BY <1>1, CountIs DEF NetInv, NetTyped
<1>3. dns' \in [Hosts -> Net!Lists]
  BY <1>1 DEF NetInv, NetTyped
<1>4. NetTyped'
  BY <1>1, <1>2, <1>3 DEF NetInv, NetTyped
<1>5. ReqSound'
  BY <1>1 DEF NetInv, ReqSound
<1>6. Net!AllLogged'
  BY <1>1, <1>2 DEF NetInv, Net!AllLogged
<1>7. QED
  BY <1>1, <1>4, <1>5, <1>6, GateRests, ConnsRest DEF NetInv

LEMMA NetEnding == ASSUME NetSizes, NetInv, NEW h \in Hosts, Net!RedirectRefused(h) \/ Net!Answered \/ Net!Fails PROVE NetInv'
<1>1. req.pc # "idle" /\ Net!Ended /\ UNCHANGED <<netClock, dns, allow, grants, gate, conns, admitted>>
  BY DEF Net!RedirectRefused, Net!Answered, Net!Fails
<1>2. QED
  BY <1>1, Ends

LEMMA NetStep == ASSUME NetSizes PROVE NetInv /\ [Net!Next]_(Net!vars) => NetInv'
<1> SUFFICES ASSUME NetInv, [Net!Next]_(Net!vars) PROVE NetInv'
  OBVIOUS
<1>1. ASSUME NEW h \in Hosts, \/ Net!FetchRefused(h) \/ Net!FetchLimited(h) \/ Net!Fetch(h)
                              \/ Net!Redirect(h) \/ Net!RedirectRefused(h)
      PROVE  NetInv'
  BY <1>1, NetRefused, NetLimited, NetFetch, NetRedirect, NetEnding
<1>2. CASE Net!Resolve \/ Net!Dial \/ Net!NextAddress \/ Net!Tick
  BY <1>2, NetResolve, NetDial, NetNextAddress, NetTick
<1>3. CASE Net!Answered \/ Net!Fails
  <2>1. req.pc # "idle" /\ Net!Ended /\ UNCHANGED <<netClock, dns, allow, grants, gate, conns, admitted>>
    BY <1>3 DEF Net!Answered, Net!Fails
  <2>2. QED
    BY <2>1, Ends
<1>4. ASSUME NEW g \in SUBSET Hosts, Net!SetEnabled(g) \/ Net!Update(g) PROVE NetInv'
  BY <1>4, NetGates
<1>5. ASSUME NEW h \in Hosts, NEW ips \in Net!Lists, Net!Rename(h, ips) PROVE NetInv'
  BY <1>5, NetRename
<1>6. CASE UNCHANGED Net!vars
  BY <1>6 DEF Net!vars, NetInv, NetTyped, ReqSound, BucketSound, Net!DeclaredOnly, Net!WithinRate, Net!AllLogged
<1>7. QED
  BY <1>1, <1>2, <1>3, <1>4, <1>5, <1>6 DEF Net!Next

\* Whatever names come to mean and wherever answers redirect, a plugin's connections go to hosts its
\* manifest declares, at addresses that are public or that the operator granted; in any stretch of time no
\* more requests pass a gate than its budget and what that grew by; and the ring of the log
\* holds the newest fetches, in order, none left out.
THEOREM EgressKept ==
  ASSUME NetSizes
  PROVE  Net!Spec => [](Net!DeclaredOnly /\ Net!WithinRate /\ Net!AllLogged)
<1>1. NetInv => Net!DeclaredOnly /\ Net!WithinRate /\ Net!AllLogged
  BY DEF NetInv
<1>2. QED
  BY <1>1, NetStarts, NetStep, PTL DEF Net!Spec

-----------------------------------------------------------------------------
(* The VM of a plugin, under each of the three runtimes. *)
CONSTANTS Runtime, Hooks, Declared, MaxCalls
VARIABLES vm, call, expired, armed, scratch, ops, results

Vm == INSTANCE PluginVm

Outcomes == {"ok", "error", "interrupted", "trap"}
AnyVm == [pc : {"unloaded", "ready", "failed", "closed"}, live : BOOLEAN, memory : SUBSET Nat, interrupt : BOOLEAN, ctx : Nat]
AnyCall == [pc : {"idle", "running", "stopping"}, id : Nat, outcome : Outcomes \cup {"none"}, asked : BOOLEAN, heard : SUBSET Nat]
AnyScratch == [in : Nat, out : Nat, resp : Nat]
AnyResult == [outcome : Outcomes, out : Nat, heard : SUBSET Nat, late : BOOLEAN]

VmTyped ==
  /\ vm \in AnyVm /\ call \in AnyCall /\ scratch \in AnyScratch /\ results \in Seq(AnyResult)
  /\ expired \in SUBSET Nat /\ armed \in SUBSET Nat

InCall == call.pc # "idle"

\* Between calls the VM has no context, no interrupt and no watcher.
Resting == ~InCall => /\ call.id = 0 /\ vm.ctx = 0 /\ ~vm.interrupt /\ armed = {}

\* In a call all there is belongs to it, and only its deadline interrupts it.
CallSound ==
  InCall => /\ call.id = Len(results) + 1 /\ vm.ctx = call.id /\ vm.pc = "ready"
            /\ call.heard \subseteq {call.id} /\ armed \subseteq {call.id}
            /\ vm.interrupt => call.id \in expired
            /\ call.outcome = "interrupted" => call.id \in expired
            /\ (Runtime = "wasm" => vm.live)
            /\ scratch.in \in {0, call.id} /\ scratch.out \in {0, call.id} /\ scratch.resp \in {0, call.id}

\* What ended says of itself, of its own.
ResultsSound ==
  \A i \in 1 .. Len(results) :
    /\ results[i].outcome = "interrupted" => results[i].late
    /\ results[i].out \in {0, i} /\ results[i].heard \subseteq {i}
    /\ results[i].outcome = "ok" => results[i].out = i
OpsSound == \A o \in ops : o[1] = o[2]

VmFailed == {i \in 1 .. Len(results) : results[i].outcome \in {"interrupted", "trap"}}
VmWhole == {i \in 1 .. Len(results) : results[i].outcome \in {"ok", "error"} /\ \A j \in VmFailed : j < i}
Traces == {call.id} \ {0}

\* What the memory holds traces of; a wasm module that is gone holds none.
MemorySound ==
  /\ vm.pc = "unloaded" => vm.memory = {} /\ results = << >>
  /\ Runtime = "wasm" => vm.memory \cap VmFailed = {} /\ (~vm.live => vm.memory = {}) /\ (vm.live => vm.memory \subseteq VmWhole \cup Traces)
  /\ Runtime # "wasm" /\ vm.pc = "ready" => vm.memory = (1 .. Len(results)) \cup Traces

\* Only the ABI of wasm has buffers.
Buffers == Runtime # "wasm" => scratch = Vm!Empty

\* A call that stops has an outcome; only js has watchers and interrupts.
StopSound ==
  /\ call.pc = "stopping" => call.outcome \in Outcomes
  /\ Runtime # "js" => armed = {} /\ ~vm.interrupt

VmInv == VmTyped /\ Resting /\ CallSound /\ ResultsSound /\ OpsSound /\ MemorySound /\ Buffers /\ StopSound

LEMMA VmStarts == Vm!Init => VmInv
<1> SUFFICES ASSUME Vm!Init PROVE VmInv
  OBVIOUS
<1>1. /\ vm = [pc |-> "unloaded", live |-> FALSE, memory |-> {}, interrupt |-> FALSE, ctx |-> 0]
      /\ call = [pc |-> "idle", id |-> 0, outcome |-> "none", asked |-> FALSE, heard |-> {}]
      /\ expired = {} /\ armed = {} /\ scratch = [in |-> 0, out |-> 0, resp |-> 0] /\ ops = {} /\ results = << >>
  BY DEF Vm!Init, Vm!NoCall, Vm!Empty
<1>2. vm \in AnyVm
  BY <1>1 DEF AnyVm
<1>3. call \in AnyCall
  BY <1>1 DEF AnyCall
<1>4. scratch \in AnyScratch
  BY <1>1 DEF AnyScratch
<1>5. VmTyped
  BY <1>1, <1>2, <1>3, <1>4 DEF VmTyped
<1>6. Resting /\ CallSound
  BY <1>1 DEF Resting, CallSound, InCall
<1>7. ResultsSound /\ OpsSound
  BY <1>1 DEF ResultsSound, OpsSound
<1>8. VmWhole = {} /\ VmFailed = {}
  BY <1>1 DEF VmWhole, VmFailed
<1>9. MemorySound
  BY <1>1, <1>8 DEF MemorySound
<1>10. Buffers
  BY DEF Vm!Init, Buffers
<1>11. StopSound
  BY <1>1 DEF StopSound
<1>12. QED
  BY <1>5, <1>6, <1>7, <1>9, <1>10, <1>11 DEF VmInv

\* A result more: a failure is among the failed, and leaves no call before it whole.
LEMMA OneMore ==
  ASSUME results \in Seq(AnyResult), NEW r \in AnyResult, results' = Append(results, r),
         NEW n, n = Len(results)
  PROVE  /\ results' \in Seq(AnyResult) /\ Len(results') = n + 1 /\ n \in Nat
         /\ results'[n + 1] = r /\ \A i \in 1 .. n : results'[i] = results[i]
         /\ VmFailed \subseteq 1 .. n /\ VmWhole \subseteq 1 .. n
         /\ VmFailed' = VmFailed \cup (IF r.outcome \in {"interrupted", "trap"} THEN {n + 1} ELSE {})
         /\ r.outcome \in {"ok", "error"} => VmWhole' = VmWhole \cup {n + 1}
<1>1. results' \in Seq(AnyResult) /\ Len(results') = n + 1 /\ n \in Nat
      /\ results'[n + 1] = r /\ \A i \in 1 .. n : results'[i] = results[i]
  OBVIOUS
<1>2. VmFailed \subseteq 1 .. n /\ VmWhole \subseteq 1 .. n
  BY DEF VmFailed, VmWhole
<1>3. \A i : i \in 1 .. n + 1 <=> i \in 1 .. n \/ i = n + 1
  BY <1>1
<1>4. VmFailed' = {i \in 1 .. n + 1 : results'[i].outcome \in {"interrupted", "trap"}}
  BY <1>1 DEF VmFailed
<1>5. VmFailed' = VmFailed \cup (IF r.outcome \in {"interrupted", "trap"} THEN {n + 1} ELSE {})
  BY <1>1, <1>3, <1>4 DEF VmFailed
<1>6. ASSUME r.outcome \in {"ok", "error"} PROVE VmWhole' = VmWhole \cup {n + 1}
  <2>1. VmFailed' = VmFailed
    BY <1>5, <1>6
  <2>2. VmWhole' = {i \in 1 .. n + 1 : results'[i].outcome \in {"ok", "error"} /\ \A j \in VmFailed : j < i}
    BY <1>1, <2>1 DEF VmWhole
  <2>3. \A j \in VmFailed : j < n + 1
    BY <1>1, <1>2
  <2>4. QED
    BY <1>1, <1>3, <1>6, <2>2, <2>3 DEF VmWhole
<1>7. QED
  BY <1>1, <1>2, <1>5, <1>6

\* A call that ends, with a result of its own, and what it leaves of the VM.
LEMMA CallEnds ==
  ASSUME VmInv, InCall, NEW o \in Outcomes, NEW out \in {0, call.id}, Vm!Ended(o, out),
         o = "ok" => out = call.id, o = "interrupted" => call.id \in expired,
         vm' \in AnyVm, scratch' \in AnyScratch, vm'.ctx = 0, ~vm'.interrupt, vm'.pc = "ready", armed' = {},
         \/ vm'.live = vm.live /\ vm'.memory = vm.memory /\ (Runtime = "wasm" => o \in {"ok", "error"})
         \/ Runtime = "wasm" /\ ~vm'.live /\ vm'.memory = {},
         Runtime # "wasm" => scratch' = scratch, UNCHANGED <<expired, ops>>
  PROVE  VmInv'
<1> DEFINE n == Len(results)
           r == [outcome |-> o, out |-> out, heard |-> call.heard, late |-> call.id \in expired]
<1>1. call.id = n + 1 /\ call.heard \subseteq {n + 1} /\ n \in Nat /\ vm.pc = "ready" /\ (Runtime = "wasm" => vm.live)
  BY DEF VmInv, CallSound, VmTyped
<1>2. r \in AnyResult /\ r.outcome = o /\ r.out = out /\ r.heard = call.heard /\ r.late = (call.id \in expired)
  BY <1>1 DEF AnyResult
<1>3. results' = Append(results, r) /\ call' = Vm!NoCall
  BY DEF Vm!Ended
<1> HIDE DEF r
<1>4. results \in Seq(AnyResult)
  BY DEF VmInv, VmTyped
<1>5. /\ results' \in Seq(AnyResult) /\ Len(results') = n + 1 /\ results'[n + 1] = r /\ \A i \in 1 .. n : results'[i] = results[i]
      /\ VmFailed \subseteq 1 .. n /\ VmWhole \subseteq 1 .. n
      /\ VmFailed' = VmFailed \cup (IF o \in {"interrupted", "trap"} THEN {n + 1} ELSE {})
      /\ o \in {"ok", "error"} => VmWhole' = VmWhole \cup {n + 1}
  BY <1>2, <1>3, <1>4, OneMore
<1>6. call' \in AnyCall /\ call'.pc = "idle" /\ call'.id = 0
  BY <1>3 DEF Vm!NoCall, AnyCall
<1> HIDE DEF n
<1>7. VmTyped'
  BY <1>5, <1>6 DEF VmInv, VmTyped
<1>8. Resting' /\ CallSound'
  BY <1>6 DEF Resting, CallSound, InCall
<1>9. ResultsSound'
  <2>1. ASSUME NEW i \in 1 .. n + 1
        PROVE  /\ results'[i].outcome = "interrupted" => results'[i].late
               /\ results'[i].out \in {0, i} /\ results'[i].heard \subseteq {i}
               /\ results'[i].outcome = "ok" => results'[i].out = i
    <3>1. CASE i \in 1 .. n
      BY <3>1, <1>5 DEF VmInv, ResultsSound, n
    <3>2. CASE i = n + 1
      BY <3>2, <1>1, <1>2, <1>5
    <3>3. QED
      BY <1>1, <3>1, <3>2
  <2>2. QED
    BY <1>5, <2>1 DEF ResultsSound
<1>10. OpsSound'
  BY DEF VmInv, OpsSound
<1>11. MemorySound'
  <2>1. Traces = {n + 1} /\ Traces' = {}
    BY <1>1, <1>6 DEF Traces
  <2>2. CASE Runtime = "wasm" /\ ~vm'.live /\ vm'.memory = {}
    BY <2>2 DEF MemorySound
  <2>3. CASE Runtime = "wasm" /\ vm'.live = vm.live /\ vm'.memory = vm.memory /\ o \in {"ok", "error"}
    BY <2>1, <2>3, <1>1, <1>5 DEF VmInv, MemorySound
  <2>4. CASE Runtime # "wasm" /\ vm'.memory = vm.memory
    <3>1. vm.memory = (1 .. n) \cup {n + 1}
      BY <2>1, <2>4, <1>1 DEF VmInv, MemorySound, n
    <3>2. vm'.memory = (1 .. Len(results')) \cup Traces'
      BY <2>1, <2>4, <3>1, <1>1, <1>5
    <3>3. QED
      BY <2>4, <3>2 DEF MemorySound
  <2>5. QED
    BY <2>2, <2>3, <2>4
<1>12. Buffers'
  BY DEF VmInv, Buffers
<1>13. StopSound'
  BY <1>6 DEF StopSound
<1>14. QED
  BY <1>7, <1>8, <1>9, <1>10, <1>11, <1>12, <1>13 DEF VmInv

\* A call that starts leaves its trace in the memory, or in that of a new module.
LEMMA CallStarts ==
  ASSUME VmInv, Vm!CanCall, call' = Vm!Started, vm' \in AnyVm, scratch' \in AnyScratch, armed' \in SUBSET Nat,
         vm'.ctx = Len(results) + 1, vm'.interrupt = vm.interrupt, vm'.pc = vm.pc, armed' \subseteq {Len(results) + 1},
         vm'.memory = {Len(results) + 1} \cup (IF Runtime = "wasm" /\ ~vm.live THEN {} ELSE vm.memory),
         Runtime = "wasm" => vm'.live, Runtime # "js" => armed' = {},
         \/ scratch' = [in |-> Len(results) + 1, out |-> 0, resp |-> 0]
         \/ scratch' = scratch /\ scratch = Vm!Empty,
         Runtime # "wasm" => scratch' = scratch, UNCHANGED <<expired, ops, results>>
  PROVE  VmInv'
<1> DEFINE n == Len(results)
<1>1. ~InCall /\ call.id = 0 /\ vm.pc = "ready" /\ ~vm.interrupt /\ n \in Nat
  BY DEF VmInv, Vm!CanCall, InCall, Resting, VmTyped
<1>2. Vm!NoCall \in AnyCall /\ Vm!NoCall.outcome = "none" /\ Vm!NoCall.heard = {}
  BY DEF Vm!NoCall, AnyCall
<1>3. call' \in AnyCall /\ call'.pc = "running" /\ call'.id = n + 1 /\ call'.heard = {} /\ call'.outcome = "none"
  <2> DEFINE d == [Vm!NoCall EXCEPT !.pc = "running"]
  <2>1. d \in AnyCall /\ d.pc = "running" /\ d.outcome = "none" /\ d.heard = {}
    BY <1>2 DEF AnyCall
  <2>2. call' = [d EXCEPT !.id = n + 1]
    BY DEF Vm!Started, Vm!NextId
  <2> HIDE DEF d
  <2>3. QED
    BY <1>1, <2>1, <2>2 DEF AnyCall
<1>4. VmTyped'
  BY <1>3 DEF VmInv, VmTyped
<1>5. Resting'
  BY <1>3 DEF Resting, InCall
<1>6. scratch'.in \in {0, n + 1} /\ scratch'.out \in {0, n + 1} /\ scratch'.resp \in {0, n + 1}
  BY DEF Vm!Empty
<1>7. CallSound'
  BY <1>1, <1>3, <1>6 DEF CallSound
<1>8. ResultsSound' /\ OpsSound'
  BY DEF VmInv, ResultsSound, OpsSound
<1>9. Traces = {} /\ Traces' = {n + 1} /\ VmWhole' = VmWhole /\ VmFailed' = VmFailed /\ VmFailed \subseteq 1 .. n
  BY <1>1, <1>3 DEF Traces, VmWhole, VmFailed
<1>10. MemorySound'
  <2>1. CASE Runtime = "wasm"
    <3>1. n + 1 \notin VmFailed
      BY <1>1, <1>9
    <3>2. vm'.memory \cap VmFailed' = {}
      BY <2>1, <3>1, <1>9 DEF VmInv, MemorySound
    <3>3. vm'.memory \subseteq VmWhole' \cup Traces'
      BY <2>1, <1>9 DEF VmInv, MemorySound
    <3>4. QED
      BY <2>1, <1>1, <3>2, <3>3 DEF MemorySound
  <2>2. CASE Runtime # "wasm"
    <3>1. vm.memory = 1 .. n
      BY <2>2, <1>1, <1>9 DEF VmInv, MemorySound
    <3>2. QED
      BY <2>2, <3>1, <1>1, <1>9 DEF MemorySound
  <2>3. QED
    BY <2>1, <2>2
<1>11. Buffers'
  BY DEF VmInv, Buffers
<1>12. StopSound'
  BY <1>3 DEF VmInv, StopSound
<1>13. QED
  BY <1>4, <1>5, <1>7, <1>8, <1>10, <1>11, <1>12 DEF VmInv

\* What a call makes of the VM.
LEMMA VmBegins ==
  ASSUME vm \in AnyVm, NEW id \in Nat, vm' = [vm EXCEPT !.ctx = id, !.memory = @ \cup {id}]
  PROVE  vm' \in AnyVm /\ vm'.ctx = id /\ vm'.interrupt = vm.interrupt /\ vm'.pc = vm.pc /\ vm'.memory = vm.memory \cup {id}
<1> DEFINE d == [vm EXCEPT !.ctx = id]
<1>1. d \in AnyVm /\ d.ctx = id /\ d.interrupt = vm.interrupt /\ d.pc = vm.pc /\ d.memory = vm.memory
  BY DEF AnyVm
<1>2. vm' = [d EXCEPT !.memory = vm.memory \cup {id}]
  OBVIOUS
<1> HIDE DEF d
<1>3. vm.memory \cup {id} \in SUBSET Nat
  BY DEF AnyVm
<1>4. QED
  BY <1>1, <1>2, <1>3 DEF AnyVm

LEMMA VmRenews ==
  ASSUME vm \in AnyVm, NEW id \in Nat, NEW m \in SUBSET Nat, vm' = [vm EXCEPT !.live = TRUE, !.ctx = id, !.memory = m]
  PROVE  vm' \in AnyVm /\ vm'.ctx = id /\ vm'.interrupt = vm.interrupt /\ vm'.pc = vm.pc /\ vm'.live /\ vm'.memory = m
<1> DEFINE d == [vm EXCEPT !.live = TRUE]
           e == [d EXCEPT !.ctx = id]
<1>1. d \in AnyVm /\ d.interrupt = vm.interrupt /\ d.pc = vm.pc /\ d.live
  BY DEF AnyVm
<1>2. vm' = [e EXCEPT !.memory = m]
  OBVIOUS
<1> HIDE DEF d
<1>3. e \in AnyVm /\ e.ctx = id /\ e.interrupt = vm.interrupt /\ e.pc = vm.pc /\ e.live
  BY <1>1 DEF AnyVm
<1> HIDE DEF e
<1>4. QED
  BY <1>2, <1>3 DEF AnyVm

LEMMA VmJsCall == ASSUME VmInv, Vm!JsCall PROVE VmInv'
<1> DEFINE id == Len(results) + 1
<1>1. /\ Vm!CanCall /\ call' = Vm!Started /\ armed' = armed \cup {id} /\ Runtime = "js"
      /\ vm' = [vm EXCEPT !.ctx = id, !.memory = @ \cup {id}] /\ UNCHANGED <<expired, scratch, ops, results>>
  BY DEF Vm!JsCall, Vm!NextId
<1>2. vm \in AnyVm /\ id \in Nat /\ scratch \in AnyScratch
  BY DEF VmInv, VmTyped
<1>3. armed = {}
  BY <1>1 DEF VmInv, Resting, InCall, Vm!CanCall
<1>4. vm' \in AnyVm /\ vm'.ctx = id /\ vm'.interrupt = vm.interrupt /\ vm'.pc = vm.pc /\ vm'.memory = vm.memory \cup {id}
  <2> HIDE DEF id
  <2>1. vm' = [vm EXCEPT !.ctx = id, !.memory = @ \cup {id}]
    BY <1>1
  <2>2. QED
    BY <1>2, <2>1, VmBegins
<1>5. armed' \in SUBSET Nat /\ armed' \subseteq {id} /\ vm'.memory = {id} \cup vm.memory
  BY <1>1, <1>2, <1>3, <1>4
<1>6. scratch = Vm!Empty
  BY <1>1 DEF VmInv, Buffers
<1>7. QED
  BY <1>1, <1>2, <1>4, <1>5, <1>6, CallStarts

LEMMA VmLuaCall == ASSUME VmInv, Vm!LuaCall PROVE VmInv'
<1> DEFINE id == Len(results) + 1
<1>1. /\ Vm!CanCall /\ call' = Vm!Started /\ armed' = armed /\ Runtime = "lua"
      /\ vm' = [vm EXCEPT !.ctx = id, !.memory = @ \cup {id}] /\ UNCHANGED <<expired, scratch, ops, results>>
  BY DEF Vm!LuaCall, Vm!NextId
<1>2. vm \in AnyVm /\ id \in Nat /\ scratch \in AnyScratch
  BY DEF VmInv, VmTyped
<1>3. armed = {}
  BY <1>1 DEF VmInv, Resting, InCall, Vm!CanCall
<1>4. vm' \in AnyVm /\ vm'.ctx = id /\ vm'.interrupt = vm.interrupt /\ vm'.pc = vm.pc /\ vm'.memory = vm.memory \cup {id}
  <2> HIDE DEF id
  <2>1. vm' = [vm EXCEPT !.ctx = id, !.memory = @ \cup {id}]
    BY <1>1
  <2>2. QED
    BY <1>2, <2>1, VmBegins
<1>5. armed' \in SUBSET Nat /\ armed' \subseteq {id} /\ vm'.memory = {id} \cup vm.memory
  BY <1>1, <1>2, <1>3, <1>4
<1>6. scratch = Vm!Empty
  BY <1>1 DEF VmInv, Buffers
<1>7. QED
  BY <1>1, <1>2, <1>3, <1>4, <1>5, <1>6, CallStarts

LEMMA VmWasmCall == ASSUME VmInv, Vm!WasmCall PROVE VmInv'
<1> DEFINE id == Len(results) + 1
           m == Vm!Memory \cup {id}
<1>1. /\ Vm!CanCall /\ call' = Vm!Started /\ armed' = armed /\ Runtime = "wasm" /\ scratch' = [in |-> id, out |-> 0, resp |-> 0]
      /\ vm' = [vm EXCEPT !.live = TRUE, !.ctx = id, !.memory = m] /\ UNCHANGED <<expired, ops, results>>
  BY DEF Vm!WasmCall, Vm!NextId, Vm!Arm
<1>2. vm \in AnyVm /\ id \in Nat
  BY DEF VmInv, VmTyped
<1>3. m \in SUBSET Nat /\ m = {id} \cup (IF ~vm.live THEN {} ELSE vm.memory)
  BY <1>2 DEF Vm!Memory, AnyVm
<1>4. armed = {}
  BY <1>1 DEF VmInv, Resting, InCall, Vm!CanCall
<1> HIDE DEF m
<1>5. vm' \in AnyVm /\ vm'.ctx = id /\ vm'.interrupt = vm.interrupt /\ vm'.pc = vm.pc /\ vm'.live /\ vm'.memory = m
  <2> HIDE DEF id
  <2>1. vm' = [vm EXCEPT !.live = TRUE, !.ctx = id, !.memory = m]
    BY <1>1
  <2>2. QED
    BY <1>2, <1>3, <2>1, VmRenews
<1>6. scratch' \in AnyScratch
  BY <1>1, <1>2 DEF AnyScratch
<1>7. QED
  BY <1>1, <1>3, <1>4, <1>5, <1>6, CallStarts

\* A step within a call.
LEMMA WithinCall ==
  ASSUME VmInv, InCall, vm' \in AnyVm, call' \in AnyCall, scratch' \in AnyScratch, expired' \in SUBSET Nat,
         call'.pc # "idle", call'.id = call.id, call'.heard \subseteq {call.id}, expired \subseteq expired',
         call'.outcome = "interrupted" => call.id \in expired', vm'.interrupt => call.id \in expired',
         vm'.ctx = vm.ctx, vm'.pc = vm.pc, vm'.live = vm.live, vm'.memory = vm.memory, armed' \subseteq armed,
         scratch'.in \in {0, call.id}, scratch'.out \in {0, call.id}, scratch'.resp \in {0, call.id},
         ops' \subseteq ops \cup {<<call.id, vm.ctx>>}, results' = results, Runtime # "wasm" => scratch' = scratch,
         call'.pc = "stopping" => call'.outcome \in Outcomes, Runtime # "js" => ~vm'.interrupt
  PROVE  VmInv'
<1>1. VmTyped'
  BY DEF VmInv, VmTyped
<1>2. Resting'
  BY DEF Resting, InCall
<1>3. CallSound'
  BY DEF VmInv, CallSound, InCall
<1>4. ResultsSound'
  BY DEF VmInv, ResultsSound
<1>5. call.id = vm.ctx
  BY DEF VmInv, CallSound
<1>6. OpsSound'
  BY <1>5 DEF VmInv, OpsSound
<1>7. Traces' = Traces /\ VmFailed' = VmFailed /\ VmWhole' = VmWhole
  BY DEF Traces, VmFailed, VmWhole
<1>8. MemorySound'
  BY <1>7 DEF VmInv, MemorySound
<1>9. Buffers'
  BY DEF VmInv, Buffers
<1>10. StopSound'
  BY DEF VmInv, StopSound
<1>11. QED
  BY <1>1, <1>2, <1>3, <1>4, <1>6, <1>8, <1>9, <1>10 DEF VmInv

LEMMA InCallIs ==
  ASSUME VmInv, InCall
  PROVE  /\ vm \in AnyVm /\ call \in AnyCall /\ scratch \in AnyScratch /\ expired \in SUBSET Nat /\ call.id \in Nat
         /\ call.heard \subseteq {call.id} /\ (call.outcome = "interrupted" => call.id \in expired) /\ (vm.interrupt => call.id \in expired)
         /\ scratch.in \in {0, call.id} /\ scratch.out \in {0, call.id} /\ scratch.resp \in {0, call.id}
         /\ vm.ctx = call.id /\ vm.pc = "ready" /\ armed \subseteq {call.id} /\ (Runtime = "wasm" => vm.live)
         /\ (call.pc = "stopping" => call.outcome \in Outcomes) /\ (Runtime # "js" => armed = {} /\ ~vm.interrupt)
BY DEF VmInv, VmTyped, CallSound, AnyCall, StopSound

LEMMA Cleared ==
  ASSUME scratch \in AnyScratch, scratch' = [scratch EXCEPT !.in = 0, !.resp = 0]
  PROVE  scratch' \in AnyScratch
<1> DEFINE d == [scratch EXCEPT !.in = 0]
<1>1. d \in AnyScratch
  BY DEF AnyScratch
<1>2. scratch' = [d EXCEPT !.resp = 0]
  OBVIOUS
<1> HIDE DEF d
<1>3. QED
  BY <1>1, <1>2 DEF AnyScratch

LEMMA VmLoad == ASSUME VmInv, NEW r \in SUBSET Hooks, Vm!JsLoad(r) \/ Vm!LuaLoad(r) \/ Vm!WasmLoad(r) PROVE VmInv'
<1> DEFINE b == Declared \subseteq r
<1>1. vm.pc = "unloaded" /\ UNCHANGED <<call, expired, armed, scratch, ops, results>>
      /\ vm' = [vm EXCEPT !.pc = IF b THEN "ready" ELSE "failed", !.live = b]
  BY DEF Vm!JsLoad, Vm!LuaLoad, Vm!WasmLoad, Vm!LoadWith
<1>2. b \in BOOLEAN /\ vm \in AnyVm
  BY DEF VmInv, VmTyped
<1> HIDE DEF b
<1>3. vm' \in AnyVm /\ vm'.pc \in {"ready", "failed"} /\ vm'.ctx = vm.ctx /\ vm'.interrupt = vm.interrupt /\ vm'.memory = vm.memory
  <2> DEFINE d == [vm EXCEPT !.pc = IF b THEN "ready" ELSE "failed"]
  <2>1. d \in AnyVm /\ d.pc \in {"ready", "failed"} /\ d.ctx = vm.ctx /\ d.interrupt = vm.interrupt /\ d.memory = vm.memory
    BY <1>2 DEF AnyVm
  <2>2. vm' = [d EXCEPT !.live = b]
    BY <1>1
  <2> HIDE DEF d
  <2>3. QED
    BY <1>2, <2>1, <2>2 DEF AnyVm
<1>4. ~InCall
  BY <1>1 DEF VmInv, CallSound
<1>5. vm.memory = {} /\ results = << >>
  BY <1>1 DEF VmInv, MemorySound
<1>6. VmTyped'
  BY <1>1, <1>3 DEF VmInv, VmTyped
<1>7. Resting' /\ CallSound'
  BY <1>1, <1>3, <1>4 DEF VmInv, Resting, CallSound, InCall
<1>8. ResultsSound' /\ OpsSound' /\ Buffers' /\ StopSound'
  BY <1>1, <1>3 DEF VmInv, ResultsSound, OpsSound, Buffers, StopSound
<1>9. Traces = {} /\ Traces' = {} /\ Len(results) = 0
  BY <1>1, <1>4, <1>5 DEF VmInv, Resting, Traces
<1>10. MemorySound'
  BY <1>1, <1>3, <1>5, <1>9 DEF MemorySound
<1>11. QED
  BY <1>6, <1>7, <1>8, <1>10 DEF VmInv

LEMMA VmClose == ASSUME VmInv, Vm!Close PROVE VmInv'
<1>1. vm.pc = "ready" /\ ~InCall /\ vm' = [vm EXCEPT !.pc = "closed", !.live = FALSE, !.memory = {}]
      /\ UNCHANGED <<call, expired, armed, scratch, ops, results>>
  BY DEF Vm!Close, InCall
<1>2. vm' \in AnyVm /\ vm'.pc = "closed" /\ ~vm'.live /\ vm'.memory = {} /\ vm'.ctx = vm.ctx /\ vm'.interrupt = vm.interrupt
  <2> DEFINE d == [vm EXCEPT !.pc = "closed"]
             e == [d EXCEPT !.live = FALSE]
  <2>1. d \in AnyVm /\ d.pc = "closed" /\ d.ctx = vm.ctx /\ d.interrupt = vm.interrupt
    BY DEF VmInv, VmTyped, AnyVm
  <2>2. vm' = [e EXCEPT !.memory = {}]
    BY <1>1
  <2> HIDE DEF d
  <2>3. e \in AnyVm /\ e.pc = "closed" /\ e.ctx = vm.ctx /\ e.interrupt = vm.interrupt /\ ~e.live
    BY <2>1 DEF AnyVm
  <2> HIDE DEF e
  <2>4. QED
    BY <2>2, <2>3 DEF AnyVm
<1>3. VmTyped'
  BY <1>1, <1>2 DEF VmInv, VmTyped
<1>4. Resting' /\ CallSound'
  BY <1>1, <1>2 DEF VmInv, Resting, CallSound, InCall
<1>5. ResultsSound' /\ OpsSound' /\ Buffers' /\ StopSound'
  BY <1>1, <1>2 DEF VmInv, ResultsSound, OpsSound, Buffers, StopSound
<1>6. MemorySound'
  BY <1>2 DEF MemorySound
<1>7. QED
  BY <1>3, <1>4, <1>5, <1>6 DEF VmInv

LEMMA VmExpire == ASSUME VmInv, NEW id \in 1 .. MaxCalls, Vm!Expire(id) PROVE VmInv'
<1>1. expired' = expired \cup {id} /\ UNCHANGED <<vm, call, armed, scratch, ops, results>> /\ id \in Nat
  BY DEF Vm!Expire
<1>2. VmTyped'
  BY <1>1 DEF VmInv, VmTyped
<1>3. Resting' /\ CallSound'
  BY <1>1 DEF VmInv, Resting, CallSound, InCall
<1>4. ResultsSound' /\ OpsSound' /\ Buffers' /\ StopSound'
  BY <1>1 DEF VmInv, ResultsSound, OpsSound, Buffers, StopSound
<1>5. MemorySound'
  BY <1>1 DEF VmInv, MemorySound, Traces, VmFailed, VmWhole
<1>6. QED
  BY <1>2, <1>3, <1>4, <1>5 DEF VmInv

\* A watcher there is belongs to the call.
LEMMA Watched == ASSUME VmInv, NEW id \in armed PROVE InCall /\ id = call.id
BY DEF VmInv, Resting, CallSound

LEMMA VmWatch == ASSUME VmInv, NEW id, Vm!Watch(id) \/ Vm!WatcherStops(id) PROVE VmInv'
<1>1. id \in armed /\ armed' = armed \ {id} /\ UNCHANGED <<call, expired, scratch, ops, results>>
  BY DEF Vm!Watch, Vm!WatcherStops
<1>2. InCall /\ id = call.id
  BY <1>1, Watched
<1>3. CASE Vm!Watch(id)
  <2>1. id \in expired /\ vm' = [vm EXCEPT !.interrupt = TRUE]
    BY <1>3 DEF Vm!Watch
  <2>2. vm' \in AnyVm /\ vm'.ctx = vm.ctx /\ vm'.pc = vm.pc /\ vm'.live = vm.live /\ vm'.memory = vm.memory
    BY <2>1, <1>2, InCallIs DEF AnyVm
  <2>3. QED
    BY <1>1, <1>2, <2>1, <2>2, InCallIs, WithinCall DEF InCall
<1>4. CASE Vm!WatcherStops(id)
  <2>1. vm' = vm
    BY <1>4 DEF Vm!WatcherStops
  <2>2. QED
    BY <1>1, <1>2, <2>1, InCallIs, WithinCall DEF InCall
<1>5. QED
  BY <1>3, <1>4

LEMMA VmJsStops == ASSUME VmInv, NEW o \in {"ok", "error", "interrupted"}, Vm!JsStops(o) PROVE VmInv'
<1>1. InCall /\ (o = "interrupted" => vm.interrupt) /\ call' = [call EXCEPT !.pc = "stopping", !.outcome = o]
      /\ UNCHANGED <<vm, expired, armed, scratch, ops, results>>
  BY DEF Vm!JsStops, Vm!Running, InCall
<1>2. call' \in AnyCall /\ call'.pc = "stopping" /\ call'.outcome = o /\ call'.id = call.id /\ call'.heard = call.heard
  <2> DEFINE d == [call EXCEPT !.pc = "stopping"]
  <2>1. d \in AnyCall /\ d.pc = "stopping" /\ d.id = call.id /\ d.heard = call.heard
    BY <1>1, InCallIs DEF AnyCall
  <2>2. call' = [d EXCEPT !.outcome = o]
    BY <1>1
  <2>3. o \in Outcomes
    BY DEF Outcomes
  <2> HIDE DEF d
  <2>4. QED
    BY <2>1, <2>2, <2>3 DEF AnyCall
<1>3. o \in Outcomes
  BY DEF Outcomes
<1>4. QED
  BY <1>1, <1>2, <1>3, InCallIs, WithinCall

LEMMA VmJsClear == ASSUME VmInv, Vm!JsClear PROVE VmInv'
<1>1. /\ Runtime = "js" /\ InCall /\ call.pc = "stopping" /\ call.id \notin armed /\ Vm!Ended(call.outcome, call.id)
      /\ vm' = [vm EXCEPT !.interrupt = FALSE, !.ctx = 0] /\ UNCHANGED <<expired, armed, scratch, ops>>
  BY DEF Vm!JsClear, InCall
<1>2. armed' = {}
  BY <1>1, InCallIs
<1>3. vm' \in AnyVm /\ vm'.ctx = 0 /\ ~vm'.interrupt /\ vm'.pc = "ready" /\ vm'.live = vm.live /\ vm'.memory = vm.memory
  <2> DEFINE d == [vm EXCEPT !.interrupt = FALSE]
  <2>1. d \in AnyVm /\ ~d.interrupt /\ d.pc = "ready" /\ d.live = vm.live /\ d.memory = vm.memory
    BY <1>1, InCallIs DEF AnyVm
  <2>2. vm' = [d EXCEPT !.ctx = 0]
    BY <1>1
  <2> HIDE DEF d
  <2>3. QED
    BY <2>1, <2>2 DEF AnyVm
<1>4. call.outcome \in Outcomes
  BY <1>1 DEF VmInv, StopSound
<1>5. QED
  BY <1>1, <1>2, <1>3, <1>4, InCallIs, CallEnds

LEMMA VmLuaEnds == ASSUME VmInv, NEW o \in {"ok", "error", "interrupted"}, Vm!LuaEnds(o) PROVE VmInv'
<1>1. /\ Runtime = "lua" /\ InCall /\ (o = "interrupted" => vm.ctx \in expired) /\ Vm!Ended(o, call.id)
      /\ vm' = [vm EXCEPT !.ctx = 0] /\ UNCHANGED <<expired, armed, scratch, ops>>
  BY DEF Vm!LuaEnds, Vm!Running, InCall
<1>2. vm' \in AnyVm /\ vm'.ctx = 0 /\ vm'.interrupt = vm.interrupt /\ vm'.pc = "ready" /\ vm'.live = vm.live /\ vm'.memory = vm.memory
  BY <1>1, InCallIs DEF AnyVm
<1>3. armed = {} /\ ~vm.interrupt
  BY <1>1 DEF VmInv, StopSound
<1>4. o \in Outcomes
  BY DEF Outcomes
<1>5. QED
  BY <1>1, <1>2, <1>3, <1>4, InCallIs, CallEnds

LEMMA VmWasmReturns == ASSUME VmInv, Vm!WasmReturns PROVE VmInv'
<1> DEFINE o == IF scratch.out = 0 THEN "error" ELSE "ok"
<1>1. /\ Runtime = "wasm" /\ InCall /\ Vm!Ended(o, scratch.out)
      /\ vm' = [vm EXCEPT !.ctx = 0] /\ scratch' = [scratch EXCEPT !.in = 0, !.resp = 0] /\ UNCHANGED <<expired, armed, ops>>
  BY DEF Vm!WasmReturns, Vm!Running, InCall
<1>2. vm' \in AnyVm /\ vm'.ctx = 0 /\ vm'.interrupt = vm.interrupt /\ vm'.pc = "ready" /\ vm'.live = vm.live /\ vm'.memory = vm.memory
  BY <1>1, InCallIs DEF AnyVm
<1>3. armed = {} /\ ~vm.interrupt
  BY <1>1 DEF VmInv, StopSound
<1>4. o \in {"ok", "error"} /\ o \in Outcomes /\ (o = "ok" => scratch.out = call.id) /\ scratch.out \in {0, call.id}
  BY <1>1, InCallIs DEF Outcomes
<1>5. scratch' \in AnyScratch
  BY <1>1, InCallIs, Cleared
<1>6. QED
  BY <1>1, <1>2, <1>3, <1>4, <1>5, CallEnds

LEMMA VmWasmFails == ASSUME VmInv, NEW o, Vm!WasmFails(o) PROVE VmInv'
<1>1. /\ Runtime = "wasm" /\ InCall /\ o \in {"interrupted", "trap"} /\ (o = "interrupted" => call.id \in expired) /\ Vm!Ended(o, 0)
      /\ vm' = [vm EXCEPT !.live = FALSE, !.ctx = 0, !.memory = {}]
      /\ scratch' = [scratch EXCEPT !.in = 0, !.resp = 0] /\ UNCHANGED <<expired, armed, ops>>
  BY DEF Vm!WasmFails, Vm!Running, Vm!Teardown, InCall
<1>2. vm' \in AnyVm /\ vm'.ctx = 0 /\ vm'.interrupt = vm.interrupt /\ vm'.pc = "ready" /\ ~vm'.live /\ vm'.memory = {}
  <2> DEFINE d == [vm EXCEPT !.live = FALSE]
             e == [d EXCEPT !.ctx = 0]
  <2>1. d \in AnyVm /\ d.interrupt = vm.interrupt /\ d.pc = "ready" /\ ~d.live
    BY <1>1, InCallIs DEF AnyVm
  <2>2. vm' = [e EXCEPT !.memory = {}]
    BY <1>1
  <2> HIDE DEF d
  <2>3. e \in AnyVm /\ e.ctx = 0 /\ e.interrupt = vm.interrupt /\ e.pc = "ready" /\ ~e.live
    BY <2>1 DEF AnyVm
  <2> HIDE DEF e
  <2>4. QED
    BY <2>2, <2>3 DEF AnyVm
<1>3. armed = {} /\ ~vm.interrupt
  BY <1>1 DEF VmInv, StopSound
<1>4. o \in Outcomes /\ o # "ok"
  BY <1>1 DEF Outcomes
<1>5. scratch' \in AnyScratch
  BY <1>1, InCallIs, Cleared
<1>6. QED
  BY <1>1, <1>2, <1>3, <1>4, <1>5, CallEnds

LEMMA VmCallFails == ASSUME VmInv, Vm!WasmCallFails PROVE VmInv'
<1> DEFINE n == Len(results)
           r == [outcome |-> "error", out |-> 0, heard |-> {}, late |-> FALSE]
<1>1. /\ Runtime = "wasm" /\ ~InCall /\ ~vm.live /\ results' = Append(results, r) /\ vm.pc = "ready"
      /\ UNCHANGED <<vm, call, expired, armed, scratch, ops>>
  BY DEF Vm!WasmCallFails, Vm!CanCall, InCall
<1>2. r \in AnyResult /\ r.outcome = "error" /\ r.out = 0 /\ r.heard = {}
  BY DEF AnyResult, Outcomes
<1> HIDE DEF r
<1>3. results \in Seq(AnyResult)
  BY DEF VmInv, VmTyped
<1>4. /\ results' \in Seq(AnyResult) /\ Len(results') = n + 1 /\ n \in Nat
      /\ results'[n + 1] = r /\ \A i \in 1 .. n : results'[i] = results[i]
  BY <1>1, <1>2, <1>3, OneMore
<1> HIDE DEF n
<1>5. VmTyped'
  BY <1>1, <1>4 DEF VmInv, VmTyped
<1>6. Resting' /\ CallSound'
  BY <1>1 DEF VmInv, Resting, CallSound, InCall
<1>7. OpsSound' /\ Buffers' /\ StopSound'
  BY <1>1 DEF VmInv, OpsSound, Buffers, StopSound
<1>8. ResultsSound'
  <2>1. ASSUME NEW i \in 1 .. n + 1
        PROVE  /\ results'[i].outcome = "interrupted" => results'[i].late
               /\ results'[i].out \in {0, i} /\ results'[i].heard \subseteq {i}
               /\ results'[i].outcome = "ok" => results'[i].out = i
    <3>1. CASE i \in 1 .. n
      BY <3>1, <1>4 DEF VmInv, ResultsSound, n
    <3>2. CASE i = n + 1
      BY <3>2, <1>2, <1>4
    <3>3. QED
      BY <1>4, <3>1, <3>2
  <2>2. QED
    BY <1>4, <2>1 DEF ResultsSound
<1>9. MemorySound'
  BY <1>1 DEF VmInv, MemorySound
<1>10. QED
  BY <1>5, <1>6, <1>7, <1>8, <1>9 DEF VmInv

LEMMA VmHostCall == ASSUME VmInv, Vm!JsHostCall \/ Vm!LuaHostCall \/ Vm!HostCall PROVE VmInv'
<1>1. InCall /\ call.pc = "running" /\ ops' = ops \cup {<<call.id, vm.ctx>>} /\ UNCHANGED <<vm, expired, armed, results>>
  BY DEF Vm!JsHostCall, Vm!LuaHostCall, Vm!HostCall, Vm!Does, Vm!Running, InCall
<1>2. call \in AnyCall /\ call.heard \cup {call.id} \in SUBSET Nat /\ call.heard \cup {call.id} \subseteq {call.id}
  BY <1>1, InCallIs DEF AnyCall
<1>3. CASE Vm!ScriptHears
  <2>1. call' = [call EXCEPT !.heard = call.heard \cup {call.id}] /\ scratch' = scratch
    BY <1>3 DEF Vm!ScriptHears
  <2>2. call' \in AnyCall /\ call'.pc = "running" /\ call'.id = call.id /\ call'.heard = call.heard \cup {call.id} /\ call'.outcome = call.outcome
    BY <1>1, <1>2, <2>1 DEF AnyCall
  <2>3. QED
    BY <1>1, <1>2, <2>1, <2>2, InCallIs, WithinCall
<1>4. CASE Vm!HostCall
  <2>1. Runtime = "wasm" /\ call' = [call EXCEPT !.asked = TRUE] /\ scratch' = [scratch EXCEPT !.resp = call.id]
    BY <1>4 DEF Vm!HostCall, Vm!HostAnswers
  <2>2. call' \in AnyCall /\ call'.pc = "running" /\ call'.id = call.id /\ call'.heard = call.heard /\ call'.outcome = call.outcome
    BY <1>1, <1>2, <2>1 DEF AnyCall
  <2>3. scratch' \in AnyScratch /\ scratch'.resp = call.id /\ scratch'.in = scratch.in /\ scratch'.out = scratch.out
    BY <1>1, <2>1, InCallIs DEF AnyScratch
  <2>4. QED
    BY <1>1, <2>1, <2>2, <2>3, InCallIs, WithinCall
<1>5. QED
  BY <1>3, <1>4 DEF Vm!JsHostCall, Vm!LuaHostCall

LEMMA VmReadResponse == ASSUME VmInv, Vm!ReadResponse PROVE VmInv'
<1> DEFINE h == call.heard \cup ({scratch.resp} \ {0})
<1>1. /\ Runtime = "wasm" /\ InCall /\ call.pc = "running" /\ UNCHANGED <<vm, expired, armed, ops, results>>
      /\ call' = [call EXCEPT !.heard = h] /\ scratch' = [scratch EXCEPT !.resp = 0]
  BY DEF Vm!ReadResponse, Vm!AnswerTaken, Vm!Running, InCall
<1>2. h \subseteq {call.id} /\ h \in SUBSET Nat
  BY <1>1, InCallIs DEF AnyCall
<1> HIDE DEF h
<1>3. call' \in AnyCall /\ call'.pc = "running" /\ call'.id = call.id /\ call'.heard = h /\ call'.outcome = call.outcome
  BY <1>1, <1>2, InCallIs DEF AnyCall
<1>4. scratch' \in AnyScratch /\ scratch'.resp = 0 /\ scratch'.in = scratch.in /\ scratch'.out = scratch.out
  BY <1>1, InCallIs DEF AnyScratch
<1>5. QED
  BY <1>1, <1>2, <1>3, <1>4, InCallIs, WithinCall

LEMMA VmOutput == ASSUME VmInv, Vm!Output PROVE VmInv'
<1>1. /\ Runtime = "wasm" /\ InCall /\ call.pc = "running" /\ UNCHANGED <<vm, call, expired, armed, ops, results>>
      /\ scratch' = [scratch EXCEPT !.out = scratch.in]
  BY DEF Vm!Output, Vm!Running, InCall
<1>2. scratch' \in AnyScratch /\ scratch'.out = scratch.in /\ scratch'.in = scratch.in /\ scratch'.resp = scratch.resp
  BY <1>1, InCallIs DEF AnyScratch
<1>3. QED
  BY <1>1, <1>2, InCallIs, WithinCall

LEMMA VmStep == VmInv /\ [Vm!Next]_(Vm!vars) => VmInv'
<1> SUFFICES ASSUME VmInv, [Vm!Next]_(Vm!vars) PROVE VmInv'
  OBVIOUS
<1>1. ASSUME NEW r \in SUBSET Hooks, Vm!JsLoad(r) \/ Vm!LuaLoad(r) \/ Vm!WasmLoad(r) PROVE VmInv'
  BY <1>1, VmLoad
<1>2. CASE Vm!JsCall \/ Vm!LuaCall \/ Vm!WasmCall \/ Vm!WasmCallFails
  BY <1>2, VmJsCall, VmLuaCall, VmWasmCall, VmCallFails
<1>3. ASSUME NEW id \in 1 .. MaxCalls, Vm!Expire(id) \/ Vm!Watch(id) \/ Vm!WatcherStops(id) PROVE VmInv'
  BY <1>3, VmExpire, VmWatch
<1>4. CASE Vm!JsHostCall \/ Vm!LuaHostCall \/ Vm!HostCall \/ Vm!ReadResponse \/ Vm!Output
  BY <1>4, VmHostCall, VmReadResponse, VmOutput
<1>5. ASSUME NEW o \in {"ok", "error", "interrupted"}, Vm!JsStops(o) \/ Vm!LuaEnds(o) PROVE VmInv'
  BY <1>5, VmJsStops, VmLuaEnds
<1>6. CASE Vm!JsClear \/ Vm!WasmReturns \/ Vm!WasmFails("interrupted") \/ Vm!WasmFails("trap") \/ Vm!Close
  BY <1>6, VmJsClear, VmWasmReturns, VmWasmFails, VmClose
<1>7. CASE UNCHANGED Vm!vars
  BY <1>7 DEF Vm!vars, VmInv, VmTyped, Resting, CallSound, InCall, ResultsSound, OpsSound, MemorySound, Buffers, StopSound,
              VmFailed, VmWhole, Traces
<1>8. QED
  BY <1>1, <1>2, <1>3, <1>4, <1>5, <1>6, <1>7 DEF Vm!Next

\* Under each of the three runtimes, however deadlines fall and watchers are delayed: a hook is interrupted by
\* its own deadline alone and leaves no interrupt or context to the next one, it gives its own result and reads
\* its own answers, the host acts under its context, and a wasm module that a failed call left is
\* not used again while other memory is kept.
THEOREM HooksKeptApart == Vm!Spec => [](Vm!OwnDeadline /\ Vm!OwnResult /\ Vm!MemoryReset)
<1>1. ASSUME VmInv PROVE Vm!OwnDeadline /\ Vm!OwnResult /\ Vm!MemoryReset
  <2>1. DOMAIN results = 1 .. Len(results)
    BY <1>1 DEF VmInv, VmTyped
  <2>2. Vm!OwnDeadline
    BY <1>1, <2>1 DEF VmInv, ResultsSound, Resting, InCall, Vm!OwnDeadline
  <2>3. Vm!OwnResult
    BY <1>1, <2>1 DEF VmInv, ResultsSound, OpsSound, Vm!OwnResult
  <2>4. {i \in DOMAIN results : results[i].outcome \in {"interrupted", "trap"}} = VmFailed
    BY <2>1 DEF VmFailed
  <2>5. {i \in DOMAIN results : results[i].outcome \in {"ok", "error"} /\ \A j \in VmFailed : j < i} = VmWhole
    BY <2>1 DEF VmWhole
  <2>6. ASSUME vm.pc = "ready"
        PROVE  IF Runtime = "wasm" THEN /\ vm.memory \cap VmFailed = {}
                                        /\ vm.live => vm.memory \subseteq VmWhole \cup {call.id}
               ELSE vm.memory = DOMAIN results \cup ({call.id} \ {0})
    BY <1>1, <2>1, <2>6 DEF VmInv, MemorySound, Traces
  <2>7. Vm!MemoryReset
    BY <2>4, <2>5, <2>6 DEF Vm!MemoryReset
  <2>8. QED
    BY <2>2, <2>3, <2>7
<1>2. QED
  BY <1>1, VmStarts, VmStep, PTL DEF Vm!Spec

-----------------------------------------------------------------------------
(* What a plugin leaves on disk and in its row. *)
CONSTANTS Versions, Files, Keys, Sound, AllKeys, MaxStops, MaxEdits, MaxRequests
VARIABLES index, served, op, staging, dir, config, fileRow, fileInst, up, stops, edits, requests, manual, spoilt

Disk == INSTANCE PluginFiles WITH row <- fileRow, inst <- fileInst

\* Releases are numbered in the order they come, and a manifest is among the files of each.
DiskSizes == Versions \subseteq Nat \ {0} /\ 1 \in Versions /\ "manifest" \in Files

\* Files of a release each, some of them or all.
PartFiles == UNION {[D -> Versions] : D \in SUBSET Files}
AnyOp == [pc : {"idle", "download", "remove", "rename", "register", "files", "config", "row"}, version : {0} \cup Versions, wasLoaded : BOOLEAN]
AnyConfig == [parses : BOOLEAN, keys : SUBSET AllKeys]
AnyFileRow == [there : BOOLEAN, enabled : BOOLEAN, version : {0} \cup Versions]
AnyLoad == [on : BOOLEAN, files : PartFiles, overrides : SUBSET AllKeys]

DiskTyped ==
  /\ index \in Versions /\ served \in [Files -> Versions] /\ op \in AnyOp
  /\ staging \in PartFiles /\ dir \in PartFiles /\ config \in AnyConfig /\ fileRow \in AnyFileRow /\ fileInst \in AnyLoad
  /\ up \in BOOLEAN /\ manual \in BOOLEAN /\ spoilt \in BOOLEAN

Installing == op.pc \in {"download", "remove", "rename"}
Swapping == op.pc \in {"remove", "rename", "register"}

\* A directory is of one release, no older than the row says and no newer than the index; an install
\* downloads one release, the newest there was, and swaps it in whole.
OneReleaseEach ==
  /\ \A f, g \in DOMAIN dir : dir[f] = dir[g]
  /\ \A f \in DOMAIN dir : fileRow.version <= dir[f] /\ dir[f] <= index
  /\ fileRow.version <= index
  /\ Installing => /\ op.version \in Versions /\ op.version <= index /\ fileRow.version <= op.version
                   /\ \A f \in DOMAIN dir : dir[f] <= op.version
                   /\ \A f \in DOMAIN staging : staging[f] = op.version
  /\ op.pc \in {"remove", "rename"} => DOMAIN staging = Files /\ staging["manifest"] \in Sound

\* What runs is what the directory holds, enabled, with overrides that its manifest allows.
RunsDir ==
  fileInst.on => /\ up /\ op.pc \in {"idle", "download"} /\ fileRow.there /\ fileRow.enabled
                 /\ fileInst.files = dir /\ Disk!Valid /\ fileInst.overrides \subseteq Keys[dir["manifest"]]
                 /\ ~manual => fileInst.overrides = config.keys

\* The configuration as it was saved: good for the manifest there is, and for the row's release
\* as long as that is the newest, which an install brings back.
SavedFor(v) == ~manual /\ fileRow.version = v => Disk!Effective(v)
Saved ==
  /\ Disk!Valid /\ ~manual => Disk!Effective(dir["manifest"])
  /\ SavedFor(index) /\ (Installing => SavedFor(op.version))

\* What is enabled runs, or an install that stopped it knows to start it again.
Again ==
  /\ ~up => op.pc = "idle"
  /\ ~fileRow.there => ~fileRow.enabled
  /\ up /\ op.pc \in {"idle", "download"} /\ fileRow.enabled /\ ~spoilt => fileInst.on
  /\ Swapping => /\ op.wasLoaded => fileRow.there /\ fileRow.enabled
                 /\ fileRow.enabled /\ ~spoilt => op.wasLoaded

DiskInv == DiskTyped /\ OneReleaseEach /\ RunsDir /\ Saved /\ Again

LEMMA PartIs == ASSUME NEW d \in PartFiles PROVE DOMAIN d \subseteq Files /\ \A f \in DOMAIN d : d[f] \in Versions
BY DEF PartFiles

LEMMA MakePart ==
  ASSUME NEW D \in SUBSET Files, NEW d \in [D -> Versions]
  PROVE  d \in PartFiles
BY DEF PartFiles

LEMMA NothingIs == Disk!Nothing \in PartFiles /\ DOMAIN Disk!Nothing = {}
<1>1. Disk!Nothing \in [{} -> Versions]
  BY DEF Disk!Nothing
<1>2. {} \in SUBSET Files
  OBVIOUS
<1>3. QED
  BY <1>1, <1>2, MakePart DEF Disk!Nothing

LEMMA NoInstIs == Disk!NoInst \in AnyLoad /\ ~Disk!NoInst.on
BY NothingIs DEF Disk!NoInst, AnyLoad

LEMMA NoOpIs == Disk!NoOp \in AnyOp /\ Disk!NoOp.pc = "idle"
BY DEF Disk!NoOp, AnyOp

LEMMA NoRowIs == Disk!NoRow \in AnyFileRow /\ ~Disk!NoRow.there /\ ~Disk!NoRow.enabled /\ Disk!NoRow.version = 0
BY DEF Disk!NoRow, AnyFileRow

\* What is there of the files that are left.
LEMMA LeftIs ==
  ASSUME NEW d \in PartFiles, NEW left \in SUBSET (DOMAIN d), NEW e, e = [f \in left |-> d[f]]
  PROVE  e \in PartFiles /\ DOMAIN e = left /\ \A f \in left : e[f] = d[f]
<1>1. left \in SUBSET Files /\ \A f \in left : d[f] \in Versions
  BY PartIs
<1>2. e \in [left -> Versions]
  BY <1>1
<1>3. QED
  BY <1>1, <1>2, MakePart

LEMMA DiskStarts == ASSUME DiskSizes PROVE Disk!Init => DiskInv
<1> SUFFICES ASSUME Disk!Init PROVE DiskInv
  OBVIOUS
<1>1. /\ index = 1 /\ served = [f \in Files |-> 1] /\ op = Disk!NoOp /\ staging = Disk!Nothing /\ dir = Disk!Nothing
      /\ config = [parses |-> TRUE, keys |-> {}] /\ fileRow = Disk!NoRow /\ fileInst = Disk!NoInst /\ up = TRUE /\ manual = FALSE /\ spoilt = FALSE
  BY DEF Disk!Init
<1>2. config \in AnyConfig
  BY <1>1 DEF AnyConfig
<1>3. DiskTyped
  BY <1>1, <1>2, NothingIs, NoInstIs, NoOpIs, NoRowIs DEF DiskTyped, DiskSizes
<1>4. OneReleaseEach
  BY <1>1, NothingIs, NoOpIs, NoRowIs DEF OneReleaseEach, Installing
<1>5. RunsDir
  BY <1>1, NoInstIs DEF RunsDir
<1>6. ~Disk!Valid
  BY <1>1, NothingIs DEF Disk!Valid, DiskSizes
<1>7. Saved
  BY <1>1, <1>6, NoOpIs, NoRowIs DEF Saved, SavedFor, Installing
<1>8. Again
  BY <1>1, NoOpIs, NoRowIs DEF Again, Swapping
<1>9. QED
  BY <1>3, <1>4, <1>5, <1>7, <1>8 DEF DiskInv

\* The load of what the directory holds.
LEMMA LoadIs ==
  ASSUME DiskInv, Disk!Loads, Disk!Load
  PROVE  /\ fileInst' \in AnyLoad /\ fileInst'.on /\ fileInst'.files = dir /\ fileInst'.overrides = config.keys
         /\ Disk!Valid /\ config.keys \subseteq Keys[dir["manifest"]]
<1>1. fileInst' = [on |-> TRUE, files |-> dir, overrides |-> config.keys]
  BY DEF Disk!Load, Disk!Overrides
<1>2. dir \in PartFiles /\ config.keys \in SUBSET AllKeys
  BY DEF DiskInv, DiskTyped, AnyConfig
<1>3. fileInst' \in AnyLoad
  BY <1>1, <1>2 DEF AnyLoad
<1>4. QED
  BY <1>1, <1>3 DEF Disk!Loads, Disk!Effective, Disk!Overrides, Disk!Manifest

\* The row as it is registered: of the directory's release when that is whole.
LEMMA RowIs ==
  ASSUME DiskSizes, DiskInv, NEW r, r = Disk!Registered(fileRow)
  PROVE  /\ r \in AnyFileRow
         /\ fileRow.there => r.there /\ r.enabled = fileRow.enabled
         /\ ~fileRow.there => ~r.enabled
         /\ Disk!Valid => r.version = dir["manifest"] /\ r.there
         /\ ~Disk!Valid => r = fileRow
<1>1. fileRow \in AnyFileRow /\ dir \in PartFiles /\ (~fileRow.there => ~fileRow.enabled)
  BY DEF DiskInv, DiskTyped, Again
<1>2. CASE ~Disk!Valid
  BY <1>1, <1>2 DEF Disk!Registered
<1>3. CASE Disk!Valid /\ fileRow.there
  <2>1. dir["manifest"] \in Versions
    BY <1>1, <1>3, PartIs DEF Disk!Valid, DiskSizes
  <2>2. r = [fileRow EXCEPT !.version = dir["manifest"]]
    BY <1>3 DEF Disk!Registered, Disk!Manifest
  <2>3. QED
    BY <1>1, <1>3, <2>1, <2>2 DEF AnyFileRow
<1>4. CASE Disk!Valid /\ ~fileRow.there
  <2>1. dir["manifest"] \in Versions
    BY <1>1, <1>4, PartIs DEF Disk!Valid, DiskSizes
  <2>2. r = [there |-> TRUE, enabled |-> FALSE, version |-> dir["manifest"]]
    BY <1>4 DEF Disk!Registered, Disk!Manifest
  <2>3. r.there = TRUE /\ r.enabled = FALSE /\ r.version = dir["manifest"]
    BY <2>2
  <2>4. r \in [there : BOOLEAN, enabled : BOOLEAN, version : {0} \cup Versions]
    BY <2>1, <2>2
  <2>5. r \in AnyFileRow
    BY <2>4 DEF AnyFileRow
  <2>6. QED
    BY <1>4, <2>3, <2>5
<1>5. QED
  BY <1>2, <1>3, <1>4

LEMMA NumbersAre ==
  ASSUME DiskSizes, DiskInv
  PROVE  /\ index \in Nat \ {0} /\ fileRow.version \in Nat /\ op.version \in Nat /\ \A f \in DOMAIN dir : dir[f] \in Nat \ {0}
         /\ DOMAIN dir \subseteq Files /\ "manifest" \in Files
<1>1. Versions \subseteq Nat \ {0} /\ "manifest" \in Files
  BY DEF DiskSizes
<1>2. index \in Versions /\ op \in AnyOp /\ fileRow \in AnyFileRow /\ dir \in PartFiles
  BY DEF DiskInv, DiskTyped
<1>3. fileRow.version \in {0} \cup Versions /\ op.version \in {0} \cup Versions
  BY <1>2 DEF AnyOp, AnyFileRow
<1>4. DOMAIN dir \subseteq Files /\ \A f \in DOMAIN dir : dir[f] \in Versions
  BY <1>2, PartIs
<1>5. index \in Nat \ {0} /\ fileRow.version \in Nat /\ op.version \in Nat
  <2>1. \A v \in {0} \cup Versions : v \in Nat
    BY <1>1
  <2>2. index \in Nat \ {0}
    BY <1>1, <1>2
  <2>3. QED
    BY <1>3, <2>1, <2>2
<1>6. \A f \in DOMAIN dir : dir[f] \in Nat \ {0}
  BY <1>1, <1>4
<1>7. QED
  BY <1>1, <1>4, <1>5, <1>6

LEMMA CatalogKeeps == ASSUME DiskSizes, DiskInv, Disk!Catalog PROVE DiskInv'
<1>1. op.pc = "idle" /\ up /\ op' = [Disk!NoOp EXCEPT !.pc = "download", !.version = index] /\ staging' = Disk!Nothing /\ UNCHANGED <<index, served, dir, config, fileRow, fileInst, up, manual, spoilt>>
  BY DEF Disk!Catalog, Disk!Asked
<1>2. op' = [pc |-> "download", version |-> index, wasLoaded |-> FALSE]
  BY <1>1 DEF Disk!NoOp
<1>3. op' \in AnyOp /\ op'.pc = "download" /\ op'.version = index
  BY <1>2 DEF DiskInv, DiskTyped, AnyOp
<1> USE DEF DiskInv, Disk!Valid, Disk!Manifest, Disk!Effective, Disk!Overrides
<1>11. DiskTyped'
  BY <1>1, <1>3, NothingIs DEF DiskTyped
<1>12. OneReleaseEach'
  BY <1>1, <1>3, NothingIs DEF OneReleaseEach, Installing, DiskTyped, DiskSizes
<1>13. RunsDir'
  BY <1>1, <1>3 DEF RunsDir, DiskTyped
<1>14. Saved'
  BY <1>1, <1>3 DEF Saved, SavedFor, Installing, DiskTyped
<1>15. Again'
  BY <1>1, <1>3 DEF Again, Swapping, DiskTyped
<1>16. QED
  BY <1>11, <1>12, <1>13, <1>14, <1>15

LEMMA DownloadKeeps == ASSUME DiskSizes, DiskInv, NEW f \in Files, Disk!Download(f) PROVE DiskInv'
<1>1. op.pc = "download" /\ f \in Files \ DOMAIN staging /\ served[f] = op.version /\ staging' = [g \in DOMAIN staging \cup {f} |-> IF g = f THEN served[f] ELSE staging[g]] /\ UNCHANGED <<index, served, op, dir, config, fileRow, fileInst, up, manual, spoilt>>
  BY DEF Disk!Download, Disk!Fetched, Disk!Matches
<1>2. DOMAIN staging \subseteq Files /\ (\A g \in DOMAIN staging : staging[g] \in Versions) /\ served[f] \in Versions
  BY PartIs DEF DiskInv, DiskTyped
<1>3. DOMAIN staging \cup {f} \in SUBSET Files /\ staging' \in [DOMAIN staging \cup {f} -> Versions]
  BY <1>1, <1>2
<1>4. staging' \in PartFiles /\ \A g \in DOMAIN staging' : staging'[g] = op.version \/ (g \in DOMAIN staging /\ staging'[g] = staging[g])
  BY <1>1, <1>3, MakePart
<1> USE DEF DiskInv, Disk!Valid, Disk!Manifest, Disk!Effective, Disk!Overrides
<1>11. DiskTyped'
  BY <1>1, <1>4 DEF DiskTyped
<1>12. OneReleaseEach'
  BY <1>1, <1>4 DEF OneReleaseEach, Installing, DiskTyped, DiskSizes
<1>13. RunsDir'
  BY <1>1 DEF RunsDir, DiskTyped
<1>14. Saved'
  BY <1>1 DEF Saved, SavedFor, Installing, DiskTyped
<1>15. Again'
  BY <1>1 DEF Again, Swapping, DiskTyped
<1>16. QED
  BY <1>11, <1>12, <1>13, <1>14, <1>15

LEMMA InstallFailsKeeps == ASSUME DiskSizes, DiskInv, Disk!InstallFails PROVE DiskInv'
<1>1. op.pc = "download" /\ op' = Disk!NoOp /\ staging' = Disk!Nothing /\ UNCHANGED <<index, served, dir, config, fileRow, fileInst, up, manual, spoilt>>
  BY DEF Disk!InstallFails, Disk!Asked
<1> USE DEF DiskInv, Disk!Valid, Disk!Manifest, Disk!Effective, Disk!Overrides
<1>11. DiskTyped'
  BY <1>1, NoOpIs, NothingIs DEF DiskTyped
<1>12. OneReleaseEach'
  BY <1>1, NoOpIs, NothingIs DEF OneReleaseEach, Installing, DiskTyped, DiskSizes
<1>13. RunsDir'
  BY <1>1, NoOpIs DEF RunsDir, DiskTyped
<1>14. Saved'
  BY <1>1, NoOpIs DEF Saved, SavedFor, Installing, DiskTyped
<1>15. Again'
  BY <1>1, NoOpIs DEF Again, Swapping, DiskTyped
<1>16. QED
  BY <1>11, <1>12, <1>13, <1>14, <1>15

LEMMA StagedKeeps == ASSUME DiskSizes, DiskInv, Disk!Staged PROVE DiskInv'
<1>1. op.pc = "download" /\ DOMAIN staging = Files /\ staging["manifest"] \in Sound /\ op' = [op EXCEPT !.pc = "remove", !.wasLoaded = fileInst.on] /\ fileInst' = Disk!NoInst /\ UNCHANGED <<index, served, staging, dir, config, fileRow, up, manual, spoilt>>
  BY DEF Disk!Staged, Disk!Asked
<1>2. op' \in AnyOp /\ op'.pc = "remove" /\ op'.version = op.version /\ op'.wasLoaded = fileInst.on
  <2> DEFINE d == [op EXCEPT !.pc = "remove"]
  <2>1. op \in AnyOp /\ fileInst.on \in BOOLEAN
    BY DEF DiskInv, DiskTyped, AnyLoad
  <2>2. d \in AnyOp /\ d.pc = "remove" /\ d.version = op.version
    BY <2>1 DEF AnyOp
  <2>3. op' = [d EXCEPT !.wasLoaded = fileInst.on]
    BY <1>1
  <2> HIDE DEF d
  <2>4. QED
    BY <2>1, <2>2, <2>3 DEF AnyOp
<1> USE DEF DiskInv, Disk!Valid, Disk!Manifest, Disk!Effective, Disk!Overrides
<1>11. DiskTyped'
  BY <1>1, <1>2, NoInstIs DEF DiskTyped
<1>12. OneReleaseEach'
  BY <1>1, <1>2 DEF OneReleaseEach, Installing, DiskTyped, DiskSizes
<1>13. RunsDir'
  BY <1>1, <1>2, NoInstIs DEF RunsDir, DiskTyped
<1>14. Saved'
  BY <1>1, <1>2 DEF Saved, SavedFor, Installing, DiskTyped
<1>15. Again'
  <2>1. fileInst.on => fileRow.there /\ fileRow.enabled
    BY DEF RunsDir
  <2>2. QED
    BY <1>1, <1>2, <2>1, NoInstIs DEF Again, Swapping, DiskTyped
<1>16. QED
  BY <1>11, <1>12, <1>13, <1>14, <1>15

LEMMA RemoveTargetKeeps == ASSUME DiskSizes, DiskInv, Disk!RemoveTarget PROVE DiskInv'
<1>1. op.pc = "remove" /\ dir' = Disk!Nothing /\ op' = [op EXCEPT !.pc = "rename"] /\ UNCHANGED <<index, served, staging, config, fileRow, fileInst, up, manual, spoilt>>
  BY DEF Disk!RemoveTarget, Disk!Asked
<1>2. op' \in AnyOp /\ op'.pc = "rename" /\ op'.version = op.version /\ op'.wasLoaded = op.wasLoaded
  BY <1>1 DEF DiskInv, DiskTyped, AnyOp
<1> USE DEF DiskInv, Disk!Valid, Disk!Manifest, Disk!Effective, Disk!Overrides
<1>11. DiskTyped'
  BY <1>1, <1>2, NothingIs DEF DiskTyped
<1>12. OneReleaseEach'
  BY <1>1, <1>2, NothingIs DEF OneReleaseEach, Installing, DiskTyped, DiskSizes
<1>13. RunsDir'
  BY <1>1, <1>2 DEF RunsDir, DiskTyped
<1>14. Saved'
  BY <1>1, <1>2, NothingIs, NumbersAre DEF Saved, SavedFor, Installing, DiskTyped
<1>15. Again'
  BY <1>1, <1>2 DEF Again, Swapping, DiskTyped
<1>16. QED
  BY <1>11, <1>12, <1>13, <1>14, <1>15

LEMMA SwapFailsKeeps == ASSUME DiskSizes, DiskInv, NEW left \in SUBSET Files, Disk!SwapFails(left) PROVE DiskInv'
<1>1. op.pc \in {"remove", "rename"} /\ left \subseteq DOMAIN dir /\ dir' = [f \in left |-> dir[f]] /\ op' = Disk!NoOp
      /\ staging' = Disk!Nothing /\ spoilt' = TRUE /\ UNCHANGED <<index, served, config, fileRow, fileInst, up, manual>>
  BY DEF Disk!SwapFails, Disk!Asked
<1>2. dir' \in PartFiles /\ DOMAIN dir' = left /\ left \subseteq DOMAIN dir /\ \A f \in left : dir'[f] = dir[f]
  <2>1. dir \in PartFiles /\ left \in SUBSET (DOMAIN dir)
    BY <1>1 DEF DiskInv, DiskTyped
  <2>2. QED
    BY <1>1, <2>1, LeftIs
<1>3. Disk!Valid' => Disk!Valid /\ dir'["manifest"] = dir["manifest"]
  <2>1. DOMAIN dir \subseteq Files
    BY PartIs DEF DiskInv, DiskTyped
  <2>2. QED
    BY <1>2, <2>1 DEF Disk!Valid, DiskSizes
<1> USE DEF DiskInv, Disk!Valid, Disk!Manifest, Disk!Effective, Disk!Overrides
<1>11. DiskTyped'
  BY <1>1, <1>2, NoOpIs, NothingIs DEF DiskTyped
<1>12. OneReleaseEach'
  BY <1>1, <1>2, NoOpIs, NothingIs DEF OneReleaseEach, Installing, DiskTyped, DiskSizes
<1>13. RunsDir'
  BY <1>1 DEF RunsDir, DiskTyped
<1>14. Saved'
  BY <1>1, <1>2, <1>3, NoOpIs DEF Saved, SavedFor, Installing, DiskTyped
<1>15. Again'
  BY <1>1, NoOpIs DEF Again, Swapping, DiskTyped
<1>16. QED
  BY <1>11, <1>12, <1>13, <1>14, <1>15

LEMMA RenameKeeps == ASSUME DiskSizes, DiskInv, Disk!Rename PROVE DiskInv'
<1>1. op.pc = "rename" /\ dir' = staging /\ staging' = Disk!Nothing /\ op' = [op EXCEPT !.pc = "register"]
      /\ manual' = (manual \/ op.version # fileRow.version) /\ UNCHANGED <<index, served, config, fileRow, fileInst, up, spoilt>>
  BY DEF Disk!Rename, Disk!Asked
<1>2. op' \in AnyOp /\ op'.pc = "register" /\ op'.version = op.version /\ op'.wasLoaded = op.wasLoaded
  BY <1>1 DEF DiskInv, DiskTyped, AnyOp
<1>3. "manifest" \in DOMAIN dir' /\ dir'["manifest"] = op.version
  BY <1>1, NumbersAre DEF DiskInv, OneReleaseEach, Installing
<1> USE DEF DiskInv, Disk!Valid, Disk!Manifest, Disk!Effective, Disk!Overrides
<1>11. DiskTyped'
  BY <1>1, <1>2, NothingIs DEF DiskTyped
<1>12. OneReleaseEach'
  BY <1>1, <1>2, NothingIs DEF OneReleaseEach, Installing, DiskTyped, DiskSizes
<1>13. RunsDir'
  BY <1>1, <1>2 DEF RunsDir, DiskTyped
<1>14. Saved'
  BY <1>1, <1>2, <1>3 DEF Saved, SavedFor, Installing, DiskTyped
<1>15. Again'
  BY <1>1, <1>2 DEF Again, Swapping, DiskTyped
<1>16. QED
  BY <1>11, <1>12, <1>13, <1>14, <1>15

LEMMA RegisterKeeps == ASSUME DiskSizes, DiskInv, Disk!Register PROVE DiskInv'
<1>1. op.pc = "register" /\ op' = Disk!NoOp /\ fileRow' = Disk!Registered(fileRow)
      /\ (IF op.wasLoaded /\ Disk!Loads THEN Disk!Load ELSE fileInst' = Disk!NoInst)
      /\ spoilt' = (spoilt \/ (fileRow'.enabled /\ ~Disk!Loads)) /\ UNCHANGED <<index, served, staging, dir, config, up, manual>>
  BY DEF Disk!Register, Disk!Asked
<1>2. /\ fileRow' \in AnyFileRow /\ (fileRow.there => fileRow'.there /\ fileRow'.enabled = fileRow.enabled) /\ (~fileRow.there => ~fileRow'.enabled)
      /\ (Disk!Valid => fileRow'.version = dir["manifest"] /\ fileRow'.there) /\ (~Disk!Valid => fileRow' = fileRow)
  BY <1>1, RowIs
<1>3. /\ fileInst' \in AnyLoad /\ (fileInst'.on <=> op.wasLoaded /\ Disk!Loads)
      /\ fileInst'.on => /\ fileInst'.files = dir /\ fileInst'.overrides = config.keys
                          /\ Disk!Valid /\ config.keys \subseteq Keys[dir["manifest"]]
  BY <1>1, LoadIs, NoInstIs
<1> USE DEF DiskInv, Disk!Valid, Disk!Manifest, Disk!Effective, Disk!Overrides
<1>11. DiskTyped'
  BY <1>1, <1>2, <1>3, NoOpIs DEF DiskTyped
<1>12. OneReleaseEach'
  BY <1>1, <1>2, NumbersAre, NoOpIs DEF OneReleaseEach, Installing, DiskTyped, DiskSizes
<1>13. RunsDir'
  BY <1>1, <1>2, <1>3, NoOpIs DEF RunsDir, Again, Swapping, DiskTyped
<1>14. Saved'
  BY <1>1, <1>2, NoOpIs DEF Saved, SavedFor, Installing, DiskTyped
<1>15. Again'
  BY <1>1, <1>2, <1>3, NoOpIs DEF Again, Swapping, DiskTyped
<1>16. QED
  BY <1>11, <1>12, <1>13, <1>14, <1>15

LEMMA RegisterFailsKeeps == ASSUME DiskSizes, DiskInv, Disk!RegisterFails PROVE DiskInv'
<1>1. op.pc = "register" /\ op' = Disk!NoOp /\ spoilt' = TRUE /\ UNCHANGED <<index, served, staging, dir, config, fileRow, fileInst, up, manual>>
  BY DEF Disk!RegisterFails, Disk!Asked
<1> USE DEF DiskInv, Disk!Valid, Disk!Manifest, Disk!Effective, Disk!Overrides
<1>11. DiskTyped'
  BY <1>1, NoOpIs DEF DiskTyped
<1>12. OneReleaseEach'
  BY <1>1, NoOpIs DEF OneReleaseEach, Installing, DiskTyped, DiskSizes
<1>13. RunsDir'
  BY <1>1, NoOpIs DEF RunsDir, DiskTyped
<1>14. Saved'
  BY <1>1, NoOpIs DEF Saved, SavedFor, Installing, DiskTyped
<1>15. Again'
  BY <1>1, NoOpIs DEF Again, Swapping, DiskTyped
<1>16. QED
  BY <1>11, <1>12, <1>13, <1>14, <1>15

LEMMA UninstallKeeps == ASSUME DiskSizes, DiskInv, Disk!Uninstall PROVE DiskInv'
<1>1. op.pc = "idle" /\ up /\ fileRow.there /\ fileInst' = Disk!NoInst /\ op' = [Disk!NoOp EXCEPT !.pc = "files"] /\ UNCHANGED <<index, served, staging, dir, config, fileRow, up, manual, spoilt>>
  BY DEF Disk!Uninstall, Disk!Asked
<1>2. op' \in AnyOp /\ op'.pc = "files"
  BY <1>1 DEF Disk!NoOp, AnyOp
<1> USE DEF DiskInv, Disk!Valid, Disk!Manifest, Disk!Effective, Disk!Overrides
<1>11. DiskTyped'
  BY <1>1, <1>2, NoInstIs DEF DiskTyped
<1>12. OneReleaseEach'
  BY <1>1, <1>2 DEF OneReleaseEach, Installing, DiskTyped, DiskSizes
<1>13. RunsDir'
  BY <1>1, NoInstIs DEF RunsDir, DiskTyped
<1>14. Saved'
  BY <1>1, <1>2 DEF Saved, SavedFor, Installing, DiskTyped
<1>15. Again'
  BY <1>1, <1>2 DEF Again, Swapping, DiskTyped
<1>16. QED
  BY <1>11, <1>12, <1>13, <1>14, <1>15

LEMMA RemoveFilesKeeps == ASSUME DiskSizes, DiskInv, Disk!RemoveFiles PROVE DiskInv'
<1>1. op.pc = "files" /\ dir' = Disk!Nothing /\ op' = [op EXCEPT !.pc = "config"] /\ UNCHANGED <<index, served, staging, config, fileRow, fileInst, up, manual, spoilt>>
  BY DEF Disk!RemoveFiles, Disk!Asked
<1>2. op' \in AnyOp /\ op'.pc = "config" /\ op'.version = op.version /\ op'.wasLoaded = op.wasLoaded
  BY <1>1 DEF DiskInv, DiskTyped, AnyOp
<1> USE DEF DiskInv, Disk!Valid, Disk!Manifest, Disk!Effective, Disk!Overrides
<1>11. DiskTyped'
  BY <1>1, <1>2, NothingIs DEF DiskTyped
<1>12. OneReleaseEach'
  BY <1>1, <1>2, NothingIs DEF OneReleaseEach, Installing, DiskTyped, DiskSizes
<1>13. RunsDir'
  BY <1>1, <1>2 DEF RunsDir, DiskTyped
<1>14. Saved'
  BY <1>1, <1>2, NothingIs, NumbersAre DEF Saved, SavedFor, Installing, DiskTyped
<1>15. Again'
  BY <1>1, <1>2 DEF Again, Swapping, DiskTyped
<1>16. QED
  BY <1>11, <1>12, <1>13, <1>14, <1>15

LEMMA RemoveConfigKeeps == ASSUME DiskSizes, DiskInv, Disk!RemoveConfig PROVE DiskInv'
<1>1. op.pc = "config" /\ config' = [parses |-> TRUE, keys |-> {}] /\ manual' = FALSE /\ op' = [op EXCEPT !.pc = "row"] /\ UNCHANGED <<index, served, staging, dir, fileRow, fileInst, up, spoilt>>
  BY DEF Disk!RemoveConfig, Disk!Asked
<1>2. op' \in AnyOp /\ op'.pc = "row" /\ op'.version = op.version /\ op'.wasLoaded = op.wasLoaded
  BY <1>1 DEF DiskInv, DiskTyped, AnyOp
<1>3. config' \in AnyConfig /\ config'.parses /\ config'.keys = {}
  BY <1>1 DEF AnyConfig
<1> USE DEF DiskInv, Disk!Valid, Disk!Manifest, Disk!Effective, Disk!Overrides
<1>11. DiskTyped'
  BY <1>1, <1>2, <1>3 DEF DiskTyped
<1>12. OneReleaseEach'
  BY <1>1, <1>2 DEF OneReleaseEach, Installing, DiskTyped, DiskSizes
<1>13. RunsDir'
  BY <1>1, <1>2 DEF RunsDir, DiskTyped
<1>14. Saved'
  BY <1>1, <1>2, <1>3 DEF Saved, SavedFor, Installing, DiskTyped
<1>15. Again'
  BY <1>1, <1>2 DEF Again, Swapping, DiskTyped
<1>16. QED
  BY <1>11, <1>12, <1>13, <1>14, <1>15

LEMMA DeleteRowKeeps == ASSUME DiskSizes, DiskInv, Disk!DeleteRow PROVE DiskInv'
<1>1. op.pc = "row" /\ fileRow' = Disk!NoRow /\ op' = Disk!NoOp /\ UNCHANGED <<index, served, staging, dir, config, fileInst, up, manual, spoilt>>
  BY DEF Disk!DeleteRow, Disk!Asked
<1> USE DEF DiskInv, Disk!Valid, Disk!Manifest, Disk!Effective, Disk!Overrides
<1>11. DiskTyped'
  BY <1>1, NoOpIs, NoRowIs DEF DiskTyped
<1>12. OneReleaseEach'
  BY <1>1, NoOpIs, NoRowIs, NumbersAre DEF OneReleaseEach, Installing, DiskTyped, DiskSizes
<1>13. RunsDir'
  BY <1>1, NoOpIs DEF RunsDir, DiskTyped
<1>14. Saved'
  BY <1>1, NoOpIs, NoRowIs, NumbersAre DEF Saved, SavedFor, Installing, DiskTyped
<1>15. Again'
  BY <1>1, NoOpIs, NoRowIs DEF Again, Swapping, DiskTyped
<1>16. QED
  BY <1>11, <1>12, <1>13, <1>14, <1>15

LEMMA UninstallFailsKeeps == ASSUME DiskSizes, DiskInv, Disk!UninstallFails PROVE DiskInv'
<1>1. op.pc \in {"files", "config", "row"} /\ op' = Disk!NoOp /\ spoilt' = TRUE /\ UNCHANGED <<index, served, staging, dir, config, fileRow, fileInst, up, manual>>
  BY DEF Disk!UninstallFails, Disk!Asked
<1> USE DEF DiskInv, Disk!Valid, Disk!Manifest, Disk!Effective, Disk!Overrides
<1>11. DiskTyped'
  BY <1>1, NoOpIs DEF DiskTyped
<1>12. OneReleaseEach'
  BY <1>1, NoOpIs DEF OneReleaseEach, Installing, DiskTyped, DiskSizes
<1>13. RunsDir'
  BY <1>1, NoOpIs DEF RunsDir, DiskTyped
<1>14. Saved'
  BY <1>1, NoOpIs DEF Saved, SavedFor, Installing, DiskTyped
<1>15. Again'
  BY <1>1, NoOpIs DEF Again, Swapping, DiskTyped
<1>16. QED
  BY <1>11, <1>12, <1>13, <1>14, <1>15

LEMMA PublishKeeps == ASSUME DiskSizes, DiskInv, Disk!Publish PROVE DiskInv'
<1>1. index + 1 \in Versions /\ index' = index + 1 /\ UNCHANGED <<served, op, staging, dir, config, fileRow, fileInst, up, manual, spoilt>>
  BY DEF Disk!Publish, Disk!Asked
<1>2. index \in Nat /\ fileRow.version \in Nat /\ op.version \in Nat /\ \A f \in DOMAIN dir : dir[f] \in Nat
  BY NumbersAre
<1>3. fileRow.version # index'
  BY <1>1, <1>2 DEF DiskInv, OneReleaseEach
<1> USE DEF DiskInv, Disk!Valid, Disk!Manifest, Disk!Effective, Disk!Overrides
<1>11. DiskTyped'
  BY <1>1 DEF DiskTyped
<1>12. OneReleaseEach'
  BY <1>1, <1>2 DEF OneReleaseEach, Installing, DiskTyped, DiskSizes
<1>13. RunsDir'
  BY <1>1 DEF RunsDir, DiskTyped
<1>14. Saved'
  BY <1>1, <1>2, <1>3 DEF Saved, SavedFor, Installing, DiskTyped
<1>15. Again'
  BY <1>1 DEF Again, Swapping, DiskTyped
<1>16. QED
  BY <1>11, <1>12, <1>13, <1>14, <1>15

LEMMA PushKeeps == ASSUME DiskSizes, DiskInv, NEW f \in Files, Disk!Push(f) PROVE DiskInv'
<1>1. served[f] + 1 \in Versions /\ served' = [served EXCEPT ![f] = @ + 1] /\ UNCHANGED <<index, op, staging, dir, config, fileRow, fileInst, up, manual, spoilt>>
  BY DEF Disk!Push, Disk!Asked
<1> USE DEF DiskInv, Disk!Valid, Disk!Manifest, Disk!Effective, Disk!Overrides
<1>11. DiskTyped'
  BY <1>1 DEF DiskTyped
<1>12. OneReleaseEach'
  BY <1>1 DEF OneReleaseEach, Installing, DiskTyped, DiskSizes
<1>13. RunsDir'
  BY <1>1 DEF RunsDir, DiskTyped
<1>14. Saved'
  BY <1>1 DEF Saved, SavedFor, Installing, DiskTyped
<1>15. Again'
  BY <1>1 DEF Again, Swapping, DiskTyped
<1>16. QED
  BY <1>11, <1>12, <1>13, <1>14, <1>15

LEMMA StopKeeps == ASSUME DiskSizes, DiskInv, NEW left \in SUBSET Files, Disk!Stop(left) PROVE DiskInv'
<1>1. up /\ up' = FALSE /\ fileInst' = Disk!NoInst /\ op' = Disk!NoOp
      /\ left \subseteq DOMAIN dir /\ dir' = [f \in left |-> dir[f]] /\ UNCHANGED <<index, served, staging, config, fileRow, manual, spoilt>>
  BY DEF Disk!Stop, Disk!Asked
<1>2. dir' \in PartFiles /\ DOMAIN dir' = left /\ left \subseteq DOMAIN dir /\ \A f \in left : dir'[f] = dir[f]
  <2>1. dir \in PartFiles /\ left \in SUBSET (DOMAIN dir)
    BY <1>1 DEF DiskInv, DiskTyped
  <2>2. QED
    BY <1>1, <2>1, LeftIs
<1>3. Disk!Valid' => Disk!Valid /\ dir'["manifest"] = dir["manifest"]
  <2>1. DOMAIN dir \subseteq Files
    BY PartIs DEF DiskInv, DiskTyped
  <2>2. QED
    BY <1>2, <2>1 DEF Disk!Valid, DiskSizes
<1> USE DEF DiskInv, Disk!Valid, Disk!Manifest, Disk!Effective, Disk!Overrides
<1>11. DiskTyped'
  BY <1>1, <1>2, NoOpIs, NoInstIs DEF DiskTyped
<1>12. OneReleaseEach'
  BY <1>1, <1>2, NoOpIs DEF OneReleaseEach, Installing, DiskTyped, DiskSizes
<1>13. RunsDir'
  BY <1>1, NoInstIs DEF RunsDir, DiskTyped
<1>14. Saved'
  BY <1>1, <1>2, <1>3, NoOpIs DEF Saved, SavedFor, Installing, DiskTyped
<1>15. Again'
  BY <1>1, NoOpIs DEF Again, Swapping, DiskTyped
<1>16. QED
  BY <1>11, <1>12, <1>13, <1>14, <1>15

LEMMA StartKeeps == ASSUME DiskSizes, DiskInv, Disk!Start PROVE DiskInv'
<1>1. ~up /\ up' = TRUE /\ fileRow' = Disk!Registered(fileRow)
      /\ (IF fileRow'.enabled /\ Disk!Loads THEN Disk!Load ELSE fileInst' = Disk!NoInst)
      /\ spoilt' = (fileRow'.enabled /\ ~Disk!Loads) /\ UNCHANGED <<index, served, op, staging, dir, config, manual>>
  BY DEF Disk!Start, Disk!Asked
<1>2. /\ fileRow' \in AnyFileRow /\ (fileRow.there => fileRow'.there /\ fileRow'.enabled = fileRow.enabled) /\ (~fileRow.there => ~fileRow'.enabled)
      /\ (Disk!Valid => fileRow'.version = dir["manifest"] /\ fileRow'.there) /\ (~Disk!Valid => fileRow' = fileRow)
  BY <1>1, RowIs
<1>3. /\ fileInst' \in AnyLoad /\ (fileInst'.on <=> fileRow'.enabled /\ Disk!Loads)
      /\ fileInst'.on => /\ fileInst'.files = dir /\ fileInst'.overrides = config.keys
                          /\ Disk!Valid /\ config.keys \subseteq Keys[dir["manifest"]]
  BY <1>1, LoadIs, NoInstIs
<1> USE DEF DiskInv, Disk!Valid, Disk!Manifest, Disk!Effective, Disk!Overrides
<1>11. DiskTyped'
  BY <1>1, <1>2, <1>3 DEF DiskTyped
<1>12. OneReleaseEach'
  BY <1>1, <1>2, NumbersAre DEF OneReleaseEach, Installing, DiskTyped, DiskSizes
<1>13. RunsDir'
  BY <1>1, <1>2, <1>3 DEF RunsDir, Again, DiskTyped
<1>14. Saved'
  BY <1>1, <1>2 DEF Saved, SavedFor, Installing, DiskTyped
<1>15. Again'
  BY <1>1, <1>2, <1>3 DEF Again, Swapping, DiskTyped
<1>16. QED
  BY <1>11, <1>12, <1>13, <1>14, <1>15

LEMMA SetEnabledKeeps == ASSUME DiskSizes, DiskInv, NEW on \in BOOLEAN, Disk!SetEnabled(on) PROVE DiskInv'
<1>1. op.pc = "idle" /\ up /\ fileRow.there /\ (on => Disk!Valid) /\ fileRow' = [fileRow EXCEPT !.enabled = on]
      /\ (IF ~on THEN fileInst' = Disk!NoInst ELSE IF Disk!Loads THEN Disk!Load ELSE fileInst' = fileInst)
      /\ spoilt' = (on /\ ~Disk!Loads) /\ UNCHANGED <<index, served, op, staging, dir, config, up, manual>>
  BY DEF Disk!SetEnabled, Disk!Asked
<1>2. fileRow' \in AnyFileRow /\ fileRow'.there /\ fileRow'.enabled = on /\ fileRow'.version = fileRow.version
  BY <1>1 DEF DiskInv, DiskTyped, AnyFileRow
<1>3. /\ fileInst' \in AnyLoad /\ (fileInst'.on => on)
      /\ fileInst' = fileInst \/ ~fileInst'.on \/ /\ fileInst'.files = dir /\ fileInst'.overrides = config.keys
                                                    /\ Disk!Valid /\ config.keys \subseteq Keys[dir["manifest"]]
      /\ on /\ Disk!Loads => fileInst'.on
  <2>1. CASE ~on
    BY <1>1, <2>1, NoInstIs
  <2>2. CASE on /\ Disk!Loads
    BY <1>1, <2>2, LoadIs
  <2>3. CASE on /\ ~Disk!Loads
    BY <1>1, <2>3 DEF DiskInv, DiskTyped
  <2>4. QED
    BY <2>1, <2>2, <2>3
<1> USE DEF DiskInv, Disk!Valid, Disk!Manifest, Disk!Effective, Disk!Overrides
<1>11. DiskTyped'
  BY <1>1, <1>2, <1>3 DEF DiskTyped
<1>12. OneReleaseEach'
  BY <1>1, <1>2 DEF OneReleaseEach, Installing, DiskTyped, DiskSizes
<1>13. RunsDir'
  BY <1>1, <1>2, <1>3 DEF RunsDir, DiskTyped
<1>14. Saved'
  BY <1>1, <1>2 DEF Saved, SavedFor, Installing, DiskTyped
<1>15. Again'
  BY <1>1, <1>2, <1>3 DEF Again, Swapping, DiskTyped
<1>16. QED
  BY <1>11, <1>12, <1>13, <1>14, <1>15

LEMMA SetConfigKeeps == ASSUME DiskSizes, DiskInv, NEW k \in AllKeys, Disk!SetConfig(k) PROVE DiskInv'
<1>1. up /\ op.pc \in {"idle", "download"} /\ fileInst.on /\ config.parses /\ config.keys \cup {k} \subseteq Keys[fileInst.files["manifest"]]
      /\ config' = [config EXCEPT !.keys = @ \cup {k}] /\ fileInst' = [fileInst EXCEPT !.overrides = config'.keys] /\ manual' = FALSE /\ UNCHANGED <<index, served, op, staging, dir, fileRow, up, spoilt>>
  BY DEF Disk!SetConfig, Disk!SaveAllowed, Disk!Overrides
<1>2. config' \in AnyConfig /\ config'.parses /\ config'.keys = config.keys \cup {k}
  BY <1>1 DEF DiskInv, DiskTyped, AnyConfig
<1>3. fileInst' \in AnyLoad /\ fileInst'.on /\ fileInst'.files = fileInst.files /\ fileInst'.overrides = config'.keys
  BY <1>1, <1>2 DEF DiskInv, DiskTyped, AnyLoad, AnyConfig
<1>4. fileInst.files = dir /\ Disk!Valid /\ DOMAIN dir = Files /\ dir["manifest"] \in Versions
  BY <1>1, PartIs DEF DiskInv, DiskTyped, RunsDir, Disk!Valid, DiskSizes
<1>5. fileRow.version \in Nat /\ dir["manifest"] \in Nat /\ index \in Nat /\ op.version \in Nat
  BY <1>4, NumbersAre
<1>6. fileRow.version = index => dir["manifest"] = index
  BY <1>4, <1>5 DEF DiskInv, OneReleaseEach, DiskSizes
<1>7. Installing /\ fileRow.version = op.version => dir["manifest"] = op.version
  BY <1>4, <1>5 DEF DiskInv, OneReleaseEach, DiskSizes
<1> USE DEF DiskInv, Disk!Valid, Disk!Manifest, Disk!Effective, Disk!Overrides
<1>11. DiskTyped'
  BY <1>1, <1>2, <1>3 DEF DiskTyped
<1>12. OneReleaseEach'
  BY <1>1 DEF OneReleaseEach, Installing, DiskTyped, DiskSizes
<1>13. RunsDir'
  BY <1>1, <1>2, <1>3, <1>4 DEF RunsDir, DiskTyped
<1>14. Saved'
  BY <1>1, <1>2, <1>4, <1>6, <1>7 DEF Saved, SavedFor, Installing, DiskTyped
<1>15. Again'
  BY <1>1, <1>3 DEF Again, Swapping, DiskTyped
<1>16. QED
  BY <1>11, <1>12, <1>13, <1>14, <1>15


LEMMA HandEditKeeps == ASSUME DiskSizes, DiskInv, NEW keys \in SUBSET AllKeys, NEW parses \in BOOLEAN, Disk!HandEdit(keys, parses) PROVE DiskInv'
<1>1. config' = [parses |-> parses, keys |-> keys] /\ manual' = TRUE /\ UNCHANGED <<index, served, op, staging, dir, fileRow, fileInst, up, spoilt>>
  BY DEF Disk!HandEdit, Disk!Asked
<1>2. config' \in AnyConfig
  BY <1>1 DEF AnyConfig
<1> USE DEF DiskInv, Disk!Valid, Disk!Manifest, Disk!Effective, Disk!Overrides
<1>11. DiskTyped'
  BY <1>1, <1>2 DEF DiskTyped
<1>12. OneReleaseEach'
  BY <1>1 DEF OneReleaseEach, Installing, DiskTyped, DiskSizes
<1>13. RunsDir'
  BY <1>1 DEF RunsDir, DiskTyped
<1>14. Saved'
  BY <1>1 DEF Saved, SavedFor, Installing, DiskTyped
<1>15. Again'
  BY <1>1 DEF Again, Swapping, DiskTyped
<1>16. QED
  BY <1>11, <1>12, <1>13, <1>14, <1>15

LEMMA DiskStep == ASSUME DiskSizes, DiskInv, [Disk!Next]_(Disk!vars) PROVE DiskInv'
<1>1. CASE UNCHANGED Disk!vars
  BY <1>1 DEF Disk!vars, DiskInv, DiskTyped, OneReleaseEach, RunsDir, Saved, SavedFor, Again, Installing, Swapping,
              Disk!Valid, Disk!Manifest, Disk!Effective, Disk!Overrides
<1>2. CASE Disk!SetEnabled(TRUE) \/ Disk!SetEnabled(FALSE) \/ (\E k \in AllKeys : Disk!SetConfig(k))
           \/ (\E keys \in SUBSET AllKeys : Disk!HandEdit(keys, TRUE) \/ Disk!HandEdit(keys, FALSE))
  <2>1. TRUE \in BOOLEAN /\ FALSE \in BOOLEAN
    OBVIOUS
  <2>2. QED
    BY <1>2, <2>1, SetEnabledKeeps, SetConfigKeeps, HandEditKeeps
<1>3. CASE Disk!Catalog \/ Disk!InstallFails \/ Disk!Staged \/ Disk!RemoveTarget \/ Disk!Rename \/ Disk!Register \/ Disk!RegisterFails
  BY <1>3, CatalogKeeps, InstallFailsKeeps, StagedKeeps, RemoveTargetKeeps, RenameKeeps, RegisterKeeps, RegisterFailsKeeps
<1>4. CASE Disk!Uninstall \/ Disk!RemoveFiles \/ Disk!RemoveConfig \/ Disk!DeleteRow \/ Disk!UninstallFails
  BY <1>4, UninstallKeeps, RemoveFilesKeeps, RemoveConfigKeeps, DeleteRowKeeps, UninstallFailsKeeps
<1>5. CASE Disk!Publish \/ Disk!Start \/ (\E f \in Files : Disk!Push(f) \/ Disk!Download(f))
           \/ (\E left \in SUBSET Files : Disk!SwapFails(left) \/ Disk!Stop(left))
  BY <1>5, PublishKeeps, StartKeeps, PushKeeps, DownloadKeeps, SwapFailsKeeps, StopKeeps
<1>6. QED
  BY <1>1, <1>2, <1>3, <1>4, <1>5 DEF Disk!Next

LEMMA DiskSafe ==
  ASSUME DiskSizes, DiskInv PROVE Disk!RunsWhole /\ Disk!OneRelease /\ Disk!SavedLoads /\ Disk!RunsAgain
<1>1. Disk!OneRelease
  BY DEF DiskInv, OneReleaseEach, Disk!OneRelease
<1>2. Disk!SavedLoads
  BY DEF DiskInv, RunsDir, Saved, Disk!SavedLoads, Disk!Overrides, Disk!Manifest
<1>3. Disk!RunsAgain
  BY DEF DiskInv, Again, Disk!RunsAgain
<1>4. Disk!RunsWhole
  <2> SUFFICES ASSUME fileInst.on PROVE Disk!RunsWhole
    BY DEF Disk!RunsWhole
  <2>1. /\ up /\ fileRow.there /\ fileRow.enabled /\ fileInst.files = dir /\ Disk!Valid
        /\ fileInst.overrides \subseteq Keys[dir["manifest"]]
    BY DEF DiskInv, RunsDir
  <2>2. DOMAIN dir = Files /\ (\A f \in Files : dir[f] \in Sound) /\ "manifest" \in Files
    BY <2>1, NumbersAre DEF Disk!Valid
  <2>3. \A f \in Files : dir[f] = dir["manifest"] /\ dir[f] <= index
    BY <2>2 DEF DiskInv, OneReleaseEach
  <2>4. QED
    BY <2>1, <2>2, <2>3 DEF Disk!RunsWhole
<1>5. QED
  BY <1>1, <1>2, <1>3, <1>4

\* Through installs, updates, uninstalls, edits of the configuration and stops at any of their steps, for
\* any number of releases and files: what runs is one release, whole and listed, under a manifest that allows
\* its overrides; a directory never holds two releases; what was saved is what a plugin runs with and what
\* its next load accepts; and a plugin that was enabled runs, unless a step or a load failed since
\* (internal/plugins/manager.go, registry/install.go, uninstall.go, userconfig.go).
THEOREM FilesKept ==
  ASSUME DiskSizes PROVE Disk!Spec => [](Disk!RunsWhole /\ Disk!OneRelease /\ Disk!SavedLoads /\ Disk!RunsAgain)
<1>1. Disk!Init => DiskInv
  BY DiskStarts
<1>2. DiskInv /\ [Disk!Next]_(Disk!vars) => DiskInv'
  BY DiskStep
<1>3. DiskInv => Disk!RunsWhole /\ Disk!OneRelease /\ Disk!SavedLoads /\ Disk!RunsAgain
  BY DiskSafe
<1>4. QED
  BY <1>1, <1>2, <1>3, PTL DEF Disk!Spec

=============================================================================
