--------------------------- MODULE PluginLifecycle ---------------------------
(* The plugin manager, as one plugin lives through it: the requests that load,
   replace and unload it, the worker of each of its instances, the event loop
   that hands it events, the callers of its page and source hooks, and the
   shutdown.  Plugins of other names have their own map entry, queue and worker
   and meet this one nowhere else.

   m.mu is held only for a read or a change of the map, so each of those is one
   step.  What happens at its own time in between is a step as well: closing a
   queue, waiting for a worker, starting one, sending on a queue.  Sending on a
   closed channel and closing one twice are panics; one that nobody recovers
   ends the process. *)
EXTENDS Naturals, Sequences, FiniteSets

CONSTANTS
  Requests,      \* goroutines that run management requests
  Boot,          \* the goroutine of Run, which loads the plugin at startup
  Clients,       \* goroutines that call RenderPage or Produce
  QueueSize,     \* Options.QueueSize
  MaxInstances,  \* bound on the instances loaded
  MaxEvents      \* bound on the events dispatched to the plugin

VARIABLES
  row,      \* the plugins row: absent, disabled or enabled
  loaded,   \* m.plugins[name], None if it has no entry
  made,     \* the instances loaded so far
  inst,     \* each instance: its queue, its worker and its VM
  caller,   \* each request and Run's reconcile: what it does, where, with which instances
  target,   \* the instance the event loop is about to send to, None between dispatches
  events,   \* the events dispatched
  client,   \* each page or source call: where it is and with which instance
  replied,  \* the clients whose reply channel holds a reply
  ctxDone,  \* Run's context is cancelled
  run,      \* where Run is
  ending,   \* the instance shutdown took out of the map
  panic,    \* what ended the process: none, send or close
  raced     \* what ran at the same time as another request: requests, shutdown
vars == <<row, loaded, made, inst, caller, target, events, client, replied,
          ctxDone, run, ending, panic, raced>>

None == 0
Instances == 1 .. MaxInstances
Callers == Requests \cup {Boot}
Event == "event"    \* a job nobody waits for

Started == {"ready", "busy"}
Fresh == [queue |-> << >>, closed |-> FALSE, worker |-> "unstarted", job |-> Event, vm |-> "open"]
IdleCaller == [op |-> "stop", pc |-> "idle", new |-> None, old |-> None]
IdleClient == [pc |-> "idle", of |-> None]

Quiet == \A c \in Callers : caller[c].pc = "idle"
Go(c, pc) == caller' = [caller EXCEPT ![c] = IF pc = "idle" THEN IdleCaller ELSE [@ EXCEPT !.pc = pc]]
Race(what) == raced' = raced \cup (IF Quiet THEN {} ELSE {what})

loopVars   == <<target, events, ctxDone, run, ending>>
clientVars == <<client, replied>>

-----------------------------------------------------------------------------
(* Management requests.  They all look the row up first. *)

\* A request begins; those that begin after the signal race with the shutdown.
Begin(c, op, pc) ==
  /\ caller[c].pc = "idle" /\ c \in Requests
  /\ caller' = [caller EXCEPT ![c] = [IdleCaller EXCEPT !.op = op, !.pc = pc]]
  /\ raced' = raced \cup (IF Quiet THEN {} ELSE {"requests"}) \cup (IF ctxDone THEN {"shutdown"} ELSE {})
  /\ UNCHANGED <<row, loaded, made, inst, loopVars, clientVars, panic>>

SetEnabled(c) == row # "absent" /\ (Begin(c, "load", "enable") \/ Begin(c, "stop", "disable"))

\* A plugin that is not loadable from disk any more is unloaded.
Reload(c) ==
  /\ row # "absent"
  /\ \/ Begin(c, "stop", "take")
     \/ row = "enabled" /\ Begin(c, "load", "load")

\* An update stops the running instance before the files are swapped.
Install(c) == IF loaded = None THEN Begin(c, "install", "swap") ELSE Begin(c, "update", "take")

\* Listing the plugins or starting up finds the plugin's files and inserts its row.
Register ==
  /\ row = "absent" /\ row' = "disabled"
  /\ UNCHANGED <<loaded, made, inst, caller, loopVars, clientVars, panic, raced>>

Uninstall(c) == row # "absent" /\ Begin(c, "uninstall", "take")

\* The row may have been deleted meanwhile, which is not noticed.
WriteEnabled(c) ==
  /\ caller[c].pc \in {"enable", "disable"}
  /\ row' = CASE row = "absent" -> row
              [] caller[c].pc = "enable" -> "enabled"
              [] OTHER -> "disabled"
  /\ Go(c, IF caller[c].pc = "enable" THEN "load" ELSE "take")
  /\ UNCHANGED <<loaded, made, inst, loopVars, clientVars, panic, raced>>

\* The VM is made before anything is replaced.
Load(c) ==
  /\ caller[c].pc = "load" /\ made < MaxInstances
  /\ made' = made + 1
  /\ inst' = [inst EXCEPT ![made + 1] = Fresh]
  /\ caller' = [caller EXCEPT ![c].pc = "take", ![c].new = made + 1]
  /\ UNCHANGED <<row, loaded, loopVars, clientVars, panic, raced>>

LoadFails(c) ==
  /\ caller[c].pc = "load" /\ Go(c, "idle")
  /\ UNCHANGED <<row, loaded, made, inst, loopVars, clientVars, panic, raced>>

\* What follows once nothing is loaded.
AfterUnload(op) == CASE op = "load" -> "insert" [] op = "stop" -> "idle"
                     [] op = "update" -> "swap" [] op = "uninstall" -> "remove"

\* Mutant: the entry stays in the map while its instance is stopped.
TakeAndLeave(c) ==
  /\ caller[c].pc = "take"
  /\ IF loaded = None THEN Go(c, AfterUnload(caller[c].op))
     ELSE caller' = [caller EXCEPT ![c].old = loaded, ![c].pc = "close"]
  /\ UNCHANGED <<row, loaded, made, inst, loopVars, clientVars, panic, raced>>

\* Mutant: a load leaves the instance it replaces alone.
TakeUnlessLoad(c) ==
  /\ caller[c].pc = "take"
  /\ loaded' = None
  /\ IF loaded = None \/ caller[c].op = "load" THEN Go(c, AfterUnload(caller[c].op))
     ELSE caller' = [caller EXCEPT ![c].old = loaded, ![c].pc = "close"]
  /\ UNCHANGED <<row, made, inst, loopVars, clientVars, panic, raced>>

\* unload: look up and delete under the lock, then stop outside it.
Take(c) ==
  /\ caller[c].pc = "take"
  /\ loaded' = None
  /\ IF loaded = None THEN Go(c, AfterUnload(caller[c].op))
     ELSE caller' = [caller EXCEPT ![c].old = loaded, ![c].pc = "close"]
  /\ UNCHANGED <<row, made, inst, loopVars, clientVars, panic, raced>>

\* Mutant: stop waits for a worker nobody told to end.
CloseNoQueue(c) ==
  /\ caller[c].pc = "close" /\ Go(c, "wait")
  /\ UNCHANGED <<row, loaded, made, inst, loopVars, clientVars, panic, raced>>

CloseQueue(c) ==
  LET i == caller[c].old
  IN  /\ caller[c].pc = "close"
      /\ panic' = IF inst[i].closed THEN "close" ELSE panic
      /\ inst' = [inst EXCEPT ![i].closed = TRUE]
      /\ Go(c, "wait")
      /\ UNCHANGED <<row, loaded, made, loopVars, clientVars, raced>>

\* Mutant: the worker is not waited for.
DoNotWait(c) ==
  LET i == caller[c].old
  IN  /\ caller[c].pc = "wait"
      /\ inst' = [inst EXCEPT ![i].vm = "closed"]
      /\ Go(c, AfterUnload(caller[c].op))
      /\ UNCHANGED <<row, loaded, made, loopVars, clientVars, panic, raced>>

\* stop returns once the worker has drained the queue; then the VM is closed.
Wait(c) ==
  LET i == caller[c].old
  IN  /\ caller[c].pc = "wait" /\ inst[i].worker = "ended"
      /\ inst' = [inst EXCEPT ![i].vm = "closed"]
      /\ Go(c, AfterUnload(caller[c].op))
      /\ UNCHANGED <<row, loaded, made, loopVars, clientVars, panic, raced>>

\* Whatever the map holds by now is overwritten.
Insert(c) ==
  /\ caller[c].pc = "insert"
  /\ loaded' = caller[c].new
  /\ Go(c, "start")
  /\ UNCHANGED <<row, made, inst, loopVars, clientVars, panic, raced>>

StartWorker(c) ==
  /\ caller[c].pc = "start"
  /\ inst' = [inst EXCEPT ![caller[c].new].worker = "ready"]
  /\ Go(c, "idle")
  /\ UNCHANGED <<row, loaded, made, loopVars, clientVars, panic, raced>>

\* The new files are in place and registered; the plugin is loaded again if it
\* was.  Removing or renaming may fail, and then nothing runs any more.
Swap(c) ==
  /\ caller[c].pc = "swap"
  /\ \/ /\ row' = IF row = "absent" THEN "disabled" ELSE row
        /\ IF caller[c].op = "install" THEN Go(c, "idle")
           ELSE caller' = [caller EXCEPT ![c] = [IdleCaller EXCEPT !.op = "load", !.pc = "load"]]
     \/ UNCHANGED row /\ Go(c, "idle")
  /\ UNCHANGED <<loaded, made, inst, loopVars, clientVars, panic, raced>>

\* The cleanup hook runs in a VM of its own; then files and row go, or the files stay.
Remove(c) ==
  /\ caller[c].pc = "remove" /\ Go(c, "idle")
  /\ row' \in {row, "absent"}
  /\ UNCHANGED <<loaded, made, inst, loopVars, clientVars, panic, raced>>

-----------------------------------------------------------------------------
(* The worker of an instance. *)

WorkerTakes(i) ==
  /\ inst[i].worker = "ready" /\ inst[i].queue # << >>
  /\ inst' = [inst EXCEPT ![i].queue = Tail(@), ![i].job = Head(inst[i].queue), ![i].worker = "busy"]
  /\ UNCHANGED <<row, loaded, made, caller, loopVars, clientVars, panic, raced>>

\* Mutant: a hook that fails answers nobody.
WorkerForgets(i) ==
  /\ inst[i].worker = "busy"
  /\ inst' = [inst EXCEPT ![i].worker = "ready", ![i].job = Event]
  /\ UNCHANGED <<row, loaded, made, caller, loopVars, clientVars, panic, raced>>

\* The hook returns, fails or runs into its timeout; a waiting client is answered.
WorkerFinishes(i) ==
  /\ inst[i].worker = "busy"
  /\ inst' = [inst EXCEPT ![i].worker = "ready", ![i].job = Event]
  /\ replied' = replied \cup ({inst[i].job} \ {Event})
  /\ UNCHANGED <<row, loaded, made, caller, loopVars, client, panic, raced>>

WorkerEnds(i) ==
  /\ inst[i].worker = "ready" /\ inst[i].queue = << >> /\ inst[i].closed
  /\ inst' = [inst EXCEPT ![i].worker = "ended"]
  /\ UNCHANGED <<row, loaded, made, caller, loopVars, clientVars, panic, raced>>

-----------------------------------------------------------------------------
(* Run: reconcile, the event loop, shutdown. *)

RunLoop ==
  /\ run = "reconcile" /\ caller[Boot].pc = "idle"
  /\ run' = "loop"
  /\ UNCHANGED <<row, loaded, made, inst, caller, target, events, ctxDone, ending, clientVars, panic, raced>>

\* dispatch notes its targets under the lock.
DispatchTargets ==
  /\ run = "loop" /\ target = None /\ loaded # None /\ events < MaxEvents
  /\ target' = loaded /\ events' = events + 1
  /\ UNCHANGED <<row, loaded, made, inst, caller, ctxDone, run, ending, clientVars, panic, raced>>

\* Mutant: the length of the queue is not looked at.
DispatchSendUnbounded ==
  /\ target # None
  /\ target' = None
  /\ panic' = IF inst[target].closed THEN "send" ELSE panic
  /\ inst' = IF inst[target].closed THEN inst ELSE [inst EXCEPT ![target].queue = Append(@, Event)]
  /\ UNCHANGED <<row, loaded, made, caller, events, ctxDone, run, ending, clientVars, raced>>

\* The send does not block: a full queue drops the event.  Nothing recovers here.
DispatchSend ==
  /\ target # None
  /\ target' = None
  /\ panic' = IF inst[target].closed THEN "send" ELSE panic
  /\ inst' = IF inst[target].closed \/ Len(inst[target].queue) = QueueSize THEN inst
             ELSE [inst EXCEPT ![target].queue = Append(@, Event)]
  /\ UNCHANGED <<row, loaded, made, caller, events, ctxDone, run, ending, clientVars, raced>>

CancelRun ==
  /\ ~ctxDone /\ ctxDone' = TRUE
  /\ UNCHANGED <<row, loaded, made, inst, caller, target, events, run, ending, clientVars, panic, raced>>

ShutdownTake ==
  /\ run = "loop" /\ ctxDone /\ target = None
  /\ run' = IF loaded = None THEN "wait" ELSE "close"
  /\ ending' = loaded /\ loaded' = None
  /\ Race("shutdown")
  /\ UNCHANGED <<row, made, inst, caller, target, events, ctxDone, clientVars, panic>>

\* Mutant: the queue is not closed.
ShutdownWaitsOnly ==
  /\ run = "close" /\ run' = "wait"
  /\ UNCHANGED <<row, loaded, made, inst, caller, target, events, ctxDone, ending, clientVars, panic, raced>>

ShutdownClose ==
  /\ run = "close" /\ run' = "wait"
  /\ panic' = IF inst[ending].closed THEN "close" ELSE panic
  /\ inst' = [inst EXCEPT ![ending].closed = TRUE]
  /\ UNCHANGED <<row, loaded, made, caller, target, events, ctxDone, ending, clientVars, raced>>

\* m.wg counts every worker that was started, whoever stops it.
ShutdownDone ==
  /\ run = "wait" /\ \A i \in Instances : inst[i].worker \notin Started
  /\ run' = "stopped"
  /\ inst' = IF ending = None THEN inst ELSE [inst EXCEPT ![ending].vm = "closed"]
  /\ UNCHANGED <<row, loaded, made, caller, target, events, ctxDone, ending, clientVars, panic, raced>>

-----------------------------------------------------------------------------
(* RenderPage and Produce. *)

ClientIs(k, pc) == client' = [client EXCEPT ![k] = [pc |-> pc, of |-> IF pc = "await" THEN @.of ELSE None]]

ClientLooksUp(k) ==
  /\ client[k].pc = "idle" /\ loaded # None
  /\ client' = [client EXCEPT ![k] = [pc |-> "send", of |-> loaded]]
  /\ UNCHANGED <<row, loaded, made, inst, caller, loopVars, replied, panic, raced>>

ClientSends(k) ==
  LET i == client[k].of
  IN  /\ client[k].pc = "send" /\ ~inst[i].closed /\ Len(inst[i].queue) < QueueSize
      /\ inst' = [inst EXCEPT ![i].queue = Append(@, k)]
      /\ ClientIs(k, "await")
      /\ UNCHANGED <<row, loaded, made, caller, loopVars, replied, panic, raced>>

\* The queue is closed, which the send's panic tells and recover turns into an error.
ClientIsRefused(k) ==
  /\ client[k].pc = "send" /\ inst[client[k].of].closed
  /\ ClientIs(k, "done")
  /\ UNCHANGED <<row, loaded, made, inst, caller, loopVars, replied, panic, raced>>

ClientIsAnswered(k) ==
  /\ client[k].pc = "await" /\ k \in replied
  /\ ClientIs(k, "done")
  /\ UNCHANGED <<row, loaded, made, inst, caller, loopVars, replied, panic, raced>>

\* Mutant: the reply is not looked at again.
WorkerIsGoneAtOnce(k) ==
  /\ client[k].pc = "await" /\ inst[client[k].of].worker = "ended"
  /\ ClientIs(k, "unloaded")
  /\ UNCHANGED <<row, loaded, made, inst, caller, loopVars, replied, panic, raced>>

\* The worker is done and the reply, looked at again, is not there.
WorkerIsGone(k) ==
  /\ client[k].pc = "await" /\ inst[client[k].of].worker = "ended" /\ k \notin replied
  /\ ClientIs(k, "unloaded")
  /\ UNCHANGED <<row, loaded, made, inst, caller, loopVars, replied, panic, raced>>

\* The caller's own context is cancelled; its job stays where it is.
ClientGivesUp(k) ==
  /\ client[k].pc \in {"send", "await"} /\ ClientIs(k, "done")
  /\ UNCHANGED <<row, loaded, made, inst, caller, loopVars, replied, panic, raced>>

-----------------------------------------------------------------------------
\* At startup the row is what the last run left; an enabled plugin is loaded.
Init ==
  /\ row \in {"absent", "disabled", "enabled"}
  /\ loaded = None /\ made = 0 /\ inst = [i \in Instances |-> Fresh]
  /\ caller = [c \in Callers |->
       IF c = Boot /\ row = "enabled" THEN [IdleCaller EXCEPT !.op = "load", !.pc = "load"] ELSE IdleCaller]
  /\ target = None /\ events = 0
  /\ client = [k \in Clients |-> IdleClient] /\ replied = {}
  /\ ctxDone = FALSE /\ run = "reconcile" /\ ending = None
  /\ panic = "none" /\ raced = {}

RequestStep == Register \/ \E c \in Requests : SetEnabled(c) \/ Reload(c) \/ Install(c) \/ Uninstall(c)

CallerStep(c) ==
  \/ WriteEnabled(c) \/ Load(c) \/ LoadFails(c) \/ Take(c) \/ CloseQueue(c) \/ Wait(c)
  \/ Insert(c) \/ StartWorker(c) \/ Swap(c) \/ Remove(c)

WorkerStep(i) == WorkerTakes(i) \/ WorkerFinishes(i) \/ WorkerEnds(i)

RunStep == RunLoop \/ DispatchSend \/ ShutdownTake \/ ShutdownClose \/ ShutdownDone

ClientStep(k) == ClientSends(k) \/ ClientIsRefused(k) \/ ClientIsAnswered(k) \/ WorkerIsGone(k)

Next ==
  /\ panic = "none"
  /\ \/ RequestStep
     \/ \E c \in Callers : CallerStep(c)
     \/ \E i \in Instances : WorkerStep(i)
     \/ RunStep \/ DispatchTargets \/ CancelRun
     \/ \E k \in Clients : ClientLooksUp(k) \/ ClientStep(k) \/ ClientGivesUp(k)

\* Goroutines that can run do; a hook ends at its timeout.  Requests, events,
\* calls, a caller's patience and the signal are not forced.
Fairness ==
  /\ WF_vars(panic = "none" /\ RunStep)
  /\ \A c \in Callers : WF_vars(panic = "none" /\ CallerStep(c))
  /\ \A i \in Instances : WF_vars(panic = "none" /\ WorkerStep(i))
  /\ \A k \in Clients : WF_vars(panic = "none" /\ ClientStep(k))

Spec == Init /\ [][Next]_vars /\ Fairness

-----------------------------------------------------------------------------
(* Properties. *)

TypeOK ==
  /\ row \in {"absent", "disabled", "enabled"}
  /\ loaded \in Instances \cup {None} /\ made \in 0 .. MaxInstances
  /\ \A i \in Instances :
       /\ inst[i].worker \in {"unstarted", "ready", "busy", "ended"}
       /\ Len(inst[i].queue) <= QueueSize
       /\ \A n \in DOMAIN inst[i].queue : inst[i].queue[n] \in Clients \cup {Event}
  /\ \A i \in {loaded, target, ending} \ {None} : i <= made
  /\ replied \subseteq Clients
  /\ panic \in {"none", "send", "close"} /\ raced \subseteq {"requests", "shutdown"}

\* Two of unload, load and shutdown never stop the same instance.
StoppedOnce == panic # "close"

\* "No bus events are delivered into a plugin that is being torn down" (Uninstall):
\* no event is sent on a queue that unload has closed.
NoSendAfterClose == panic # "send"

\* A VM is used by its worker only, and not after it was closed (unless the
\* shutdown overtakes a load between the map and the worker).
VmOpenWhileUsed ==
  "shutdown" \notin raced => \A i \in Instances : inst[i].worker = "busy" => inst[i].vm = "open"

\* load replaces any prior instance: with one request at a time no two workers of
\* the plugin are alive, and when nothing is going on the only one left is the
\* one in the map, which is there for an enabled plugin.
OneInstance ==
  raced = {} =>
    /\ Cardinality({i \in Instances : inst[i].worker \in Started}) <= 1
    /\ Quiet /\ run = "loop" =>
         /\ loaded # None => row = "enabled"
         /\ \A i \in 1 .. made \ {loaded} : inst[i].vm = "closed"

\* "An accepted job is always answered" (enqueueRender), even if the plugin is
\* unloaded, replaced or shut down meanwhile.
AcceptedIsAnswered == \A k \in Clients : client[k].pc # "unloaded"

\* What a plugin's life keeps: no instance is stopped twice, no VM is used after it was
\* closed, with one request at a time the only worker alive is that of the instance in
\* the map, and an accepted job is answered.
PluginLives == TypeOK /\ StoppedOnce /\ VmOpenWhileUsed /\ OneInstance /\ AcceptedIsAnswered

\* A page or source call ends, whatever happens to the plugin.
ClientsReturn == \A k \in Clients : client[k].pc \in {"send", "await"} ~>
                   (client[k].pc \notin {"send", "await"} \/ panic # "none")

\* So does a request, overlapping with others or not.
RequestsReturn == \A c \in Callers : caller[c].pc # "idle" ~>
                    (caller[c].pc = "idle" \/ panic # "none")

\* Once its context is cancelled Run stops the plugin and returns, unless
\* requests overlap with each other or with the shutdown.
RunReturns == ctxDone ~> (run = "stopped" \/ raced # {} \/ panic # "none")
=============================================================================
