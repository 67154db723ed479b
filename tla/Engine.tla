------------------------------- MODULE Engine -------------------------------
(* The ingestion engine: one poller per source, each with a schedule of its own
   and a lock that serialises its syncs, and the registry of them that the
   startup, the plugin manager and the API work on at the same time.

   e.mu is held only for a read or a change of the registry, so each of those is
   one step; stopping the schedule of a replaced poller, starting one, and every
   database or network call of a sync is a step of its own.  A sync holds its
   poller's lock from its first step to its last.

   A source is a type; a poller is one construction of it, numbered.  What a
   source fetches is left out: a batch is persisted or not. *)
EXTENDS Naturals, Sequences, FiniteSets, SequencesExt

CONSTANTS
  Types,         \* source types
  KindOf,        \* KindOf[ty]: pull, warm (a read-through cache) or push (an inbound webhook)
  Timed,         \* the types with a positive interval
  Credentialed,  \* the types with a runtime credential
  Builtin,       \* the sequence of types main builds pollers for; the others come from plugins
  Runners,       \* goroutines that run syncs
  Plugins,       \* goroutines of the plugin manager that register and unregister sources
  MaxPollers,    \* bound on the pollers constructed
  MaxLogs        \* bound on the rows of sync_log

None == 0

\* The pollers that main builds fit the bound, and no goroutine is called None.
ASSUME EngineAssumption ==
  /\ MaxPollers \in Nat /\ Builtin \in Seq(Types) /\ Len(Builtin) <= MaxPollers
  /\ None \notin Runners

VARIABLES
  typeOf,   \* the pollers made so far, each with its type
  order,    \* e.order and e.pollers: the registered pollers in registration order
  field,    \* p.sched: none, live or shut
  live,     \* the running schedulers each poller has started
  main,     \* main: in engine.Start or Stop, with the pollers still to visit; off if syncs are disabled
  mgr,      \* each goroutine of the plugin manager: where it is, with which pollers
  cred,     \* the stored credential of each type that has one: unset or set
  lock,     \* the runner that holds each poller's mutex
  runner,   \* each sync: where it is, with which poller, which are left, its row and its context
  rows,     \* sync_log: each row's status, and the poller whose run it is
  stored,   \* the rows whose batch is committed
  told,     \* the rows whose sync.completed event is in the log
  lost,     \* the rows whose creation was not answered or whose completion was not written
  raced     \* schedules were touched at once, by a Start that follows one, or after the last Stop
vars == <<typeOf, order, field, live, main, mgr, cred, lock, runner, rows, stored, told, lost, raced>>

Pollers == 1 .. MaxPollers
Registered == ToSet(order)
IdleManager == [pc |-> "idle", new |-> None, old |-> None]
IdleRunner == [pc |-> "idle", p |-> None, todo |-> << >>, log |-> None, ok |-> TRUE, ctx |-> "live"]

schedVars == <<field, live>>
syncVars  == <<lock, runner, rows, stored, told, lost>>

OfType(ty) == {p \in Registered : typeOf[p] = ty}

-----------------------------------------------------------------------------
(* Schedules.  Start makes a scheduler and keeps it in p.sched, whatever was
   there; Stop shuts the one it finds and leaves the field as it is. *)

Start(p) ==
  IF typeOf[p] \notin Timed THEN UNCHANGED schedVars
  ELSE /\ field' = [field EXCEPT ![p] = "live"]
       /\ live' = [live EXCEPT ![p] = @ + 1]

Stop(p) ==
  IF field[p] # "live" THEN UNCHANGED schedVars
  ELSE /\ field' = [field EXCEPT ![p] = "shut"]
       /\ live' = [live EXCEPT ![p] = @ - 1]

-----------------------------------------------------------------------------
(* The startup and the shutdown of main, and the plugin manager. *)

Quiet == main.pc \in {"fresh", "off", "up", "down"} /\ \A m \in Plugins : mgr[m].pc = "idle"
ByPlugin(p) == p > Len(Builtin)
Race(found) == raced' = (raced \/ ~Quiet \/ found)

\* NewEngine: of two pollers of one type the first is kept.
NewEngine(types) ==
  LET first == {i \in DOMAIN types : \A j \in 1 .. i - 1 : types[j] # types[i]}
  IN  {s \in [1 .. Cardinality(first) -> first] : \A i, j \in DOMAIN s : i < j => s[i] < s[j]}

Init ==
  /\ typeOf = Builtin /\ order \in NewEngine(Builtin)
  /\ field = [p \in Pollers |-> "none"] /\ live = [p \in Pollers |-> 0]
  /\ main \in [pc : {"fresh", "off"}, todo : {<< >>}]
  /\ mgr = [m \in Plugins |-> IdleManager]
  /\ cred \in [Credentialed -> {"unset", "set"}]
  /\ lock = [p \in Pollers |-> None]
  /\ runner = [t \in Runners |-> IdleRunner]
  /\ rows = << >> /\ stored = {} /\ told = {} /\ lost = {}
  /\ raced = FALSE

\* Engine.Start and Engine.Stop begin with the registry as it is now.
Snapshot(from, to) ==
  /\ main.pc = from
  /\ main' = [pc |-> to, todo |-> order]
  /\ Race(\E p \in Registered : field[p] = "live" /\ from = "fresh")
  /\ UNCHANGED <<typeOf, order, schedVars, mgr, cred, syncVars>>

EngineStart == Snapshot("fresh", "starting")

\* A Start that fails would end the process; making a scheduler does not.
StartNext ==
  /\ main.pc = "starting"
  /\ IF main.todo = << >> THEN main' = [main EXCEPT !.pc = "up"] /\ UNCHANGED schedVars
     ELSE main' = [main EXCEPT !.todo = Tail(@)] /\ Start(Head(main.todo))
  /\ UNCHANGED <<typeOf, order, mgr, cred, syncVars, raced>>

EngineStop == Snapshot("up", "stopping")

\* A Stop that fails is collected; the others are stopped all the same.
StopNext ==
  /\ main.pc = "stopping"
  /\ IF main.todo = << >> THEN main' = [main EXCEPT !.pc = "down"] /\ UNCHANGED schedVars
     ELSE main' = [main EXCEPT !.todo = Tail(@)] /\ Stop(Head(main.todo))
  /\ UNCHANGED <<typeOf, order, mgr, cred, syncVars, raced>>

\* The registrar builds a poller over the plugin's source.
RegisterSource(m, ty) ==
  /\ mgr[m].pc = "idle" /\ ty \notin ToSet(Builtin)
  /\ Len(typeOf) < MaxPollers
  /\ typeOf' = Append(typeOf, ty)
  /\ mgr' = [mgr EXCEPT ![m] = [pc |-> "add", new |-> Len(typeOf) + 1, old |-> None]]
  /\ Race(main.pc = "down")
  /\ UNCHANGED <<order, schedVars, main, cred, syncVars>>

\* AddPoller that leaves the replaced poller's schedule alone.
AddPollerOver(m) ==
  LET p == mgr[m].new  had == OfType(typeOf[p])
  IN  /\ mgr[m].pc = "add"
      /\ order' = IF had = {} THEN Append(order, p)
                  ELSE [i \in DOMAIN order |-> IF order[i] \in had THEN p ELSE order[i]]
      /\ mgr' = [mgr EXCEPT ![m].pc = "start"]
      /\ UNCHANGED <<typeOf, schedVars, main, cred, syncVars, raced>>

\* AddPoller, under the lock: replace in place or append.
AddPoller(m) ==
  LET p == mgr[m].new  had == OfType(typeOf[p])
  IN  /\ mgr[m].pc = "add"
      /\ order' = IF had = {} THEN Append(order, p)
                  ELSE [i \in DOMAIN order |-> IF order[i] \in had THEN p ELSE order[i]]
      /\ mgr' = [mgr EXCEPT ![m].pc = IF had = {} THEN "start" ELSE "replace",
                            ![m].old = IF had = {} THEN None ELSE CHOOSE q \in had : TRUE]
      /\ UNCHANGED <<typeOf, schedVars, main, cred, syncVars, raced>>

\* RemovePoller, under the lock; an unknown type is an error.
RemovePoller(m, ty) ==
  /\ mgr[m].pc = "idle" /\ ty \notin ToSet(Builtin)
  /\ \E i \in DOMAIN order :
       /\ typeOf[order[i]] = ty
       /\ order' = RemoveAt(order, i)
       /\ mgr' = [mgr EXCEPT ![m] = [pc |-> "stop", new |-> None, old |-> order[i]]]
  /\ Race(main.pc = "down")
  /\ UNCHANGED <<typeOf, schedVars, main, cred, syncVars>>

\* What AddPoller and RemovePoller do after the lock.
OutsideLock(m) ==
  /\ mgr[m].pc \in {"replace", "start", "stop"}
  /\ IF mgr[m].pc = "start" THEN Start(mgr[m].new) ELSE Stop(mgr[m].old)
  /\ mgr' = [mgr EXCEPT ![m] = IF mgr[m].pc = "replace" THEN [@ EXCEPT !.pc = "start"] ELSE IdleManager]
  /\ UNCHANGED <<typeOf, order, main, cred, syncVars, raced>>

-----------------------------------------------------------------------------
(* Credentials.  A vault that cannot be read makes a status unknown. *)

SetCredential(ty) ==
  /\ OfType(ty) # {} /\ ty \in Credentialed
  /\ cred' = [cred EXCEPT ![ty] = "set"]
  /\ UNCHANGED <<typeOf, order, schedVars, main, mgr, syncVars, raced>>

RemoveSourceCredential(ty) ==
  /\ OfType(ty) # {} /\ ty \in Credentialed
  /\ cred' = [cred EXCEPT ![ty] = "unset"]
  /\ UNCHANGED <<typeOf, order, schedVars, main, mgr, syncVars, raced>>

\* The listing: a source is there once registered, connected only if its status can be read.
Sources == [ty \in {typeOf[p] : p \in Registered} |-> ty \in Credentialed => cred[ty] = "set"]

\* What the API lists: the engine's sources first, then the catalogue's that are not active.
SourceStatuses == [ty \in Types |-> [active |-> ty \in DOMAIN Sources,
                                     connected |-> ty \in DOMAIN Sources /\ Sources[ty]]]

-----------------------------------------------------------------------------
(* Syncs. *)

Begin(t, p, todo, ctx) ==
  /\ runner[t].pc = "idle" /\ Len(rows) < MaxLogs
  /\ runner' = [runner EXCEPT ![t] = [IdleRunner EXCEPT !.pc = "lock", !.p = p, !.todo = todo, !.ctx = ctx]]
  /\ UNCHANGED <<typeOf, order, schedVars, main, mgr, cred, lock, rows, stored, told, lost, raced>>

\* A scheduled run: any scheduler that is running fires, its poller registered or not.
Tick(t) == \E p \in Pollers : live[p] > 0 /\ Begin(t, p, << >>, "background")

\* Sync all passes over the caches that warm on access.
OnDemandCache(p) == KindOf[typeOf[p]] = "warm" /\ typeOf[p] \notin Timed
Eager(ps) == {i \in DOMAIN ps : ~OnDemandCache(ps[i])}
After(ps, i) == SubSeq(ps, i + 1, Len(ps))

\* Sync all: the registry as it is now.
SyncAll(t) ==
  LET i == Min(Eager(order))
  IN  Eager(order) # {} /\ Begin(t, order[i], After(order, i), "live")

\* The API answers 404 for a type that is not registered, then looks it up again.
SyncSource(t) == \E ty \in DOMAIN Sources : \E p \in OfType(ty) : Begin(t, p, << >>, "live")

\* An authentic delivery that carries a batch: it skips the checks of Sync.
Ingest(t) ==
  \E ty \in DOMAIN Sources : KindOf[ty] = "push" /\ \E p \in OfType(ty) :
    /\ runner[t].pc = "idle" /\ Len(rows) < MaxLogs
    /\ runner' = [runner EXCEPT ![t] = [IdleRunner EXCEPT !.pc = "deliver", !.p = p]]
    /\ UNCHANGED <<typeOf, order, schedVars, main, mgr, cred, lock, rows, stored, told, lost, raced>>

\* What a runner does when a poller is done with: the next one of its snapshot, or nothing.
Proceed(t) ==
  LET todo == runner[t].todo  i == Min(Eager(todo))
  IN  IF Eager(todo) = {} THEN IdleRunner
      ELSE [pc |-> "lock", p |-> todo[i], todo |-> After(todo, i), log |-> None, ok |-> TRUE, ctx |-> runner[t].ctx]
Become(t, r) == runner' = [runner EXCEPT ![t] = r]
Free(p) == lock' = [lock EXCEPT ![p] = None]
Same == UNCHANGED <<typeOf, order, schedVars, main, mgr, cred, raced>>

\* What is skipped: a push-only source, and one without its credential.
Skipped(p) == \/ KindOf[typeOf[p]] = "push"
              \/ typeOf[p] \in Credentialed /\ cred[typeOf[p]] = "unset"

\* Sync without the mutex.
SyncUnlocked(t) ==
  LET p == runner[t].p
  IN  /\ runner[t].pc \in {"lock", "deliver"}
      /\ \/ /\ runner[t].pc = "lock" /\ Skipped(p)
            /\ Become(t, Proceed(t)) /\ UNCHANGED lock
         \/ /\ runner[t].pc = "lock" => KindOf[typeOf[p]] # "push"
            /\ Become(t, [runner[t] EXCEPT !.pc = IF @ = "lock" THEN "log" ELSE "logBatch"])
            /\ lock' = [lock EXCEPT ![p] = t]
      /\ UNCHANGED <<rows, stored, told, lost>> /\ Same

\* Sync up to the run: a push-only or unconnected source is skipped without a row, but a
\* credential whose status cannot be read lets it run.
Sync(t) ==
  LET p == runner[t].p
  IN  /\ runner[t].pc \in {"lock", "deliver"} /\ lock[p] = None
      /\ \/ /\ runner[t].pc = "lock" /\ Skipped(p)
            /\ Become(t, Proceed(t)) /\ UNCHANGED lock
         \/ /\ runner[t].pc = "lock" => KindOf[typeOf[p]] # "push"
            /\ Become(t, [runner[t] EXCEPT !.pc = IF @ = "lock" THEN "log" ELSE "logBatch"])
            /\ lock' = [lock EXCEPT ![p] = t]
      /\ UNCHANGED <<rows, stored, told, lost>> /\ Same

\* CreateSyncLog; without its row there is no run, and the row may be there all the same
\* when a context that ends takes the answer with it.
Insert(p) == Len(rows) < MaxLogs /\ rows' = Append(rows, [status |-> "running", p |-> p])
Quit(t) == Free(runner[t].p) /\ Become(t, Proceed(t))
CreateLog(t) ==
  /\ runner[t].pc \in {"log", "logBatch"}
  /\ \/ /\ runner[t].ctx # "dead" /\ Insert(runner[t].p)
        /\ Become(t, [runner[t] EXCEPT !.pc = IF @ = "log" THEN "fetch" ELSE "persist", !.log = Len(rows) + 1])
        /\ UNCHANGED <<lock, lost>>
     \/ UNCHANGED <<rows, lost>> /\ Quit(t)
     \/ Insert(runner[t].p) /\ lost' = lost \cup {Len(rows) + 1} /\ Quit(t)
  /\ UNCHANGED <<stored, told>> /\ Same

\* Fetch, or Warm for a cache, which has nothing to persist.
Fetch(t) ==
  /\ runner[t].pc = "fetch"
  /\ \/ Become(t, [runner[t] EXCEPT !.pc = "finish", !.ok = FALSE])
     \/ /\ runner[t].ctx # "dead"
        /\ Become(t, [runner[t] EXCEPT !.pc = IF KindOf[typeOf[runner[t].p]] = "warm" THEN "finish" ELSE "persist"])
  /\ UNCHANGED <<lock, rows, stored, told, lost>> /\ Same

\* A failed transaction that leaves the batch behind.
PersistInPart(t) ==
  /\ runner[t].pc = "persist"
  /\ \/ stored' = stored \cup {runner[t].log} /\ Become(t, [runner[t] EXCEPT !.pc = "finish", !.ok = FALSE])
     \/ /\ runner[t].ctx # "dead" /\ stored' = stored \cup {runner[t].log}
        /\ Become(t, [runner[t] EXCEPT !.pc = "emit"])
  /\ UNCHANGED <<lock, rows, told, lost>> /\ Same

\* persistResult up to the commit of the batch.
Persist(t) ==
  /\ runner[t].pc = "persist"
  /\ \/ UNCHANGED stored /\ Become(t, [runner[t] EXCEPT !.pc = "finish", !.ok = FALSE])
     \/ /\ runner[t].ctx # "dead" /\ stored' = stored \cup {runner[t].log}
        /\ Become(t, [runner[t] EXCEPT !.pc = "emit"])
  /\ UNCHANGED <<lock, rows, told, lost>> /\ Same

\* sync.completed, in a transaction of its own; that it failed is only logged.
EmitSyncCompleted(t) ==
  /\ runner[t].pc = "emit"
  /\ \/ UNCHANGED told
     \/ runner[t].ctx # "dead" /\ told' = told \cup {runner[t].log}
  /\ Become(t, [runner[t] EXCEPT !.pc = "finish"])
  /\ UNCHANGED <<lock, rows, stored, lost>> /\ Same

\* CompleteSyncLog, with the run's own context: that it failed, for that or for any other
\* reason, is only logged, and the row is left running.
CompleteSyncLog(t) ==
  \/ /\ runner[t].ctx # "dead" /\ UNCHANGED lost
     /\ rows' = [rows EXCEPT ![runner[t].log].status = IF runner[t].ok THEN "success" ELSE "error"]
  \/ UNCHANGED rows /\ lost' = lost \cup {runner[t].log}

\* recordRun that keeps the mutex when the run failed.
RecordRunHolding(t) ==
  /\ runner[t].pc = "finish"
  /\ CompleteSyncLog(t)
  /\ IF runner[t].ok THEN Free(runner[t].p) ELSE UNCHANGED lock
  /\ Become(t, Proceed(t))
  /\ UNCHANGED <<stored, told>> /\ Same

\* The deferred end of recordRun and of Sync.
RecordRun(t) ==
  /\ runner[t].pc = "finish"
  /\ CompleteSyncLog(t) /\ Quit(t)
  /\ UNCHANGED <<stored, told>> /\ Same

\* The client of a delivery goes away, the API's five minutes are over, or the serve
\* context of the initial sync ends; a scheduled run has no such end.
CtxEnds(t) ==
  /\ runner[t].pc # "idle" /\ runner[t].ctx = "live"
  /\ Become(t, [runner[t] EXCEPT !.ctx = "dead"])
  /\ UNCHANGED <<lock, rows, stored, told, lost>> /\ Same

SchedStep ==
  \/ EngineStart \/ StartNext \/ EngineStop \/ StopNext
  \/ \E m \in Plugins :
       \/ \E ty \in Types : RegisterSource(m, ty) \/ RemovePoller(m, ty)
       \/ AddPoller(m) \/ OutsideLock(m)

Work(t) == \/ CreateLog(t) \/ Fetch(t) \/ Persist(t) \/ EmitSyncCompleted(t) \/ RecordRun(t)

Next ==
  \/ SchedStep
  \/ \E ty \in Types : SetCredential(ty) \/ RemoveSourceCredential(ty)
  \/ \E t \in Runners : \/ Tick(t) \/ SyncAll(t) \/ SyncSource(t) \/ Ingest(t)
                        \/ Sync(t) \/ Work(t) \/ CtxEnds(t)

\* Calls end, and a Go mutex does not starve a goroutine that waits for it.
Fairness == \A t \in Runners : WF_vars(Work(t)) /\ SF_vars(Sync(t))

Spec == Init /\ [][Next]_vars /\ Fairness

-----------------------------------------------------------------------------
\* Every variable has its type, and the registry holds one poller of a type.
TypeOK ==
  /\ typeOf \in Seq(Types) /\ order \in Seq(DOMAIN typeOf) /\ IsInjective(order)
  /\ \A p, q \in Registered : typeOf[p] = typeOf[q] => p = q
  /\ field \in [Pollers -> {"none", "live", "shut"}] /\ live \in [Pollers -> Nat]
  /\ main.pc \in {"off", "fresh", "starting", "up", "stopping", "down"} /\ main.todo \in Seq(Pollers)
  /\ \A m \in Plugins : mgr[m].pc \in {"idle", "add", "replace", "start", "stop"}
  /\ cred \in [Credentialed -> {"unset", "set"}]
  /\ lock \in [Pollers -> Runners \cup {None}]
  /\ \A t \in Runners : runner[t].pc \in {"idle", "lock", "deliver", "log", "logBatch", "fetch", "persist", "emit", "finish"}
  /\ stored \cup told \cup lost \subseteq DOMAIN rows /\ raced \in BOOLEAN

\* When nothing is being started or stopped and nothing was at the same time, a source
\* has one schedule if it is registered and started, and a source that was replaced or
\* removed has none (AddPoller, RemovePoller, Engine.Start, Engine.Stop).
SchedulesMatch ==
  Quiet /\ ~raced =>
    \A p \in Pollers :
      live[p] = IF /\ p \in Registered /\ typeOf[p] \in Timed
                   /\ (main.pc = "up" \/ (ByPlugin(p) /\ main.pc \in {"fresh", "off"}))
                THEN 1 ELSE 0

\* After RemovePoller or a replacement has returned, no schedule of the poller runs on.
RemovedIsSilent ==
  \A p \in DOMAIN typeOf : p \notin Registered /\ (\A m \in Plugins : mgr[m].pc = "idle") => live[p] = 0

Running(t) == runner[t].pc \notin {"idle", "lock", "deliver"}

\* Two syncs of one poller never overlap, and the history tells what each did: a row stays
\* running only while its run goes on, or where the write that makes or completes it went
\* wrong; success means the batch is in the ledger, error means it is not, and
\* sync.completed never speaks of a batch that is not there.
RunsAreTold ==
  /\ \A t, u \in Runners : Running(t) /\ Running(u) /\ t # u => runner[t].p # runner[u].p
  /\ \A l \in DOMAIN rows :
       /\ rows[l].status = "running" <=> l \in lost \/ \E t \in Runners : runner[t].log = l
       /\ rows[l].status = "success" => l \in stored \/ KindOf[typeOf[rows[l].p]] = "warm"
       /\ rows[l].status = "error" => l \notin stored
  /\ told \subseteq stored

\* The same, over variables that have their types.
SyncsKept == TypeOK /\ RunsAreTold

\* A sync that was asked for ends, whoever else syncs the same source and whatever fails.
SyncsReturn == \A t \in Runners : runner[t].pc # "idle" ~> runner[t].pc = "idle"

=============================================================================
