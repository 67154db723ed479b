----------------------------- MODULE AppUpdate -----------------------------
(* The dashboard's own build in a browser tab: the server that is upgraded under it, the service
   worker's cache and the HTTP cache on the way, the poll that notices an upgrade, and the forced
   refresh.  What the browser and go-app's worker do is external. *)
EXTENDS Integers, FiniteSets

CONSTANTS
  Builds,        \* 1 .. n, in the order the server is upgraded to them
  Base, Bytes    \* of each build, the version it reports and its app.wasm

VARIABLES
  srv,      \* the build the server runs
  http,     \* app.wasm as an HTTP cache has it: [etag, bytes]
  worker,   \* the service worker: [version, bytes], bytes "none" once its caches are deleted
  install,  \* the version of a worker being installed
  tab,      \* the page: [bytes, boot, ready, polled, late, forced]
  jobs,     \* a forced refresh: the cleanups under way
  torn      \* an upgrade came between a worker's script and its app.wasm, a worker was installed while
            \* a forced refresh was cleaning up, or a cleanup failed
vars == <<srv, http, worker, install, tab, jobs, torn>>

None == "none"
Idle == {"idle"}
\* The content's hash is a name for the bytes.
BaseOnly(b) == <<Base[b], "">>
DashboardVersion(b) == <<Base[b], Bytes[b]>>
NoVersion == <<None, None>>
NoTab == [bytes |-> None, boot |-> NoVersion, ready |-> FALSE, polled |-> NoVersion, late |-> FALSE, forced |-> FALSE]
NoWorker == [version |-> NoVersion, bytes |-> None]

TypeOK ==
  /\ srv \in Builds /\ tab.bytes \in {Bytes[b] : b \in Builds} \cup {None}
  /\ jobs \in {Idle} \cup SUBSET {"caches", "gather", "worker", "failed", "stuck"}
  /\ worker.version \in {DashboardVersion(b) : b \in Builds} \cup {NoVersion}

Upgrade ==
  /\ srv + 1 \in Builds /\ srv' = srv + 1
  /\ tab' = [tab EXCEPT !.forced = FALSE]
  /\ torn' = (torn \/ install # NoVersion)
  /\ UNCHANGED <<http, worker, install, jobs>>

\* app.wasm is never taken from a cache that has not asked: the ETag is a hash of its content.
Trusted == IF http.bytes # None THEN http.bytes ELSE Bytes[srv]
ServeWasm == IF http.etag = Bytes[srv] THEN http.bytes ELSE Bytes[srv]
Fetched == [etag |-> Bytes[srv], bytes |-> ServeWasm]

\* The worker answers from its cache first; without one the page comes from the server.
Opened(forced) ==
  /\ install' = IF worker.version # DashboardVersion(srv) THEN DashboardVersion(srv) ELSE install
  /\ jobs' = Idle
  /\ LET cached == worker.bytes # None
         bytes == IF cached THEN worker.bytes ELSE ServeWasm
     IN /\ tab' = [NoTab EXCEPT !.bytes = bytes, !.forced = forced]
        /\ http' = IF cached THEN http ELSE Fetched
  /\ UNCHANGED <<srv, worker, torn>>
\* No cleanup is under way: none was begun, or one that will not load the page has ended.
AtRest == jobs = Idle \/ ("stuck" \in jobs /\ "caches" \notin jobs)
Load == AtRest /\ Opened(FALSE)
\* TryUpdate: another version is another worker; its cache is filled before it takes over.
TryUpdate ==
  /\ tab.bytes # None /\ install = NoVersion /\ worker.version # DashboardVersion(srv)
  /\ install' = DashboardVersion(srv)
  /\ UNCHANGED <<srv, http, worker, tab, jobs, torn>>
OnAppUpdate ==
  /\ install # NoVersion /\ install' = NoVersion
  /\ worker' = [version |-> install, bytes |-> ServeWasm] /\ http' = Fetched
  /\ tab' = IF worker.version = NoVersion THEN tab ELSE [tab EXCEPT !.ready = TRUE]
  /\ torn' = (torn \/ ~AtRest)
  /\ UNCHANGED <<srv, jobs>>

\* The first version the server tells is the one the tab booted on.
NewBuildDetected(ver) == tab.boot # NoVersion /\ ver # tab.boot
BuildVersion ==
  /\ tab.bytes # None
  /\ LET ver == DashboardVersion(srv)
     IN tab' = [tab EXCEPT !.boot = IF @ = NoVersion THEN ver ELSE @, !.ready = @ \/ NewBuildDetected(ver), !.polled = ver,
                           !.late = @ \/ (tab.boot = NoVersion /\ tab.bytes # Bytes[srv])]
  /\ UNCHANGED <<srv, http, worker, install, jobs, torn>>

\* A list of caches that cannot be read ends a forced refresh before it does anything.
ForceRefresh ==
  /\ tab.bytes # None /\ AtRest /\ jobs' = {"caches", "gather"}
  /\ UNCHANGED <<srv, http, worker, install, tab, torn>>
\* Registrations that cannot be read leave the page as it is, its caches deleted all the same.
GatherWorkers(ok) ==
  /\ "gather" \in jobs /\ jobs' = (jobs \ {"gather"}) \cup {IF ok THEN "worker" ELSE "stuck"}
  /\ UNCHANGED <<srv, http, worker, install, tab, torn>>
\* The page is loaded again when every cleanup has succeeded or one has failed: Promise.all does not
\* wait for the others then, and what they do after the reload is left out.
AtOnce == jobs # Idle
WhenDone == jobs = {} \/ ("failed" \in jobs /\ jobs \cap {"gather", "stuck"} = {})
ReloadWhenDone == WhenDone /\ Opened(TRUE)
Settled(job, ok) == (jobs \ {job}) \cup (IF ok THEN {} ELSE {"failed"})
DeleteCaches(ok) ==
  /\ "caches" \in jobs /\ jobs' = Settled("caches", ok)
  /\ worker' = IF ok THEN [worker EXCEPT !.bytes = None] ELSE worker
  /\ torn' = (torn \/ ~ok \/ install # NoVersion)
  /\ UNCHANGED <<srv, http, install, tab>>
Unregister(ok) ==
  /\ "worker" \in jobs /\ jobs' = Settled("worker", ok)
  /\ worker' = IF ok THEN NoWorker ELSE worker
  /\ torn' = (torn \/ ~ok \/ install # NoVersion)
  /\ UNCHANGED <<srv, http, install, tab>>

Init ==
  /\ srv = 1 /\ http = [etag |-> None, bytes |-> None] /\ worker = NoWorker
  /\ install = NoVersion /\ tab = NoTab /\ jobs = Idle /\ torn = FALSE
Next ==
  \/ Upgrade \/ Load \/ TryUpdate \/ OnAppUpdate \/ BuildVersion \/ ForceRefresh \/ ReloadWhenDone
  \/ \E ok \in BOOLEAN : GatherWorkers(ok) \/ DeleteCaches(ok) \/ Unregister(ok)
Spec == Init /\ [][Next]_vars

-----------------------------------------------------------------------------
\* A worker's cache has the bytes its version is named for, so a build whose bytes changed is
\* another worker, whatever a cache on the way had.
NamedForBytes == worker.bytes # None /\ ~torn => worker.version[2] = worker.bytes
\* After a forced refresh the page is the server's build.
RefreshIsCurrent == tab.forced /\ ~torn => tab.bytes = Bytes[srv]
\* A tab that runs other bytes than the build it was last told of shows the banner, unless it was
\* itself loaded from the worker's cache after the upgrade.
ToldOfUpgrade == tab.polled # NoVersion /\ ~tab.late /\ tab.bytes # tab.polled[2] => tab.ready
=============================================================================
