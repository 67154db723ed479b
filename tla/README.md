# Verification of kasas

kasas is a self-hosted ledger: it pulls transactions from bank and chain
sources, keeps them in SQLite or Postgres, lets people, rules and plugins
annotate them, records every change as an event and a version, and pushes the
events to webhooks, plugins and stream clients. A dashboard (Go compiled to
wasm) shows it in the browser. This directory holds TLA+ models of the program,
the TLC runs that check them, and proofs that TLAPS checks.

Run from this directory:

    tlc -workers 2 -config EventPumpSerial.cfg EventPump
    tlc -workers 2 -config Components.cfg MCComponents
    tlapm EventPumpProofs.tla

`PROJECT.json` lists the components, runs, theorems and hazards, and maps each
definition that models code to the lines it models.

## Inventory

| Component | State | Operations | What makes it correct |
|---|---|---|---|
| events (`internal/events`) | events and versions tables, bus subscriptions | Record, Emit, Version, Publish, Subscribe, Close | an event is published iff its change committed; order; a bounded buffer never truncates silently |
| db (`internal/db`) | the tables | generated queries, RunInTx | atomicity; backend differences |
| webhook dispatcher (`internal/webhooks`) | lastSeq, job queue, webhook status | Run, replay, consumeLive, dispatch, deliverWithRetry, recordStatus | cursor without gaps, retries bounded, status not overwritten by older outcomes |
| plugin manager (`internal/plugins`) | loaded map, workers, jobs channels | Run, SetEnabled, Reload, Install, Uninstall, RenderPage, Produce, host writes | one worker per loaded plugin, no send after close, stop terminates |
| plugin runtimes and network (`internal/plugins`) | a VM each, its buffers, grants, a budget | hook calls with deadlines, host calls, fetches | own deadline, own result, declared hosts only, budget |
| plugin files (`internal/plugins`) | directory, row, configuration file | discover, install, update, configure, uninstall | what runs is one whole release with a configuration its manifest takes |
| ledger and API writes (`internal/ledger`, `internal/api`) | transactions, accounts, labels, extensions, relationships | create, update, delete, label, relate, purge | history records every change; both sides of a relationship agree |
| rules (`internal/rules`, `api/rules.go`) | rules table, provenance | apply, unapply, apply on import | a hand edit survives; unapply undoes only what the rule did |
| poller and engine (`internal/poller`) | registry, scheduler jobs, sync_log, persister | Start, Stop, Sync, AddPoller, RemovePoller, Persist, Ingest | one sync per source at a time, one schedule each, every sync told; user fields survive |
| api events (`api/events.go`) | stream handlers, cursors | stream, list, newest | a client that reconnects misses nothing |
| sources (`internal/sources`) | stored tokens, addresses, URLs, secrets, sign-in states | Fetch, add, remove, claim, deliver, sign in | what is connected is what was asked; a fetch is whole; a delivery is its sender's |
| settings (`internal/settings`, `internal/config`) | overrides beside file and environment | Set, Reset, List, Apply at start | a start is valid; the listing says the next start |
| vault (`internal/vault`) | all secrets in one document | get, put, delete | a write keeps the others |
| auth, apikeys (`internal/auth`, `internal/apikeys`) | dashboard token, keys | check, set, create, revoke | admitted and refused for a reason that held |
| market (`internal/market`) | cached points, flights, series | read, refresh, warm, add, remove | points are the series' own and as fresh as claimed |
| search (`internal/search`) | none | parse, match, search | the grammar; every match of the whole ledger |
| selfupdate, dbmigrate, csv | the binary; a copy; files | check, apply, restart; copy; read folders | the right release whole; a whole copy; only what could be read |
| dashboard (`internal/dashboard`) | pages, modals, the kept token, the worker's cache | requests beside the page, answers dispatched to it | once all is answered a page shows what the server has |

How they interact: every mutation goes through `Emitter.Record`, one database
transaction that also inserts the events; after the commit the events go to the
`Bus`. Three kinds of reader follow: the webhook dispatcher and the plugin
manager (the same loop), and the SSE handlers. Each uses the bus for the live
tail and the events table for what it missed. Plugins write back through
`Record`, so their events come round again. The engine asks a source for a
batch and hands it to the persister, one of `Record`'s callers; a plugin that is
a source is registered with the engine by the plugin manager. Settings are read
at start only, secrets and tokens whenever a source fetches. The dashboard knows
the server by its HTTP API alone.

What is hard here:

- two goroutines commit and publish in different orders;
- Postgres hands out a sequence before the transaction commits;
- a subscriber is dropped in the middle of a batch and has to find its place in
  the table again while more is committed and retention deletes rows;
- the process dies between the commit and the publication, between a temporary
  file and its rename, between the steps of an install;
- a plugin is unloaded while the loop holds a snapshot of the loaded ones;
- a rule run reads all transactions before its transaction and writes whole
  label sets inside it;
- an engine starts and stops schedulers while sources come and go;
- lists kept as one stored value are read, changed and written back with nothing
  to keep two requests apart;
- a bank or a chain moves on between two pages of one fetch;
- a page's answers come in another order than its requests, after the page was
  left, or after the token changed.

## Modules

| Module | Models |
|---|---|
| `EventLog` | `Emitter.Record`, the events table, the `Bus`, retention, shutdown, crash |
| `LogDelivery` | abstract: what a consumer of the log is promised |
| `EventPump` | `Dispatcher.Run` / `Manager.Run` over `EventLog` |
| `EventFeed` | `GET /events/stream` and `GET /events` over `EventLog` |
| `EventPumpProofs` | type correctness, dispatch order, commitment, no backlog, gap freedom, the refinement |
| `EventFeedProofs` | fresh sequences, the order and the gaps of the stream, the cursor read, the types; what the browser keeps of `Session` |
| `Ledger` | every writer of accounts, transactions, versions and rules |
| `LedgerProofs` | type correctness, references, the events against the tables, what runs and syncs keep, the history; the copies of `DbMigrate` |
| `WebhookDelivery` | what follows a dispatch: jobs, workers, retries, status rows |
| `WebhookProofs` | outcomes, attempts, the user's configuration, the bounds of the types; `InboundWebhook` and the other sources |
| `PluginLifecycle` | one plugin name: load, unload, its workers, its callers, shutdown |
| `PluginProofs` | what a plugin's life keeps; `Egress`, `PluginVm`, `PluginFiles` |
| `PluginVm` | one loaded plugin under the js, lua and wasm runtimes |
| `Egress` | a plugin's fetches: `netGate.do`, its dialer, its budget and log |
| `PluginFiles` | installs, updates, configuration and uninstalls, on disk and in the row |
| `Engine` | the registry of pollers, their schedules and their syncs |
| `EngineProofs` | what the syncs say and the schedules that run; `Settings`, `SecretStore`, `SelfUpdate`, `SimplefinSource` |
| `TokenSet` | the stored access tokens of a source, and requests that change them |
| `TellerSource`, `PlaidSource` | a fetch of each over `TokenSet` |
| `SimplefinSource` | the access URL: stored, configured or claimed once |
| `AddressBook` | the addresses of a chain source (`TokenSet` of normalised addresses), exact amounts |
| `BitcoinSource`, `EthereumSource` | a scan of each over `AddressBook` |
| `InboundWebhook` | signed deliveries, and sign-ins with a state |
| `CsvSource` | local and Drive folders |
| `Settings` | overrides over file and environment, and the next start |
| `SecretStore` | the file and the Vault backend |
| `Access` | the gates of the routes, the Guard, the API keys |
| `Market` | the read-through cache and its series |
| `Search` | the query language's lexer, parser and predicates; a search over a moving ledger |
| `SelfUpdate`, `DbMigrate` | the update of the binary; the copy to Postgres |
| `RowTable`, `TransactionsPage`, `RowModals`, `SearchPage`, `RulesPage`, `PluginPage`, `SettingsPage`, `ApiKeysPanel` | the dashboard's pages |
| `Session`, `AppUpdate` | the dashboard's sign-in and its own update |
| `MCLedger`, `MCComponents`, `MCProgress` | instances for TLC |

`EventPump` and `EventFeed` extend `EventLog`. `WebhookDelivery` and
`PluginLifecycle` start where `EventPump` ends: their dispatch takes any event,
which is more than the loop hands over. `Ledger` is what happens inside
`Record`, as one step. `TellerSource` and `PlaidSource` extend `TokenSet`,
`BitcoinSource` and `EthereumSource` extend `AddressBook`, which instantiates it.

**`MCComponents`** checks most components in one run. They do not meet, so a
behaviour is one of a single component: `part` is chosen in the first state and
never changes, and the component's variables are the first few of the shared
registers `v1` to `v18` (the others stay 0, `Idle` and `Still`). Each component is
an `INSTANCE ... WITH` of its own constants and registers, except the engine, which
the module extends and whose variables rest meanwhile; so the run is the sum
of the parts' state spaces, not their product, and each property is guarded by the
parts it is about. `Parts` in the .cfg picks them; the violation runs name one.
Where a part's `Next` is strengthened (a fetch starts once the token edits are
over, a modal and a viewer are not open at once, ...) the conjunct stands beside
the part and is listed under Bounds.

### EventLog

An event is its sequence. `committed` is every sequence whose transaction
committed, `horizon` what retention deleted, so `log` is the table. `top` is
the allocation counter: on SQLite it belongs to the transaction (a rollback
gives values back), on Postgres it moves at once. `wstate[w]` and `rec[w]` are
a goroutine inside `Record`: `idle`, in the transaction, `committed` but not
published, `publishing`. `Begin`, `Emit`, `Commit`, `Rollback` and `Publish`
are the steps between which another goroutine can run. `Publish` fans out one
event per step and `BusFree` stands for the mutex that keeps every `Subscribe`,
cancel, `Close` and other `Publish` out of the batch; receives are not kept
out. A channel is a sequence of at most `BufferSize` events and `open[c]` says
it is not closed; what a closed channel buffered can still be received, as in
Go. `EventCrash` loses the bus and rolls back open transactions.

SQLite's single writing transaction is `MayInsert`. It is the database's
behaviour, not the repository's, and marked external.

### EventPump

One process per loop. `ppc` follows `Run`: `head`, `subscribe`, `replay` (about
to read a page), `page`/`lastpage` (dispatching a full or a short page),
`live`, `cancel`, `stopped`. `handed[c]` is the history of what was given to
`dispatch`; what `dispatch` does next is not part of this module. A failing
read is a choice when `ReadsFail`.

### EventFeed

`fpc` follows `handleEventStream`; `frames[c]` is what client c saw over all
its connections. A client reconnects with the last sequence it saw, as the
handler's comment asks. `Poll` and `PollNewest` are the two forms of
`GET /events`; the type filters are left out because they only thin the pages.

### Ledger

Rows are functions by id. `Cores` stands for the fields the source owns, as one
value; labels and extensions are functions from keys to values with `NoVal` for
an absent key, which keeps the keys' order (`Normalize` keeps the first
`MaxCount` in order). `history[t]` is the version rows of t, `clock` the commits
that recorded any, so the time a version occurred at. `told` is a history
variable: each action updates it by what its events say (`TellSnapshots`,
`TellMeta`, ...), not by what it writes, so `EventsTellLedger` compares the two.

Each operation is one step because it runs inside `Record`, and SQLite refuses
the write of a transaction whose snapshot is old. On Postgres, at read
committed, two such operations can interleave (a label write and a sync of one
row, `internal/api/handlers.go:143`); that is not modelled. What is not one step even on SQLite is a run of the rules:
`applyRules` and `unapplyRule` read all transactions first and open their
transaction afterwards (`ReadForRun`, `RunWrite`). `Overlap` says whether other
writes may come in between.

`DELETE /labels/{key}` changes rows without a version, so `HistoryAgrees` and
`DiffNamesCause` hold up to label keys deleted everywhere (`Remnant`).

### WebhookDelivery

One webhook row per id, with its switch, its types and its status. A job
carries the row as `dispatch` read it. `worker[w]` follows `deliverWithRetry`:
`posting`, `refused`, `backoff`, `record`. `posts` and `acked` are histories of
what an endpoint saw. A full queue drops a job (`Enqueue`), a failing read skips
an event (`DispatchFails`), a failing status write is only logged
(`RecordFails`). Under a cancelled context a request is not sent and a job is
dropped (`Abandon`). The URL and the secret are data.

### PluginLifecycle

Plugins of different names share only the lock, so one name is enough. `inst`
holds every instance ever loaded: its queue, its worker, its VM. A request is a
goroutine that goes through the steps of `load`, `unload`, `SetEnabled`,
`Reload`, `installArchive` or `Uninstall`; the manager serialises none of them,
it locks only the map. `Boot` is the load of `reconcile`. Clients are
`RenderPage` and `Produce`. A send on a closed channel is a panic, which
`enqueueRender` recovers and `dispatch` does not; `panic` ends the behaviour.

`raced` records that two requests, or a request and the shutdown, were under
way at once. `OneInstance` and `RunReturns` are stated for `raced = {}`, and
`VmOpenWhileUsed` without a shutdown overtaking a load, because the code fails
them otherwise: two loads each unload and each insert, the one overwritten
keeps its worker with nobody to close its queue, and `shutdown` waits for that
worker for ever. `main` does not wait for `Run`, so this costs an orphan while
the process lives, not a process that hangs.

Health columns are left out; grants are in `Egress` and `PluginFiles`, a plugin's
source is one of `Engine`'s.

In `MCProgress` this module and `Engine` are composed as two components of which
one moves. It extends this one, and the `raced` of `Engine` is called `crossed` there, as both have one.

### PluginVm, Egress, PluginFiles

`PluginVm` is one loaded plugin under `Runtime` = `js`, `lua` or `wasm`: hooks run
one after the other, each under its own deadline, and call the host back. The
interpreters are external; what is modelled is what kasas arms and clears around
them: the goja interrupt and its timer, the Lua context, the wasm call's context
and the module's memory, which is reset after a trap. A call is its number and a
buffer or an answer is the call it belongs to, so an answer read by the wrong call
or a late timer that stops the next call shows.

`Egress` is `netGate.do` with its redirects, its dialer, which resolves and checks
the address it then connects to, its token bucket and its log, while names are
resolved anew, grants change and the plugin is reloaded. `MaxRedirects` = n follows
n - 1 redirects, as `CheckRedirect` counts requests; a reload makes a new gate with
a full bucket, so `WithinRate` is about one gate.

`PluginFiles` follows an install or update file by file through staging, hash
check, `RemoveAll` and `Rename`, discovery after a restart, `SetConfig` and
`Uninstall`, with a failure or a stop between any two steps. The registry's index
and the files it serves change on the way. Documented as an "atomic swap", the
install is two calls, so a stop between them leaves no directory until the plugin
is installed again. Also visible in the model: the configuration's
mutex is one per instance although `host.go:49-52` says it serializes coexisting
instances; an update grants the new release's capabilities by itself; the enabled
row outlives an uninstall that fails halfway, so a later install starts at once
(`spoilt` excepts it from `RunsAgain`).

### Engine

A source is a type, a poller one construction of it, numbered; `order` is the
registry, `field[p]` what `p.sched` holds and `live[p]` the schedulers of p that
fire. `main` goes through `Engine.Start`, serving and `Stop`; `mgr` are the plugin
manager's `AddPoller` and `RemovePoller`, which may begin before `Start`. A runner is
one sync: it waits for the poller's lock, opens its `sync_log` row, fetches, persists,
publishes `sync.completed` and completes the row, all under the run's context. `stored` and
`told` are histories of what was persisted and published. A `CompleteSyncLog` that fails, because
the context ended or for any other reason, is only logged (`poller.go:266-273`), and a row whose insert was
not answered has no run; both stay `running` for good and are the rows in `lost`. `RunsAreTold` says that a row is
running exactly if it is one of these or its run is under way, and what a completed row tells. A
credential whose status cannot be read does not hold a sync back (`Skipped` knows the others). A
commit is taken to have happened exactly when the code is told so: one that Postgres made and could not
answer is not modelled. `raced` records that
schedules of one poller were touched at once; `SchedulesMatch` excepts that.
`RemovedIsSilent` is the comment of `RemovePoller` without any exception, and fails
(`EngineTwoStarts`).

### Sources

`TokenSet` is the handlers of teller and plaid, which hold the same code: read the stored
list, change the copy, write it back. Two that overlap lose a token, which `TokensAsAsked`
excepts (`mixed`); what it shows is that nothing else does. `TellerSource` and
`PlaidSource` walk tokens, accounts and pages while the bank goes on.
`FetchIsExact` holds through pages that shift because Teller pages from an id;
`ItemsAreWhole` excepts transactions that a bank withdraws while Plaid is paged by
offset, and both the page caps and walks that failed. `SimplefinSource` is the one-time claim of a setup token.
A token may be spent for nothing (`wasted`): the bridge gave it up and the answer did not arrive whole
(`client.go:52-67`), the store failed, or the process stopped before it. The next claim of that token fails and the
access is gone; `docs/features/sync.md:105-108`, "so the token is consumed exactly once", holds of the
token, not of the access. `AccessKept` excepts these tokens and no others, and overlapping calls
only from what it says of the URL set last.
`AddressBook` keeps the addresses as tokens in normal form and says how base units become
decimals. `BitcoinSource` scans mempool and chain while transactions are mined:
block times are not monotonic, so a walk that stops at a block before the window may miss a
later block, which `AddressScanned` says. `EthereumSource` walks forward from the window's
first block; `AmountsExact` and `GasIsPaid` add the rows of a transaction up.
`InboundWebhook` checks signature, time and secret as `Verify` does beside rotations, and holds the OAuth
states with their lifetime.

`CsvSource` takes the folders in turn and reads each file whole, while files are written,
edited and removed. The model shows, and the properties except: a file read half written yields a
row that stays beside the whole one (`torn`); equal rows collapse to one id; an edited row leaves
its old transaction; one Drive folder without a token stops the local ones as well;
columns are found by their names only, numeric column specs
(`parse.go:158-176`) are left out; a negative debit keeps its sign although the comment in `parse.go` speaks of a magnitude.

### Settings, SecretStore, Access

`Settings` has four keys that stand for the kinds of the catalogue: two that are only
valid together, one with a list of values, one in the secret store. `boot` is what the last start made of file,
environment and rows. Requests are two steps (validate, write), and nothing keeps two apart.
`OverridesKept` excepts overlapping requests and resets; without the second exception it is `OverridesWin`,
the sentence of the docs, which fails. File and environment do not change over a behaviour.

`SecretStore` is one JSON document: the file is written beside and renamed under a mutex;
Vault is read and written in two calls without one, so overlapping writes lose a
key, which `SiblingsKept` excepts for Vault alone.

`Access`: a request passes the Guard, the table of keys and the Guard again, and the credentials change in between.
`could` and `always` record whether it had the right at some time, or all the time. A
refusal while the token changed and a write that failed but reached the store are excepted.

### Market, Search

`Market` has readers, the flight all share, the refresh behind a stale read, the warm-up of the sync and
the requests that change the series. A point is the symbol it was fetched for and when. Excepted: a series
removed while it is fetched, whose points come back (`stained`), and overlapping edits (`mixed`); a restart after
these may find points of another symbol under a series, which nothing clears, so they are `stained` too. A flight is taken to
be shorter than the TTL. The rate limit is one of the ways a flight fails: with three series
refreshed at once its 12 s spacing exceeds the flight's 20 s timeout, although the comment in
`service.go` says otherwise.

`Search` begins with the query: the lexer's units, the recursive-descent parser, the grammar of the docs as a definition of
its own, and the predicates; `GrammarKept` compares them for every query of up to `MaxUnits`
units. They are RECURSIVE operators, so TLC alone checks them. `--x` lexes as a NOT of the free text
`-x`. Account names are left out. A bare term looks at the keys and values of labels and
extensions, and at a label's `key:value`. A search reads the ledger in pages while rows come and go;
what is removed under the pages may shift others out, which `SearchIsWhole` excepts.

### SelfUpdate, DbMigrate

`SelfUpdate` has the release list with its assets, the cached check, the download against the
checksum, the replacement of the binary by rename and the re-exec, from a
request and from the command. Two updates that cross are excepted (`crossed`). The re-exec is not a
graceful shutdown: deliveries under way end as in a crash. `DbMigrate` copies parent, child and an identity
table in one transaction while the server writes, and a second copy may run. `setval` is not
transactional and takes `max(id) + 1`, so ids of pruned newest events are given
again (`IdsGoOn` says so); a write after its table was read is not in the copy.

### The dashboard

Each page is one component of the go-app client: its fields, the requests it has out (`calls`, with where each is: sent,
served, failed) and the answers dispatched to it in any order. The server is as much
of the API as the page needs. `strayed` records a case in which the page is wrong by design of the client
and which the property excepts; these are worth knowing:

- `TransactionsPage`: the list of the account chosen before may be answered last and stays; a failed
  label save puts back the row of its time over a later edit; a list paged by offset slips.
- `RowModals`: the answer of a relationship write that comes to another row's modal is dropped; removing an
  inbound edge does not refresh the other row's count.
- `SearchPage`: clearing or searching before both loads are in.
- `Session`: a login that the server took under a token which another tab replaces or revokes before the
  answer is handled writes the old token back into the browser's store (`submitLogin`, `shell.go:371-403`), and the page it
  reloads shows the login screen again; a mint whose answer is lost locks everybody out. A late probe does no harm: a tab
  asks no second time while one is unanswered.
- `AppUpdate`: the worker's cache is named for a version latched at its script's load;
  `forceRefresh` uses `Promise.all`, which gives up at the first rejection, so the page may
  reload before all cleanups are over, though `shell.go:240-247` says only after. Registrations that
  cannot be read leave the page unreloaded with its caches deleted, though the same comment says "a rejected job still
  reloads rather than wedging"; a list of caches that cannot be read ends the refresh before it does anything. A browser without caches or
  worker is left out.
- `SettingsPage`, `ApiKeysPanel`: an answer that is lost, a list read while a key changed, a failed revocation put
  back as the list of its time.
- `PluginPage`: an action whose answer comes after the page was left returns at `name != v.name`
  with `v.acting` still set, and the component is reused, so its buttons stay off on every later page
  (`ButtonsComeBack` excepts `left`).
- `RulesPage`: the switch sends the whole row as the page has it; a failed removal puts back the list of
  its time; a save's answer closes whichever form is open. The Webhooks page has the same shape.

`RowTable` is the sorting and paging of a table, `Pager` against `PagerWhole`.

## Runs

| Run | Shows |
|---|---|
| `EventPumpSerial` | type, order, commitment, no gap, no backlog, refinement of `LogDelivery`; delivery and stop (liveness) |
| `LedgerSerial` | references, events against rows, history against rows, what runs and syncs keep; nothing between a run's read and its write |
| `WebhookDeliveryPool` | posts, outcomes and settings; every job and `Run` end (liveness) |
| `Components` | the safety of each of the other components, one to a behaviour |
| `Progress` | what a plugin's life keeps (`PluginLives`); syncs return; a plugin's calls, requests and `Run` return (liveness) |
| `EventPumpOvertaken` | **violated**: `NoGap` with two writers |
| `EventFeedPostgres` | **violated**: `PollNoGap` on Postgres |
| `LedgerOverlap` | **violated**: `RevertKeepsEdits` with a write in between |
| `WebhookStaleSuccess` | **violated**: `SuccessTimePreserved` |
| `EngineTwoStarts` | **violated**: `RemovedIsSilent` with a registration beside the start |
| `PluginTeardown` | **violated**: `NoSendAfterClose` |
| `SettingsReset` | **violated**: `OverridesWin` |

The properties of `Components` are conjunctions, each guarded by its part:

| Property | Parts |
|---|---|
| `FeedsInOrder` | `pump` (two writers, failing reads), `stream`, `poll` |
| `SchedulesMatch`, `SyncsKept` (`TypeOK` and `RunsAreTold`) | `syncs` (over the registry main starts), `schedules` (starts, stops, registrations) |
| `TokensAsAsked` | `teller`, `plaid`, `bitcoin`, `ethereum`, `claims`, `configured` |
| `FetchesAreWhole` | `teller`, `plaid`, `bitcoin`, `ethereum` |
| `ComesFromItsSender` | `inbound`, `signin` |
| `SettingsHold` | `settings`, `file`, `vault` |
| `GatesHold` | `gates`, `managed` (a token from the configuration) |
| `MarketHolds`, `SearchHolds` | `cache`; `queries`, `search` |
| `VmHolds`, `ReachHolds` | `js`, `lua`, `wasm`; `egress`, `files` |
| `TransferHolds` | `update`, `copy`, `csv` |
| `PagesHold` | `table`, `transactions`, `modals`, `searchpage`, `settingspage`, `keys`, `pluginpage`, `rules` |
| `SessionHolds` | `session`, `app` |

### Bounds

**The event log.** With a buffer of 1 the second event of a batch drops the subscriber in mid-batch; with a page of 2
and 4 events a replay needs a full page, a short page and an empty page; one crash separates `boot` from what
comes after; one retention run can fall anywhere in a replay. `BufferSize` 64 and `PageSize` 500 differ only in how
many steps the same cases take. Two writers have three events in `pump` and four in `poll`. `MaxSeq`, `MaxBatch`,
`MaxCrashes` and `MaxPrunes` are bounds of the model, not of the code.

**The ledger.** Two transactions are enough for an edge in either direction, and with one of each origin for every
rule about who may change what; three commits make a first version, a change and a change after it, or a change
after retention emptied the history. One key per seam shows a hand value, a rule's value and none. It does not fill
a set of several keys: the cap of 50 is in the definitions, but nothing is lost to it in these runs.

**Webhooks and plugins.** With two workers and a queue of one, the third event is dropped or waits while both post;
two attempts give a first, a last and a backoff between. Two instances are a plugin and its replacement, and a
startup load beside one request is already an overlap.

**The engine.** Five constructions over four sources make a replacement and a removal possible; two runners and two
rows an overlap of syncs. `syncs` leaves the registry alone and `schedules` leaves the runners, because a sync meets the
registry only when it looks its poller up.

**Sources.** Two tokens of which one is shared by two requests, two accounts of which one is listed twice, two pages. A
fetch begins when the edits are over: what a fetch reads is the list, once. `plaid`, `bitcoin` and `ethereum` begin from one edit
and a world of a given size, so that one page is full and the next arises meanwhile.

**Caches, queries, files.** One series with two symbols and two editors, a window of one close, a clock of two ticks. Queries of up to five
units, searches in batches of one over three rows. Three calls of a plugin's network with one
redirect; three releases of which the last does not load, met only before edits and stops. `update` replaces a
tarball only while it is fetched; `copy` lets the source change only while a copier is inside its transaction;
`csv` has three files, one of them growing.

**The dashboard.** Three to five requests and two rows, tabs, settings, keys or plugins: an answer that overtakes
another needs two, a write between them the third, a page that is left and opened again the fourth. In
`modals` the viewer and the relationships are not open at once, as they share nothing; in `session` the fifth
request carries a token, and the sixth is a page's probe with one after a call that was answered and is gone: with
five alone a login that another tab's change overtakes does no visible harm.

`CHECK_DEADLOCK FALSE` is given where every goroutine may be finished or the bounds used up. The ledger runs check for
deadlock: an API call is always possible.

### Fairness

`EventPump!Fairness`: the loop's next step and a started publication are weakly fair, because nothing in them waits on
anything but a mutex that is held for a bounded time and the channel; Go runs every runnable goroutine.
`Bus.Close` follows the signal in `serve`. Mutations, crashes, retention and the signal are never forced.

`WebhookDelivery!Fairness`: a worker's step is bounded by the attempt's timeout, the 30 seconds a backoff is capped at,
and the 5 seconds of a status write; enqueueing does not block.

`PluginLifecycle` in `Progress`: a hook ends at its timeout, and a request, a client or `Run` takes a step that is
enabled; a send on a full queue and the wait for a worker are not enabled until there is room or the worker has ended.
That a caller loses patience is not assumed.

`Engine!Fairness`: the calls of a sync end, so its steps are weakly fair; taking the lock is strongly fair, because a Go mutex
hands itself to a goroutine that has waited for a millisecond. In `Progress` no request's context is cancelled once
its row exists.

### What is violated

- `EventPumpOvertaken`: goroutine A commits sequence 1, B commits 2 and
  publishes first. The loop hands over 2, sets `lastSeq` to 2 and drops 1 as a
  duplicate when it arrives. The comment at `dispatcher.go:130` says such an
  event is not missed. It stays in the table, so a consumer that reconciles by
  cursor finds it; webhooks and plugins do not get it.
- `EventFeedPostgres`: two transactions take sequences 1 and 2, 2 commits
  first, a client polls and gets `next` = 2, then 1 commits. On Postgres the
  table itself is not a reliable source for a cursor, against
  `docs/features/event-stream.md:81`. On SQLite it is (part `poll` of `Components`).
- `LedgerOverlap`: a revert reads the row, a user changes the label, the revert
  writes the set it computed from what it read. The comment at
  `internal/api/rules.go:482` says a value changed by hand is preserved.
- `WebhookStaleSuccess`: two events are queued, both with the success time of
  that moment; the first is delivered, the second fails and writes the old time
  back. The comment at `dispatcher.go:267` says the existing value is preserved.
- `PluginTeardown`: `dispatch` collects an instance under the read lock, a
  request takes it out and closes its queue, `dispatch` sends. Nothing recovers
  the panic. `uninstall.go:51` says no event is delivered into a plugin that is
  being torn down.
- `EngineTwoStarts`: the plugin manager registers a plugin's source while `main` is about to start the engine. `AddPoller`
  starts its schedule, `Engine.Start` starts it again and the second scheduler overwrites the first in `p.sched`; when the
  source is removed only the second is stopped, the first syncs a removed source for good. `engine.go:106-107` says
  `RemovePoller` stops it.
- `SettingsReset`: `webhooks.enabled` is set to false, then `webhooks.timeout` to 0s, which is valid while webhooks are
  off; resetting the first is not validated. The next start finds the combination invalid and drops every stored
  setting, against "a dashboard change survives restarts and wins over static config until it is reset".

Other disagreements between code and documentation that the models met and no run isolates: a full delivery queue
or a failed read loses deliveries that `docs/features/webhooks.md:48-49` says are replayed
(`dispatcher.go:204`); a replay read that fails ends the replay but not the loop (`dispatcher.go:174`); the ones
named with `PluginFiles`, `CsvSource`, `Market` and `AppUpdate` above.

## Proofs

Everything below holds for all values of the constants that meet the assumptions it names. A module of
proofs extends one component; the theorems about a component without such a module of its own stand in one of these
and speak of a named instance of it (`Store == INSTANCE SecretStore`), whose constants and variables are declared there and constrained
by nothing but the hypotheses of the theorem. Such a theorem covers every instance that `MCComponents` makes of the module.

### The loops

Assumptions: `LogAssumption` and `PumpAssumption` (positive buffer and page,
known backend, the loops are subscribers).

- `TypeCorrect`: `Spec => []TypeOK`.
- `DispatchInOrder`: `Spec => []InOrder`. Inductive invariant `OrderInv`: what
  was handed over is at or below `lastSeq`, what the replay still holds lies
  above it, so any next event extends the history upwards.
- `DispatchesCommitted`: `Spec => []NoPhantom`, from `CommittedInv`: a
  Recorder past its commit, every channel and every page hold committed events.
- `BacklogStays`: if no read fails (a head read that fails counts as an empty log, so
  the loop would start at 0), `Spec => []NoBacklog`. `BacklogInv`: the counter is at or
  above `boot`, so whatever a transaction takes, publishes or a page holds lies above it.
- `NoGapWhenSerial`: with one writer and reads that do not fail,
  `Spec => []NoGap`. `NoGap` is not inductive: it needs to know that the next
  event taken is the least one of the log above `lastSeq`. `SerialInv` says why.
  A single writer publishes in sequence order, so a channel is sorted and lies
  below what is unpublished (`QueueOf`); a short page is everything above
  `lastSeq` (`ShortPage`); so from the last page on, whatever lies above
  `lastSeq` is in the page, the channel, or unpublished while the subscription
  is open (`AllComing`), and below an event of the channel nothing is missing
  even after a drop (`NoHoleInQueue`).
- `DeliveryWhenSerial`: the same assumptions give `Spec => ImplementsDelivery`:
  initial states map to initial states of `LogDelivery` and every step to a
  step or a stutter, with `cursor <- lastSeq[c]`, `out <- handed[c]`,
  `closing <- ctxDone`.

The one-writer assumption cannot be dropped: `EventPumpOvertaken` is the
counterexample.

### The stream and the cursor read

Assumption: `LogAssumption`; for the stream, that its clients are subscribers.

- `SequencesAreFresh`: `Spec => []SequencesFresh`. `LogInv` says where the numbers of a transaction lie: on SQLite
  after the counter, and then no other transaction has any; on Postgres below it. So what a transaction holds is
  never committed already, and never held twice.
- `StreamsInOrder`: `Spec => []StreamInOrder`. `StreamInv`: `lastSent` is the last frame over all connections, the
  replay holds what lies above it, and nothing is held outside of the replay.
- `StreamsHaveNoGap`: with one writer, `Spec => []StreamNoGap`. Not inductive: it says nothing of what a client has still to
  get. `GapOf` does: a page of the replay has no hole, and once the replay has caught up, whatever the client is `Owed`
  comes before everything later (`Comes`), by the channel or from a transaction not yet published. A single writer gives
  that order (`RecOf`, `BusOf`); two may publish in the other order than they commit, and the stream drops the lower
  sequence as a duplicate.
- `PollsHaveNoGap`: `Spec => []PollNoGap` on SQLite, or with one writer (`Serial`). `Ahead` is what the assumption
  gives: what a transaction holds lies above everything committed, so above every cursor. The rest is that a page
  leaves out nothing between its first and its last row (`PageWhole`, `TailWhole`).

- `FeedsAreTyped`: `Spec => []TypeOK`.

`Serial` cannot be dropped: `EventFeedPostgres` is the counterexample.

### The ledger

Assumptions: `LedgerAssumption` (manual and synced ids are different, keys and
rule ids are finite sets of numbers, `NoVal` is no value) and `RuleAssumption`
(what the rule handlers accept is a rule).

- `ReferencesAlwaysResolve`: `Spec => []ReferencesResolve`, for overlapping runs
  too. The inductive invariant is `Inv`: the property and `TablesInv`, which says
  the tables, the rules and what each run has read are well formed. A deletion
  keeps it because `Stripped` removes exactly the edges at what goes and an
  account goes with every transaction in it; the rest neither removes a row nor
  adds an edge or an account to a row without looking it up.
- `TypeCorrect`: `Spec => []TypeOK`, from `Inv` and `HistoryInv`. The part that
  is not routine is the caps: `NormalizeBounded` counts what precedes the last
  key that was kept, which needs a greatest element of a finite set (`Greatest`,
  by well-foundedness of inclusion, since there is no induction over data), and
  every writer ends in `Normalize` or only takes keys away.
- `EventsTellTheLedger`: without a write inside a rule run,
  `Spec => []EventsTellLedger`. `ToldInv` adds what the property needs of the
  past: a run that has read holds the transactions as they still are and is
  alone (`SoleRun`), and a manual id that exists was handed out (`IdsMinted`), so
  the snapshot that announces a new transaction is not merged with an older
  row's edges. Each kind of event has a lemma that says what it does to a
  consumer that knows the tables (`TellSnapshotsView`, `TellMetaView`,
  `TellEdgesView`, ...), and each action a lemma that the result is the new
  tables. Without `SoleRun` the property fails: a run announces the difference
  between what it read and what it computed, which says nothing of a change made
  in between.

- `RunsKeepTheEdits`: under the same assumption, `Spec => RunsKeepEdits`. `SoleRun`
  makes what the run read the table it writes; what is left is about sets:
  `CutLeavesFull` (Normalize drops a key only from a set that it leaves full) and
  `NothingToCut` (it drops nothing from what is left of a set within the cap).
- `SyncsKeepUserData`: `Spec => SyncKeepsUserData`, for overlapping runs too. Each
  action leaves the fields of an old row or is a refresh or an edit; a new manual
  row is no old one by `IdsMinted`.
- `HistoryTellsTheLedger`: under the same assumption, `Spec => []HistoryAgrees`.
  Inductive with `Inv`, `HistoryInv` and `ToldInv`: each recorded version is built
  from the row the step writes (`ChangeTells`, `RunTells`), what is written without
  a version is an edge or a label deleted everywhere, and retention keeps a suffix.
- `VersionsNameTheirCause`: under the same assumption, `Spec => []DiffNamesCause`.
  A step names the difference between two rows (`NamesChange`), the property
  speaks of two versions: `HistoryAgrees` is the strengthening that lets the newest
  version stand for the row as it was (`ChangeChain`, `RunChain`).

With these every property of `LedgerSerial` is also a theorem.

### The webhook deliveries

Assumption: `DeliveryAssumption` (a positive queue and number of attempts, webhook ids are positive numbers, and finite in number).

- `SuccessesAreTrue`: `Spec => []SuccessesAreReal`. Inductive with the types: `TimesInv` says the same of the time
  a job carries, in the dispatch, in the queue and at a worker, since a failure writes that time back.
- `AttemptsAreCounted`: `Spec => AttemptsAreTold`. The row says nothing of a job's attempts, the worker does, so the
  invariant is about the jobs: `Apart`, a webhook and an event are in one place at most (two jobs in the dispatch, the
  queue or at workers differ in one of them, because an event is dispatched once), and `Tracked`, what is queued is
  untried and a worker's state agrees with what was sent and acknowledged (`Told`). `OnlyFor` is the frame: a step
  of one worker does not touch what is known of the others' jobs. A shutdown is why `Told` says less of `refused`:
  a request that was not sent counts as an attempt there, and no failure is recorded after it.
- `OutcomesKeepTheConfig`: `Spec => DeliveryKeepsConfig`.
- `DeliveriesAreTyped`: `Spec => []TypeOK`. Beyond the types (`Typed`) it has bounds, none of them inductive alone. `Sized`:
  a retry stays below `MaxAttempts` because a backoff leaves an attempt (`Told`), and so does what is posted. `Past`: no
  time a row, a job, a worker or an acknowledgement bears is ahead of the clock. `Counted`: the clock, which counts
  outcomes, and the deliveries under way together are at most a webhook's share of the events handed over; an
  outcome takes its delivery out, because by `Apart` the job is nowhere else (`DeliveryEnds`).

### The life of a plugin

Hypothesis: `Sizes` (the queue and the number of loads have a bound, and the job of an event is told from a client's).
`LivesAreKept` is `Spec => []PluginLives`, the conjunction the run checks; its parts are theorems of their own, from one
inductive invariant, `IInv`. None of the parts is inductive: each says of an instance what only its owner can know.

- `NobodyClosesTwice`: `Spec => []StoppedOnce`. `Owned` says who holds an instance: the map, whose instance is open and has its
  queue open; the request that made it and has not inserted it (`NewOwned`); the request that took it out (`OldOwned`); the
  shutdown (`EndOwned`). `Apart`: no two of them hold the same one. It holds whatever overlaps, because what a load
  overwrites in the map is lost to everyone rather than held twice.
- `AcceptedJobsAreAnswered`: `Spec => []AcceptedIsAnswered`. `Answered`: a job that was accepted and has no reply is in the queue
  of its instance or at its worker, and a worker ends only when its closed queue is empty, so no client can see an
  ended worker before its reply.
- `HooksRunInOpenVms`: `Spec => []VmOpenWhileUsed`. `EndsFirst`: a closed VM's worker has ended. It needs `WorkersOwned`, that a
  worker is started by the request whose instance is in its hands, and `Signalled`, that nothing else moves while `Run` shuts
  down unless it was noted.
- `OneAtATime`: `Spec => []OneInstance`. `Alone` is what one request at a time gives: `Single`, no second one is under way;
  `Fits`, the map is empty at the steps after a removal and holds the new instance at the last step of a load; `Accounted`, each
  instance that was ever loaded is in the map, closed, or in the hands of the request or of the shutdown.
- `LifecycleTypes`: `Spec => []TypeOK`.

### The engine

Assumption: `EngineAssumption` (the pollers that main builds fit the bound on pollers). Both theorems are about the
invariant `IInv`; `Registry` and `Typed` are its types and that the registry holds one poller of a type.

- `SyncsAreKept`: `Spec => []SyncsKept`. What a row must say is known only to its run, so `RunOf` ties a runner to its row,
  to the mutex of its poller and to what is stored by now, says that the row is not `lost` while it has it, and no two
  runners have one row. `RunMoves` is the frame: a step of one run leaves the other rows, what is `lost` of them and
  the mutexes that others hold (`Apart`), so each action is about its own run
  only (`RunWorks` while it keeps its row, `WaitsOn` when it gives it up). A registration changes the types under
  the runs, but only by adding pollers (`Grows`).
- `SchedulesAreKept`: `Spec => []SchedulesMatch`. The property speaks of quiet states and does not say what a start, a stop
  or a registration has still to do. `SchedInv` does: `Visits`, a start or stop visits registered pollers, none twice;
  `Hands`, a goroutine of the plugin manager holds a poller that has left the registry or one that has just
  come; `OnSchedule`, a poller has a scheduler if it is registered, timed and visited, except the one that arrives,
  which has none yet, and the one that leaves, which may have one still. It holds as long as nothing overlapped
  (`raced`), which gives `Alone`.

### Access

No assumption; the module holds its own theorems.

- `GatesAlwaysHold`: `Spec => []GatesHold`. `GateOf` says of a request on its way what the gates behind it have decided, against
  the history of its right: one that has the right is in `could`, one in `always` has it still, and one that has reached the
  key table was not let in by its token. `WatchStep` is the other half: a change of the credentials meets
  every request at whatever gate it has reached.
- `TokenIsKept`: `Spec => [](TypeOK /\ TokenKept)`.

### Market

Hypothesis: `Sane` (the names of symbols, series and states are apart, and a provider serves some closes); the module holds
its own theorems, which are about the invariant `MarketInv`.

- `SeriesAreSaved`: `Spec => [](TypeOK /\ SeriesSaved)`. `EditInv`: unless edits overlapped there is one editor at most, what it
  computed differs from the list in one series (`EditOf`), and only between its write and its assignment do the two lists
  differ.
- `CachesAreOfTheirSeries`: `Spec => []CacheIsOfSeries`. A flight writes the symbol it was begun for, which a reader looked up
  long before. `SeriesInv`: for a series never removed under anything, whatever is under way has the symbol the series has
  now (`FlightFits`, `BehindFits`, `ReadersFit`, `WarmFits`), so adding one finds nothing under way and nothing cached.
- `ServedFreshIsFresh`: `Spec => []FreshIsFresh`. `ReadOf` follows a read from its look: while it waits there is a flight and
  nothing cached, and then the newest close stays as new as the read asked (`RecordedSince`), because a flight
  ends within the TTL (`FlightOf`).

### Sessions

- `SessionKept`: `Login!Spec => [](KeptWasTaken /\ KeptIsCurrent /\ NotThrownOut)`, in `EventFeedProofs`. Hypothesis
  `TabSizes`: 0 is no tab and the bound on tokens is a number. `SessionInv` has the types, `TabsFit` (a tab's screen
  and its requests go together, one probe at a time) and, until something strayed, `Sound`: no token from the future
  is held anywhere, one change of the token is under way at most, what the browser keeps is the token in force unless
  an answer to such a change is still to come, and a page at the login screen has not got that token. The proof
  attempt is what showed that a login can be overtaken: within five requests TLC had found nothing.

### Inbound deliveries

- `SignedAndOnce`: `Hook!Spec => [](SignedOnly /\ StateUsedOnce)`, in `WebhookProofs`. Hypothesis `HookSizes`: the
  bounds are numbers, a batch is finite, and no sender's key is a row's digest (the code takes the id from either, in
  one namespace). `SignInv` says in which order a delivery came and read its secret (`Under`), and that the table has
  one row for each id carried by what was taken (`Stored`). `SignInInv`: a state is pending, at one callback or spent,
  never two of these (`Single`).

### Copies

- `CopiesWhole`: `Copy!Spec => [](CopyIsWhole /\ NotMixed /\ IdsGoOn)`, in `LedgerProofs`. Hypothesis `CopySizes`: a
  transaction is of an account. `CopyInv` says of a copier what it has inserted, and what it has read and not inserted
  yet: each between what the source held all the while and what it held at some time (`CopyOk`). Of two copiers one
  had read the accounts that the other had, and at most one has inserted any (`PairOk`), which is why they cannot mix;
  the destination is a copy or what it was (`TargetOk`).

### A plugin's VM, network and files

In `PluginProofs`.

- `HooksKeptApart`: `Vm!Spec => [](OwnDeadline /\ OwnResult /\ MemoryReset)`, for each runtime and without a
  hypothesis. `Resting`: between calls the VM has no context, no interrupt and no watcher. `CallSound`: in a call,
  whatever is armed, heard or in a buffer is that call's. `MemorySound`: which calls left traces in the memory.
- `EgressKept`: `Net!Spec => [](DeclaredOnly /\ WithinRate /\ AllLogged)`. Hypothesis `NetSizes`: the bounds are
  numbers, and some address is public. `BucketSound` is the strengthening of the budget: what was admitted since any
  earlier one and what is left in the bucket are together at most the rate and what it grew by since. `ReqSound`: a
  request under way goes to a host that is allowed now.
- `FilesKept`: `Disk!Spec => [](RunsWhole /\ OneRelease /\ SavedLoads /\ RunsAgain)`. Hypothesis `DiskSizes`: releases
  are positive numbers, the first is one, and a manifest is a file. `DiskInv`: `OneReleaseEach`, staging and directory
  are of one release, between the row's and the index's; `RunsDir`, what runs is what the directory holds now;
  `Saved`, the configuration suits the manifest there is and the one that is about to replace it; `Again`, an install
  that stopped a plugin knows to start it again. It holds between any two steps, so a stop may fall there.

### Settings, secrets and the update

In `EngineProofs`: the engine runs on them.

- `SettingsSound`: `Options!Spec => [](BootIsSound /\ ListedIsNext /\ OverridesKept)`, without a hypothesis.
  `OptionsKept`: what is stored or about to be is in the form that a start reads back as itself (`Canonical`), and
  what was promised is stored. `OptionsTogether`: requests one after another leave overrides that are valid together,
  before and after the one under way; resets break it, and are excepted.
- `SecretsKept`: `Store!Spec => [](TypeOK /\ SiblingsKept)`. Hypothesis `StoreSizes`: the backend is one of the two.
  `StoreAsMeant`: while no writes crossed, the document is what was meant, one writer is under way at most, and it has
  read that document.
- `UpdatesSound`: `Update!Spec => [](NeverOlder /\ CurrentRelease)`. Hypothesis `UpdateSizes`: releases are numbered
  from 1. `UpdateInv` says of each call what it knows: the version it runs in, that the release it fetches is newer
  and was the latest since it was asked for, and, once checked, that the checksum vouches for the binary (`CallOk`).

### The sources

`AccessIsKept` is in `EngineProofs`, the others in `WebhookProofs`, beside the deliveries.

- `AccessIsKept`: `Bridge!Spec => []AccessKept`. Hypothesis `BridgeSizes`: what is pasted is something, lookbacks are
  numbers, and the bridge's clock is a day ahead at most, which is what the margin in the code is for. `FinInv`: `Fed`, a
  token that was claimed and not wasted has left a URL in the store or is held by a call, whatever overlaps, fails
  or stops; and, while nothing overlapped, `OneCall`, one call at most, which claims for a fetch only where the store was
  empty.
- `BanksKept`: `Bank!Spec => [](TokensAsAsked /\ FetchIsExact)`. For the first, `BankedInv`: unless requests overlap,
  what an open request read is what is stored. It speaks of the token list alone, so the other sources reuse it. For
  the second, `FetchInv` says what a walk has still to come: what was there at its start is read or lies on the pages
  left. Hypothesis `BankSizes`: a page has two rows at least, because the cursor is inclusive and a page brings the
  last row again, and the pages together hold the transactions of the window. TLC finds counterexamples without
  either; the code's page size and cap are far above.
- `ItemsKept`: `Plaid!Spec => [](TokensAsAsked /\ ItemsAreWhole /\ SignsTurned)`. Paging is by offset, so `PullInv`
  says what a walk has `Missed`: only what lies deeper than its offset, until a withdrawal shifts the rows. Hypothesis
  `PlaidSizes`: the pages together hold the transactions.
- `WalksKept`: `Eth!Spec => [](TokensAsAsked /\ WalkIsWhole)`. The chain only grows, so what a walk began with stays
  the beginning of the address's window (`ToCome`), and what is unread has a rank beyond the pages read. Hypothesis
  `EthSizes`: a normal form is an address or none, and the chain has the two transactions that the model keeps for
  later.
- `ScansKept`: `Btc!Spec => [](TokensAsAsked /\ AddressScanned)`. A scan goes from the newest to the oldest while
  blocks are added in front. `ScanInv`: the mempool is what follows the chain (`PoolInv`); what the scan began with is
  noted or lies below its last row, and what is unread there fits in the pages left (`ReadBack`), since a full page
  takes exactly a page off it (`FromTheEnd`, `LeftBelow`); an early stop at a block before the window excuses what is
  below (`Excused`), and goes on doing so as the chain grows. Hypothesis `BtcSizes`: the pages together hold the
  transactions; TLC shows that `ScanInv` fails otherwise.
- `RowsKept`: `Csv!Spec => [](RestIsKept /\ RowsAreReal)`. `CsvInv`: a row that can be mapped and was there
  throughout, in a readable file of a folder already taken, has been `Found`; what was ingested stands for a row a
  file had. Hypothesis `CsvSizes`: files are finitely many, each in one of the folders.

### Only model-checked

- Every liveness property, `JobsEnd` of the webhooks among them: fairness and ENABLED are outside the prover's reach.
- The pages of the dashboard (`PagesHold`) and its own update (part `app`).
- `AmountsExact` and `GasIsPaid`, which add up rows and digits recursively; what the parser of `Search` does for every
  query, which is induction over the text on RECURSIVE operators, and with it all of `SearchHolds`; of the parts
  proved about through an instance, the conjunct `TypeOK` where the theorem does not name it (its invariant has the
  types all the same).

## Plan

Done, with proofs: the event log and its readers; the ledger; webhooks in both directions; the plugin manager, its VMs, network
and files; the engine; the sources; settings, secrets and access; market, update, migration; the dashboard's
sign-in. Done and model-checked: search, the other modules of the dashboard.

What is left, most useful first:

1. Proofs about the pages of the dashboard: `ShowsStored`, `ListsTheKeys`, `ListsTheRules`, `PagesCover`.
2. An abstract ledger (a map of rows and a list of changes) that `Ledger` implements, with `told` as its state.
3. On Postgres, a label write and a sync of the same row that interleave at read committed
   (`internal/api/handlers.go:143`); it needs `Ledger`'s operations in two steps.
4. The cap of 50 keys on a plugin's write (`host.go:241`) with a set that fills it.
5. The remaining views of the dashboard: accounts, labels, events, market, sources and their details, webhooks,
   the lists of plugins and of the marketplace, the migration form and the polling of syncs in the settings.

## Not modelled

- The generated queries and the adapters: each module models what the statements its component runs do. The source
  SDK has interfaces and types only.
- Of the API, the DTOs and the MCP tools, which call the cores of the REST handlers; metrics, logs and wording.
- Of the process, flags, logging and construction; TLS.
- Of the dashboard, the views of point 5; `onApplyUpdate` and its wait for the restart, which is the settings page's.
- The interpreters of the runtimes and the layout of a plugin's page documents; the translation of what a plugin
  source produces into a batch.
- Payloads: amounts beyond sign and scale, dates beyond order (partial dates such as `2024-1` in a query are
  left to its tests), names, JSON and HTTP framing. Hashing, signing and
  encryption are equality of what was hashed, signed or sealed.
- Trimming and casing of label keys on the server, and the provenance view.

`PROJECT.json` says for each component what is modelled and why the rest is not.
