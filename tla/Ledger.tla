------------------------------- MODULE Ledger -------------------------------
(* The ledger: accounts, transactions with their labels, schema extensions and
   relationship edges, their version history, and the rules that label them.
   Writers are the poller's persister, the REST/MCP handlers, the plugin host,
   the rules engine and the uninstall purge.

   Every operation but one runs inside Emitter.Record, which on SQLite is
   serializable (a transaction that read an older snapshot fails when it comes
   to write), so it is one step here; a failed operation changes nothing.  The
   exception is a run of the rules: applyRules and unapplyRule read every
   transaction before they open theirs, so a run is a read and a later write.
   Events are committed with the change they announce; `told` is the ledger as
   a consumer that applies every committed event knows it. *)
EXTENDS Naturals, Sequences, FiniteSets

CONSTANTS
  ManualAccounts, SyncedAccounts,  \* account ids minted by users, by a source
  ManualTxns, SyncedTxns,          \* transaction ids, likewise
  SourceOf,         \* the source of each synced account and transaction
  PluginSources,    \* the sources whose plugin can be uninstalled
  Balances,         \* what an account carries besides its id and source
  Cores,            \* the bridge-owned fields of a transaction, as one value
  Keys,             \* keys of labels and extensions, in sort order
  Vals, NoVal,      \* the values of each seam's keys, and the absence of a key
  MaxCount,         \* labels.MaxCount, extensions.MaxCount
  Kinds, MaxEdges,  \* relationship kinds, relationships.MaxCount
  RuleIds,          \* an initial segment of 1, 2, ...
  RuleBodies,       \* what a rule can be: [enabled, query, sets]
  Runners,          \* requests that run or revert rules
  Overlap,          \* may another write come between a run's read and its write
  MaxCommits        \* bound on the commits that record versions

Accounts == ManualAccounts \cup SyncedAccounts
Txns     == ManualTxns \cup SyncedTxns
Seams    == {"labels", "extensions"}
Sources  == {SourceOf[x] : x \in SyncedAccounts \cup SyncedTxns}

ASSUME LedgerAssumption ==
  /\ ManualAccounts \cap SyncedAccounts = {}
  /\ ManualTxns \cap SyncedTxns = {}
  /\ DOMAIN SourceOf = SyncedAccounts \cup SyncedTxns
  /\ Keys \subseteq Nat /\ IsFiniteSet(Keys)
  /\ RuleIds \subseteq Nat /\ IsFiniteSet(RuleIds)
  /\ \A s \in Seams : NoVal \notin Vals[s]
  /\ MaxCount \in Nat /\ MaxEdges \in Nat /\ MaxCommits \in Nat
  /\ Overlap \in BOOLEAN

VARIABLES
  accounts,  \* the accounts table, by id
  txns,      \* the transactions table, by id
  history,   \* transaction_versions: each transaction's rows in id order
  clock,     \* the commits that recorded versions, as the time they occurred at
  rules,     \* the rules table, by id
  minted,    \* the manual and rule ids handed out so far
  told,      \* the accounts and transactions the committed events tell of
  run        \* each runner's request: what it does, its rules, what it read
vars == <<accounts, txns, history, clock, rules, minted, told, run>>

-----------------------------------------------------------------------------
(* Data. *)

Set(s) == [Keys -> Vals[s] \cup {NoVal}]   \* a label set, an extension set
Meta == [labels : Set("labels"), extensions : Set("extensions")]
NoSet == [k \in Keys |-> NoVal]
NoMeta == [s \in Seams |-> NoSet]
Edge == [kind : Kinds, target : Txns]
Snap == [account : Accounts, core : Cores, meta : Meta]
Row  == [account : Accounts, core : Cores, meta : Meta, edges : SUBSET Edge]
Version == [at : 1 .. MaxCommits, kind : {"imported", "synced", "edited", "labeled", "extended"}, snap : Snap]
Rule == [enabled : BOOLEAN, query : SUBSET Cores, sets : Meta]

\* What the rule handlers accept.
ASSUME RuleAssumption == RuleBodies \subseteq Rule

Nothing == [x \in {} |-> x]
Over(f, g) == [x \in DOMAIN f \cup DOMAIN g |-> IF x \in DOMAIN f THEN f[x] ELSE g[x]]
One(x, y) == [z \in {x} |-> y]
Without(f, S) == [x \in DOMAIN f \ S |-> f[x]]

Present(m) == {k \in Keys : m[k] # NoVal}

\* Keys are taken in order until the cap is reached; the rest are dropped.
Normalize(m) ==
  [k \in Keys |-> IF Cardinality({j \in Present(m) : j < k}) < MaxCount THEN m[k] ELSE NoVal]

\* A history snapshot carries neither the source nor the edges.
TransactionSnapshot(row) == [account |-> row.account, core |-> row.core, meta |-> row.meta]

\* A version recorded by this step.
NewVersion(kind, snap) == [at |-> clock + 1, kind |-> kind, snap |-> snap]

\* A transaction with no history gets its prior state as a first version.
VersionChange(h, prior, next, kind) ==
  (IF h = << >> THEN <<NewVersion("imported", prior)>> ELSE h) \o <<NewVersion(kind, next)>>

\* The history after a step that may record versions, within the bound of the model.
Recorded(h) == /\ history' = h
               /\ clock' = IF h = history THEN clock ELSE clock + 1
               /\ clock' <= MaxCommits

-----------------------------------------------------------------------------
(* What the events of a step tell a consumer v: each takes functions on the
   transactions the step touches. *)

TellAccounts(v, f) == [v EXCEPT !.accounts = Over(f, @)]

\* transaction.created and transaction.updated carry the whole snapshot.
TellSnapshots(v, f) ==
  [v EXCEPT !.txns = Over([t \in DOMAIN f |->
     [account |-> f[t].account, core |-> f[t].core, meta |-> f[t].meta,
      edges |-> IF t \in DOMAIN v.txns THEN v.txns[t].edges ELSE {}]], @)]

\* Mutant: a key that is gone is not announced.
ToldAdditions(meta, old, new) ==
  [s \in Seams |-> [k \in Keys |->
    IF old[s][k] # new[s][k] /\ new[s][k] # NoVal THEN new[s][k] ELSE meta[s][k]]]

\* label.applied, label.removed, extension.set, extension.removed: the keys that differ.
ToldMeta(meta, old, new) ==
  [s \in Seams |-> [k \in Keys |-> IF old[s][k] # new[s][k] THEN new[s][k] ELSE meta[s][k]]]

TellMeta(v, old, new) ==
  [v EXCEPT !.txns = [t \in DOMAIN v.txns |->
     IF t \in DOMAIN old THEN [v.txns[t] EXCEPT !.meta = ToldMeta(@, old[t], new[t])]
     ELSE v.txns[t]]]

\* relationship.created, relationship.removed: the edges that differ.
ToldEdges(edges, old, new) == (edges \ (old \ new)) \cup (new \ old)

TellEdges(v, old, new) ==
  [v EXCEPT !.txns = [t \in DOMAIN v.txns |->
     IF t \in DOMAIN old THEN [v.txns[t] EXCEPT !.edges = ToldEdges(@, old[t], new[t])]
     ELSE v.txns[t]]]

TellDeleted(v, ts) == [v EXCEPT !.txns = Without(@, ts)]

-----------------------------------------------------------------------------
(* Rules. *)

Matches(rule, core) == core \in rule.query

\* Every matching rule overwrites its own keys, the one with the largest id last.
Apply(rs, core, s, current) ==
  Normalize([k \in Keys |->
    LET setters == {i \in DOMAIN rs : Matches(rs[i], core) /\ rs[i].sets[s][k] # NoVal}
    IN  IF setters = {} THEN current[k]
        ELSE rs[CHOOSE i \in setters : \A j \in setters : j <= i].sets[s][k]])

\* Mutant: every key the rule sets goes, whatever it holds.
UnapplyAnyValue(rs, core, s, current) ==
  Normalize([k \in Keys |->
    IF \E i \in DOMAIN rs : Matches(rs[i], core) /\ rs[i].sets[s][k] # NoVal
    THEN NoVal ELSE current[k]])

\* A key goes only where it still holds exactly what a matching rule sets.
Unapply(rs, core, s, current) ==
  Normalize([k \in Keys |->
    IF \E i \in DOMAIN rs : Matches(rs[i], core) /\ rs[i].sets[s][k] = current[k]
    THEN NoVal ELSE current[k]])

Enabled == [i \in {j \in DOMAIN rules : rules[j].enabled} |-> rules[i]]

\* No request is between the read and the write of a run, unless runs overlap.
Quiet == Overlap \/ \A r \in Runners : run[r].op = "idle"

CreateRule(i, body) ==
  /\ Quiet /\ i \notin minted /\ \A j \in RuleIds : j < i => j \in minted
  /\ rules' = Over(One(i, body), rules)
  /\ minted' = minted \cup {i}
  /\ UNCHANGED <<accounts, txns, history, clock, told, run>>

UpdateRule(i, body) ==
  /\ Quiet /\ i \in DOMAIN rules
  /\ rules' = [rules EXCEPT ![i] = body]
  /\ UNCHANGED <<accounts, txns, history, clock, minted, told, run>>

DeleteRule(i) ==
  /\ Quiet /\ i \in DOMAIN rules
  /\ rules' = Without(rules, {i})
  /\ UNCHANGED <<accounts, txns, history, clock, minted, told, run>>

Idle == [op |-> "idle", rules |-> Nothing, read |-> Nothing]

\* The rules are compiled and every transaction is read outside any transaction.
ReadForRun(r, op, rs) ==
  /\ Quiet /\ run[r] = Idle /\ DOMAIN rs # {}
  /\ run' = [run EXCEPT ![r] = [op |-> op, rules |-> rs, read |-> txns]]
  /\ UNCHANGED <<accounts, txns, history, clock, rules, minted, told>>

RunRule(r, i)     == i \in DOMAIN rules /\ ReadForRun(r, "apply", One(i, rules[i]))
RunAllRules(r)    == ReadForRun(r, "apply", Enabled)
UnapplyRule(r, i) == i \in DOMAIN rules /\ ReadForRun(r, "unapply", One(i, rules[i]))

\* What a run makes of a row it read.
Outcome(job, row) ==
  [s \in Seams |-> IF job.op = "apply" THEN Apply(job.rules, row.core, s, row.meta[s])
                                       ELSE Unapply(job.rules, row.core, s, row.meta[s])]

\* Mutant: the second version forgets what the first one changed.
RunVersionsApart(h, row, new) ==
  LET labeled  == [row EXCEPT !.meta["labels"] = new["labels"]]
      extended == [row EXCEPT !.meta["extensions"] = new["extensions"]]
      first == IF labeled = row THEN h
               ELSE VersionChange(h, TransactionSnapshot(row), TransactionSnapshot(labeled), "labeled")
  IN  IF extended = row THEN first
      ELSE VersionChange(first, TransactionSnapshot(row), TransactionSnapshot(extended), "extended")

\* Mutant: one version for both seams.
RunVersionsMerged(h, row, new) ==
  LET next == [row EXCEPT !.meta = new]
  IN  IF next = row THEN h
      ELSE VersionChange(h, TransactionSnapshot(row), TransactionSnapshot(next), "labeled")

\* One version per seam that changed, built from the row that was read.
RunVersions(h, row, new) ==
  LET labeled  == [row EXCEPT !.meta["labels"] = new["labels"]]
      extended == [labeled EXCEPT !.meta["extensions"] = new["extensions"]]
      first == IF labeled = row THEN h
               ELSE VersionChange(h, TransactionSnapshot(row), TransactionSnapshot(labeled), "labeled")
  IN  IF extended = labeled THEN first
      ELSE VersionChange(first, TransactionSnapshot(labeled), TransactionSnapshot(extended), "extended")

\* The write replaces the whole set of every seam that differs from the row that
\* was read; a row deleted since is not updated, but its version is inserted.
RunWrite(r) ==
  LET read == run[r].read
      old  == [t \in DOMAIN read |-> read[t].meta]
      new  == [t \in DOMAIN read |-> Outcome(run[r], read[t])]
  IN  /\ run[r] # Idle
      /\ txns' = [t \in DOMAIN txns |->
           IF t \notin DOMAIN read THEN txns[t]
           ELSE [txns[t] EXCEPT !.meta = [s \in Seams |->
                   IF new[t][s] # old[t][s] THEN new[t][s] ELSE @[s]]]]
      /\ Recorded([t \in Txns |-> IF t \in DOMAIN read
                                  THEN RunVersions(history[t], read[t], new[t])
                                  ELSE history[t]])
      /\ told' = TellMeta(told, old, new)
      /\ run' = [run EXCEPT ![r] = Idle]
      /\ UNCHANGED <<accounts, rules, minted>>

\* The write's transaction rolls back, or the request is cancelled.
RunFails(r) ==
  /\ run[r] # Idle
  /\ run' = [run EXCEPT ![r] = Idle]
  /\ UNCHANGED <<accounts, txns, history, clock, rules, minted, told>>

-----------------------------------------------------------------------------
(* The poller's persister. *)

\* Mutant: the refresh writes the whole row.
RefreshWholeRow(row, item) ==
  [row EXCEPT !.account = item.account, !.core = item.core, !.meta = NoMeta]

UpdateTransactionFromSync(row, item) == [row EXCEPT !.account = item.account, !.core = item.core]

\* What the enabled rules make of a new row.
BirthMeta(core) == [s \in Seams |-> Apply(Enabled, core, s, NoSet)]

\* A row seen for the first time gets the enabled rules' labels and extensions;
\* one already there keeps everything but the fields the source owns.
Persist(accts, items) ==
  LET new  == DOMAIN items \ DOMAIN txns
      born == [t \in new |-> BirthMeta(items[t].core)]
      changed == {t \in DOMAIN items \cap DOMAIN txns :
                    txns[t].account # items[t].account \/ txns[t].core # items[t].core}
      row(t) == IF t \in new
                THEN [account |-> items[t].account, core |-> items[t].core,
                      meta |-> born[t], edges |-> {}]
                ELSE UpdateTransactionFromSync(txns[t], items[t])
      moved == {a \in DOMAIN accts : a \notin DOMAIN accounts \/ accounts[a] # accts[a]}
      empty == [t \in new |-> [TransactionSnapshot(row(t)) EXCEPT !.meta = NoMeta]]
  IN  /\ Quiet
      /\ accounts' = Over(accts, accounts)
      /\ txns' = Over([t \in DOMAIN items |-> row(t)], txns)
      /\ Recorded([t \in Txns |->
           IF t \in new
           THEN history[t] \o <<NewVersion("imported", TransactionSnapshot(row(t)))>>
           ELSE IF t \in changed
           THEN VersionChange(history[t], TransactionSnapshot(txns[t]),
                              TransactionSnapshot(row(t)), "synced")
           ELSE history[t]])
      /\ told' = TellMeta(TellSnapshots(TellAccounts(told, [a \in moved |-> accts[a]]),
                            Over(empty, [t \in changed |-> TransactionSnapshot(row(t))])),
                          [t \in new |-> NoMeta], born)
      /\ UNCHANGED <<rules, minted, run>>

\* A batch holds accounts of one source, and transactions in those accounts.
PersistBatch(src) ==
  \E as \in SUBSET {a \in SyncedAccounts : SourceOf[a] = src} \ {{}},
     ts \in SUBSET {t \in SyncedTxns : SourceOf[t] = src} :
    \E accts \in [as -> Balances],
       items \in [ts -> [account : as, core : Cores]] : Persist(accts, items)

-----------------------------------------------------------------------------
(* Manual entry. *)

CreateManualAccount(a, b) ==
  /\ Quiet /\ a \in ManualAccounts \ minted
  /\ accounts' = Over(One(a, b), accounts)
  /\ minted' = minted \cup {a}
  /\ told' = TellAccounts(told, One(a, b))
  /\ UNCHANGED <<txns, history, clock, rules, run>>

UpdateAccount(a, b) ==
  /\ Quiet /\ a \in DOMAIN accounts \cap ManualAccounts
  /\ accounts' = [accounts EXCEPT ![a] = b]
  /\ told' = TellAccounts(told, One(a, b))
  /\ UNCHANGED <<txns, history, clock, rules, minted, run>>

CreateManualTransaction(t, a, c) ==
  LET row == [account |-> a, core |-> c, meta |-> NoMeta, edges |-> {}]
  IN  /\ Quiet /\ t \in ManualTxns \ minted /\ a \in DOMAIN accounts
      /\ txns' = Over(One(t, row), txns)
      /\ minted' = minted \cup {t}
      /\ Recorded([history EXCEPT ![t] =
           @ \o <<NewVersion("imported", TransactionSnapshot(row))>>])
      /\ told' = TellSnapshots(told, One(t, TransactionSnapshot(row)))
      /\ UNCHANGED <<accounts, rules, run>>

UpdateTransactionCore(t, a, c) ==
  LET row == [txns[t] EXCEPT !.account = a, !.core = c]
  IN  /\ Quiet /\ t \in DOMAIN txns \cap ManualTxns /\ a \in DOMAIN accounts
      /\ txns' = [txns EXCEPT ![t] = row]
      /\ Recorded([history EXCEPT ![t] =
           VersionChange(@, TransactionSnapshot(txns[t]), TransactionSnapshot(row), "edited")])
      /\ told' = TellSnapshots(told, One(t, TransactionSnapshot(row)))
      /\ UNCHANGED <<accounts, rules, minted, run>>

\* Mutant: inbound edges stay.
StrippedOfRowsOnly(ts) == [t \in DOMAIN txns \ ts |-> txns[t]]

\* What ledger.DeleteTransactionTx leaves of the table when it took ts away: the
\* edges of other rows that pointed at them are stripped.
Stripped(ts) == [t \in DOMAIN txns \ ts |->
                  [txns[t] EXCEPT !.edges = {e \in @ : e.target \notin ts}]]

Remove(as, ts) ==
  LET left == Stripped(ts)
  IN  /\ accounts' = Without(accounts, as)
      /\ txns' = left
      /\ history' = [t \in Txns |-> IF t \in ts THEN << >> ELSE history[t]]
      /\ told' = [TellDeleted(TellEdges(told, [t \in DOMAIN left |-> txns[t].edges],
                                              [t \in DOMAIN left |-> left[t].edges]), ts)
                   EXCEPT !.accounts = Without(@, as)]
      /\ UNCHANGED <<clock, rules, minted, run>>

DeleteTransaction(t) == Quiet /\ t \in DOMAIN txns \cap ManualTxns /\ Remove({}, {t})

\* An account goes with every transaction in it.
DeleteAccounts(as) == Remove(as, {t \in DOMAIN txns : txns[t].account \in as})

DeleteAccount(a) == Quiet /\ a \in DOMAIN accounts \cap ManualAccounts /\ DeleteAccounts({a})

\* Uninstalling a plugin that provides a source takes its accounts with it.
PurgeSource(src) ==
  LET as == {a \in DOMAIN accounts \cap SyncedAccounts : SourceOf[a] = src}
  IN  Quiet /\ src \in PluginSources /\ as # {} /\ DeleteAccounts(as)

-----------------------------------------------------------------------------
(* Labels, extensions and relationships of one transaction. *)

\* The column is replaced, the keys that differ are announced, a version is kept.
WriteSet(t, s, m, kind) ==
  LET row == [txns[t] EXCEPT !.meta[s] = m]
  IN  /\ txns' = [txns EXCEPT ![t] = row]
      /\ Recorded([history EXCEPT ![t] =
           VersionChange(@, TransactionSnapshot(txns[t]), TransactionSnapshot(row), kind)])
      /\ told' = TellMeta(told, One(t, txns[t].meta), One(t, row.meta))
      /\ UNCHANGED <<accounts, rules, minted, run>>

UpdateTransactionLabels(t, m) ==
  Quiet /\ t \in DOMAIN txns /\ WriteSet(t, "labels", Normalize(m), "labeled")

SetExtensions(t, m) ==
  Quiet /\ t \in DOMAIN txns /\ WriteSet(t, "extensions", Normalize(m), "extended")

\* The plugin host writes nothing when nothing changed.
HostWrite(t, s, m, kind) ==
  Quiet /\ t \in DOMAIN txns /\ m # txns[t].meta[s] /\ WriteSet(t, s, m, kind)

Merged(old, add) == Normalize([k \in Keys |-> IF add[k] # NoVal THEN add[k] ELSE old[k]])

HostApplyLabels(t, add) ==
  t \in DOMAIN txns /\ HostWrite(t, "labels", Merged(txns[t].meta["labels"], add), "labeled")

HostRemoveLabels(t, ks) ==
  /\ t \in DOMAIN txns
  /\ HostWrite(t, "labels",
       [k \in Keys |-> IF k \in ks THEN NoVal ELSE txns[t].meta["labels"][k]], "labeled")

HostSetExtension(t, k, v) ==
  /\ t \in DOMAIN txns
  /\ HostWrite(t, "extensions",
       Normalize([txns[t].meta["extensions"] EXCEPT ![k] = v]), "extended")

HostRemoveExtension(t, k) ==
  /\ t \in DOMAIN txns
  /\ HostWrite(t, "extensions",
       Normalize([txns[t].meta["extensions"] EXCEPT ![k] = NoVal]), "extended")

\* DELETE /labels/{key}[?value=]: every row loses the key (where it holds the
\* value), one coarse event says so, and no version is recorded.
DeleteLabel(k, vs) ==
  LET hit(m) == m["labels"][k] \in vs
      strip(tbl) == [t \in DOMAIN tbl |->
                      IF hit(tbl[t].meta) THEN [tbl[t] EXCEPT !.meta["labels"][k] = NoVal] ELSE tbl[t]]
  IN  /\ Quiet /\ \E t \in DOMAIN txns : hit(txns[t].meta)
      /\ txns' = strip(txns)
      /\ told' = [told EXCEPT !.txns = strip(@)]
      /\ UNCHANGED <<accounts, history, clock, rules, minted, run>>

SetEdges(t, es) ==
  /\ txns' = [txns EXCEPT ![t].edges = es]
  /\ told' = TellEdges(told, One(t, txns[t].edges), One(t, es))
  /\ UNCHANGED <<accounts, history, clock, rules, minted, run>>

\* Mutant: the cap is forgotten.
AddRelationshipUncapped(t, e) ==
  LET old == txns[t].edges
      new == old \cup {e}
  IN  /\ Quiet /\ t \in DOMAIN txns
      /\ new # old => e.target # t /\ e.target \in DOMAIN txns
      /\ SetEdges(t, new)

\* Only an edge that is new, and not beyond the cap, is validated.
AddRelationship(t, e) ==
  LET old == txns[t].edges
      new == IF Cardinality(old) < MaxEdges THEN old \cup {e} ELSE old
  IN  /\ Quiet /\ t \in DOMAIN txns
      /\ new # old => e.target # t /\ e.target \in DOMAIN txns
      /\ SetEdges(t, new)

RemoveRelationship(t, e) ==
  Quiet /\ t \in DOMAIN txns /\ SetEdges(t, txns[t].edges \ {e})

\* Retention deletes the versions that occurred before a cutoff.
PruneTransactionVersions(cutoff) ==
  /\ Quiet
  /\ history' = [t \in Txns |->
       LET older == {i \in DOMAIN history[t] : history[t][i].at < cutoff}
       IN  SubSeq(history[t], Cardinality(older) + 1, Len(history[t]))]
  /\ UNCHANGED <<accounts, txns, clock, rules, minted, told, run>>

-----------------------------------------------------------------------------
Init ==
  /\ accounts = Nothing /\ txns = Nothing /\ rules = Nothing
  /\ history = [t \in Txns |-> << >>] /\ clock = 0
  /\ minted = {}
  /\ told = [accounts |-> Nothing, txns |-> Nothing]
  /\ run = [r \in Runners |-> Idle]

RuleStep ==
  \/ \E i \in RuleIds, b \in RuleBodies : CreateRule(i, b) \/ UpdateRule(i, b)
  \/ \E i \in RuleIds : DeleteRule(i)
  \/ \E r \in Runners : RunAllRules(r) \/ RunWrite(r) \/ RunFails(r)
  \/ \E r \in Runners, i \in RuleIds : RunRule(r, i) \/ UnapplyRule(r, i)

EntryStep ==
  \/ \E src \in Sources : PersistBatch(src) \/ PurgeSource(src)
  \/ \E a \in Accounts, b \in Balances : CreateManualAccount(a, b) \/ UpdateAccount(a, b)
  \/ \E t \in Txns, a \in Accounts, c \in Cores :
       CreateManualTransaction(t, a, c) \/ UpdateTransactionCore(t, a, c)
  \/ \E t \in Txns : DeleteTransaction(t)
  \/ \E a \in Accounts : DeleteAccount(a)

MetaStep ==
  \/ \E t \in Txns, m \in Set("labels") : UpdateTransactionLabels(t, m) \/ HostApplyLabels(t, m)
  \/ \E t \in Txns, m \in Set("extensions") : SetExtensions(t, m)
  \/ \E t \in Txns, ks \in SUBSET Keys : HostRemoveLabels(t, ks)
  \/ \E t \in Txns, k \in Keys : HostRemoveExtension(t, k)
  \/ \E t \in Txns, k \in Keys, v \in Vals["extensions"] : HostSetExtension(t, k, v)
  \/ \E k \in Keys, vs \in {Vals["labels"]} \cup {{v} : v \in Vals["labels"]} : DeleteLabel(k, vs)
  \/ \E t \in Txns, e \in Edge : AddRelationship(t, e) \/ RemoveRelationship(t, e)
  \/ \E cutoff \in 1 .. MaxCommits + 1 : PruneTransactionVersions(cutoff)

Next == RuleStep \/ EntryStep \/ MetaStep
Spec == Init /\ [][Next]_vars

-----------------------------------------------------------------------------
(* Properties. *)

TypeOK ==
  /\ DOMAIN accounts \subseteq Accounts /\ \A a \in DOMAIN accounts : accounts[a] \in Balances
  /\ DOMAIN txns \subseteq Txns
  /\ \A t \in DOMAIN txns : /\ txns[t] \in Row /\ Cardinality(txns[t].edges) <= MaxEdges
                            /\ \A s \in Seams : Cardinality(Present(txns[t].meta[s])) <= MaxCount
  /\ \A t \in Txns : \A i \in DOMAIN history[t] : history[t][i] \in Version /\ history[t][i].at <= clock
  /\ DOMAIN rules \subseteq minted \cap RuleIds
  /\ minted \subseteq ManualAccounts \cup ManualTxns \cup RuleIds
  /\ \A r \in Runners : run[r].op \in {"idle", "apply", "unapply"}

\* Deleting a transaction or an account leaves nothing that refers to it: a
\* transaction's account exists, and so does the target of each of its edges,
\* which is never the transaction itself (ledger.DeleteTransactionTx,
\* mutateRelationships).
ReferencesResolve ==
  \A t \in DOMAIN txns :
    /\ txns[t].account \in DOMAIN accounts
    /\ \A e \in txns[t].edges : e.target \in DOMAIN txns \ {t}

\* A consumer that applies every committed event knows the ledger: no write goes
\* unannounced and no announcement says something else than was written.
EventsTellLedger == told = [accounts |-> accounts, txns |-> txns]

\* m is what is left of n when label keys were deleted everywhere.
LabelsLeft(m, n) == \A k \in Keys : m["labels"][k] \in {n["labels"][k], NoVal}
Remnant(m, n) == m["extensions"] = n["extensions"] /\ LabelsLeft(m, n)

\* The newest version of a transaction is the transaction, except for labels
\* deleted everywhere, which leave no version; a deleted transaction has no history.
HistoryAgrees ==
  \A t \in Txns : history[t] # << >> =>
    /\ t \in DOMAIN txns
    /\ LET last == history[t][Len(history[t])].snap
       IN  /\ last.account = txns[t].account /\ last.core = txns[t].core
           /\ Remnant(txns[t].meta, last.meta)

\* The version v differs from the snapshot was in what its kind names.
NamesDiff(was, v) ==
  LET is == v.snap
      fields == is.account = was.account /\ is.core = was.core
  IN  /\ v.kind # "imported"
      /\ v.kind = "labeled"  => fields /\ is.meta["extensions"] = was.meta["extensions"]
      /\ v.kind = "extended" => fields /\ LabelsLeft(is.meta, was.meta)
      /\ v.kind \in {"synced", "edited"} => Remnant(is.meta, was.meta)

\* The difference between a version and the one before is what its kind names
\* (applyRules: "each version's diff-on-read is exactly that seam's change"), up
\* to labels deleted everywhere in between; only a first version is imported.
DiffNamesCause ==
  \A t \in Txns : \A i \in 2 .. Len(history[t]) : NamesDiff(history[t][i - 1].snap, history[t][i])

\* Of the row t, what the write of the run j may change.
KeepsEdits(j, t) ==
  \A s \in Seams, k \in Keys :
    LET was == txns[t].meta[s][k]
        is  == txns'[t].meta[s][k]
        sets(v) == \E i \in DOMAIN j.rules : Matches(j.rules[i], txns[t].core) /\ j.rules[i].sets[s][k] = v
    IN  is # was =>
          IF j.op = "unapply" THEN is = NoVal /\ sets(was)
          ELSE \/ is # NoVal /\ sets(is)
               \/ is = NoVal /\ Cardinality(Present(txns'[t].meta[s])) = MaxCount

\* A write of a run changes a key only where a matching rule sets it, and a
\* reverting one only where the key still holds what the rule set, so what a user
\* edited is kept (unapplyRule: "a value the user changed by hand or a later rule
\* overwrote is preserved"); a set at its cap may lose a key to a rule's.
RunsKeepEdits ==
  [][\A r \in Runners : run[r] # Idle /\ run'[r] = Idle =>
      \A t \in DOMAIN txns \cap DOMAIN txns' : KeepsEdits(run[r], t)]_vars

\* The part of it the code states about reverting: a key that no longer holds
\* what the rule set keeps its value.
RevertKeepsEdits ==
  [][\A r \in Runners : run[r].op = "unapply" /\ run'[r] = Idle =>
      \A t \in DOMAIN txns \cap DOMAIN txns', s \in Seams, k \in Keys :
        (\A i \in DOMAIN run[r].rules : run[r].rules[i].sets[s][k] # txns[t].meta[s][k])
          => txns'[t].meta[s][k] = txns[t].meta[s][k]]_vars

\* A step that changes what a source owns of the row t changes nothing else of it.
KeepsUserData(t) ==
  (txns'[t].core # txns[t].core \/ txns'[t].account # txns[t].account) =>
    txns'[t].meta = txns[t].meta /\ txns'[t].edges = txns[t].edges

\* When the source's fields of a transaction change, its labels, extensions and
\* edges do not ("user labels are never clobbered by a sync", Persist).
SyncKeepsUserData == [][\A t \in DOMAIN txns \cap DOMAIN txns' : KeepsUserData(t)]_vars
=============================================================================
