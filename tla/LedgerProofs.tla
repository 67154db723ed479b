---------------------------- MODULE LedgerProofs ----------------------------
(*************************************************************************)
(* Theorems about Ledger, for every value of its constants: the          *)
(* references resolve and everything is typed; the events and the        *)
(* history tell what the tables hold; runs and syncs keep what they      *)
(* must. Then the copy of a ledger to another database, as an instance   *)
(* of DbMigrate.                                                         *)
(*************************************************************************)
EXTENDS Ledger, FiniteSetTheorems, WellFoundedInduction, TLAPS

\* A label or extension set within its cap.
Bounded(s, m) == m \in Set(s) /\ Cardinality(Present(m)) <= MaxCount

GoodRow(r) ==
  /\ r \in Row
  /\ IsFiniteSet(r.edges) /\ Cardinality(r.edges) <= MaxEdges
  /\ \A s \in Seams : Bounded(s, r.meta[s])

GoodTable(tbl) == DOMAIN tbl \subseteq Txns /\ \A t \in DOMAIN tbl : GoodRow(tbl[t])

GoodRules(rs) == DOMAIN rs \subseteq RuleIds /\ \A i \in DOMAIN rs : rs[i] \in Rule

GoodJob(j) == j.op \in {"idle", "apply", "unapply"} /\ GoodRules(j.rules) /\ GoodTable(j.read)

\* The tables and the requests between the read and the write of a run.
TablesInv ==
  /\ DOMAIN accounts \subseteq Accounts /\ \A a \in DOMAIN accounts : accounts[a] \in Balances
  /\ GoodTable(txns)
  /\ GoodRules(rules) /\ DOMAIN rules \subseteq minted
  /\ minted \subseteq ManualAccounts \cup ManualTxns \cup RuleIds
  /\ DOMAIN run = Runners /\ \A r \in Runners : GoodJob(run[r])

\* The versions recorded up to time n.
Kind == {"imported", "synced", "edited", "labeled", "extended"}
VersionUpTo(n) == [at : 1 .. n, kind : Kind, snap : Snap]

HistoryInv ==
  /\ clock \in 0 .. MaxCommits
  /\ history \in [Txns -> Seq(VersionUpTo(clock))]

-----------------------------------------------------------------------------
(***************************************************************************)
(* A finite set of natural numbers has a greatest element.  Its subsets    *)
(* are well-founded by inclusion: the least of the sets of the elements    *)
(* from x up belongs to the greatest x.                                    *)
(***************************************************************************)
LEMMA Greatest ==
    ASSUME NEW T \in SUBSET Nat, T # {}, IsFiniteSet(T)
    PROVE  \E x \in T : \A y \in T : y <= x
<1> DEFINE R == StrictSubsetOrdering(Nat)
           From(x) == {y \in T : x <= y}
           U == {From(x) : x \in T}
<1>1. U \subseteq FiniteSubsetsOf(Nat)
  <2>1. ASSUME NEW x \in T PROVE From(x) \in SUBSET Nat /\ IsFiniteSet(From(x))
    BY FS_Subset
  <2> HIDE DEF From
  <2>2. QED
    BY <2>1 DEF FiniteSubsetsOf
<1>2. ASSUME NEW x \in T, NEW y \in T, x < y
      PROVE  <<From(y), From(x)>> \in R
  <2>1. From(y) \subseteq From(x) /\ x \in From(x) /\ x \notin From(y)
    <3>1. x \in Nat /\ y \in Nat /\ \A z \in T : z \in Nat
      OBVIOUS
    <3>2. ASSUME NEW z \in From(y) PROVE z \in From(x)
      <4>1. z \in T /\ z \in Nat /\ y <= z
        OBVIOUS
      <4>2. x <= z
        BY <1>2, <3>1, <4>1
      <4>3. QED
        BY <4>1, <4>2
    <3>3. x <= x /\ ~(y <= x)
      BY <1>2, <3>1
    <3>4. QED
      BY <3>2, <3>3
  <2>2. From(x) \in SUBSET Nat /\ From(y) \in SUBSET Nat
    OBVIOUS
  <2> HIDE DEF From
  <2>3. From(y) # From(x)
    BY <2>1, Zenon
  <2>4. QED
    BY <2>1, <2>2, <2>3, Zenon DEF StrictSubsetOrdering
<1>3. IsWellFoundedOn(R, FiniteSubsetsOf(Nat))
  BY FS_StrictSubsetOrderingWellFounded
<1>4. U # {}
  OBVIOUS
<1> HIDE DEF R
<1>5. PICK u \in U : \A v \in U : ~(<<v, u>> \in R)
  <2> HIDE DEF U
  <2>1. QED
    BY <1>1, <1>3, <1>4, WFMin
<1>6. PICK x \in T : u = From(x)
  BY <1>5
<1> HIDE DEF From
<1>7. \A y \in T : ~(x < y)
  BY <1>2, <1>5, <1>6
<1>8. QED
  BY <1>6, <1>7

LEMMA Bounds == MaxCount \in Nat /\ MaxEdges \in Nat /\ MaxCommits \in Nat
BY LedgerAssumption

LEMMA GreatestKey ==
    ASSUME NEW K \in SUBSET Keys, K # {}
    PROVE  \E k \in K : \A j \in K : j <= k
BY LedgerAssumption, FS_Subset, Greatest

LEMMA GreatestRule ==
    ASSUME NEW I \in SUBSET RuleIds, I # {}
    PROVE  (CHOOSE i \in I : \A j \in I : j <= i) \in I
<1>1. \E i \in I : \A j \in I : j <= i
  BY LedgerAssumption, FS_Subset, Greatest
<1>2. QED
  BY <1>1, Zenon

LEMMA FinitePresent ==
    ASSUME NEW m
    PROVE  IsFiniteSet(Present(m)) /\ Cardinality(Present(m)) \in Nat
BY LedgerAssumption, FS_Subset, FS_CardinalityType DEF Present

-----------------------------------------------------------------------------
(***************************************************************************)
(* Label and extension sets.                                               *)
(***************************************************************************)
\* Normalize returns a set within the cap: what precedes its last key, and that key.
LEMMA NormalizeBounded ==
    ASSUME NEW s \in Seams, NEW m \in Set(s)
    PROVE  Bounded(s, Normalize(m))
<1> DEFINE P == Present(m)
           Below(k) == {j \in P : j < k}
           K == Present(Normalize(m))
<1>1. Normalize(m) \in Set(s)
  BY DEF Set, Normalize
<1>2. K \subseteq P /\ \A k \in K : Cardinality(Below(k)) < MaxCount
  BY DEF Present, Normalize
<1>3. IsFiniteSet(P) /\ IsFiniteSet(K) /\ Cardinality(K) \in Nat
  BY FinitePresent
<1>4. CASE K = {}
  BY <1>1, <1>4, FS_EmptySet, Bounds DEF Bounded
<1>5. CASE K # {}
  <2>1. K \subseteq Keys
    BY DEF Present
  <2> HIDE DEF K, P
  <2>2. PICK k \in K : \A j \in K : j <= k
    BY <2>1, <1>5, GreatestKey
  <2> DEFINE B == Below(k)
  <2>3. IsFiniteSet(B) /\ Cardinality(B) \in Nat /\ Cardinality(B) < MaxCount
    BY <1>2, <1>3, <2>2, FS_Subset, FS_CardinalityType
  <2>4. K \in SUBSET (B \cup {k})
    BY <1>2, <2>1, <2>2, LedgerAssumption
  <2> HIDE DEF B
  <2>5. /\ IsFiniteSet(B \cup {k})
        /\ Cardinality(B \cup {k}) = IF k \in B THEN Cardinality(B) ELSE Cardinality(B) + 1
    BY <2>3, FS_AddElement, Zenon
  <2>6. Cardinality(K) <= Cardinality(B \cup {k})
    BY <2>4, <2>5, FS_Subset, Zenon
  <2>7. Cardinality(K) <= MaxCount
    BY <1>3, <2>3, <2>5, <2>6, Bounds
  <2>8. QED
    BY <1>1, <2>7 DEF Bounded, K
<1>6. QED
  BY <1>4, <1>5

\* Taking keys out of a set leaves it within the cap.
LEMMA ErasedBounded ==
    ASSUME NEW s \in Seams, NEW m, Bounded(s, m),
           NEW n \in Set(s), \A k \in Keys : n[k] \in {m[k], NoVal}
    PROVE  Bounded(s, n)
<1>1. Present(n) \subseteq Present(m)
  BY DEF Present
<1>2. Cardinality(Present(n)) <= Cardinality(Present(m))
  BY <1>1, FinitePresent, FS_Subset
<1>3. QED
  BY <1>2, FinitePresent, Bounds DEF Bounded

LEMMA NoSetBounded == \A s \in Seams : NoSet \in Set(s) /\ Bounded(s, NoSet)
<1>1. Present(NoSet) = {}
  BY DEF Present, NoSet
<1>2. Cardinality(Present(NoSet)) = 0
  BY <1>1, FS_EmptySet, Zenon
<1>3. \A s \in Seams : NoSet \in Set(s)
  BY DEF NoSet, Set
<1>4. QED
  BY <1>2, <1>3, Bounds DEF Bounded

LEMMA ApplyBounded ==
    ASSUME NEW rs, GoodRules(rs), NEW core, NEW s \in Seams, NEW m \in Set(s)
    PROVE  Bounded(s, Apply(rs, core, s, m))
<1> DEFINE Setters(k) == {i \in DOMAIN rs : Matches(rs[i], core) /\ rs[i].sets[s][k] # NoVal}
           Last(k) == CHOOSE i \in Setters(k) : \A j \in Setters(k) : j <= i
           n == [k \in Keys |-> IF Setters(k) = {} THEN m[k] ELSE rs[Last(k)].sets[s][k]]
<1>1. \A i \in DOMAIN rs, k \in Keys : rs[i].sets[s][k] \in Vals[s] \cup {NoVal}
  BY DEF GoodRules, Rule, Meta, Set, Seams
<1>2. ASSUME NEW k \in Keys PROVE n[k] \in Vals[s] \cup {NoVal}
  <2>1. CASE Setters(k) = {}
    BY <2>1 DEF Set
  <2>2. CASE Setters(k) # {}
    <3>1. Setters(k) \subseteq RuleIds
      BY DEF GoodRules
    <3>2. Last(k) \in Setters(k)
      <4> HIDE DEF Setters
      <4>1. QED
        BY <3>1, <2>2, GreatestRule
    <3>3. QED
      BY <3>2, <2>2, <1>1
  <2>3. QED
    BY <2>1, <2>2
<1>3. n \in Set(s)
  <2> HIDE DEF Setters
  <2>1. QED
    BY <1>2 DEF Set
<1>4. Apply(rs, core, s, m) = Normalize(n)
  BY DEF Apply
<1> HIDE DEF n
<1>5. QED
  BY <1>3, <1>4, NormalizeBounded

LEMMA UnapplyBounded ==
    ASSUME NEW rs, NEW core, NEW s \in Seams, NEW m \in Set(s)
    PROVE  Bounded(s, Unapply(rs, core, s, m))
<1> DEFINE n == [k \in Keys |->
      IF \E i \in DOMAIN rs : Matches(rs[i], core) /\ rs[i].sets[s][k] = m[k] THEN NoVal ELSE m[k]]
<1>1. n \in Set(s)
  BY DEF Set
<1>2. Unapply(rs, core, s, m) = Normalize(n)
  BY DEF Unapply
<1> HIDE DEF n
<1>3. QED
  BY <1>1, <1>2, NormalizeBounded

-----------------------------------------------------------------------------
(***************************************************************************)
(* Rows.                                                                   *)
(***************************************************************************)
LEMMA MetaOfSeams ==
    ASSUME NEW m, m = [s \in Seams |-> m[s]], \A s \in Seams : m[s] \in Set(s)
    PROVE  m \in Meta
BY DEF Meta, Seams

LEMMA NoMetaBounded == NoMeta \in Meta /\ \A s \in Seams : Bounded(s, NoMeta[s])
<1>1. NoMeta = [s \in Seams |-> NoMeta[s]] /\ \A s \in Seams : NoMeta[s] = NoSet
  BY DEF NoMeta
<1>2. QED
  BY <1>1, NoSetBounded, MetaOfSeams

\* Replacing what users and rules may write keeps a row good, and the rest of it.
LEMMA WithMeta ==
    ASSUME NEW r, GoodRow(r), NEW m \in Meta, \A s \in Seams : Bounded(s, m[s])
    PROVE  LET n == [r EXCEPT !.meta = m]
           IN  /\ GoodRow(n)
               /\ n.account = r.account /\ n.core = r.core /\ n.edges = r.edges /\ n.meta = m
BY DEF GoodRow, Row

LEMMA WithSet ==
    ASSUME NEW r, GoodRow(r), NEW s \in Seams, NEW m, Bounded(s, m)
    PROVE  LET n == [r EXCEPT !.meta[s] = m]
           IN  /\ GoodRow(n)
               /\ n.account = r.account /\ n.core = r.core /\ n.edges = r.edges
               /\ n.meta = [r.meta EXCEPT ![s] = m]
<1> DEFINE k == [r.meta EXCEPT ![s] = m]
<1>1. r.meta \in Meta /\ \A x \in Seams : Bounded(x, r.meta[x])
  BY DEF GoodRow, Row
<1>2. k \in Meta
  <2>1. m \in Set(s)
    BY DEF Bounded
  <2>2. QED
    BY <1>1, <2>1 DEF Meta, Seams
<1>3. \A x \in Seams : k[x] = IF x = s THEN m ELSE r.meta[x]
  BY <1>1 DEF Meta, Seams
<1>4. [r EXCEPT !.meta[s] = m] = [r EXCEPT !.meta = k]
  BY DEF GoodRow, Row
<1> HIDE DEF k
<1>5. \A x \in Seams : Bounded(x, k[x])
  BY <1>1, <1>3
<1>6. QED
  BY <1>2, <1>4, <1>5, WithMeta DEF k

LEMMA WithEdges ==
    ASSUME NEW r, GoodRow(r), NEW es \in SUBSET Edge, IsFiniteSet(es), Cardinality(es) <= MaxEdges
    PROVE  LET n == [r EXCEPT !.edges = es]
           IN  GoodRow(n) /\ n.account = r.account /\ n.edges = es
BY DEF GoodRow, Row

LEMMA NewRow ==
    ASSUME NEW a \in Accounts, NEW c \in Cores, NEW m \in Meta, \A s \in Seams : Bounded(s, m[s])
    PROVE  LET n == [account |-> a, core |-> c, meta |-> m, edges |-> {}]
           IN  GoodRow(n) /\ n.account = a /\ n.edges = {}
BY FS_EmptySet, Bounds DEF GoodRow, Row

\* Edges only go.
LEMMA FewerEdges ==
    ASSUME NEW r, GoodRow(r), NEW es \in SUBSET r.edges
    PROVE  es \in SUBSET Edge /\ IsFiniteSet(es) /\ Cardinality(es) <= MaxEdges
<1>1. IsFiniteSet(r.edges) /\ r.edges \subseteq Edge /\ Cardinality(r.edges) <= MaxEdges
  BY DEF GoodRow, Row
<1>2. IsFiniteSet(es) /\ Cardinality(es) <= Cardinality(r.edges)
  BY <1>1, FS_Subset, Zenon
<1>3. Cardinality(es) \in Nat /\ Cardinality(r.edges) \in Nat
  BY <1>1, <1>2, FS_CardinalityType
<1>4. QED
  BY <1>1, <1>2, <1>3, Bounds

LEMMA SnapOfRow ==
    ASSUME NEW r, GoodRow(r)
    PROVE  TransactionSnapshot(r) \in Snap
BY DEF GoodRow, Row, Snap, TransactionSnapshot

-----------------------------------------------------------------------------
(***************************************************************************)
(* The tables stay well formed and every reference resolves, action by     *)
(* action.  What an action does to the rows of one transaction is one of   *)
(* the lemmas above; the lemmas here carry it over to the table.           *)
(***************************************************************************)
Inv == TablesInv /\ ReferencesResolve

\* No row changes its account or its edges.
LEMMA RowsRefilled ==
    ASSUME Inv, accounts' = accounts, DOMAIN txns' = DOMAIN txns,
           \A t \in DOMAIN txns : /\ GoodRow(txns'[t])
                                  /\ txns'[t].account = txns[t].account
                                  /\ txns'[t].edges = txns[t].edges
    PROVE  GoodTable(txns') /\ ReferencesResolve'
BY DEF Inv, TablesInv, GoodTable, ReferencesResolve

LEMMA RunRelease ==
    ASSUME Inv, NEW r \in Runners, run' = [run EXCEPT ![r] = Idle]
    PROVE  DOMAIN run' = Runners /\ \A q \in Runners : GoodJob(run'[q])
<1>1. GoodJob(Idle)
  BY DEF GoodJob, GoodRules, GoodTable, Idle, Nothing
<1>2. QED
  BY <1>1 DEF Inv, TablesInv

LEMMA RuleWriteStep ==
    ASSUME Inv, NEW i \in RuleIds, NEW b \in RuleBodies, CreateRule(i, b) \/ UpdateRule(i, b)
    PROVE  Inv'
<1>1. b \in Rule
  BY RuleAssumption
<1>2. UNCHANGED <<accounts, txns, run>>
  BY DEF CreateRule, UpdateRule
<1>3. /\ GoodRules(rules') /\ DOMAIN rules' \subseteq minted'
      /\ minted' \subseteq ManualAccounts \cup ManualTxns \cup RuleIds
  <2>1. CASE CreateRule(i, b)
    <3>1. rules' = Over(One(i, b), rules) /\ minted' = minted \cup {i}
      BY <2>1 DEF CreateRule
    <3>2. QED
      BY <1>1, <3>1 DEF Inv, TablesInv, GoodRules, Over, One
  <2>2. CASE UpdateRule(i, b)
    BY <1>1, <2>2 DEF UpdateRule, Inv, TablesInv, GoodRules
  <2>3. QED
    BY <2>1, <2>2
<1>4. QED
  BY <1>2, <1>3 DEF Inv, TablesInv, ReferencesResolve

LEMMA RuleRemovalStep ==
    ASSUME Inv, NEW i \in RuleIds, DeleteRule(i)
    PROVE  Inv'
<1>1. rules' = Without(rules, {i}) /\ UNCHANGED <<accounts, txns, minted, run>>
  BY DEF DeleteRule
<1>2. GoodRules(rules') /\ DOMAIN rules' \subseteq minted
  BY <1>1 DEF Inv, TablesInv, GoodRules, Without
<1>3. QED
  BY <1>1, <1>2 DEF Inv, TablesInv, ReferencesResolve

LEMMA ReadForRunStep ==
    ASSUME Inv, NEW r \in Runners, NEW op \in {"apply", "unapply"}, NEW rs, GoodRules(rs),
           ReadForRun(r, op, rs)
    PROVE  Inv'
<1> DEFINE job == [op |-> op, rules |-> rs, read |-> txns]
<1>1. GoodJob(job)
  BY DEF GoodJob, Inv, TablesInv
<1>2. run' = [run EXCEPT ![r] = job] /\ UNCHANGED <<accounts, txns, rules, minted>>
  BY DEF ReadForRun
<1> HIDE DEF job
<1>3. QED
  BY <1>1, <1>2 DEF Inv, TablesInv, ReferencesResolve

LEMMA RunAllStep ==
    ASSUME Inv, NEW r \in Runners, RunAllRules(r)
    PROVE  Inv'
<1>1. GoodRules(Enabled)
  BY DEF Enabled, Inv, TablesInv, GoodRules
<1>2. QED
  BY <1>1, ReadForRunStep DEF RunAllRules

LEMMA RunOneStep ==
    ASSUME Inv, NEW r \in Runners, NEW i \in RuleIds, RunRule(r, i) \/ UnapplyRule(r, i)
    PROVE  Inv'
<1>1. i \in DOMAIN rules
  BY DEF RunRule, UnapplyRule
<1>2. GoodRules(One(i, rules[i]))
  BY <1>1 DEF Inv, TablesInv, GoodRules, One
<1>3. QED
  BY <1>2, ReadForRunStep DEF RunRule, UnapplyRule

LEMMA OutcomeBounded ==
    ASSUME NEW j, GoodJob(j), NEW row, GoodRow(row)
    PROVE  \A s \in Seams : Bounded(s, Outcome(j, row)[s])
<1>1. ASSUME NEW s \in Seams PROVE Bounded(s, Outcome(j, row)[s])
  <2>1. row.meta[s] \in Set(s)
    BY DEF GoodRow, Bounded
  <2>2. /\ Bounded(s, Apply(j.rules, row.core, s, row.meta[s]))
        /\ Bounded(s, Unapply(j.rules, row.core, s, row.meta[s]))
    BY <2>1, ApplyBounded, UnapplyBounded DEF GoodJob
  <2>3. QED
    BY <2>2 DEF Outcome
<1>2. QED
  BY <1>1

LEMMA RunWriteStep ==
    ASSUME Inv, NEW r \in Runners, RunWrite(r)
    PROVE  Inv'
<1> DEFINE read == run[r].read
           old == [t \in DOMAIN read |-> read[t].meta]
           new == [t \in DOMAIN read |-> Outcome(run[r], read[t])]
           filled(t) == [s \in Seams |-> IF new[t][s] # old[t][s] THEN new[t][s] ELSE txns[t].meta[s]]
<1>1. /\ DOMAIN txns' = DOMAIN txns
      /\ \A t \in DOMAIN txns : txns'[t] = IF t \notin DOMAIN read THEN txns[t]
                                           ELSE [txns[t] EXCEPT !.meta = filled(t)]
      /\ run' = [run EXCEPT ![r] = Idle]
      /\ UNCHANGED <<accounts, rules, minted>>
  BY DEF RunWrite
<1>2. GoodJob(run[r]) /\ GoodTable(read)
  BY DEF Inv, TablesInv, GoodJob
<1>3. ASSUME NEW t \in DOMAIN txns
      PROVE  /\ GoodRow(txns'[t])
             /\ txns'[t].account = txns[t].account /\ txns'[t].edges = txns[t].edges
  <2>1. GoodRow(txns[t])
    BY DEF Inv, TablesInv, GoodTable
  <2>2. CASE t \notin DOMAIN read
    BY <1>1, <2>1, <2>2
  <2>3. CASE t \in DOMAIN read
    <3>1. \A s \in Seams : Bounded(s, new[t][s])
      BY <1>2, <2>3, OutcomeBounded DEF GoodTable
    <3> HIDE DEF new, old, read
    <3>2. \A s \in Seams : Bounded(s, filled(t)[s])
      BY <2>1, <3>1 DEF GoodRow
    <3>3. filled(t) \in Meta
      <4>1. filled(t) = [s \in Seams |-> filled(t)[s]]
        OBVIOUS
      <4>2. \A s \in Seams : filled(t)[s] \in Set(s)
        BY <3>2 DEF Bounded
      <4> HIDE DEF filled
      <4>3. QED
        BY <4>1, <4>2, MetaOfSeams
    <3> HIDE DEF filled
    <3>4. txns'[t] = [txns[t] EXCEPT !.meta = filled(t)]
      BY <1>1, <2>3
    <3>5. QED
      BY <2>1, <3>2, <3>3, <3>4, WithMeta
  <2>4. QED
    BY <2>2, <2>3
<1>4. GoodTable(txns') /\ ReferencesResolve'
  BY <1>1, <1>3, RowsRefilled
<1>5. QED
  BY <1>1, <1>4, RunRelease DEF Inv, TablesInv

LEMMA RunFailsStep ==
    ASSUME Inv, NEW r \in Runners, RunFails(r)
    PROVE  Inv'
<1>1. run' = [run EXCEPT ![r] = Idle] /\ UNCHANGED <<accounts, txns, rules, minted>>
  BY DEF RunFails
<1>2. QED
  BY <1>1, RunRelease DEF Inv, TablesInv, ReferencesResolve

LEMMA AccountStep ==
    ASSUME Inv, NEW a \in Accounts, NEW b \in Balances,
           CreateManualAccount(a, b) \/ UpdateAccount(a, b)
    PROVE  Inv'
<1>1. /\ UNCHANGED <<txns, rules, run>>
      /\ minted \subseteq minted' /\ minted' \subseteq minted \cup ManualAccounts
  BY DEF CreateManualAccount, UpdateAccount
<1>2. /\ DOMAIN accounts \subseteq DOMAIN accounts' /\ DOMAIN accounts' \subseteq Accounts
      /\ \A x \in DOMAIN accounts' : accounts'[x] \in Balances
  <2>1. CASE CreateManualAccount(a, b)
    BY <2>1 DEF CreateManualAccount, Inv, TablesInv, Over, One
  <2>2. CASE UpdateAccount(a, b)
    BY <2>2 DEF UpdateAccount, Inv, TablesInv
  <2>3. QED
    BY <2>1, <2>2
<1>3. QED
  BY <1>1, <1>2 DEF Inv, TablesInv, ReferencesResolve

LEMMA ManualEntryStep ==
    ASSUME Inv, NEW t \in Txns, NEW a \in Accounts, NEW c \in Cores,
           CreateManualTransaction(t, a, c) \/ UpdateTransactionCore(t, a, c)
    PROVE  Inv'
<1>1. CASE CreateManualTransaction(t, a, c)
  <2> DEFINE row == [account |-> a, core |-> c, meta |-> NoMeta, edges |-> {}]
  <2>1. GoodRow(row) /\ row.account = a /\ row.edges = {}
    BY NewRow, NoMetaBounded
  <2>2. /\ txns' = Over(One(t, row), txns) /\ a \in DOMAIN accounts
        /\ minted' = minted \cup {t} /\ t \in ManualTxns
        /\ UNCHANGED <<accounts, rules, run>>
    BY <1>1 DEF CreateManualTransaction
  <2> HIDE DEF row
  <2>3. /\ DOMAIN txns' = DOMAIN txns \cup {t} /\ txns'[t] = row
        /\ \A u \in DOMAIN txns \ {t} : txns'[u] = txns[u]
    BY <2>2 DEF Over, One
  <2>4. GoodTable(txns')
    BY <2>1, <2>3 DEF Inv, TablesInv, GoodTable
  <2>5. ReferencesResolve'
    BY <2>1, <2>2, <2>3 DEF Inv, ReferencesResolve
  <2>6. QED
    BY <2>2, <2>4, <2>5 DEF Inv, TablesInv
<1>2. CASE UpdateTransactionCore(t, a, c)
  <2> DEFINE row == [txns[t] EXCEPT !.account = a, !.core = c]
  <2>1. /\ t \in DOMAIN txns /\ a \in DOMAIN accounts
        /\ txns' = [txns EXCEPT ![t] = row]
        /\ UNCHANGED <<accounts, rules, minted, run>>
    BY <1>2 DEF UpdateTransactionCore
  <2>2. GoodRow(row) /\ row.account = a /\ row.edges = txns[t].edges
    BY <2>1 DEF Inv, TablesInv, GoodTable, GoodRow, Row
  <2> HIDE DEF row
  <2>3. GoodTable(txns')
    BY <2>1, <2>2 DEF Inv, TablesInv, GoodTable
  <2>4. ReferencesResolve'
    BY <2>1, <2>2 DEF Inv, ReferencesResolve
  <2>5. QED
    BY <2>1, <2>3, <2>4 DEF Inv, TablesInv
<1>3. QED
  BY <1>1, <1>2

\* What the persister makes of an item it sees for the first time.
BornRow(item) ==
  [account |-> item.account, core |-> item.core, meta |-> BirthMeta(item.core), edges |-> {}]

LEMMA BornRowGood ==
    ASSUME Inv, NEW item \in [account : Accounts, core : Cores]
    PROVE  LET n == BornRow(item)
           IN  GoodRow(n) /\ n.account = item.account /\ n.edges = {}
<1> DEFINE m == BirthMeta(item.core)
<1>1. GoodRules(Enabled)
  BY DEF Enabled, Inv, TablesInv, GoodRules
<1>2. \A s \in Seams : Bounded(s, m[s])
  BY <1>1, ApplyBounded, NoSetBounded DEF BirthMeta
<1>3. m = [s \in Seams |-> m[s]]
  BY DEF BirthMeta
<1> HIDE DEF m
<1>4. m \in Meta
  BY <1>2, <1>3, MetaOfSeams DEF Bounded
<1>5. BornRow(item) = [account |-> item.account, core |-> item.core, meta |-> m, edges |-> {}]
  BY DEF BornRow, m
<1>6. QED
  BY <1>2, <1>4, <1>5, NewRow

LEMMA SyncedRowGood ==
    ASSUME Inv, NEW t \in DOMAIN txns, NEW item \in [account : Accounts, core : Cores]
    PROVE  LET n == UpdateTransactionFromSync(txns[t], item)
           IN  GoodRow(n) /\ n.account = item.account /\ n.edges = txns[t].edges
BY DEF UpdateTransactionFromSync, Inv, TablesInv, GoodTable, GoodRow, Row

LEMMA PersistStep ==
    ASSUME Inv, NEW src, PersistBatch(src)
    PROVE  Inv'
<1>1. PICK as \in SUBSET SyncedAccounts, ts \in SUBSET SyncedTxns :
        \E accts \in [as -> Balances], items \in [ts -> [account : as, core : Cores]] :
          Persist(accts, items)
  BY DEF PersistBatch
<1>2. PICK accts \in [as -> Balances], items \in [ts -> [account : as, core : Cores]] :
        Persist(accts, items)
  BY <1>1
<1> DEFINE new == ts \ DOMAIN txns
           born == [t \in new |-> BirthMeta(items[t].core)]
           row(t) == IF t \in new
                     THEN [account |-> items[t].account, core |-> items[t].core,
                           meta |-> born[t], edges |-> {}]
                     ELSE UpdateTransactionFromSync(txns[t], items[t])
<1>3. DOMAIN accts = as /\ DOMAIN items = ts
  OBVIOUS
<1>4. /\ accounts' = Over(accts, accounts)
      /\ txns' = Over([t \in ts |-> row(t)], txns)
      /\ UNCHANGED <<rules, minted, run>>
  BY <1>2, <1>3 DEF Persist
<1>5. /\ DOMAIN accounts' = as \cup DOMAIN accounts
      /\ \A a \in DOMAIN accounts' : accounts'[a] \in Balances
      /\ DOMAIN accounts' \subseteq Accounts
  BY <1>3, <1>4 DEF Inv, TablesInv, Over, Accounts
<1>6. ASSUME NEW t \in ts
      PROVE  /\ GoodRow(row(t)) /\ row(t).account \in as
             /\ row(t).edges \in {IF t \in DOMAIN txns THEN txns[t].edges ELSE {}}
  <2>1. /\ items[t] \in [account : Accounts, core : Cores]
        /\ items[t].account \in as
    BY DEF Accounts
  <2>2. CASE t \in new
    <3>1. row(t) = BornRow(items[t])
      BY <2>2 DEF BornRow
    <3> HIDE DEF row
    <3>2. QED
      BY <2>1, <2>2, <3>1, BornRowGood
  <2>3. CASE t \notin new
    <3>1. row(t) = UpdateTransactionFromSync(txns[t], items[t]) /\ t \in DOMAIN txns
      BY <2>3
    <3> HIDE DEF row
    <3>2. QED
      BY <2>1, <3>1, SyncedRowGood
  <2>4. QED
    BY <2>2, <2>3
<1> HIDE DEF row
<1>7. /\ DOMAIN txns' = ts \cup DOMAIN txns
      /\ \A t \in ts : txns'[t] = row(t)
      /\ \A t \in DOMAIN txns \ ts : txns'[t] = txns[t]
  BY <1>4 DEF Over
<1>8. GoodTable(txns')
  BY <1>6, <1>7 DEF Inv, TablesInv, GoodTable, Txns
<1>9. ReferencesResolve'
  <2>1. ASSUME NEW t \in ts
        PROVE  /\ txns'[t].account \in DOMAIN accounts'
               /\ \A e \in txns'[t].edges : e.target \in DOMAIN txns' \ {t}
    BY <1>5, <1>6, <1>7 DEF Inv, ReferencesResolve
  <2>2. ASSUME NEW t \in DOMAIN txns \ ts
        PROVE  /\ txns'[t].account \in DOMAIN accounts'
               /\ \A e \in txns'[t].edges : e.target \in DOMAIN txns' \ {t}
    BY <1>5, <1>7 DEF Inv, ReferencesResolve
  <2>3. QED
    BY <1>7, <2>1, <2>2 DEF ReferencesResolve
<1>10. QED
  BY <1>4, <1>5, <1>8, <1>9 DEF Inv, TablesInv

\* Rows go, and with them the edges that point at them.
LEMMA RemoveStep ==
    ASSUME Inv, NEW as, NEW ts, Remove(as, ts),
           \A t \in DOMAIN txns \ ts : txns[t].account \notin as
    PROVE  Inv'
<1>1. /\ accounts' = Without(accounts, as) /\ txns' = Stripped(ts)
      /\ UNCHANGED <<rules, minted, run>>
  BY DEF Remove
<1>2. /\ DOMAIN accounts' = DOMAIN accounts \ as
      /\ \A a \in DOMAIN accounts' : accounts'[a] = accounts[a]
  BY <1>1 DEF Without
<1>3. DOMAIN txns' = DOMAIN txns \ ts
  BY <1>1 DEF Stripped
<1>4. ASSUME NEW t \in DOMAIN txns \ ts
      PROVE  /\ GoodRow(txns'[t]) /\ txns'[t].account = txns[t].account
             /\ txns'[t].edges = {e \in txns[t].edges : e.target \notin ts}
  <2> DEFINE es == {e \in txns[t].edges : e.target \notin ts}
  <2>1. GoodRow(txns[t]) /\ es \in SUBSET txns[t].edges
    BY DEF Inv, TablesInv, GoodTable
  <2>2. txns'[t] = [txns[t] EXCEPT !.edges = es]
    BY <1>1 DEF Stripped
  <2> HIDE DEF es
  <2>3. GoodRow(txns'[t]) /\ txns'[t].account = txns[t].account /\ txns'[t].edges = es
    BY <2>1, <2>2, FewerEdges, WithEdges
  <2>4. QED
    BY <2>3 DEF es
<1>5. GoodTable(txns')
  BY <1>3, <1>4 DEF Inv, TablesInv, GoodTable
<1>6. ReferencesResolve'
  BY <1>2, <1>3, <1>4 DEF Inv, ReferencesResolve
<1>7. QED
  BY <1>1, <1>2, <1>5, <1>6 DEF Inv, TablesInv

LEMMA DeletionStep ==
    ASSUME Inv, NEW t, NEW a, NEW src,
           DeleteTransaction(t) \/ DeleteAccount(a) \/ PurgeSource(src)
    PROVE  Inv'
<1>1. CASE DeleteTransaction(t)
  BY <1>1, RemoveStep DEF DeleteTransaction
<1>2. ASSUME NEW as, DeleteAccounts(as) PROVE Inv'
  <2> DEFINE ts == {u \in DOMAIN txns : txns[u].account \in as}
  <2>1. Remove(as, ts)
    BY <1>2 DEF DeleteAccounts
  <2>2. \A u \in DOMAIN txns \ ts : txns[u].account \notin as
    OBVIOUS
  <2> HIDE DEF ts
  <2>3. QED
    BY <2>1, <2>2, RemoveStep
<1>3. CASE DeleteAccount(a)
  BY <1>2, <1>3 DEF DeleteAccount
<1>4. CASE PurgeSource(src)
  BY <1>2, <1>4 DEF PurgeSource
<1>5. QED
  BY <1>1, <1>3, <1>4

LEMMA WriteSetStep ==
    ASSUME Inv, NEW t \in DOMAIN txns, NEW s \in Seams, NEW m, Bounded(s, m), NEW kind,
           WriteSet(t, s, m, kind)
    PROVE  Inv'
<1> DEFINE row == [txns[t] EXCEPT !.meta[s] = m]
<1>1. txns' = [txns EXCEPT ![t] = row] /\ UNCHANGED <<accounts, rules, minted, run>>
  BY DEF WriteSet
<1>2. GoodRow(row) /\ row.account = txns[t].account /\ row.edges = txns[t].edges
  BY WithSet DEF Inv, TablesInv, GoodTable
<1> HIDE DEF row
<1>3. GoodTable(txns') /\ ReferencesResolve'
  BY <1>1, <1>2, RowsRefilled DEF Inv, TablesInv, GoodTable
<1>4. QED
  BY <1>1, <1>3 DEF Inv, TablesInv

\* The sets the handlers and the plugin host write are within the cap.
LEMMA HostSets ==
    ASSUME Inv, NEW t \in DOMAIN txns, NEW s \in Seams
    PROVE  /\ txns[t].meta[s] \in Set(s)
           /\ \A add \in Set(s) : Bounded(s, Merged(txns[t].meta[s], add))
           /\ \A ks : Bounded(s, [k \in Keys |-> IF k \in ks THEN NoVal ELSE txns[t].meta[s][k]])
           /\ \A k, v : v \in Vals[s] \cup {NoVal} =>
                          Bounded(s, Normalize([txns[t].meta[s] EXCEPT ![k] = v]))
<1> DEFINE old == txns[t].meta[s]
<1>1. Bounded(s, old) /\ old \in Set(s)
  BY DEF Inv, TablesInv, GoodTable, GoodRow, Bounded
<1> HIDE DEF old
<1>2. ASSUME NEW add \in Set(s) PROVE Bounded(s, Merged(old, add))
  <2> DEFINE n == [k \in Keys |-> IF add[k] # NoVal THEN add[k] ELSE old[k]]
  <2>1. n \in Set(s)
    BY <1>1 DEF Set
  <2>2. Merged(old, add) = Normalize(n)
    BY DEF Merged
  <2> HIDE DEF n
  <2>3. QED
    BY <2>1, <2>2, NormalizeBounded
<1>3. ASSUME NEW ks PROVE Bounded(s, [k \in Keys |-> IF k \in ks THEN NoVal ELSE old[k]])
  <2> DEFINE n == [k \in Keys |-> IF k \in ks THEN NoVal ELSE old[k]]
  <2>1. n \in Set(s) /\ \A k \in Keys : n[k] \in {old[k], NoVal}
    BY <1>1 DEF Set
  <2> HIDE DEF n
  <2>2. Bounded(s, n)
    BY <1>1, <2>1, ErasedBounded
  <2>3. QED
    BY <2>2 DEF n
<1>4. ASSUME NEW k, NEW v \in Vals[s] \cup {NoVal}
      PROVE  Bounded(s, Normalize([old EXCEPT ![k] = v]))
  <2>1. [old EXCEPT ![k] = v] \in Set(s)
    BY <1>1 DEF Set
  <2>2. QED
    BY <2>1, NormalizeBounded
<1>5. QED
  BY <1>1, <1>2, <1>3, <1>4 DEF old

KindOf == [s \in Seams |-> IF s = "labels" THEN "labeled" ELSE "extended"]

\* One seam of a transaction is replaced by a set within the cap.
Rewritten(t) ==
  \E s \in Seams, kind \in Kind : \E n :
    kind = KindOf[s] /\ t \in DOMAIN txns /\ Bounded(s, n) /\ WriteSet(t, s, n, kind)

LEMMA WriteCases ==
    ASSUME Inv, NEW t \in Txns
    PROVE  /\ \A m \in Set("labels") : UpdateTransactionLabels(t, m) \/ HostApplyLabels(t, m) => Rewritten(t)
           /\ \A ks : HostRemoveLabels(t, ks) => Rewritten(t)
           /\ \A m \in Set("extensions") : SetExtensions(t, m) => Rewritten(t)
           /\ \A k, v : v \in Vals["extensions"] /\ HostSetExtension(t, k, v) => Rewritten(t)
           /\ \A k : HostRemoveExtension(t, k) => Rewritten(t)
<1>1. ASSUME t \in DOMAIN txns, NEW s \in Seams, NEW n, Bounded(s, n),
             NEW kind \in {"labeled", "extended"}, kind = KindOf[s], WriteSet(t, s, n, kind)
      PROVE  Rewritten(t)
  BY <1>1, Zenon DEF Rewritten, Kind
<1>2. ASSUME NEW m \in Set("labels"), UpdateTransactionLabels(t, m)
      PROVE  Rewritten(t)
  <2>1. t \in DOMAIN txns
    BY <1>2 DEF UpdateTransactionLabels
  <2>2. Bounded("labels", Normalize(m))
    BY <2>1, NormalizeBounded DEF Seams
  <2>3. WriteSet(t, "labels", Normalize(m), "labeled")
    BY <1>2 DEF UpdateTransactionLabels
  <2>4. QED
    BY <1>1, <2>1, <2>2, <2>3 DEF Seams, KindOf
<1>3. ASSUME NEW m \in Set("labels"), HostApplyLabels(t, m)
      PROVE  Rewritten(t)
  <2>1. t \in DOMAIN txns
    BY <1>3 DEF HostApplyLabels, HostWrite
  <2>2. Bounded("labels", Merged(txns[t].meta["labels"], m))
    BY <2>1, HostSets DEF Seams
  <2>3. WriteSet(t, "labels", Merged(txns[t].meta["labels"], m), "labeled")
    BY <1>3 DEF HostApplyLabels, HostWrite
  <2>4. QED
    BY <1>1, <2>1, <2>2, <2>3 DEF Seams, KindOf
<1>4. ASSUME NEW ks, HostRemoveLabels(t, ks)
      PROVE  Rewritten(t)
  <2>1. t \in DOMAIN txns
    BY <1>4 DEF HostRemoveLabels, HostWrite
  <2>2. Bounded("labels", [j \in Keys |-> IF j \in ks THEN NoVal ELSE txns[t].meta["labels"][j]])
    BY <2>1, HostSets DEF Seams
  <2>3. WriteSet(t, "labels", [j \in Keys |-> IF j \in ks THEN NoVal ELSE txns[t].meta["labels"][j]], "labeled")
    BY <1>4 DEF HostRemoveLabels, HostWrite
  <2>4. QED
    BY <1>1, <2>1, <2>2, <2>3 DEF Seams, KindOf
<1>5. ASSUME NEW m \in Set("extensions"), SetExtensions(t, m)
      PROVE  Rewritten(t)
  <2>1. t \in DOMAIN txns
    BY <1>5 DEF SetExtensions
  <2>2. Bounded("extensions", Normalize(m))
    BY <2>1, NormalizeBounded DEF Seams
  <2>3. WriteSet(t, "extensions", Normalize(m), "extended")
    BY <1>5 DEF SetExtensions
  <2>4. QED
    BY <1>1, <2>1, <2>2, <2>3 DEF Seams, KindOf
<1>6. ASSUME NEW k, NEW v \in Vals["extensions"], HostSetExtension(t, k, v)
      PROVE  Rewritten(t)
  <2>1. t \in DOMAIN txns
    BY <1>6 DEF HostSetExtension, HostWrite
  <2>2. Bounded("extensions", Normalize([txns[t].meta["extensions"] EXCEPT ![k] = v]))
    BY <2>1, HostSets DEF Seams
  <2>3. WriteSet(t, "extensions", Normalize([txns[t].meta["extensions"] EXCEPT ![k] = v]), "extended")
    BY <1>6 DEF HostSetExtension, HostWrite
  <2>4. QED
    BY <1>1, <2>1, <2>2, <2>3 DEF Seams, KindOf
<1>7. ASSUME NEW k, HostRemoveExtension(t, k)
      PROVE  Rewritten(t)
  <2>1. t \in DOMAIN txns
    BY <1>7 DEF HostRemoveExtension, HostWrite
  <2>2. Bounded("extensions", Normalize([txns[t].meta["extensions"] EXCEPT ![k] = NoVal]))
    BY <2>1, HostSets DEF Seams
  <2>3. WriteSet(t, "extensions", Normalize([txns[t].meta["extensions"] EXCEPT ![k] = NoVal]), "extended")
    BY <1>7 DEF HostRemoveExtension, HostWrite
  <2>4. QED
    BY <1>1, <2>1, <2>2, <2>3 DEF Seams, KindOf
<1>8. QED
  BY <1>2, <1>3, <1>4, <1>5, <1>6, <1>7

LEMMA RewrittenStep ==
    ASSUME Inv, NEW t, Rewritten(t)
    PROVE  Inv'
BY WriteSetStep DEF Rewritten

LEMMA DeleteLabelStep ==
    ASSUME Inv, NEW k \in Keys, NEW vs, DeleteLabel(k, vs)
    PROVE  Inv'
<1> DEFINE row(t) == [txns[t] EXCEPT !.meta["labels"] = [@ EXCEPT ![k] = NoVal]]
<1>1. /\ DOMAIN txns' = DOMAIN txns
      /\ \A t \in DOMAIN txns : txns'[t] = IF txns[t].meta["labels"][k] \in vs
                                           THEN row(t) ELSE txns[t]
      /\ UNCHANGED <<accounts, rules, minted, run>>
  BY DEF DeleteLabel
<1>2. ASSUME NEW t \in DOMAIN txns
      PROVE  /\ GoodRow(txns'[t])
             /\ txns'[t].account = txns[t].account /\ txns'[t].edges = txns[t].edges
  <2> DEFINE old == txns[t].meta["labels"]
             n == [old EXCEPT ![k] = NoVal]
  <2>1. GoodRow(txns[t]) /\ Bounded("labels", old)
    BY DEF Inv, TablesInv, GoodTable, GoodRow, Seams
  <2>2. n \in Set("labels") /\ \A j \in Keys : n[j] \in {old[j], NoVal}
    BY <2>1 DEF Bounded, Set
  <2> HIDE DEF n
  <2>3. Bounded("labels", n)
    BY <2>1, <2>2, ErasedBounded DEF Seams
  <2>4. row(t) = [txns[t] EXCEPT !.meta["labels"] = n]
    BY DEF n
  <2> HIDE DEF row
  <2>5. /\ GoodRow(row(t)) /\ row(t).account = txns[t].account /\ row(t).edges = txns[t].edges
    BY <2>1, <2>3, <2>4, WithSet DEF Seams
  <2>6. QED
    BY <1>1, <2>1, <2>5
<1>3. GoodTable(txns') /\ ReferencesResolve'
  BY <1>1, <1>2, RowsRefilled
<1>4. QED
  BY <1>1, <1>3 DEF Inv, TablesInv

LEMMA EdgeStep ==
    ASSUME Inv, NEW t \in Txns, NEW e \in Edge, AddRelationship(t, e) \/ RemoveRelationship(t, e)
    PROVE  Inv'
<1>1. t \in DOMAIN txns
  BY DEF AddRelationship, RemoveRelationship
<1>2. GoodRow(txns[t]) /\ \A f \in txns[t].edges : f.target \in DOMAIN txns \ {t}
  BY <1>1 DEF Inv, TablesInv, GoodTable, ReferencesResolve
<1>3. PICK es \in SUBSET Edge :
        /\ SetEdges(t, es) /\ IsFiniteSet(es) /\ Cardinality(es) <= MaxEdges
        /\ \A f \in es : f.target \in DOMAIN txns \ {t}
  <2> DEFINE old == txns[t].edges
  <2>1. old \in SUBSET Edge /\ IsFiniteSet(old) /\ Cardinality(old) <= MaxEdges
    BY <1>2 DEF GoodRow, Row
  <2>2. CASE RemoveRelationship(t, e)
    BY <1>2, <2>2, FewerEdges DEF RemoveRelationship
  <2>3. CASE AddRelationship(t, e)
    <3> DEFINE new == IF Cardinality(old) < MaxEdges THEN old \cup {e} ELSE old
    <3>1. SetEdges(t, new) /\ (new # old => e.target # t /\ e.target \in DOMAIN txns)
      BY <2>3 DEF AddRelationship
    <3>2. CASE new = old
      BY <1>2, <2>1, <3>1, <3>2
    <3>3. CASE new # old
      <4>1. new = old \cup {e} /\ Cardinality(old) < MaxEdges /\ e \notin old
        BY <3>3
      <4> HIDE DEF new
      <4>2. IsFiniteSet(new) /\ Cardinality(new) = Cardinality(old) + 1
        BY <2>1, <4>1, FS_AddElement
      <4>3. Cardinality(new) <= MaxEdges
        <5>1. Cardinality(old) \in Nat
          BY <2>1, FS_CardinalityType
        <5>2. QED
          BY <4>1, <4>2, <5>1, Bounds
      <4>4. QED
        BY <1>2, <2>1, <3>1, <3>3, <4>1, <4>2, <4>3
    <3>4. QED
      BY <3>2, <3>3
  <2>4. QED
    BY <2>2, <2>3
<1> DEFINE row == [txns[t] EXCEPT !.edges = es]
<1>4. txns' = [txns EXCEPT ![t] = row] /\ UNCHANGED <<accounts, rules, minted, run>>
  BY <1>3 DEF SetEdges
<1>5. GoodRow(row) /\ row.account = txns[t].account /\ row.edges = es
  BY <1>2, <1>3, WithEdges
<1> HIDE DEF row
<1>6. GoodTable(txns')
  BY <1>4, <1>5 DEF Inv, TablesInv, GoodTable
<1>7. ReferencesResolve'
  BY <1>1, <1>3, <1>4, <1>5 DEF Inv, ReferencesResolve
<1>8. QED
  BY <1>4, <1>6, <1>7 DEF Inv, TablesInv

LEMMA MetaCases ==
    ASSUME Inv, MetaStep
    PROVE  \/ \E t \in Txns : Rewritten(t)
           \/ \E k \in Keys : \E vs : DeleteLabel(k, vs)
           \/ \E t \in Txns, e \in Edge : AddRelationship(t, e) \/ RemoveRelationship(t, e)
           \/ \E cutoff : PruneTransactionVersions(cutoff)
<1>1. CASE \E t \in Txns, m \in Set("labels") : UpdateTransactionLabels(t, m) \/ HostApplyLabels(t, m)
  BY <1>1, WriteCases
<1>2. CASE \E t \in Txns, m \in Set("extensions") : SetExtensions(t, m)
  BY <1>2, WriteCases
<1>3. CASE \E t \in Txns, ks \in SUBSET Keys : HostRemoveLabels(t, ks)
  BY <1>3, WriteCases
<1>4. CASE \E t \in Txns, k \in Keys : HostRemoveExtension(t, k)
  BY <1>4, WriteCases
<1>5. CASE \E t \in Txns, k \in Keys, v \in Vals["extensions"] : HostSetExtension(t, k, v)
  BY <1>5, WriteCases
<1>6. CASE \E k \in Keys, vs \in {Vals["labels"]} \cup {{v} : v \in Vals["labels"]} : DeleteLabel(k, vs)
  BY <1>6
<1>7. CASE \E t \in Txns, e \in Edge : AddRelationship(t, e) \/ RemoveRelationship(t, e)
  BY <1>7
<1>8. CASE \E cutoff \in 1 .. MaxCommits + 1 : PruneTransactionVersions(cutoff)
  BY <1>8
<1>9. QED
  BY <1>1, <1>2, <1>3, <1>4, <1>5, <1>6, <1>7, <1>8, Zenon DEF MetaStep

LEMMA InvStep ==
    ASSUME Inv, [Next]_vars
    PROVE  Inv'
<1>1. CASE RuleStep
  <2>1. ASSUME NEW i \in RuleIds, NEW b \in RuleBodies, CreateRule(i, b) \/ UpdateRule(i, b)
        PROVE  Inv'
    BY <2>1, RuleWriteStep
  <2>2. ASSUME NEW i \in RuleIds, DeleteRule(i)
        PROVE  Inv'
    BY <2>2, RuleRemovalStep
  <2>3. ASSUME NEW r \in Runners, RunAllRules(r) \/ RunWrite(r) \/ RunFails(r)
        PROVE  Inv'
    BY <2>3, RunAllStep, RunWriteStep, RunFailsStep
  <2>4. ASSUME NEW r \in Runners, NEW i \in RuleIds, RunRule(r, i) \/ UnapplyRule(r, i)
        PROVE  Inv'
    BY <2>4, RunOneStep
  <2>5. QED
    BY <1>1, <2>1, <2>2, <2>3, <2>4 DEF RuleStep
<1>2. CASE EntryStep
  <2>1. ASSUME NEW src \in Sources, PersistBatch(src) \/ PurgeSource(src)
        PROVE  Inv'
    BY <2>1, PersistStep, DeletionStep
  <2>2. ASSUME NEW a \in Accounts, NEW b \in Balances, CreateManualAccount(a, b) \/ UpdateAccount(a, b)
        PROVE  Inv'
    BY <2>2, AccountStep
  <2>3. ASSUME NEW t \in Txns, NEW a \in Accounts, NEW c \in Cores,
               CreateManualTransaction(t, a, c) \/ UpdateTransactionCore(t, a, c)
        PROVE  Inv'
    BY <2>3, ManualEntryStep
  <2>4. ASSUME NEW t \in Txns, DeleteTransaction(t)
        PROVE  Inv'
    BY <2>4, DeletionStep
  <2>5. ASSUME NEW a \in Accounts, DeleteAccount(a)
        PROVE  Inv'
    BY <2>5, DeletionStep
  <2>6. QED
    BY <1>2, <2>1, <2>2, <2>3, <2>4, <2>5 DEF EntryStep
<1>3. CASE MetaStep
  <2>1. ASSUME NEW t \in Txns, Rewritten(t)
        PROVE  Inv'
    BY <2>1, RewrittenStep
  <2>2. ASSUME NEW k \in Keys, NEW vs, DeleteLabel(k, vs)
        PROVE  Inv'
    BY <2>2, DeleteLabelStep
  <2>3. ASSUME NEW t \in Txns, NEW e \in Edge, AddRelationship(t, e) \/ RemoveRelationship(t, e)
        PROVE  Inv'
    BY <2>3, EdgeStep
  <2>4. ASSUME NEW cutoff, PruneTransactionVersions(cutoff)
        PROVE  Inv'
    BY <2>4 DEF PruneTransactionVersions, Inv, TablesInv, ReferencesResolve
  <2>5. QED
    BY <1>3, <2>1, <2>2, <2>3, <2>4, MetaCases
<1>4. CASE UNCHANGED vars
  BY <1>4 DEF vars, Inv, TablesInv, ReferencesResolve
<1>5. QED
  BY <1>1, <1>2, <1>3, <1>4 DEF Next

LEMMA InvInit == Init => Inv
<1>1. ASSUME Init
      PROVE  Inv
  <2>1. GoodJob(Idle)
    BY DEF GoodJob, GoodRules, GoodTable, Idle, Nothing
  <2>2. /\ DOMAIN accounts = {} /\ DOMAIN txns = {} /\ DOMAIN rules = {} /\ minted = {}
        /\ run = [r \in Runners |-> Idle]
    BY <1>1 DEF Init, Nothing
  <2>3. QED
    BY <2>1, <2>2 DEF Inv, TablesInv, GoodTable, GoodRules, ReferencesResolve
<1>2. QED
  BY <1>1

\* Deleting transactions and accounts, by hand or with a plugin, leaves no edge
\* and no transaction that refers to them, whatever else runs in between.
THEOREM ReferencesAlwaysResolve == Spec => []ReferencesResolve
<1>1. Inv => ReferencesResolve
  BY DEF Inv
<1>2. QED
  BY <1>1, InvInit, InvStep, PTL DEF Spec

-----------------------------------------------------------------------------
(***************************************************************************)
(* The version history, and with it type correctness.                      *)
(***************************************************************************)
\* What a step may leave as the history of a transaction.
Histories == Seq(VersionUpTo(clock + 1))

LEMMA HistoryStays ==
    ASSUME HistoryInv, NEW t \in Txns
    PROVE  history[t] \in Histories
<1>1. VersionUpTo(clock) \subseteq VersionUpTo(clock + 1)
  BY DEF HistoryInv, VersionUpTo
<1>2. history[t] \in Seq(VersionUpTo(clock))
  BY DEF HistoryInv
<1>3. QED
  BY <1>1, <1>2 DEF Histories

LEMMA NewVersionType ==
    ASSUME HistoryInv, NEW kind \in Kind, NEW snap \in Snap
    PROVE  NewVersion(kind, snap) \in VersionUpTo(clock + 1)
BY Bounds DEF HistoryInv, NewVersion, VersionUpTo

LEMMA AppendedVersion ==
    ASSUME HistoryInv, NEW h \in Histories, NEW kind \in Kind, NEW snap \in Snap
    PROVE  h \o <<NewVersion(kind, snap)>> \in Histories
<1> DEFINE v == NewVersion(kind, snap)
<1>1. v \in VersionUpTo(clock + 1)
  BY NewVersionType
<1> HIDE DEF v
<1>2. h \o <<v>> \in Histories
  BY <1>1 DEF Histories
<1>3. QED
  BY <1>2 DEF v

LEMMA VersionChangeType ==
    ASSUME HistoryInv, NEW h \in Histories, NEW prior \in Snap, NEW next \in Snap, NEW kind \in Kind
    PROVE  VersionChange(h, prior, next, kind) \in Histories
<1> DEFINE first == IF h = << >> THEN <<NewVersion("imported", prior)>> ELSE h
<1>1. first \in Histories
  <2>1. NewVersion("imported", prior) \in VersionUpTo(clock + 1)
    BY NewVersionType DEF Kind
  <2>2. <<NewVersion("imported", prior)>> \in Histories
    BY <2>1 DEF Histories
  <2>3. QED
    BY <2>2
<1> HIDE DEF first
<1>2. first \o <<NewVersion(kind, next)>> \in Histories
  BY <1>1, AppendedVersion
<1>3. QED
  BY <1>2 DEF VersionChange, first

LEMMA RowVersion ==
    ASSUME HistoryInv, NEW h \in Histories, NEW row, GoodRow(row), NEW next, GoodRow(next), NEW kind \in Kind
    PROVE  VersionChange(h, TransactionSnapshot(row), TransactionSnapshot(next), kind) \in Histories
BY SnapOfRow, VersionChangeType

LEMMA RecordedType ==
    ASSUME HistoryInv, NEW h \in [Txns -> Histories], Recorded(h)
    PROVE  HistoryInv'
<1>1. CASE h = history
  BY <1>1 DEF Recorded, HistoryInv
<1>2. CASE h # history
  <2>1. history' = h /\ clock' = clock + 1 /\ clock' <= MaxCommits
    BY <1>2 DEF Recorded
  <2>2. clock' \in 0 .. MaxCommits
    BY <2>1, Bounds DEF HistoryInv
  <2>3. QED
    BY <2>1, <2>2 DEF HistoryInv, Histories
<1>3. QED
  BY <1>1, <1>2

LEMMA RunVersionsType ==
    ASSUME HistoryInv, NEW h \in Histories, NEW row, GoodRow(row),
           NEW new, \A s \in Seams : Bounded(s, new[s])
    PROVE  RunVersions(h, row, new) \in Histories
<1> DEFINE labeled  == [row EXCEPT !.meta["labels"] = new["labels"]]
           extended == [labeled EXCEPT !.meta["extensions"] = new["extensions"]]
           first == IF labeled = row THEN h
                    ELSE VersionChange(h, TransactionSnapshot(row), TransactionSnapshot(labeled), "labeled")
<1>1. GoodRow(labeled)
  BY WithSet DEF Seams
<1>2. GoodRow(extended)
  <2> HIDE DEF labeled
  <2>1. QED
    BY <1>1, WithSet DEF Seams
<1>3. RunVersions(h, row, new) =
        IF extended = labeled THEN first
        ELSE VersionChange(first, TransactionSnapshot(labeled), TransactionSnapshot(extended), "extended")
  BY DEF RunVersions
<1> HIDE DEF labeled, extended
<1>4. first \in Histories
  BY <1>1, RowVersion DEF Kind
<1> HIDE DEF first
<1>5. QED
  BY <1>1, <1>2, <1>3, <1>4, RowVersion DEF Kind

LEMMA RunWriteHistory ==
    ASSUME Inv, HistoryInv, NEW r \in Runners, RunWrite(r)
    PROVE  HistoryInv'
<1> DEFINE read == run[r].read
           new == [t \in DOMAIN read |-> Outcome(run[r], read[t])]
           h == [t \in Txns |-> IF t \in DOMAIN read THEN RunVersions(history[t], read[t], new[t])
                                                     ELSE history[t]]
<1>1. Recorded(h)
  BY DEF RunWrite
<1>2. GoodJob(run[r]) /\ GoodTable(read)
  BY DEF Inv, TablesInv, GoodJob
<1>3. ASSUME NEW t \in Txns PROVE h[t] \in Histories
  <2>1. CASE t \in DOMAIN read
    <3>1. GoodRow(read[t]) /\ \A s \in Seams : Bounded(s, new[t][s])
      BY <1>2, <2>1, OutcomeBounded DEF GoodTable
    <3>2. h[t] = RunVersions(history[t], read[t], new[t])
      BY <2>1
    <3> HIDE DEF new, read, h
    <3>3. QED
      BY <3>1, <3>2, HistoryStays, RunVersionsType
  <2>2. CASE t \notin DOMAIN read
    BY <2>2, HistoryStays
  <2>3. QED
    BY <2>1, <2>2
<1>4. h \in [Txns -> Histories]
  <2>1. h = [t \in Txns |-> h[t]]
    OBVIOUS
  <2> HIDE DEF h
  <2>2. QED
    BY <1>3, <2>1
<1> HIDE DEF h
<1>5. QED
  BY <1>1, <1>4, RecordedType

\* A step that records the change of one row.
LEMMA OneRowHistory ==
    ASSUME HistoryInv, NEW t \in Txns, NEW g \in Histories, Recorded([history EXCEPT ![t] = g])
    PROVE  HistoryInv'
<1> DEFINE h == [history EXCEPT ![t] = g]
<1>1. history \in [Txns -> Histories]
  BY HistoryStays DEF HistoryInv
<1>2. h \in [Txns -> Histories]
  BY <1>1
<1> HIDE DEF h
<1>3. QED
  BY <1>2, RecordedType DEF h

LEMMA ManualEntryHistory ==
    ASSUME Inv, HistoryInv, NEW t \in Txns, NEW a \in Accounts, NEW c \in Cores,
           CreateManualTransaction(t, a, c) \/ UpdateTransactionCore(t, a, c)
    PROVE  HistoryInv'
<1>1. CASE CreateManualTransaction(t, a, c)
  <2> DEFINE row == [account |-> a, core |-> c, meta |-> NoMeta, edges |-> {}]
             g == history[t] \o <<NewVersion("imported", TransactionSnapshot(row))>>
  <2>1. GoodRow(row)
    BY NewRow, NoMetaBounded
  <2>2. Recorded([history EXCEPT ![t] = g])
    BY <1>1 DEF CreateManualTransaction
  <2> HIDE DEF row
  <2>3. g \in Histories
    BY <2>1, HistoryStays, SnapOfRow, AppendedVersion DEF Kind
  <2> HIDE DEF g
  <2>4. QED
    BY <2>2, <2>3, OneRowHistory
<1>2. CASE UpdateTransactionCore(t, a, c)
  <2> DEFINE row == [txns[t] EXCEPT !.account = a, !.core = c]
             g == VersionChange(history[t], TransactionSnapshot(txns[t]), TransactionSnapshot(row), "edited")
  <2>1. GoodRow(txns[t])
    BY <1>2 DEF UpdateTransactionCore, Inv, TablesInv, GoodTable
  <2>2. GoodRow(row)
    BY <2>1 DEF GoodRow, Row
  <2>3. Recorded([history EXCEPT ![t] = g])
    BY <1>2 DEF UpdateTransactionCore
  <2> HIDE DEF row
  <2>4. g \in Histories
    BY <2>1, <2>2, HistoryStays, RowVersion DEF Kind
  <2> HIDE DEF g
  <2>5. QED
    BY <2>3, <2>4, OneRowHistory
<1>3. QED
  BY <1>1, <1>2

LEMMA RewrittenHistory ==
    ASSUME Inv, HistoryInv, NEW t \in Txns, Rewritten(t)
    PROVE  HistoryInv'
<1>1. PICK s \in Seams, kind \in Kind : \E n :
        t \in DOMAIN txns /\ Bounded(s, n) /\ WriteSet(t, s, n, kind)
  BY DEF Rewritten
<1>2. PICK n : t \in DOMAIN txns /\ Bounded(s, n) /\ WriteSet(t, s, n, kind)
  BY <1>1
<1> DEFINE row == [txns[t] EXCEPT !.meta[s] = n]
           g == VersionChange(history[t], TransactionSnapshot(txns[t]), TransactionSnapshot(row), kind)
<1>3. GoodRow(txns[t])
  BY <1>2 DEF Inv, TablesInv, GoodTable
<1>4. GoodRow(row)
  BY <1>2, <1>3, WithSet
<1>5. Recorded([history EXCEPT ![t] = g])
  BY <1>2 DEF WriteSet
<1> HIDE DEF row
<1>6. g \in Histories
  BY <1>3, <1>4, HistoryStays, RowVersion
<1> HIDE DEF g
<1>7. QED
  BY <1>5, <1>6, OneRowHistory

LEMMA PersistHistory ==
    ASSUME Inv, HistoryInv, NEW src, PersistBatch(src)
    PROVE  HistoryInv'
<1>1. PICK as \in SUBSET SyncedAccounts, ts \in SUBSET SyncedTxns :
        \E accts \in [as -> Balances], items \in [ts -> [account : as, core : Cores]] :
          Persist(accts, items)
  BY DEF PersistBatch
<1>2. PICK accts \in [as -> Balances], items \in [ts -> [account : as, core : Cores]] :
        Persist(accts, items)
  BY <1>1
<1> DEFINE new == ts \ DOMAIN txns
           changed == {t \in ts \cap DOMAIN txns :
                         txns[t].account # items[t].account \/ txns[t].core # items[t].core}
           born == [t \in new |-> BirthMeta(items[t].core)]
           row(t) == IF t \in new
                     THEN [account |-> items[t].account, core |-> items[t].core,
                           meta |-> born[t], edges |-> {}]
                     ELSE UpdateTransactionFromSync(txns[t], items[t])
           h == [t \in Txns |->
                  IF t \in new
                  THEN history[t] \o <<NewVersion("imported", TransactionSnapshot(row(t)))>>
                  ELSE IF t \in changed
                  THEN VersionChange(history[t], TransactionSnapshot(txns[t]),
                                     TransactionSnapshot(row(t)), "synced")
                  ELSE history[t]]
<1>3. DOMAIN items = ts
  OBVIOUS
<1>4. Recorded(h)
  BY <1>2, <1>3 DEF Persist
<1>5. ASSUME NEW t \in Txns PROVE h[t] \in Histories
  <2>1. history[t] \in Histories
    BY HistoryStays
  <2>2. \A u \in ts : items[u] \in [account : Accounts, core : Cores]
    BY DEF Accounts
  <2>3. CASE t \in new
    <3>1. row(t) = BornRow(items[t])
      BY <2>3 DEF BornRow
    <3>2. h[t] = history[t] \o <<NewVersion("imported", TransactionSnapshot(row(t)))>>
      BY <2>3
    <3> HIDE DEF row, h
    <3>3. GoodRow(row(t))
      BY <2>2, <2>3, <3>1, BornRowGood
    <3>4. QED
      BY <2>1, <3>2, <3>3, SnapOfRow, AppendedVersion DEF Kind
  <2>4. CASE t \in changed
    <3>1. row(t) = UpdateTransactionFromSync(txns[t], items[t]) /\ t \in DOMAIN txns /\ t \in ts
      BY <2>4
    <3>2. h[t] = VersionChange(history[t], TransactionSnapshot(txns[t]),
                               TransactionSnapshot(row(t)), "synced")
      BY <2>4
    <3> HIDE DEF row, h
    <3>3. GoodRow(row(t)) /\ GoodRow(txns[t])
      BY <2>2, <3>1, SyncedRowGood DEF Inv, TablesInv, GoodTable
    <3>4. QED
      BY <2>1, <3>2, <3>3, RowVersion DEF Kind
  <2>5. CASE t \notin new /\ t \notin changed
    BY <2>1, <2>5
  <2>6. QED
    BY <2>3, <2>4, <2>5
<1>6. h \in [Txns -> Histories]
  <2>1. h = [t \in Txns |-> h[t]]
    OBVIOUS
  <2> HIDE DEF h
  <2>2. QED
    BY <1>5, <2>1
<1> HIDE DEF h
<1>7. QED
  BY <1>4, <1>6, RecordedType

LEMMA RemoveHistory ==
    ASSUME HistoryInv, NEW as, NEW ts, Remove(as, ts)
    PROVE  HistoryInv'
<1>1. clock' = clock /\ history' = [t \in Txns |-> IF t \in ts THEN << >> ELSE history[t]]
  BY DEF Remove
<1>2. << >> \in Seq(VersionUpTo(clock))
  OBVIOUS
<1>3. history' \in [Txns -> Seq(VersionUpTo(clock))]
  BY <1>1, <1>2 DEF HistoryInv
<1>4. QED
  BY <1>1, <1>3 DEF HistoryInv

LEMMA PruneHistory ==
    ASSUME HistoryInv, NEW cutoff, PruneTransactionVersions(cutoff)
    PROVE  HistoryInv'
<1> DEFINE older(t) == {i \in DOMAIN history[t] : history[t][i].at < cutoff}
<1>1. /\ clock' = clock
      /\ history' = [t \in Txns |->
           SubSeq(history[t], Cardinality(older(t)) + 1, Len(history[t]))]
  BY DEF PruneTransactionVersions
<1>2. ASSUME NEW t \in Txns
      PROVE  SubSeq(history[t], Cardinality(older(t)) + 1, Len(history[t])) \in Seq(VersionUpTo(clock))
  <2>1. history[t] \in Seq(VersionUpTo(clock)) /\ Len(history[t]) \in Nat
    BY DEF HistoryInv
  <2>2. IsFiniteSet(1 .. Len(history[t]))
    BY <2>1, FS_Interval
  <2>3. older(t) \in SUBSET (1 .. Len(history[t]))
    BY <2>1
  <2> HIDE DEF older
  <2>4. Cardinality(older(t)) \in Nat
    BY <2>2, <2>3, FS_Subset, FS_CardinalityType
  <2>5. QED
    BY <2>1, <2>4
<1> HIDE DEF older
<1>3. QED
  BY <1>1, <1>2 DEF HistoryInv

LEMMA HistoryStep ==
    ASSUME Inv, HistoryInv, [Next]_vars
    PROVE  HistoryInv'
<1>1. ASSUME UNCHANGED <<history, clock>>
      PROVE  HistoryInv'
  BY <1>1 DEF HistoryInv
<1>2. CASE RuleStep
  <2>1. ASSUME NEW r \in Runners, RunWrite(r)
        PROVE  HistoryInv'
    BY <2>1, RunWriteHistory
  <2>2. ASSUME ~\E r \in Runners : RunWrite(r)
        PROVE  HistoryInv'
    BY <1>1, <1>2, <2>2 DEF RuleStep, CreateRule, UpdateRule, DeleteRule, RunFails,
                            RunAllRules, RunRule, UnapplyRule, ReadForRun
  <2>3. QED
    BY <2>1, <2>2
<1>3. CASE EntryStep
  <2>1. ASSUME NEW src \in Sources, PersistBatch(src)
        PROVE  HistoryInv'
    BY <2>1, PersistHistory
  <2>2. ASSUME NEW as, NEW ts, Remove(as, ts)
        PROVE  HistoryInv'
    BY <2>2, RemoveHistory
  <2>3. ASSUME NEW t \in Txns, NEW a \in Accounts, NEW c \in Cores,
               CreateManualTransaction(t, a, c) \/ UpdateTransactionCore(t, a, c)
        PROVE  HistoryInv'
    BY <2>3, ManualEntryHistory
  <2>4. ASSUME NEW a \in Accounts, NEW b \in Balances, CreateManualAccount(a, b) \/ UpdateAccount(a, b)
        PROVE  HistoryInv'
    BY <1>1, <2>4 DEF CreateManualAccount, UpdateAccount
  <2>5. ASSUME NEW src \in Sources, PurgeSource(src)
        PROVE  HistoryInv'
    BY <2>2, <2>5 DEF PurgeSource, DeleteAccounts
  <2>6. ASSUME NEW t \in Txns, DeleteTransaction(t)
        PROVE  HistoryInv'
    BY <2>2, <2>6 DEF DeleteTransaction
  <2>7. ASSUME NEW a \in Accounts, DeleteAccount(a)
        PROVE  HistoryInv'
    BY <2>2, <2>7 DEF DeleteAccount, DeleteAccounts
  <2>8. QED
    BY <1>3, <2>1, <2>3, <2>4, <2>5, <2>6, <2>7 DEF EntryStep
<1>4. CASE MetaStep
  <2>1. ASSUME NEW t \in Txns, Rewritten(t)
        PROVE  HistoryInv'
    BY <2>1, RewrittenHistory
  <2>2. ASSUME NEW k, NEW vs, DeleteLabel(k, vs)
        PROVE  HistoryInv'
    BY <1>1, <2>2 DEF DeleteLabel
  <2>3. ASSUME NEW t, NEW e, AddRelationship(t, e) \/ RemoveRelationship(t, e)
        PROVE  HistoryInv'
    BY <1>1, <2>3 DEF AddRelationship, RemoveRelationship, SetEdges
  <2>4. ASSUME NEW cutoff, PruneTransactionVersions(cutoff)
        PROVE  HistoryInv'
    BY <2>4, PruneHistory
  <2>5. QED
    BY <1>4, <2>1, <2>2, <2>3, <2>4, MetaCases
<1>5. CASE UNCHANGED vars
  BY <1>1, <1>5 DEF vars
<1>6. QED
  BY <1>2, <1>3, <1>4, <1>5 DEF Next

LEMMA HistoryInit == Init => HistoryInv
<1>1. \A S : << >> \in Seq(S)
  OBVIOUS
<1>2. QED
  BY <1>1, Bounds DEF Init, HistoryInv

\* Rows, rules and versions keep their types; no label or extension set and no
\* list of edges grows beyond its cap (Normalize, AddRelationship), and no
\* version lies in the future.
THEOREM TypeCorrect == Spec => []TypeOK
<1>1. Inv /\ HistoryInv => TypeOK
  <2> SUFFICES ASSUME Inv, HistoryInv PROVE TypeOK
    OBVIOUS
  <2>1. ASSUME NEW t \in Txns, NEW i \in DOMAIN history[t]
        PROVE  history[t][i] \in Version /\ history[t][i].at <= clock
    <3>1. history[t] \in Seq(VersionUpTo(clock))
      BY DEF HistoryInv
    <3>2. history[t][i] \in VersionUpTo(clock)
      BY <3>1
    <3>3. QED
      BY <3>2, Bounds DEF VersionUpTo, Version, Kind, HistoryInv
  <2>2. ASSUME NEW t \in DOMAIN txns
        PROVE  /\ txns[t] \in Row /\ Cardinality(txns[t].edges) <= MaxEdges
               /\ \A s \in Seams : Cardinality(Present(txns[t].meta[s])) <= MaxCount
    BY DEF Inv, TablesInv, GoodTable, GoodRow, Bounded
  <2>3. /\ DOMAIN accounts \subseteq Accounts /\ \A a \in DOMAIN accounts : accounts[a] \in Balances
        /\ DOMAIN txns \subseteq Txns
        /\ DOMAIN rules \subseteq minted \cap RuleIds
        /\ minted \subseteq ManualAccounts \cup ManualTxns \cup RuleIds
        /\ \A r \in Runners : run[r].op \in {"idle", "apply", "unapply"}
    BY DEF Inv, TablesInv, GoodTable, GoodRules, GoodJob
  <2>4. QED
    BY <2>1, <2>2, <2>3, Zenon DEF TypeOK
<1>2. Init => Inv /\ HistoryInv
  BY InvInit, HistoryInit
<1>3. Inv /\ HistoryInv /\ [Next]_vars => (Inv /\ HistoryInv)'
  BY InvStep, HistoryStep
<1>4. QED
  BY <1>1, <1>2, <1>3, PTL DEF Spec

-----------------------------------------------------------------------------
(***************************************************************************)
(* What the writers of the ledger leave behind and what they keep.  First  *)
(* that the committed events tell the ledger, if no write comes between    *)
(* the read and the write of a rule run: `told` is compared with the       *)
(* tables one action at a time.  Then what a run of the rules and a sync   *)
(* keep of a row.  Last that the history ends with the row and that each   *)
(* version differs from the one before in what its kind names.             *)
(***************************************************************************)
\* A run that read holds the transactions as they still are, and is alone.
SoleRun ==
  \A r \in Runners :
    /\ run[r].op = "idle" => run[r] = Idle
    /\ run[r].op # "idle" => /\ run[r].read = txns
                             /\ \A q \in Runners \ {r} : run[q].op = "idle"

\* The id of a manual transaction is not handed out twice, so a new one has no edges.
IdsMinted == DOMAIN txns \cap ManualTxns \subseteq minted

TablesTold ==
  /\ EventsTellLedger
  /\ accounts = [a \in DOMAIN accounts |-> accounts[a]]
  /\ txns = [t \in DOMAIN txns |-> txns[t]]

ToldInv == TablesTold /\ IdsMinted /\ SoleRun

-----------------------------------------------------------------------------
(***************************************************************************)
(* What the events of each kind do to a consumer.                          *)
(***************************************************************************)
View(A, T) == [accounts |-> A, txns |-> T]

LEMMA ToldView == TablesTold => told = View(accounts, txns)
BY DEF TablesTold, EventsTellLedger, View

LEMMA ViewAccounts ==
    ASSUME NEW A, NEW B, NEW T, NEW v, v = View(A, T)
    PROVE  v.accounts = A /\ [v EXCEPT !.accounts = B] = View(B, T)
BY DEF View

LEMMA TellAccountsView ==
    ASSUME NEW A, NEW T, NEW f
    PROVE  TellAccounts(View(A, T), f) = View(Over(f, A), T)
BY DEF TellAccounts, View

\* The table of a consumer after snapshots of some of its rows, old or new.
Snapshotted(T, f) ==
  Over([t \in DOMAIN f |->
     [account |-> f[t].account, core |-> f[t].core, meta |-> f[t].meta,
      edges |-> IF t \in DOMAIN T THEN T[t].edges ELSE {}]], T)

LEMMA TellSnapshotsView ==
    ASSUME NEW A, NEW T, NEW f
    PROVE  TellSnapshots(View(A, T), f) = View(A, Snapshotted(T, f))
BY DEF TellSnapshots, View, Snapshotted

\* The table of a consumer after the labels and extensions of some of its rows changed.
Refilled(T, new) ==
  [t \in DOMAIN T |-> IF t \in DOMAIN new THEN [T[t] EXCEPT !.meta = new[t]] ELSE T[t]]

LEMMA ToldMetaIsNew ==
    ASSUME NEW old, NEW new \in Meta
    PROVE  ToldMeta(old, old, new) = new
<1> DEFINE m == ToldMeta(old, old, new)
<1>1. \A s \in Seams : m[s] = [k \in Keys |-> new[s][k]]
  BY DEF ToldMeta
<1>2. \A s \in Seams : new[s] = [k \in Keys |-> new[s][k]]
  BY DEF Meta, Set, Seams
<1>3. new = [s \in Seams |-> new[s]]
  BY DEF Meta, Seams
<1>4. m = [s \in Seams |-> m[s]]
  BY DEF ToldMeta
<1> HIDE DEF m
<1>5. m = new
  BY <1>1, <1>2, <1>3, <1>4
<1>6. QED
  BY <1>5 DEF m

LEMMA TellMetaView ==
    ASSUME NEW A, NEW T, NEW old, NEW new, DOMAIN new = DOMAIN old,
           \A t \in DOMAIN T \cap DOMAIN old : old[t] = T[t].meta /\ new[t] \in Meta
    PROVE  TellMeta(View(A, T), old, new) = View(A, Refilled(T, new))
<1>1. TellMeta(View(A, T), old, new) =
        View(A, [t \in DOMAIN T |->
                  IF t \in DOMAIN old THEN [T[t] EXCEPT !.meta = ToldMeta(T[t].meta, old[t], new[t])]
                  ELSE T[t]])
  BY DEF TellMeta, View
<1>2. \A t \in DOMAIN T \cap DOMAIN old : ToldMeta(T[t].meta, old[t], new[t]) = new[t]
  BY ToldMetaIsNew
<1>3. QED
  BY <1>1, <1>2 DEF Refilled

\* The table of a consumer after the edges of some of its rows changed.
Relinked(T, new) ==
  [t \in DOMAIN T |-> IF t \in DOMAIN new THEN [T[t] EXCEPT !.edges = new[t]] ELSE T[t]]

LEMMA TellEdgesView ==
    ASSUME NEW A, NEW T, NEW old, NEW new, DOMAIN new = DOMAIN old,
           \A t \in DOMAIN T \cap DOMAIN old : old[t] = T[t].edges
    PROVE  TellEdges(View(A, T), old, new) = View(A, Relinked(T, new))
<1>1. TellEdges(View(A, T), old, new) =
        View(A, [t \in DOMAIN T |->
                  IF t \in DOMAIN old THEN [T[t] EXCEPT !.edges = ToldEdges(T[t].edges, old[t], new[t])]
                  ELSE T[t]])
  BY DEF TellEdges, View
<1>2. \A t \in DOMAIN T \cap DOMAIN old : ToldEdges(T[t].edges, old[t], new[t]) = new[t]
  BY DEF ToldEdges
<1>3. QED
  BY <1>1, <1>2 DEF Relinked

LEMMA TellDeletedView ==
    ASSUME NEW A, NEW T, NEW ts
    PROVE  TellDeleted(View(A, T), ts) = View(A, Without(T, ts))
BY DEF TellDeleted, View

-----------------------------------------------------------------------------
(***************************************************************************)
(* Runs.                                                                   *)
(***************************************************************************)
LEMMA SoleWhenQuiet ==
    ASSUME SoleRun, ~Overlap, Quiet, run' = run
    PROVE  SoleRun'
BY DEF SoleRun, Quiet

LEMMA SoleAfterRead ==
    ASSUME Inv, SoleRun, ~Overlap, NEW r \in Runners, NEW op \in {"apply", "unapply"}, NEW rs,
           ReadForRun(r, op, rs)
    PROVE  SoleRun'
<1>1. /\ run' = [run EXCEPT ![r] = [op |-> op, rules |-> rs, read |-> txns]] /\ txns' = txns
      /\ \A q \in Runners : run[q].op = "idle" /\ run[q] = Idle
  BY DEF ReadForRun, Quiet, SoleRun
<1>2. DOMAIN run = Runners
  BY DEF Inv, TablesInv
<1>3. /\ run'[r].op = op /\ run'[r].read = txns
      /\ \A q \in Runners \ {r} : run'[q] = Idle /\ run'[q].op = "idle"
  BY <1>1, <1>2
<1>4. QED
  BY <1>1, <1>3 DEF SoleRun

LEMMA SoleAfterRelease ==
    ASSUME Inv, SoleRun, NEW r \in Runners, run[r] # Idle, run' = [run EXCEPT ![r] = Idle]
    PROVE  SoleRun'
<1>1. \A q \in Runners \ {r} : run[q].op = "idle" /\ run[q] = Idle
  BY DEF SoleRun
<1>2. \A q \in Runners : run'[q] = Idle
  BY <1>1 DEF Inv, TablesInv
<1>3. Idle.op = "idle"
  BY DEF Idle
<1>4. QED
  BY <1>2, <1>3 DEF SoleRun

\* What a run writes is what it tells: the rows it read are the rows it writes to.
LEMMA RunWriteTold ==
    ASSUME Inv, TablesTold, SoleRun, NEW r \in Runners, RunWrite(r)
    PROVE  TablesTold'
<1> DEFINE read == run[r].read
           old == [t \in DOMAIN read |-> read[t].meta]
           new == [t \in DOMAIN read |-> Outcome(run[r], read[t])]
           filled(t) == [s \in Seams |-> IF new[t][s] # old[t][s] THEN new[t][s] ELSE txns[t].meta[s]]
<1>1. read = txns
  BY DEF RunWrite, SoleRun
<1>2. /\ txns' = [t \in DOMAIN txns |-> IF t \notin DOMAIN read THEN txns[t]
                                        ELSE [txns[t] EXCEPT !.meta = filled(t)]]
      /\ told' = TellMeta(told, old, new) /\ accounts' = accounts
  BY DEF RunWrite
<1>3. ASSUME NEW t \in DOMAIN txns
      PROVE  /\ old[t] = txns[t].meta /\ new[t] \in Meta
             /\ filled(t) = new[t]
  <2>1. GoodJob(run[r]) /\ GoodRow(read[t])
    BY <1>1 DEF Inv, TablesInv, GoodTable
  <2>2. /\ new[t] = Outcome(run[r], read[t]) /\ old[t] = txns[t].meta
        /\ \A s \in Seams : Bounded(s, new[t][s])
    BY <1>1, <2>1, OutcomeBounded
  <2>3. new[t] = [s \in Seams |-> new[t][s]]
    BY <2>2 DEF Outcome
  <2> HIDE DEF new, old
  <2>4. new[t] \in Meta
    BY <2>2, <2>3, MetaOfSeams DEF Bounded
  <2>5. filled(t) = [s \in Seams |-> new[t][s]]
    BY <2>2
  <2>6. QED
    BY <2>2, <2>3, <2>4, <2>5
<1>4. DOMAIN old = DOMAIN txns /\ DOMAIN new = DOMAIN txns
  BY <1>1
<1> HIDE DEF new, old, filled, read
<1>5. told' = View(accounts, Refilled(txns, new))
  <2>1. told = View(accounts, txns)
    BY ToldView
  <2>2. QED
    BY <1>2, <1>3, <1>4, <2>1, TellMetaView
<1>6. txns' = Refilled(txns, new)
  BY <1>1, <1>2, <1>3, <1>4 DEF Refilled
<1>7. QED
  BY <1>2, <1>5, <1>6 DEF TablesTold, EventsTellLedger, View, Refilled

-----------------------------------------------------------------------------
(***************************************************************************)
(* Accounts and manual entry.                                              *)
(***************************************************************************)
LEMMA OverOne ==
    ASSUME NEW f, f = [x \in DOMAIN f |-> f[x]], NEW a \in DOMAIN f, NEW b
    PROVE  Over(One(a, b), f) = [f EXCEPT ![a] = b]
BY DEF Over, One

LEMMA AccountTold ==
    ASSUME TablesTold, NEW a \in Accounts, NEW b \in Balances,
           CreateManualAccount(a, b) \/ UpdateAccount(a, b)
    PROVE  TablesTold'
<1>1. told' = TellAccounts(told, One(a, b)) /\ txns' = txns
  BY DEF CreateManualAccount, UpdateAccount
<1>2. told' = View(Over(One(a, b), accounts), txns)
  <2>1. told = View(accounts, txns)
    BY ToldView
  <2>2. QED
    BY <1>1, <2>1, TellAccountsView
<1>3. accounts' = Over(One(a, b), accounts)
  <2>1. CASE CreateManualAccount(a, b)
    BY <2>1 DEF CreateManualAccount
  <2>2. CASE UpdateAccount(a, b)
    <3>1. a \in DOMAIN accounts /\ accounts' = [accounts EXCEPT ![a] = b]
      BY <2>2 DEF UpdateAccount
    <3>2. accounts = [x \in DOMAIN accounts |-> accounts[x]]
      BY DEF TablesTold
    <3>3. QED
      BY <3>1, <3>2, OverOne
  <2>3. QED
    BY <2>1, <2>2
<1>4. accounts' = [x \in DOMAIN accounts' |-> accounts'[x]]
  BY <1>3 DEF Over
<1>5. QED
  BY <1>1, <1>2, <1>3, <1>4 DEF TablesTold, EventsTellLedger, View

LEMMA RowFields ==
    ASSUME NEW row, GoodRow(row)
    PROVE  row = [account |-> row.account, core |-> row.core, meta |-> row.meta, edges |-> row.edges]
BY DEF GoodRow, Row

\* A snapshot of one row, new or with the edges it had, tells that row.
LEMMA OneSnapshotTold ==
    ASSUME TablesTold, NEW t, NEW row, GoodRow(row),
           row.edges = (IF t \in DOMAIN txns THEN txns[t].edges ELSE {}),
           told' = TellSnapshots(told, One(t, TransactionSnapshot(row))),
           txns' = Over(One(t, row), txns), accounts' = accounts
    PROVE  TablesTold'
<1>1. told' = View(accounts, Snapshotted(txns, One(t, TransactionSnapshot(row))))
  <2>1. told = View(accounts, txns)
    BY ToldView
  <2>2. QED
    BY <2>1, TellSnapshotsView
<1>2. Snapshotted(txns, One(t, TransactionSnapshot(row))) = Over(One(t, row), txns)
  <2> DEFINE f == One(t, TransactionSnapshot(row))
             g == [u \in DOMAIN f |->
                    [account |-> f[u].account, core |-> f[u].core, meta |-> f[u].meta,
                     edges |-> IF u \in DOMAIN txns THEN txns[u].edges ELSE {}]]
  <2>1. DOMAIN f = {t} /\ f[t] = TransactionSnapshot(row)
    BY DEF One
  <2>2. g[t] = row
    BY <2>1, RowFields DEF TransactionSnapshot
  <2>3. g = One(t, row)
    <3>1. DOMAIN g = {t} /\ g = [u \in {t} |-> g[u]]
      BY <2>1
    <3> HIDE DEF g
    <3>2. QED
      BY <2>2, <3>1 DEF One
  <2>4. Snapshotted(txns, f) = Over(g, txns)
    BY DEF Snapshotted
  <2>5. QED
    BY <2>3, <2>4
<1>3. txns' = [u \in DOMAIN txns' |-> txns'[u]]
  BY DEF Over
<1>4. QED
  BY <1>1, <1>2, <1>3 DEF TablesTold, EventsTellLedger, View

LEMMA ManualEntryTold ==
    ASSUME Inv, TablesTold, IdsMinted, NEW t \in Txns, NEW a \in Accounts, NEW c \in Cores,
           CreateManualTransaction(t, a, c) \/ UpdateTransactionCore(t, a, c)
    PROVE  TablesTold'
<1>1. CASE CreateManualTransaction(t, a, c)
  <2> DEFINE row == [account |-> a, core |-> c, meta |-> NoMeta, edges |-> {}]
  <2>1. GoodRow(row) /\ row.edges = {}
    BY NewRow, NoMetaBounded
  <2>2. /\ txns' = Over(One(t, row), txns) /\ accounts' = accounts
        /\ told' = TellSnapshots(told, One(t, TransactionSnapshot(row)))
        /\ t \notin DOMAIN txns
    BY <1>1 DEF CreateManualTransaction, IdsMinted
  <2> HIDE DEF row
  <2>3. QED
    BY <2>1, <2>2, OneSnapshotTold
<1>2. CASE UpdateTransactionCore(t, a, c)
  <2> DEFINE row == [txns[t] EXCEPT !.account = a, !.core = c]
  <2>1. /\ t \in DOMAIN txns /\ txns' = [txns EXCEPT ![t] = row] /\ accounts' = accounts
        /\ told' = TellSnapshots(told, One(t, TransactionSnapshot(row)))
    BY <1>2 DEF UpdateTransactionCore
  <2>2. GoodRow(row) /\ row.edges = txns[t].edges
    BY <2>1 DEF Inv, TablesInv, GoodTable, GoodRow, Row
  <2> HIDE DEF row
  <2>3. txns' = Over(One(t, row), txns)
    BY <2>1, OverOne DEF TablesTold
  <2>4. QED
    BY <2>1, <2>2, <2>3, OneSnapshotTold
<1>3. QED
  BY <1>1, <1>2

-----------------------------------------------------------------------------
(***************************************************************************)
(* A sync.  Accounts that moved and transactions that are new or changed   *)
(* are told whole, a new one without the labels and extensions the rules   *)
(* gave it; those follow.                                                  *)
(***************************************************************************)
\* What is not told of an account is what did not move.
LEMMA MovedAccounts ==
    ASSUME NEW A, A = [a \in DOMAIN A |-> A[a]], NEW accts,
           NEW f, f = [a \in {b \in DOMAIN accts : b \notin DOMAIN A \/ A[b] # accts[b]} |-> accts[a]]
    PROVE  Over(f, A) = Over(accts, A)
BY DEF Over

\* An item that differs in nothing the source owns leaves the row as it is.
LEMMA SyncedRowSame ==
    ASSUME NEW row, GoodRow(row), NEW item, row.account = item.account, row.core = item.core
    PROVE  UpdateTransactionFromSync(row, item) = row
BY DEF GoodRow, Row, UpdateTransactionFromSync

LEMMA PersistTold ==
    ASSUME Inv, TablesTold, NEW src, PersistBatch(src)
    PROVE  TablesTold'
<1>1. PICK as \in SUBSET SyncedAccounts, ts \in SUBSET SyncedTxns :
        \E accts \in [as -> Balances], items \in [ts -> [account : as, core : Cores]] :
          Persist(accts, items)
  BY DEF PersistBatch
<1>2. PICK accts \in [as -> Balances], items \in [ts -> [account : as, core : Cores]] :
        Persist(accts, items)
  BY <1>1
<1> DEFINE new == ts \ DOMAIN txns
           born == [t \in new |-> BirthMeta(items[t].core)]
           changed == {t \in ts \cap DOMAIN txns :
                         txns[t].account # items[t].account \/ txns[t].core # items[t].core}
           row(t) == IF t \in new
                     THEN [account |-> items[t].account, core |-> items[t].core,
                           meta |-> born[t], edges |-> {}]
                     ELSE UpdateTransactionFromSync(txns[t], items[t])
           moved == {a \in as : a \notin DOMAIN accounts \/ accounts[a] # accts[a]}
           f == [a \in moved |-> accts[a]]
           empty == [t \in new |-> [TransactionSnapshot(row(t)) EXCEPT !.meta = NoMeta]]
           g == Over(empty, [t \in changed |-> TransactionSnapshot(row(t))])
           none == [t \in new |-> NoMeta]
           S == Snapshotted(txns, g)
<1>3. DOMAIN accts = as /\ DOMAIN items = ts
  OBVIOUS
<1>4. /\ accounts' = Over(accts, accounts)
      /\ txns' = Over([t \in ts |-> row(t)], txns)
      /\ told' = TellMeta(TellSnapshots(TellAccounts(told, f), g), none, born)
  BY <1>2, <1>3 DEF Persist
<1>5. ASSUME NEW t \in ts
      PROVE  items[t] \in [account : Accounts, core : Cores]
  BY DEF Accounts
<1>6. ASSUME NEW t \in new
      PROVE  /\ row(t) = BornRow(items[t]) /\ born[t] = BirthMeta(items[t].core)
             /\ born[t] \in Meta
  <2>1. row(t) = BornRow(items[t]) /\ born[t] = BirthMeta(items[t].core)
    BY DEF BornRow
  <2>2. GoodRow(BornRow(items[t]))
    BY <1>5, BornRowGood
  <2>3. QED
    BY <2>1, <2>2 DEF GoodRow, Row, BornRow
<1>7. ASSUME NEW t \in ts \ new
      PROVE  /\ row(t) = UpdateTransactionFromSync(txns[t], items[t])
             /\ GoodRow(row(t)) /\ row(t).edges = txns[t].edges
             /\ t \notin changed => row(t) = txns[t]
  <2>1. row(t) = UpdateTransactionFromSync(txns[t], items[t]) /\ t \in DOMAIN txns
    OBVIOUS
  <2>2. t \notin changed => txns[t].account = items[t].account /\ txns[t].core = items[t].core
    OBVIOUS
  <2> HIDE DEF row, changed
  <2>3. GoodRow(txns[t])
    BY <2>1 DEF Inv, TablesInv, GoodTable
  <2>4. t \notin changed => row(t) = txns[t]
    BY <2>1, <2>2, <2>3, SyncedRowSame
  <2>5. GoodRow(row(t)) /\ row(t).edges = txns[t].edges
    BY <1>5, <2>1, SyncedRowGood
  <2>6. QED
    BY <2>1, <2>4, <2>5
<1>8. /\ DOMAIN g = new \cup changed
      /\ \A t \in new : g[t] = [TransactionSnapshot(row(t)) EXCEPT !.meta = NoMeta]
      /\ \A t \in changed : g[t] = TransactionSnapshot(row(t))
  BY DEF Over
<1>9. /\ changed \subseteq ts \cap DOMAIN txns /\ new \cup (ts \cap DOMAIN txns) = ts
      /\ new \cap DOMAIN txns = {} /\ new \subseteq ts
      /\ DOMAIN none = new /\ DOMAIN born = new /\ \A t \in new : none[t] = NoMeta
  OBVIOUS
<1>10. accounts = [a \in DOMAIN accounts |-> accounts[a]]
  BY DEF TablesTold
<1>11. Over(f, accounts) = Over(accts, accounts)
  BY <1>3, <1>10, MovedAccounts
<1> HIDE DEF row, born, none, changed, new, g, f, moved
<1>12. /\ DOMAIN S = ts \cup DOMAIN txns
       /\ \A t \in new : S[t] = [account |-> items[t].account, core |-> items[t].core,
                                 meta |-> NoMeta, edges |-> {}]
       /\ \A t \in changed : S[t] = row(t)
       /\ \A t \in DOMAIN txns \ changed : S[t] = txns[t]
  <2>1. /\ DOMAIN S = new \cup changed \cup DOMAIN txns
        /\ \A t \in new \cup changed :
             S[t] = [account |-> g[t].account, core |-> g[t].core, meta |-> g[t].meta,
                     edges |-> IF t \in DOMAIN txns THEN txns[t].edges ELSE {}]
        /\ \A t \in DOMAIN txns \ (new \cup changed) : S[t] = txns[t]
    BY <1>8 DEF Snapshotted, Over
  <2> HIDE DEF S
  <2>2. DOMAIN S = ts \cup DOMAIN txns /\ \A t \in DOMAIN txns \ changed : S[t] = txns[t]
    BY <1>9, <2>1
  <2>3. ASSUME NEW t \in new
        PROVE  S[t] = [account |-> items[t].account, core |-> items[t].core,
                       meta |-> NoMeta, edges |-> {}]
    <3>1. TransactionSnapshot(row(t)) = [account |-> items[t].account, core |-> items[t].core,
                                         meta |-> BirthMeta(items[t].core)]
      BY <1>6 DEF TransactionSnapshot, BornRow
    <3>2. g[t] = [account |-> items[t].account, core |-> items[t].core, meta |-> NoMeta]
      BY <1>8, <3>1
    <3>3. t \notin DOMAIN txns
      BY <1>9
    <3>4. S[t] = [account |-> g[t].account, core |-> g[t].core, meta |-> g[t].meta, edges |-> {}]
      BY <2>1, <3>3
    <3>5. QED
      BY <3>2, <3>4
  <2>4. ASSUME NEW t \in changed
        PROVE  S[t] = row(t)
    <3>1. GoodRow(row(t)) /\ row(t).edges = txns[t].edges
      BY <1>7, <1>9
    <3>2. S[t] = [account |-> row(t).account, core |-> row(t).core,
                  meta |-> row(t).meta, edges |-> row(t).edges]
      <4>1. g[t] = [account |-> row(t).account, core |-> row(t).core, meta |-> row(t).meta]
        BY <1>8 DEF TransactionSnapshot
      <4>2. t \in DOMAIN txns
        BY <1>9
      <4>3. S[t] = [account |-> g[t].account, core |-> g[t].core, meta |-> g[t].meta,
                    edges |-> txns[t].edges]
        BY <2>1, <4>2
      <4>4. /\ g[t].account = row(t).account /\ g[t].core = row(t).core
            /\ g[t].meta = row(t).meta /\ txns[t].edges = row(t).edges
        BY <3>1, <4>1
      <4>5. QED
        BY <4>3, <4>4, Zenon
    <3>3. QED
      BY <3>1, <3>2, RowFields
  <2>5. QED
    BY <2>2, <2>3, <2>4
<1>13. told' = View(accounts', Refilled(S, born))
  <2>1. told = View(accounts, txns)
    BY ToldView
  <2>2. TellSnapshots(TellAccounts(told, f), g) = View(accounts', S)
    BY <1>4, <1>11, <2>1, TellAccountsView, TellSnapshotsView
  <2> HIDE DEF S
  <2>3. ASSUME NEW t \in DOMAIN S \cap DOMAIN none
        PROVE  none[t] = S[t].meta /\ born[t] \in Meta
    <3>1. t \in new
      BY <1>9
    <3>2. S[t] = [account |-> items[t].account, core |-> items[t].core,
                  meta |-> NoMeta, edges |-> {}]
      BY <1>12, <3>1
    <3>3. S[t].meta = NoMeta
      BY <3>2
    <3>4. QED
      BY <1>6, <1>9, <3>1, <3>3
  <2>4. QED
    BY <1>4, <1>9, <2>2, <2>3, TellMetaView
<1> HIDE DEF S
<1>14. Refilled(S, born) = txns'
  <2>1. /\ DOMAIN txns' = ts \cup DOMAIN txns /\ txns' = [t \in DOMAIN txns' |-> txns'[t]]
        /\ \A t \in ts : txns'[t] = row(t)
        /\ \A t \in DOMAIN txns \ ts : txns'[t] = txns[t]
    BY <1>4 DEF Over
  <2>2. /\ Refilled(S, born) = [t \in DOMAIN S |-> Refilled(S, born)[t]]
        /\ \A t \in DOMAIN S \ new : Refilled(S, born)[t] = S[t]
        /\ \A t \in new : Refilled(S, born)[t] = [S[t] EXCEPT !.meta = born[t]]
    BY <1>9, <1>12 DEF Refilled
  <2>3. ASSUME NEW t \in new
        PROVE  [S[t] EXCEPT !.meta = born[t]] = row(t)
    <3>1. S[t] = [account |-> items[t].account, core |-> items[t].core,
                  meta |-> NoMeta, edges |-> {}]
      BY <1>12
    <3>2. row(t) = [account |-> items[t].account, core |-> items[t].core,
                    meta |-> born[t], edges |-> {}]
      BY <1>6 DEF BornRow
    <3>3. /\ [S[t] EXCEPT !.meta = born[t]] =
               [[account |-> items[t].account, core |-> items[t].core,
                 meta |-> NoMeta, edges |-> {}] EXCEPT !.meta = born[t]]
      BY <3>1, Zenon
    <3>4. QED
      BY <3>2, <3>3
  <2>4. ASSUME NEW t \in DOMAIN S
        PROVE  Refilled(S, born)[t] = txns'[t]
    <3>1. CASE t \in new
      BY <1>9, <2>1, <2>2, <2>3, <3>1
    <3>2. CASE t \in changed
      BY <1>9, <1>12, <2>1, <2>2, <3>2
    <3>3. CASE t \in ts /\ t \notin new /\ t \notin changed
      <4>1. S[t] = txns[t] /\ row(t) = txns[t]
        BY <1>7, <1>9, <1>12, <3>3
      <4>2. QED
        BY <2>1, <2>2, <3>3, <4>1
    <3>4. CASE t \notin ts
      BY <1>9, <1>12, <2>1, <2>2, <3>4
    <3>5. QED
      BY <3>1, <3>2, <3>3, <3>4
  <2>5. QED
    BY <1>12, <2>1, <2>2, <2>4
<1>15. /\ accounts' = [a \in DOMAIN accounts' |-> accounts'[a]]
       /\ txns' = [t \in DOMAIN txns' |-> txns'[t]]
  BY <1>4 DEF Over
<1>16. QED
  BY <1>13, <1>14, <1>15 DEF TablesTold, EventsTellLedger, View

-----------------------------------------------------------------------------
(***************************************************************************)
(* Deletions, and writes of one transaction's labels, extensions, edges.   *)
(***************************************************************************)
\* The edges that go are told before the rows that go.
LEMMA RemoveTold ==
    ASSUME Inv, TablesTold, NEW as, NEW ts, Remove(as, ts)
    PROVE  TablesTold'
<1> DEFINE left == Stripped(ts)
           old == [t \in DOMAIN left |-> txns[t].edges]
           new == [t \in DOMAIN left |-> left[t].edges]
<1>1. /\ accounts' = Without(accounts, as) /\ txns' = left
      /\ told' = [TellDeleted(TellEdges(told, old, new), ts) EXCEPT !.accounts = Without(@, as)]
  BY DEF Remove
<1>2. /\ DOMAIN left = DOMAIN txns \ ts /\ left = [t \in DOMAIN left |-> left[t]]
      /\ DOMAIN old = DOMAIN left /\ DOMAIN new = DOMAIN left
      /\ \A t \in DOMAIN left : old[t] = txns[t].edges /\ new[t] = left[t].edges
  BY DEF Stripped
<1>3. ASSUME NEW t \in DOMAIN left
      PROVE  left[t] = [txns[t] EXCEPT !.edges = new[t]]
  <2> DEFINE es == {e \in txns[t].edges : e.target \notin ts}
  <2>1. left[t] = [txns[t] EXCEPT !.edges = es]
    BY DEF Stripped
  <2>2. GoodRow(txns[t])
    BY <1>2 DEF Inv, TablesInv, GoodTable
  <2> HIDE DEF es, new, left
  <2>3. left[t].edges = es
    BY <2>1, <2>2 DEF GoodRow, Row
  <2>4. QED
    BY <1>2, <2>1, <2>3
<1> HIDE DEF left, old, new
<1>4. TellDeleted(TellEdges(told, old, new), ts) = View(accounts, Without(Relinked(txns, new), ts))
  <2>1. told = View(accounts, txns)
    BY ToldView
  <2>2. \A t \in DOMAIN txns \cap DOMAIN old : old[t] = txns[t].edges
    BY <1>2
  <2>3. TellEdges(told, old, new) = View(accounts, Relinked(txns, new))
    BY <1>2, <2>1, <2>2, TellEdgesView
  <2>4. QED
    BY <2>3, TellDeletedView
<1>5. told' = View(Without(accounts, as), Without(Relinked(txns, new), ts))
  <2> DEFINE v == TellDeleted(TellEdges(told, old, new), ts)
             T == Without(Relinked(txns, new), ts)
  <2>1. told' = [v EXCEPT !.accounts = Without(v.accounts, as)]
    BY <1>1
  <2>2. v = View(accounts, T)
    BY <1>4
  <2> HIDE DEF v, T
  <2>3. v.accounts = accounts
    BY <2>2 DEF View
  <2>4. \A B : [v EXCEPT !.accounts = B] = View(B, T)
    BY <2>2, ViewAccounts
  <2>5. told' = View(Without(accounts, as), T)
    BY <2>1, <2>3, <2>4
  <2>6. QED
    BY <2>5 DEF T
<1>6. Without(Relinked(txns, new), ts) = left
  <2> DEFINE w == Without(Relinked(txns, new), ts)
  <2>1. /\ w = [t \in DOMAIN left |-> w[t]]
        /\ \A t \in DOMAIN left : w[t] = [txns[t] EXCEPT !.edges = new[t]]
    BY <1>2 DEF Without, Relinked
  <2> HIDE DEF w
  <2>2. w = left
    BY <1>2, <1>3, <2>1
  <2>3. QED
    BY <2>2 DEF w
<1>7. /\ accounts' = [a \in DOMAIN accounts' |-> accounts'[a]]
      /\ txns' = [t \in DOMAIN txns' |-> txns'[t]]
  BY <1>1, <1>2 DEF Without
<1>8. QED
  BY <1>1, <1>5, <1>6, <1>7 DEF TablesTold, EventsTellLedger, View

LEMMA RewrittenTold ==
    ASSUME Inv, TablesTold, NEW t, Rewritten(t)
    PROVE  TablesTold'
<1>1. PICK s \in Seams, kind \in Kind : \E n :
        t \in DOMAIN txns /\ Bounded(s, n) /\ WriteSet(t, s, n, kind)
  BY DEF Rewritten
<1>2. PICK n : t \in DOMAIN txns /\ Bounded(s, n) /\ WriteSet(t, s, n, kind)
  BY <1>1
<1> DEFINE row == [txns[t] EXCEPT !.meta[s] = n]
<1>3. /\ txns' = [txns EXCEPT ![t] = row] /\ accounts' = accounts
      /\ told' = TellMeta(told, One(t, txns[t].meta), One(t, row.meta))
  BY <1>2 DEF WriteSet
<1>4. GoodRow(txns[t])
  BY <1>2 DEF Inv, TablesInv, GoodTable
<1>5. GoodRow(row)
  BY <1>2, <1>4, WithSet
<1>6. [txns[t] EXCEPT !.meta = row.meta] = row
  <2> DEFINE r == txns[t]
             m == [r.meta EXCEPT ![s] = n]
  <2>1. row = [r EXCEPT !.meta = m]
    OBVIOUS
  <2>2. r \in Row
    BY <1>4 DEF GoodRow
  <2> HIDE DEF row, r, m
  <2>3. row.meta = m
    BY <2>1, <2>2 DEF Row
  <2>4. [r EXCEPT !.meta = row.meta] = row
    BY <2>1, <2>3
  <2>5. QED
    BY <2>4 DEF r
<1> HIDE DEF row
<1>7. told' = View(accounts, Refilled(txns, One(t, row.meta)))
  <2>1. told = View(accounts, txns)
    BY ToldView
  <2>2. row.meta \in Meta
    BY <1>5 DEF GoodRow, Row
  <2>3. /\ DOMAIN One(t, txns[t].meta) = {t} /\ DOMAIN One(t, row.meta) = {t}
        /\ One(t, txns[t].meta)[t] = txns[t].meta /\ One(t, row.meta)[t] = row.meta
    BY DEF One
  <2>4. \A u \in DOMAIN txns \cap DOMAIN One(t, txns[t].meta) :
          One(t, txns[t].meta)[u] = txns[u].meta /\ One(t, row.meta)[u] \in Meta
    BY <2>2, <2>3
  <2>5. QED
    BY <1>3, <2>1, <2>3, <2>4, TellMetaView
<1>8. txns' = Refilled(txns, One(t, row.meta))
  <2>1. txns = [u \in DOMAIN txns |-> txns[u]]
    BY DEF TablesTold
  <2>2. QED
    BY <1>2, <1>3, <1>6, <2>1 DEF Refilled, One
<1>9. QED
  BY <1>3, <1>7, <1>8 DEF TablesTold, EventsTellLedger, View, Refilled

LEMMA DeleteLabelTold ==
    ASSUME TablesTold, NEW k \in Keys, NEW vs, DeleteLabel(k, vs)
    PROVE  TablesTold'
<1> DEFINE strip(tbl) ==
             [t \in DOMAIN tbl |-> IF tbl[t].meta["labels"][k] \in vs
                                   THEN [tbl[t] EXCEPT !.meta["labels"][k] = NoVal] ELSE tbl[t]]
<1>1. /\ txns' = strip(txns) /\ told' = [told EXCEPT !.txns = strip(@)] /\ accounts' = accounts
  BY DEF DeleteLabel
<1>2. txns' = [t \in DOMAIN txns' |-> txns'[t]]
  BY <1>1
<1>3. told = View(accounts, txns)
  BY ToldView
<1> HIDE DEF strip
<1>4. told' = View(accounts, strip(txns))
  BY <1>1, <1>3 DEF View
<1>5. QED
  BY <1>1, <1>2, <1>4 DEF TablesTold, EventsTellLedger, View

LEMMA EdgeTold ==
    ASSUME TablesTold, NEW t \in DOMAIN txns, NEW es, SetEdges(t, es)
    PROVE  TablesTold'
<1>1. /\ txns' = [txns EXCEPT ![t].edges = es] /\ accounts' = accounts
      /\ told' = TellEdges(told, One(t, txns[t].edges), One(t, es))
  BY DEF SetEdges
<1>2. told' = View(accounts, Relinked(txns, One(t, es)))
  <2>1. told = View(accounts, txns)
    BY ToldView
  <2>2. /\ DOMAIN One(t, txns[t].edges) = {t} /\ DOMAIN One(t, es) = {t}
        /\ \A u \in DOMAIN txns \cap DOMAIN One(t, txns[t].edges) :
             One(t, txns[t].edges)[u] = txns[u].edges
    BY DEF One
  <2>3. QED
    BY <1>1, <2>1, <2>2, TellEdgesView
<1>3. txns' = Relinked(txns, One(t, es))
  <2>1. txns = [u \in DOMAIN txns |-> txns[u]]
    BY DEF TablesTold
  <2>2. QED
    BY <1>1, <2>1 DEF Relinked, One
<1>4. QED
  BY <1>1, <1>2, <1>3 DEF TablesTold, EventsTellLedger, View, Relinked

-----------------------------------------------------------------------------
(***************************************************************************)
(* The ids that were handed out, and the runs that are under way.          *)
(***************************************************************************)
LEMMA FewerRows ==
    ASSUME IdsMinted, DOMAIN txns' \subseteq DOMAIN txns, minted \subseteq minted'
    PROVE  IdsMinted'
BY DEF IdsMinted

LEMMA EntryIds ==
    ASSUME IdsMinted, EntryStep
    PROVE  IdsMinted'
<1>1. ASSUME NEW src, PersistBatch(src)
      PROVE  IdsMinted'
  <2>1. PICK as \in SUBSET SyncedAccounts, ts \in SUBSET SyncedTxns :
          \E accts \in [as -> Balances], items \in [ts -> [account : as, core : Cores]] :
            Persist(accts, items)
    BY <1>1 DEF PersistBatch
  <2>2. DOMAIN txns' = ts \cup DOMAIN txns /\ minted' = minted
    BY <2>1 DEF Persist, Over
  <2>3. QED
    BY <2>2, LedgerAssumption DEF IdsMinted
<1>2. ASSUME NEW as, NEW ts, Remove(as, ts)
      PROVE  IdsMinted'
  <2>1. DOMAIN txns' \subseteq DOMAIN txns /\ minted' = minted
    BY <1>2 DEF Remove, Stripped
  <2>2. QED
    BY <2>1, FewerRows
<1>3. ASSUME NEW t, NEW a, NEW c, CreateManualTransaction(t, a, c)
      PROVE  IdsMinted'
  <2>1. DOMAIN txns' = {t} \cup DOMAIN txns /\ minted' = minted \cup {t}
    BY <1>3 DEF CreateManualTransaction, Over, One
  <2>2. QED
    BY <2>1 DEF IdsMinted
<1>4. ASSUME NEW t, NEW a, NEW c, UpdateTransactionCore(t, a, c)
      PROVE  IdsMinted'
  BY <1>4 DEF UpdateTransactionCore, IdsMinted
<1>5. ASSUME NEW a, NEW b, CreateManualAccount(a, b) \/ UpdateAccount(a, b)
      PROVE  IdsMinted'
  BY <1>5, FewerRows DEF CreateManualAccount, UpdateAccount
<1>6. ASSUME NEW a, NEW t, NEW src, DeleteTransaction(t) \/ DeleteAccount(a) \/ PurgeSource(src)
      PROVE  IdsMinted'
  BY <1>2, <1>6 DEF DeleteTransaction, DeleteAccount, PurgeSource, DeleteAccounts
<1>7. QED
  BY <1>1, <1>3, <1>4, <1>5, <1>6 DEF EntryStep

LEMMA EntryQuiet ==
    ASSUME EntryStep
    PROVE  Quiet /\ run' = run
<1>1. ASSUME NEW src, PersistBatch(src) PROVE Quiet /\ run' = run
  BY <1>1 DEF PersistBatch, Persist
<1>2. ASSUME NEW src, PurgeSource(src) PROVE Quiet /\ run' = run
  BY <1>2 DEF PurgeSource, DeleteAccounts, Remove
<1>3. ASSUME NEW a, NEW b, CreateManualAccount(a, b) \/ UpdateAccount(a, b) PROVE Quiet /\ run' = run
  BY <1>3 DEF CreateManualAccount, UpdateAccount
<1>4. ASSUME NEW t, NEW a, NEW c, CreateManualTransaction(t, a, c) \/ UpdateTransactionCore(t, a, c)
      PROVE  Quiet /\ run' = run
  BY <1>4 DEF CreateManualTransaction, UpdateTransactionCore
<1>5. ASSUME NEW t, DeleteTransaction(t) PROVE Quiet /\ run' = run
  BY <1>5 DEF DeleteTransaction, Remove
<1>6. ASSUME NEW a, DeleteAccount(a) PROVE Quiet /\ run' = run
  BY <1>6 DEF DeleteAccount, DeleteAccounts, Remove
<1>7. QED
  BY <1>1, <1>2, <1>3, <1>4, <1>5, <1>6 DEF EntryStep

LEMMA MetaQuiet ==
    ASSUME MetaStep
    PROVE  Quiet /\ run' = run
<1>1. ASSUME NEW t, NEW m, UpdateTransactionLabels(t, m) \/ HostApplyLabels(t, m) \/ SetExtensions(t, m)
      PROVE  Quiet /\ run' = run
  BY <1>1 DEF UpdateTransactionLabels, HostApplyLabels, SetExtensions, HostWrite, WriteSet
<1>2. ASSUME NEW t, NEW ks, HostRemoveLabels(t, ks) PROVE Quiet /\ run' = run
  BY <1>2 DEF HostRemoveLabels, HostWrite, WriteSet
<1>3. ASSUME NEW t, NEW k, HostRemoveExtension(t, k) PROVE Quiet /\ run' = run
  BY <1>3 DEF HostRemoveExtension, HostWrite, WriteSet
<1>4. ASSUME NEW t, NEW k, NEW v, HostSetExtension(t, k, v) PROVE Quiet /\ run' = run
  BY <1>4 DEF HostSetExtension, HostWrite, WriteSet
<1>5. ASSUME NEW k, NEW vs, DeleteLabel(k, vs) PROVE Quiet /\ run' = run
  BY <1>5 DEF DeleteLabel
<1>6. ASSUME NEW t, NEW e, AddRelationship(t, e) \/ RemoveRelationship(t, e) PROVE Quiet /\ run' = run
  BY <1>6 DEF AddRelationship, RemoveRelationship, SetEdges
<1>7. ASSUME NEW cutoff, PruneTransactionVersions(cutoff) PROVE Quiet /\ run' = run
  BY <1>7 DEF PruneTransactionVersions
<1>8. QED
  BY <1>1, <1>2, <1>3, <1>4, <1>5, <1>6, <1>7 DEF MetaStep

-----------------------------------------------------------------------------
(***************************************************************************)
(* Every step keeps the events true to the ledger.                         *)
(***************************************************************************)
LEMMA RuleToldStep ==
    ASSUME Inv, ToldInv, ~Overlap, RuleStep
    PROVE  ToldInv'
<1> USE DEF ToldInv
<1>1. ASSUME UNCHANGED <<accounts, txns, minted, told>>
      PROVE  TablesTold' /\ IdsMinted'
  BY <1>1 DEF TablesTold, EventsTellLedger, IdsMinted
<1>2. ASSUME NEW i, NEW b, CreateRule(i, b) \/ UpdateRule(i, b) \/ DeleteRule(i)
      PROVE  ToldInv'
  <2>1. /\ Quiet /\ run' = run /\ UNCHANGED <<accounts, txns, told>>
        /\ minted \subseteq minted'
    BY <1>2 DEF CreateRule, UpdateRule, DeleteRule
  <2>2. TablesTold' /\ IdsMinted'
    BY <2>1 DEF TablesTold, EventsTellLedger, IdsMinted
  <2>3. QED
    BY <2>1, <2>2, SoleWhenQuiet
<1>3. ASSUME NEW r \in Runners, NEW op \in {"apply", "unapply"}, NEW rs, ReadForRun(r, op, rs)
      PROVE  ToldInv'
  <2>1. UNCHANGED <<accounts, txns, minted, told>>
    BY <1>3 DEF ReadForRun
  <2>2. QED
    BY <1>1, <1>3, <2>1, SoleAfterRead
<1>4. ASSUME NEW r \in Runners, RunWrite(r)
      PROVE  ToldInv'
  <2>1. run[r] # Idle /\ run' = [run EXCEPT ![r] = Idle] /\ minted' = minted
    BY <1>4 DEF RunWrite
  <2>2. DOMAIN txns' = DOMAIN txns
    BY <1>4 DEF RunWrite
  <2>3. QED
    BY <1>4, <2>1, <2>2, RunWriteTold, SoleAfterRelease, FewerRows
<1>5. ASSUME NEW r \in Runners, RunFails(r)
      PROVE  ToldInv'
  <2>1. /\ run[r] # Idle /\ run' = [run EXCEPT ![r] = Idle]
        /\ UNCHANGED <<accounts, txns, minted, told>>
    BY <1>5 DEF RunFails
  <2>2. QED
    BY <1>1, <2>1, SoleAfterRelease
<1>6. ASSUME NEW r \in Runners, NEW i, RunAllRules(r) \/ RunRule(r, i) \/ UnapplyRule(r, i)
      PROVE  ToldInv'
  BY <1>3, <1>6 DEF RunAllRules, RunRule, UnapplyRule
<1>7. QED
  BY <1>2, <1>4, <1>5, <1>6 DEF RuleStep

LEMMA EntryToldStep ==
    ASSUME Inv, ToldInv, ~Overlap, EntryStep
    PROVE  ToldInv'
<1> USE DEF ToldInv
<1>1. SoleRun' /\ IdsMinted'
  BY EntryQuiet, EntryIds, SoleWhenQuiet
<1>2. ASSUME NEW src, PurgeSource(src)
      PROVE  TablesTold'
  BY <1>2, RemoveTold DEF PurgeSource, DeleteAccounts
<1>3. ASSUME NEW t, NEW a, DeleteTransaction(t) \/ DeleteAccount(a)
      PROVE  TablesTold'
  BY <1>3, RemoveTold DEF DeleteTransaction, DeleteAccount, DeleteAccounts
<1>4. TablesTold'
  BY <1>2, <1>3, PersistTold, AccountTold, ManualEntryTold DEF EntryStep
<1>5. QED
  BY <1>1, <1>4

LEMMA MetaToldStep ==
    ASSUME Inv, ToldInv, ~Overlap, MetaStep
    PROVE  ToldInv'
<1> USE DEF ToldInv
<1>1. SoleRun'
  BY MetaQuiet, SoleWhenQuiet
<1>2. ASSUME NEW t \in Txns, Rewritten(t)
      PROVE  TablesTold' /\ IdsMinted'
  <2>1. DOMAIN txns' = DOMAIN txns /\ minted' = minted
    BY <1>2 DEF Rewritten, WriteSet
  <2>2. QED
    BY <1>2, <2>1, RewrittenTold, FewerRows
<1>3. ASSUME NEW k \in Keys, NEW vs, DeleteLabel(k, vs)
      PROVE  TablesTold' /\ IdsMinted'
  <2>1. DOMAIN txns' = DOMAIN txns /\ minted' = minted
    BY <1>3 DEF DeleteLabel
  <2>2. QED
    BY <1>3, <2>1, DeleteLabelTold, FewerRows
<1>4. ASSUME NEW t \in Txns, NEW e \in Edge, AddRelationship(t, e) \/ RemoveRelationship(t, e)
      PROVE  TablesTold' /\ IdsMinted'
  <2>1. PICK es : t \in DOMAIN txns /\ SetEdges(t, es)
    BY <1>4 DEF AddRelationship, RemoveRelationship
  <2>2. DOMAIN txns' = DOMAIN txns /\ minted' = minted
    BY <2>1 DEF SetEdges
  <2>3. QED
    BY <2>1, <2>2, EdgeTold, FewerRows
<1>5. ASSUME NEW cutoff, PruneTransactionVersions(cutoff)
      PROVE  TablesTold' /\ IdsMinted'
  BY <1>5 DEF PruneTransactionVersions, TablesTold, EventsTellLedger, IdsMinted
<1>6. TablesTold' /\ IdsMinted'
  BY <1>2, <1>3, <1>4, <1>5, MetaCases
<1>7. QED
  BY <1>1, <1>6

LEMMA ToldStep ==
    ASSUME Inv, ToldInv, ~Overlap, [Next]_vars
    PROVE  ToldInv'
<1>1. CASE UNCHANGED vars
  BY <1>1 DEF vars, ToldInv, TablesTold, EventsTellLedger, IdsMinted, SoleRun
<1>2. QED
  BY <1>1, RuleToldStep, EntryToldStep, MetaToldStep DEF Next

LEMMA ToldInit == Init => ToldInv
<1>1. Init => TablesTold /\ IdsMinted
  BY DEF Init, Nothing, TablesTold, EventsTellLedger, IdsMinted
<1>2. Init => \A r \in Runners : run[r] = Idle
  BY DEF Init
<1>3. QED
  BY <1>1, <1>2 DEF ToldInv, SoleRun, Idle

\* If nothing is written between the read and the write of a rule run, a consumer
\* that applies every committed event (emitter.Record, events.go) knows every
\* account and every transaction exactly: no write of the persister, the handlers,
\* the plugin host, the rules or the uninstall purge goes unannounced, and no
\* event says something else than was written.
THEOREM EventsTellTheLedger == ~Overlap => (Spec => []EventsTellLedger)
<1> SUFFICES ASSUME ~Overlap
             PROVE  Spec => []EventsTellLedger
  OBVIOUS
<1>1. ToldInv => EventsTellLedger
  BY DEF ToldInv, TablesTold
<1> DEFINE IInv == Inv /\ ToldInv
<1>2. Init => IInv
  BY InvInit, ToldInit
<1>3. IInv /\ [Next]_vars => IInv'
  BY InvStep, ToldStep
<1>4. IInv => EventsTellLedger
  BY <1>1
<1> HIDE DEF IInv
<1>5. QED
  BY <1>2, <1>3, <1>4, PTL DEF Spec
-----------------------------------------------------------------------------
(***************************************************************************)
(* What a run of the rules does to a set: it touches only keys that its    *)
(* rules set, but for those that the cap has no room for.                  *)
(***************************************************************************)
LEMMA LeastKey ==
    ASSUME NEW K \in SUBSET Keys, K # {}
    PROVE  \E k \in K : \A j \in K : k <= j
<1>1. PICK g \in K : \A j \in K : j <= g
  BY GreatestKey
<1> DEFINE D == {g - j : j \in K}
<1>2. K \subseteq Nat /\ g \in Nat
  BY LedgerAssumption
<1>3. D \in SUBSET (0 .. g) /\ D # {}
  BY <1>1, <1>2
<1> HIDE DEF D
<1>4. PICK d \in D : \A e \in D : e <= d
  BY <1>2, <1>3, FS_BoundedSetOfNaturals, Greatest
<1>5. PICK k \in K : d = g - k
  BY DEF D
<1>6. ASSUME NEW j \in K PROVE k <= j
  <2>1. g - j \in D
    BY DEF D
  <2>2. g - j <= g - k
    BY <1>4, <1>5, <2>1
  <2>3. QED
    BY <1>2, <2>2
<1>7. QED
  BY <1>6

\* Normalize drops a key only from a set that it leaves full.
LEMMA CutLeavesFull ==
    ASSUME NEW s \in Seams, NEW m \in Set(s), NEW k \in Keys, m[k] # NoVal, Normalize(m)[k] = NoVal
    PROVE  Cardinality(Present(Normalize(m))) = MaxCount
<1> DEFINE P == Present(m)
           Below(x) == {j \in P : j < x}
           K == Present(Normalize(m))
<1>1. K = {x \in P : Cardinality(Below(x)) < MaxCount}
  BY DEF Present, Normalize
<1>2. k \in P /\ k \notin K
  BY DEF Present
<1>3. IsFiniteSet(K) /\ Cardinality(K) \in Nat /\ P \subseteq Keys
  BY FinitePresent DEF Present
<1>4. Cardinality(K) <= MaxCount
  BY NormalizeBounded DEF Bounded
<1> HIDE DEF P, K
<1>5. PICK x \in P \ K : \A j \in P \ K : x <= j
  BY <1>2, <1>3, LeastKey
<1>6. ASSUME NEW j \in Below(x) PROVE j \in K
  <2>1. j \in P /\ j < x /\ j \in Nat /\ x \in Nat
    BY <1>3, LedgerAssumption
  <2>2. QED
    BY <1>5, <2>1
<1>7. Cardinality(Below(x)) <= Cardinality(K) /\ Cardinality(Below(x)) \in Nat
  BY <1>3, <1>6, FS_Subset, FS_CardinalityType
<1>8. ~(Cardinality(Below(x)) < MaxCount)
  BY <1>1, <1>5
<1> HIDE DEF Below
<1>9. Cardinality(K) = MaxCount
  BY <1>3, <1>4, <1>7, <1>8, Bounds
<1>10. QED
  BY <1>9 DEF K

\* Normalize drops no key of a set that has fewer than one within the cap.
LEMMA NothingToCut ==
    ASSUME NEW s \in Seams, NEW old, Bounded(s, old), NEW m \in Set(s), Present(m) \subseteq Present(old),
           NEW k \in Keys
    PROVE  Normalize(m)[k] = m[k]
<1>1. CASE m[k] = NoVal
  BY <1>1 DEF Normalize
<1>2. CASE m[k] # NoVal
  <2> DEFINE B == {j \in Present(m) : j < k}
  <2>1. B \subseteq Present(m) /\ k \in Present(m) /\ k \notin B
    BY <1>2, LedgerAssumption DEF Present
  <2>2. Normalize(m)[k] = IF Cardinality(B) < MaxCount THEN m[k] ELSE NoVal
    BY DEF Normalize
  <2> HIDE DEF B
  <2>3. IsFiniteSet(B) /\ Cardinality(B) \in Nat
    BY <2>1, FinitePresent, FS_Subset, FS_CardinalityType
  <2>4. IsFiniteSet(B \cup {k}) /\ Cardinality(B \cup {k}) = Cardinality(B) + 1
    BY <2>1, <2>3, FS_AddElement
  <2>5. Cardinality(B \cup {k}) <= Cardinality(Present(old))
    BY <2>1, FinitePresent, FS_Subset
  <2>6. Cardinality(Present(old)) <= MaxCount
    BY DEF Bounded
  <2>7. Cardinality(B) < MaxCount
    BY <2>3, <2>4, <2>5, <2>6, FinitePresent, Bounds
  <2>8. QED
    BY <2>2, <2>7
<1>3. QED
  BY <1>1, <1>2

LEMMA UnapplyTouches ==
    ASSUME NEW rs, NEW core, NEW s \in Seams, NEW m, Bounded(s, m), NEW k \in Keys,
           Unapply(rs, core, s, m)[k] # m[k]
    PROVE  /\ Unapply(rs, core, s, m)[k] = NoVal
           /\ \E i \in DOMAIN rs : Matches(rs[i], core) /\ rs[i].sets[s][k] = m[k]
<1> DEFINE n == [x \in Keys |->
      IF \E i \in DOMAIN rs : Matches(rs[i], core) /\ rs[i].sets[s][x] = m[x] THEN NoVal ELSE m[x]]
<1>1. n \in Set(s) /\ Present(n) \subseteq Present(m)
  BY DEF Set, Bounded, Present
<1>2. Unapply(rs, core, s, m) = Normalize(n)
  BY DEF Unapply
<1>3. n[k] = IF \E i \in DOMAIN rs : Matches(rs[i], core) /\ rs[i].sets[s][k] = m[k] THEN NoVal ELSE m[k]
  OBVIOUS
<1> HIDE DEF n
<1>4. Normalize(n)[k] = n[k]
  BY <1>1, NothingToCut
<1>5. QED
  BY <1>2, <1>3, <1>4

LEMMA ApplyTouches ==
    ASSUME NEW rs, GoodRules(rs), NEW core, NEW s \in Seams, NEW m \in Set(s), NEW k \in Keys,
           Apply(rs, core, s, m)[k] # m[k]
    PROVE  LET is == Apply(rs, core, s, m)[k]
           IN  \/ is # NoVal /\ \E i \in DOMAIN rs : Matches(rs[i], core) /\ rs[i].sets[s][k] = is
               \/ is = NoVal /\ Cardinality(Present(Apply(rs, core, s, m))) = MaxCount
<1> DEFINE Setters(x) == {i \in DOMAIN rs : Matches(rs[i], core) /\ rs[i].sets[s][x] # NoVal}
           Last(x) == CHOOSE i \in Setters(x) : \A j \in Setters(x) : j <= i
           n == [x \in Keys |-> IF Setters(x) = {} THEN m[x] ELSE rs[Last(x)].sets[s][x]]
<1>1. Apply(rs, core, s, m) = Normalize(n)
  BY DEF Apply
<1>2. \A x \in Keys : Setters(x) # {} => Last(x) \in Setters(x)
  <2>1. ASSUME NEW x \in Keys PROVE Setters(x) \subseteq RuleIds
    BY DEF GoodRules
  <2> HIDE DEF Setters
  <2>2. QED
    BY <2>1, GreatestRule
<1>3. \A i \in DOMAIN rs, x \in Keys : rs[i].sets[s][x] \in Vals[s] \cup {NoVal}
  BY DEF GoodRules, Rule, Meta, Set, Seams
<1>4. n \in Set(s)
  <2>1. ASSUME NEW x \in Keys PROVE n[x] \in Vals[s] \cup {NoVal}
    <3>1. CASE Setters(x) = {}
      BY <3>1 DEF Set
    <3>2. CASE Setters(x) # {}
      BY <3>2, <1>2, <1>3
    <3>3. QED
      BY <3>1, <3>2
  <2> HIDE DEF Setters
  <2>2. QED
    BY <2>1 DEF Set
<1>5. \/ Setters(k) = {} /\ n[k] = m[k]
      \/ Last(k) \in Setters(k) /\ n[k] = rs[Last(k)].sets[s][k]
  BY <1>2
<1>6. n[k] # m[k] => n[k] # NoVal /\ \E i \in DOMAIN rs : Matches(rs[i], core) /\ rs[i].sets[s][k] = n[k]
  <2>1. \A i \in Setters(k) : i \in DOMAIN rs /\ Matches(rs[i], core) /\ rs[i].sets[s][k] # NoVal
    OBVIOUS
  <2> HIDE DEF Setters, Last, n
  <2>2. QED
    BY <1>5, <2>1
<1> HIDE DEF n
<1>7. Normalize(n)[k] \in {n[k], NoVal}
  BY DEF Normalize
<1>8. CASE Normalize(n)[k] = n[k]
  BY <1>1, <1>6, <1>8
<1>9. CASE Normalize(n)[k] # n[k]
  BY <1>1, <1>4, <1>7, <1>9, CutLeavesFull
<1>10. QED
  BY <1>8, <1>9

LEMMA RunWriteKeepsEdits ==
    ASSUME Inv, SoleRun, NEW r \in Runners, RunWrite(r), NEW t \in DOMAIN txns
    PROVE  KeepsEdits(run[r], t)
<1> DEFINE j == run[r]
           row == txns[t]
           new == Outcome(j, row)
<1>1. j.read = txns /\ j.op \in {"apply", "unapply"} /\ GoodRules(j.rules) /\ GoodRow(row)
  BY DEF RunWrite, SoleRun, Inv, TablesInv, GoodJob, GoodTable
<1>2. txns'[t].meta = [s \in Seams |-> IF new[s] # row.meta[s] THEN new[s] ELSE row.meta[s]]
  BY <1>1 DEF RunWrite, GoodRow, Row
<1>3. \A s \in Seams : txns'[t].meta[s] = new[s]
  BY <1>2
<1>4. ASSUME NEW s \in Seams, NEW k \in Keys, new[s][k] # row.meta[s][k]
      PROVE  LET sets(v) == \E i \in DOMAIN j.rules : Matches(j.rules[i], row.core) /\ j.rules[i].sets[s][k] = v
             IN  IF j.op = "unapply" THEN new[s][k] = NoVal /\ sets(row.meta[s][k])
                 ELSE \/ new[s][k] # NoVal /\ sets(new[s][k])
                      \/ new[s][k] = NoVal /\ Cardinality(Present(new[s])) = MaxCount
  <2>1. Bounded(s, row.meta[s]) /\ row.meta[s] \in Set(s)
    BY <1>1 DEF GoodRow, Bounded
  <2>2. CASE j.op = "unapply"
    <3>1. new[s] = Unapply(j.rules, row.core, s, row.meta[s])
      BY <2>2 DEF Outcome
    <3> HIDE DEF new, j, row
    <3>2. QED
      BY <1>4, <2>1, <2>2, <3>1, UnapplyTouches
  <2>3. CASE j.op = "apply"
    <3>1. new[s] = Apply(j.rules, row.core, s, row.meta[s])
      BY <2>3 DEF Outcome
    <3> HIDE DEF new, j, row
    <3>2. QED
      BY <1>1, <1>4, <2>1, <2>3, <3>1, ApplyTouches
  <2>4. QED
    BY <1>1, <2>2, <2>3
<1> HIDE DEF new
<1>5. QED
  BY <1>3, <1>4 DEF KeepsEdits

\* Only its own write and its own failure end a run.
LEMMA RunEnds ==
    ASSUME Inv, SoleRun, ~Overlap, [Next]_vars, NEW r \in Runners, run[r] # Idle, run'[r] = Idle
    PROVE  RunWrite(r) \/ UNCHANGED txns
<1>1. ~Quiet /\ ~(UNCHANGED run)
  BY DEF SoleRun, Quiet
<1>2. RuleStep
  BY <1>1, EntryQuiet, MetaQuiet DEF Next, vars
<1>3. ASSUME NEW q \in Runners, RunWrite(q) \/ RunFails(q)
      PROVE  RunWrite(r) \/ UNCHANGED txns
  <2>1. run' = [run EXCEPT ![q] = Idle]
    BY <1>3 DEF RunWrite, RunFails
  <2>2. q = r
    BY <2>1 DEF Inv, TablesInv
  <2>3. RunFails(q) => UNCHANGED txns
    BY DEF RunFails
  <2>4. QED
    BY <1>3, <2>2, <2>3
<1>4. ASSUME NEW i, NEW b, CreateRule(i, b) \/ UpdateRule(i, b) \/ DeleteRule(i) PROVE FALSE
  BY <1>1, <1>4 DEF CreateRule, UpdateRule, DeleteRule
<1>5. ASSUME NEW q, NEW i, RunAllRules(q) \/ RunRule(q, i) \/ UnapplyRule(q, i) PROVE FALSE
  BY <1>1, <1>5 DEF RunAllRules, RunRule, UnapplyRule, ReadForRun
<1>6. QED
  BY <1>2, <1>3, <1>4, <1>5 DEF RuleStep

\* If nothing is written between the read and the write of a run of the rules, it changes only what it is
\* asked to: applying rules (applyRules) leaves a value alone that none of them sets, unless a full set has
\* no room for it, and reverting one (unapplyRule) takes away only values that still are what it set.
THEOREM RunsKeepTheEdits == ~Overlap => (Spec => RunsKeepEdits)
<1> SUFFICES ASSUME ~Overlap
             PROVE  Spec => RunsKeepEdits
  OBVIOUS
<1> DEFINE IInv == Inv /\ ToldInv
<1>1. Init => IInv
  BY InvInit, ToldInit
<1>2. IInv /\ [Next]_vars => IInv'
  BY InvStep, ToldStep
<1>3. IInv /\ [Next]_vars => [\A r \in Runners : run[r] # Idle /\ run'[r] = Idle =>
                                \A t \in DOMAIN txns \cap DOMAIN txns' : KeepsEdits(run[r], t)]_vars
  <2> SUFFICES ASSUME IInv, [Next]_vars, NEW r \in Runners, run[r] # Idle, run'[r] = Idle,
                      NEW t \in DOMAIN txns \cap DOMAIN txns'
               PROVE  KeepsEdits(run[r], t)
    OBVIOUS
  <2>1. RunWrite(r) \/ UNCHANGED txns
    BY RunEnds DEF ToldInv
  <2>2. CASE RunWrite(r)
    BY <2>2, RunWriteKeepsEdits DEF ToldInv
  <2>3. CASE UNCHANGED txns
    BY <2>3 DEF KeepsEdits
  <2>4. QED
    BY <2>1, <2>2, <2>3
<1> HIDE DEF IInv
<1>4. QED
  BY <1>1, <1>2, <1>3, PTL DEF Spec, RunsKeepEdits
-----------------------------------------------------------------------------
(***************************************************************************)
(* What a sync keeps: only a refresh of a row and an edit of a manual one  *)
(* write the fields of an old row, and neither writes anything else of it. *)
(***************************************************************************)
\* A step that writes only labels, extensions and edges of the rows it leaves.
LeavesFields ==
  \A t \in DOMAIN txns \cap DOMAIN txns' :
    txns'[t].core = txns[t].core /\ txns'[t].account = txns[t].account

LEMMA LeftFields ==
    ASSUME LeavesFields, NEW t \in DOMAIN txns \cap DOMAIN txns'
    PROVE  KeepsUserData(t)
BY DEF LeavesFields, KeepsUserData

LEMMA RuleStepFields ==
    ASSUME Inv, RuleStep
    PROVE  LeavesFields
<1>1. ASSUME NEW r \in Runners, RunWrite(r)
      PROVE  LeavesFields
  <2>1. ASSUME NEW t \in DOMAIN txns
        PROVE  txns'[t].core = txns[t].core /\ txns'[t].account = txns[t].account
    <3>1. GoodRow(txns[t])
      BY DEF Inv, TablesInv, GoodTable
    <3>2. \E m : txns'[t] = txns[t] \/ txns'[t] = [txns[t] EXCEPT !.meta = m]
      BY <1>1 DEF RunWrite
    <3>3. QED
      BY <3>1, <3>2 DEF GoodRow, Row
  <2>2. QED
    BY <2>1 DEF LeavesFields
<1>2. CASE UNCHANGED txns
  BY <1>2 DEF LeavesFields
<1>3. ASSUME NEW i, NEW b, CreateRule(i, b) \/ UpdateRule(i, b) \/ DeleteRule(i)
      PROVE  UNCHANGED txns
  BY <1>3 DEF CreateRule, UpdateRule, DeleteRule
<1>4. ASSUME NEW q, NEW i, RunAllRules(q) \/ RunRule(q, i) \/ UnapplyRule(q, i) \/ RunFails(q)
      PROVE  UNCHANGED txns
  BY <1>4 DEF RunAllRules, RunRule, UnapplyRule, ReadForRun, RunFails
<1>5. QED
  BY <1>1, <1>2, <1>3, <1>4 DEF RuleStep

LEMMA MetaStepFields ==
    ASSUME Inv, MetaStep
    PROVE  LeavesFields
<1>1. \A t \in DOMAIN txns : GoodRow(txns[t])
  BY DEF Inv, TablesInv, GoodTable
<1>2. ASSUME NEW t \in Txns, Rewritten(t)
      PROVE  LeavesFields
  <2>1. PICK s, n : t \in DOMAIN txns /\ txns' = [txns EXCEPT ![t] = [txns[t] EXCEPT !.meta[s] = n]]
    BY <1>2 DEF Rewritten, WriteSet
  <2>2. QED
    BY <1>1, <2>1 DEF LeavesFields, GoodRow, Row
<1>3. ASSUME NEW k \in Keys, NEW vs, DeleteLabel(k, vs)
      PROVE  LeavesFields
  <2>1. ASSUME NEW t \in DOMAIN txns
        PROVE  txns'[t] = txns[t] \/ txns'[t] = [txns[t] EXCEPT !.meta["labels"][k] = NoVal]
    BY <1>3 DEF DeleteLabel
  <2>2. QED
    BY <1>1, <2>1 DEF LeavesFields, GoodRow, Row
<1>4. ASSUME NEW t \in Txns, NEW e \in Edge, AddRelationship(t, e) \/ RemoveRelationship(t, e)
      PROVE  LeavesFields
  <2>1. PICK es : t \in DOMAIN txns /\ txns' = [txns EXCEPT ![t].edges = es]
    BY <1>4 DEF AddRelationship, RemoveRelationship, SetEdges
  <2>2. QED
    BY <1>1, <2>1 DEF LeavesFields, GoodRow, Row
<1>5. ASSUME NEW cutoff, PruneTransactionVersions(cutoff)
      PROVE  LeavesFields
  BY <1>5 DEF PruneTransactionVersions, LeavesFields
<1>6. QED
  BY <1>2, <1>3, <1>4, <1>5, MetaCases

LEMMA EntryStepKeeps ==
    ASSUME Inv, IdsMinted, EntryStep, NEW t \in DOMAIN txns \cap DOMAIN txns'
    PROVE  KeepsUserData(t)
<1>1. GoodRow(txns[t])
  BY DEF Inv, TablesInv, GoodTable
<1>2. ASSUME NEW src, PersistBatch(src)
      PROVE  KeepsUserData(t)
  <2>1. PICK accts, items : Persist(accts, items)
    BY <1>2 DEF PersistBatch
  <2>2. txns'[t] = txns[t] \/ txns'[t] = UpdateTransactionFromSync(txns[t], items[t])
    BY <2>1 DEF Persist, Over
  <2>3. QED
    BY <1>1, <2>2 DEF KeepsUserData, UpdateTransactionFromSync, GoodRow, Row
<1>3. ASSUME NEW as, NEW ts, Remove(as, ts)
      PROVE  KeepsUserData(t)
  <2>1. \E es : txns'[t] = [txns[t] EXCEPT !.edges = es]
    BY <1>3 DEF Remove, Stripped
  <2>2. QED
    BY <1>1, <2>1 DEF KeepsUserData, GoodRow, Row
<1>4. ASSUME NEW u, NEW a, NEW c, CreateManualTransaction(u, a, c)
      PROVE  KeepsUserData(t)
  <2>1. u # t
    BY <1>4 DEF CreateManualTransaction, IdsMinted
  <2>2. txns'[t] = txns[t]
    BY <1>4, <2>1 DEF CreateManualTransaction, Over, One
  <2>3. QED
    BY <2>2 DEF KeepsUserData
<1>5. ASSUME NEW u, NEW a, NEW c, UpdateTransactionCore(u, a, c)
      PROVE  KeepsUserData(t)
  <2>1. txns'[t] = txns[t] \/ txns'[t] = [txns[t] EXCEPT !.account = a, !.core = c]
    BY <1>5 DEF UpdateTransactionCore
  <2>2. QED
    BY <1>1, <2>1 DEF KeepsUserData, GoodRow, Row
<1>6. ASSUME NEW a, NEW b, CreateManualAccount(a, b) \/ UpdateAccount(a, b)
      PROVE  KeepsUserData(t)
  BY <1>6 DEF CreateManualAccount, UpdateAccount, KeepsUserData
<1>7. ASSUME NEW a, NEW u, NEW src, DeleteTransaction(u) \/ DeleteAccount(a) \/ PurgeSource(src)
      PROVE  KeepsUserData(t)
  BY <1>3, <1>7 DEF DeleteTransaction, DeleteAccount, PurgeSource, DeleteAccounts
<1>8. QED
  BY <1>2, <1>4, <1>5, <1>6, <1>7 DEF EntryStep

LEMMA IdsStep ==
    ASSUME IdsMinted, Inv, [Next]_vars
    PROVE  IdsMinted'
<1>1. CASE UNCHANGED vars
  BY <1>1 DEF vars, IdsMinted
<1>2. CASE RuleStep
  <2>1. ASSUME NEW i, NEW b, CreateRule(i, b) \/ UpdateRule(i, b) \/ DeleteRule(i)
        PROVE  txns' = txns /\ minted \subseteq minted'
    BY <2>1 DEF CreateRule, UpdateRule, DeleteRule
  <2>2. ASSUME NEW q, NEW i, RunAllRules(q) \/ RunRule(q, i) \/ UnapplyRule(q, i) \/ RunFails(q)
        PROVE  txns' = txns /\ minted' = minted
    BY <2>2 DEF RunAllRules, RunRule, UnapplyRule, ReadForRun, RunFails
  <2>3. ASSUME NEW r, RunWrite(r)
        PROVE  DOMAIN txns' = DOMAIN txns /\ minted' = minted
    BY <2>3 DEF RunWrite
  <2>4. DOMAIN txns' \subseteq DOMAIN txns /\ minted \subseteq minted'
    BY <1>2, <2>1, <2>2, <2>3 DEF RuleStep
  <2>5. QED
    BY <2>4, FewerRows
<1>3. CASE MetaStep
  <2>1. ASSUME NEW t, Rewritten(t)
        PROVE  DOMAIN txns' = DOMAIN txns /\ minted' = minted
    BY <2>1 DEF Rewritten, WriteSet
  <2>2. ASSUME NEW k, NEW vs, NEW t, NEW e, NEW cutoff,
               \/ DeleteLabel(k, vs) \/ AddRelationship(t, e) \/ RemoveRelationship(t, e)
               \/ PruneTransactionVersions(cutoff)
        PROVE  DOMAIN txns' = DOMAIN txns /\ minted' = minted
    BY <2>2 DEF DeleteLabel, AddRelationship, RemoveRelationship, SetEdges, PruneTransactionVersions
  <2>3. DOMAIN txns' = DOMAIN txns /\ minted' = minted
    BY <1>3, <2>1, <2>2, MetaCases
  <2>4. QED
    BY <2>3, FewerRows
<1>4. QED
  BY <1>1, <1>2, <1>3, EntryIds DEF Next

\* A sync that finds a transaction again, changed or not, leaves its labels, its extensions and its edges
\* (persister.Persist, UpdateTransactionFromSync), and so does an edit of a manual transaction's fields;
\* rule runs may overlap with either.
THEOREM SyncsKeepUserData == Spec => SyncKeepsUserData
<1> DEFINE IInv == Inv /\ IdsMinted
<1>1. Init => IInv
  BY InvInit, ToldInit DEF ToldInv
<1>2. IInv /\ [Next]_vars => IInv'
  BY InvStep, IdsStep
<1>3. IInv /\ [Next]_vars => [\A t \in DOMAIN txns \cap DOMAIN txns' : KeepsUserData(t)]_vars
  <2> SUFFICES ASSUME IInv, [Next]_vars, ~ UNCHANGED vars, NEW t \in DOMAIN txns \cap DOMAIN txns'
               PROVE  KeepsUserData(t)
    OBVIOUS
  <2>1. QED
    BY LeftFields, RuleStepFields, MetaStepFields, EntryStepKeeps DEF Next
<1> HIDE DEF IInv
<1>4. QED
  BY <1>1, <1>2, <1>3, PTL DEF Spec, SyncKeepsUserData
-----------------------------------------------------------------------------
(***************************************************************************)
(* The newest version of a transaction is the transaction.  What a step    *)
(* records of a row is built from the row it writes, and what it writes    *)
(* without recording is not part of a version, or is a label deleted       *)
(* everywhere.                                                             *)
(***************************************************************************)
\* The history h ends with the row, or with what it was before labels were deleted.
Tells(h, row) ==
  LET last == h[Len(h)].snap
  IN  h # << >> => /\ last.account = row.account /\ last.core = row.core
                   /\ Remnant(row.meta, last.meta)

Agrees(t) == history[t] # << >> => t \in DOMAIN txns /\ Tells(history[t], txns[t])

LEMMA AgreesMeans == HistoryAgrees <=> \A t \in Txns : Agrees(t)
BY DEF HistoryAgrees, Agrees, Tells

LEMMA AgreesNext == (\A t \in Txns : Agrees(t)') => HistoryAgrees'
BY DEF HistoryAgrees, Agrees, Tells

\* Two rows that a version does not tell apart.
SameFields(a, b) == a.account = b.account /\ a.core = b.core /\ \A s \in Seams : a.meta[s] = b.meta[s]

LEMMA TellsSame ==
    ASSUME NEW h, NEW a, NEW b, SameFields(a, b), Tells(h, a)
    PROVE  Tells(h, b)
BY DEF Tells, SameFields, Remnant, LabelsLeft, Seams

LEMMA LastTells ==
    ASSUME NEW h \in Histories, NEW row, NEW kind
    PROVE  Tells(h \o <<NewVersion(kind, TransactionSnapshot(row))>>, row)
<1> DEFINE v == NewVersion(kind, TransactionSnapshot(row))
           g == h \o <<v>>
<1>1. v.snap.account = row.account /\ v.snap.core = row.core /\ v.snap.meta = row.meta
  BY DEF NewVersion, TransactionSnapshot
<1> HIDE DEF v
<1>2. g[Len(g)] = v
  BY DEF Histories
<1>3. QED
  BY <1>1, <1>2 DEF Tells, Remnant, LabelsLeft, v

LEMMA ChangeTells ==
    ASSUME HistoryInv, NEW h \in Histories, NEW prior, GoodRow(prior), NEW row, NEW kind
    PROVE  Tells(VersionChange(h, TransactionSnapshot(prior), TransactionSnapshot(row), kind), row)
<1> DEFINE first == IF h = << >> THEN <<NewVersion("imported", TransactionSnapshot(prior))>> ELSE h
<1>1. first \in Histories
  <2>1. NewVersion("imported", TransactionSnapshot(prior)) \in VersionUpTo(clock + 1)
    BY SnapOfRow, NewVersionType DEF Kind
  <2>2. <<NewVersion("imported", TransactionSnapshot(prior))>> \in Histories
    BY <2>1 DEF Histories
  <2>3. QED
    BY <2>2
<1>2. VersionChange(h, TransactionSnapshot(prior), TransactionSnapshot(row), kind)
        = first \o <<NewVersion(kind, TransactionSnapshot(row))>>
  BY DEF VersionChange
<1> HIDE DEF first
<1>3. QED
  BY <1>1, <1>2, LastTells

LEMMA RunTells ==
    ASSUME HistoryInv, NEW h \in Histories, NEW row, GoodRow(row), Tells(h, row),
           NEW new, \A s \in Seams : Bounded(s, new[s]),
           NEW next, next.account = row.account, next.core = row.core,
           \A s \in Seams : next.meta[s] = new[s]
    PROVE  Tells(RunVersions(h, row, new), next)
<1> DEFINE labeled  == [row EXCEPT !.meta["labels"] = new["labels"]]
           extended == [labeled EXCEPT !.meta["extensions"] = new["extensions"]]
           first == IF labeled = row THEN h
                    ELSE VersionChange(h, TransactionSnapshot(row), TransactionSnapshot(labeled), "labeled")
<1>1. GoodRow(labeled)
  BY WithSet DEF Seams
<1>2. SameFields(extended, next)
  BY DEF SameFields, GoodRow, Row, Meta, Seams
<1>3. RunVersions(h, row, new) =
        IF extended = labeled THEN first
        ELSE VersionChange(first, TransactionSnapshot(labeled), TransactionSnapshot(extended), "extended")
  BY DEF RunVersions
<1> HIDE DEF labeled, extended
<1>4. first \in Histories
  BY <1>1, RowVersion DEF Kind
<1>5. Tells(first, labeled)
  BY ChangeTells
<1> HIDE DEF first
<1>6. Tells(RunVersions(h, row, new), extended)
  BY <1>1, <1>3, <1>4, <1>5, ChangeTells
<1>7. QED
  BY <1>2, <1>6, TellsSame

\* What is not written agrees as before.
LEMMA AgreesFrame ==
    ASSUME NEW t \in Txns, Agrees(t), history'[t] = history[t],
           t \in DOMAIN txns => t \in DOMAIN txns' /\ SameFields(txns[t], txns'[t])
    PROVE  Agrees(t)'
BY TellsSame DEF Agrees

LEMMA RunWriteAgrees ==
    ASSUME Inv, HistoryInv, SoleRun, HistoryAgrees, NEW r \in Runners, RunWrite(r)
    PROVE  HistoryAgrees'
<1> DEFINE new(t) == Outcome(run[r], txns[t])
<1>1. run[r].read = txns /\ GoodJob(run[r])
  BY DEF RunWrite, SoleRun, Inv, TablesInv
<1>2. ASSUME NEW t \in Txns PROVE Agrees(t)'
  <2>1. Agrees(t) /\ history[t] \in Histories
    BY AgreesMeans, HistoryStays
  <2>2. CASE t \in DOMAIN txns
    <3>1. GoodRow(txns[t]) /\ \A s \in Seams : Bounded(s, new(t)[s])
      BY <1>1, <2>2, OutcomeBounded DEF Inv, TablesInv, GoodTable
    <3>2. history'[t] = RunVersions(history[t], txns[t], new(t))
      BY <1>1, <2>2 DEF RunWrite, Recorded
    <3>3. txns'[t] = [txns[t] EXCEPT !.meta = [s \in Seams |->
                       IF new(t)[s] # txns[t].meta[s] THEN new(t)[s] ELSE @[s]]]
      BY <1>1, <2>2 DEF RunWrite
    <3>4. t \in DOMAIN txns'
      BY <2>2 DEF RunWrite
    <3> HIDE DEF new
    <3>5. /\ txns'[t].account = txns[t].account /\ txns'[t].core = txns[t].core
          /\ \A s \in Seams : txns'[t].meta[s] = new(t)[s]
      BY <3>1, <3>3 DEF GoodRow, Row
    <3>6. Tells(history[t], txns[t])
      BY <2>1 DEF Agrees, Tells
    <3>7. QED
      BY <2>1, <3>1, <3>2, <3>4, <3>5, <3>6, RunTells DEF Agrees
  <2>3. CASE t \notin DOMAIN txns
    <3>1. history'[t] = history[t]
      BY <1>1, <2>3 DEF RunWrite, Recorded
    <3>2. QED
      BY <2>1, <2>3, <3>1, AgreesFrame
  <2>4. QED
    BY <2>2, <2>3
<1>3. QED
  BY <1>2, AgreesNext

\* A step that writes one row and records what it wrote.
LEMMA OneRowAgrees ==
    ASSUME HistoryInv, HistoryAgrees, NEW t \in Txns, NEW g,
           Recorded([history EXCEPT ![t] = g]), Tells(g, txns'[t]),
           DOMAIN txns' = DOMAIN txns \cup {t}, \A u \in DOMAIN txns \ {t} : txns'[u] = txns[u]
    PROVE  HistoryAgrees'
<1>1. history' = [history EXCEPT ![t] = g] /\ DOMAIN history = Txns
  BY DEF Recorded, HistoryInv
<1>2. ASSUME NEW u \in Txns PROVE Agrees(u)'
  <2>1. CASE u = t
    BY <1>1, <2>1 DEF Agrees
  <2>2. CASE u # t
    <3>1. Agrees(u) /\ history'[u] = history[u]
      BY <1>1, <2>2, AgreesMeans
    <3>2. QED
      BY <2>2, <3>1, AgreesFrame DEF SameFields
  <2>3. QED
    BY <2>1, <2>2
<1>3. QED
  BY <1>2, AgreesNext

LEMMA ManualEntryAgrees ==
    ASSUME Inv, HistoryInv, HistoryAgrees, NEW t \in Txns, NEW a \in Accounts, NEW c \in Cores,
           CreateManualTransaction(t, a, c) \/ UpdateTransactionCore(t, a, c)
    PROVE  HistoryAgrees'
<1>1. CASE CreateManualTransaction(t, a, c)
  <2> DEFINE row == [account |-> a, core |-> c, meta |-> NoMeta, edges |-> {}]
             g == history[t] \o <<NewVersion("imported", TransactionSnapshot(row))>>
  <2>1. Recorded([history EXCEPT ![t] = g]) /\ txns' = Over(One(t, row), txns)
    BY <1>1 DEF CreateManualTransaction
  <2> HIDE DEF row
  <2>2. Tells(g, row)
    BY HistoryStays, LastTells
  <2> HIDE DEF g
  <2>3. /\ DOMAIN txns' = DOMAIN txns \cup {t} /\ txns'[t] = row
        /\ \A u \in DOMAIN txns \ {t} : txns'[u] = txns[u]
    BY <2>1 DEF Over, One
  <2>4. QED
    BY <2>1, <2>2, <2>3, OneRowAgrees
<1>2. CASE UpdateTransactionCore(t, a, c)
  <2> DEFINE row == [txns[t] EXCEPT !.account = a, !.core = c]
             g == VersionChange(history[t], TransactionSnapshot(txns[t]), TransactionSnapshot(row), "edited")
  <2>1. t \in DOMAIN txns /\ GoodRow(txns[t])
    BY <1>2 DEF UpdateTransactionCore, Inv, TablesInv, GoodTable
  <2>2. Recorded([history EXCEPT ![t] = g]) /\ txns' = [txns EXCEPT ![t] = row]
    BY <1>2 DEF UpdateTransactionCore
  <2> HIDE DEF row
  <2>3. Tells(g, row)
    BY <2>1, HistoryStays, ChangeTells
  <2> HIDE DEF g
  <2>4. QED
    BY <2>1, <2>2, <2>3, OneRowAgrees
<1>3. QED
  BY <1>1, <1>2

LEMMA RewrittenAgrees ==
    ASSUME Inv, HistoryInv, HistoryAgrees, NEW t \in Txns, Rewritten(t)
    PROVE  HistoryAgrees'
<1>1. PICK s \in Seams, kind \in Kind : \E n :
        t \in DOMAIN txns /\ Bounded(s, n) /\ WriteSet(t, s, n, kind)
  BY DEF Rewritten
<1>2. PICK n : t \in DOMAIN txns /\ WriteSet(t, s, n, kind)
  BY <1>1
<1> DEFINE row == [txns[t] EXCEPT !.meta[s] = n]
           g == VersionChange(history[t], TransactionSnapshot(txns[t]), TransactionSnapshot(row), kind)
<1>3. GoodRow(txns[t])
  BY <1>2 DEF Inv, TablesInv, GoodTable
<1>4. Recorded([history EXCEPT ![t] = g]) /\ txns' = [txns EXCEPT ![t] = row]
  BY <1>2 DEF WriteSet
<1> HIDE DEF row
<1>5. Tells(g, row)
  BY <1>3, HistoryStays, ChangeTells
<1> HIDE DEF g
<1>6. QED
  BY <1>2, <1>4, <1>5, OneRowAgrees

LEMMA PersistAgrees ==
    ASSUME Inv, HistoryInv, HistoryAgrees, NEW src, PersistBatch(src)
    PROVE  HistoryAgrees'
<1>1. PICK accts, items : Persist(accts, items)
  BY DEF PersistBatch
<1> DEFINE new == DOMAIN items \ DOMAIN txns
           changed == {t \in DOMAIN items \cap DOMAIN txns :
                         txns[t].account # items[t].account \/ txns[t].core # items[t].core}
           born == [t \in new |-> BirthMeta(items[t].core)]
           row(t) == IF t \in new
                     THEN [account |-> items[t].account, core |-> items[t].core,
                           meta |-> born[t], edges |-> {}]
                     ELSE UpdateTransactionFromSync(txns[t], items[t])
<1>2. /\ txns' = Over([t \in DOMAIN items |-> row(t)], txns)
      /\ history' = [t \in Txns |->
           IF t \in new
           THEN history[t] \o <<NewVersion("imported", TransactionSnapshot(row(t)))>>
           ELSE IF t \in changed
           THEN VersionChange(history[t], TransactionSnapshot(txns[t]),
                              TransactionSnapshot(row(t)), "synced")
           ELSE history[t]]
  BY <1>1 DEF Persist, Recorded
<1>3. /\ DOMAIN txns' = DOMAIN items \cup DOMAIN txns
      /\ \A t \in DOMAIN items : txns'[t] = row(t)
      /\ \A t \in DOMAIN txns \ DOMAIN items : txns'[t] = txns[t]
  BY <1>2 DEF Over
<1>4. ASSUME NEW t \in Txns PROVE Agrees(t)'
  <2>1. Agrees(t) /\ history[t] \in Histories
    BY AgreesMeans, HistoryStays
  <2>2. CASE t \in new
    <3>1. t \in DOMAIN txns' /\ txns'[t] = row(t)
      BY <1>3, <2>2
    <3>2. history'[t] = history[t] \o <<NewVersion("imported", TransactionSnapshot(row(t)))>>
      BY <1>2, <2>2
    <3> HIDE DEF row
    <3>3. QED
      BY <2>1, <3>1, <3>2, LastTells DEF Agrees
  <2>3. CASE t \in changed
    <3>1. t \in DOMAIN txns' /\ txns'[t] = row(t) /\ t \in DOMAIN txns
      BY <1>3, <2>3
    <3>2. history'[t] = VersionChange(history[t], TransactionSnapshot(txns[t]),
                                      TransactionSnapshot(row(t)), "synced")
      BY <1>2, <2>3
    <3> HIDE DEF row
    <3>3. GoodRow(txns[t])
      BY <3>1 DEF Inv, TablesInv, GoodTable
    <3>4. QED
      BY <2>1, <3>1, <3>2, <3>3, ChangeTells DEF Agrees
  <2>4. CASE t \notin new /\ t \notin changed
    <3>1. history'[t] = history[t]
      BY <1>2, <2>4
    <3>2. t \in DOMAIN txns => t \in DOMAIN txns' /\ SameFields(txns[t], txns'[t])
      <4>1. CASE t \in DOMAIN txns \ DOMAIN items
        BY <1>3, <4>1 DEF SameFields
      <4>2. CASE t \in DOMAIN txns \cap DOMAIN items
        <5>1. GoodRow(txns[t]) /\ txns[t].account = items[t].account /\ txns[t].core = items[t].core
          BY <2>4, <4>2 DEF Inv, TablesInv, GoodTable
        <5>2. t \in DOMAIN txns' /\ txns'[t] = UpdateTransactionFromSync(txns[t], items[t])
          BY <1>3, <4>2
        <5>3. QED
          BY <5>1, <5>2, SyncedRowSame DEF SameFields
      <4>3. QED
        BY <4>1, <4>2
    <3>3. QED
      BY <2>1, <3>1, <3>2, AgreesFrame
  <2>5. QED
    BY <2>2, <2>3, <2>4
<1>5. QED
  BY <1>4, AgreesNext

LEMMA RemoveAgrees ==
    ASSUME Inv, HistoryAgrees, NEW as, NEW ts, Remove(as, ts)
    PROVE  HistoryAgrees'
<1>1. ASSUME NEW t \in Txns PROVE Agrees(t)'
  <2>1. CASE t \in ts
    BY <2>1 DEF Remove, Agrees
  <2>2. CASE t \notin ts
    <3>1. Agrees(t) /\ history'[t] = history[t]
      BY <2>2, AgreesMeans DEF Remove
    <3>2. ASSUME t \in DOMAIN txns
          PROVE  t \in DOMAIN txns' /\ SameFields(txns[t], txns'[t])
      <4>1. GoodRow(txns[t])
        BY <3>2 DEF Inv, TablesInv, GoodTable
      <4>2. /\ t \in DOMAIN txns'
            /\ txns'[t] = [txns[t] EXCEPT !.edges = {e \in txns[t].edges : e.target \notin ts}]
        BY <2>2, <3>2 DEF Remove, Stripped
      <4>3. QED
        BY <4>1, <4>2 DEF SameFields, GoodRow, Row
    <3>3. QED
      BY <3>1, <3>2, AgreesFrame
  <2>3. QED
    BY <2>1, <2>2
<1>2. QED
  BY <1>1, AgreesNext

LEMMA DeleteLabelAgrees ==
    ASSUME Inv, HistoryAgrees, NEW k \in Keys, NEW vs, DeleteLabel(k, vs)
    PROVE  HistoryAgrees'
<1>1. ASSUME NEW t \in Txns PROVE Agrees(t)'
  <2>1. Agrees(t) /\ history'[t] = history[t] /\ DOMAIN txns' = DOMAIN txns
    BY AgreesMeans DEF DeleteLabel
  <2>2. CASE t \notin DOMAIN txns
    BY <2>1, <2>2 DEF Agrees
  <2>3. CASE t \in DOMAIN txns
    <3>1. GoodRow(txns[t])
      BY <2>3 DEF Inv, TablesInv, GoodTable
    <3>2. txns'[t] = txns[t] \/ txns'[t] = [txns[t] EXCEPT !.meta["labels"][k] = NoVal]
      BY <2>3 DEF DeleteLabel
    <3>3. /\ txns'[t].account = txns[t].account /\ txns'[t].core = txns[t].core
          /\ txns'[t].meta["extensions"] = txns[t].meta["extensions"]
          /\ \A j \in Keys : txns'[t].meta["labels"][j] \in {txns[t].meta["labels"][j], NoVal}
      BY <3>1, <3>2 DEF GoodRow, Row, Meta, Set, Seams
    <3>4. QED
      BY <2>1, <2>3, <3>3 DEF Agrees, Tells, Remnant, LabelsLeft
  <2>4. QED
    BY <2>2, <2>3
<1>2. QED
  BY <1>1, AgreesNext

LEMMA EdgeAgrees ==
    ASSUME Inv, HistoryAgrees, NEW t, NEW es, SetEdges(t, es)
    PROVE  HistoryAgrees'
<1>1. ASSUME NEW u \in Txns PROVE Agrees(u)'
  <2>1. Agrees(u) /\ history'[u] = history[u] /\ txns' = [txns EXCEPT ![t].edges = es]
    BY AgreesMeans DEF SetEdges
  <2>2. \A w \in DOMAIN txns : GoodRow(txns[w])
    BY DEF Inv, TablesInv, GoodTable
  <2>3. u \in DOMAIN txns => u \in DOMAIN txns' /\ SameFields(txns[u], txns'[u])
    BY <2>1, <2>2 DEF SameFields, GoodRow, Row
  <2>4. QED
    BY <2>1, <2>3, AgreesFrame
<1>2. QED
  BY <1>1, AgreesNext

LEMMA SuffixLast ==
    ASSUME NEW S, NEW h \in Seq(S), NEW n \in Nat, SubSeq(h, n + 1, Len(h)) # << >>
    PROVE  /\ h # << >>
           /\ SubSeq(h, n + 1, Len(h))[Len(SubSeq(h, n + 1, Len(h)))] = h[Len(h)]
<1> DEFINE left == SubSeq(h, n + 1, Len(h))
<1>1. n < Len(h)
  <2>1. n >= Len(h) => left = << >>
    OBVIOUS
  <2>2. QED
    BY <2>1
<1>2. Len(left) = Len(h) - n
  BY <1>1
<1>3. \A i \in 1 .. Len(h) - n : left[i] = h[n + i]
  BY <1>1
<1> HIDE DEF left
<1>4. left[Len(left)] = h[Len(h)]
  BY <1>1, <1>2, <1>3
<1>5. h # << >>
  BY <1>1
<1>6. QED
  BY <1>4, <1>5 DEF left

\* Retention keeps the newest version or none.
LEMMA PruneAgrees ==
    ASSUME HistoryInv, HistoryAgrees, NEW cutoff, PruneTransactionVersions(cutoff)
    PROVE  HistoryAgrees'
<1>1. ASSUME NEW t \in Txns PROVE Agrees(t)'
  <2> DEFINE older == {i \in DOMAIN history[t] : history[t][i].at < cutoff}
             left == SubSeq(history[t], Cardinality(older) + 1, Len(history[t]))
  <2>1. Agrees(t) /\ txns' = txns /\ history'[t] = left
    BY AgreesMeans DEF PruneTransactionVersions
  <2>2. history[t] \in Seq(VersionUpTo(clock)) /\ Len(history[t]) \in Nat
    BY DEF HistoryInv
  <2>3. IsFiniteSet(1 .. Len(history[t]))
    BY <2>2, FS_Interval
  <2>4. older \in SUBSET (1 .. Len(history[t]))
    BY <2>2
  <2> HIDE DEF older
  <2>5. Cardinality(older) \in Nat
    BY <2>3, <2>4, FS_Subset, FS_CardinalityType
  <2>6. left # << >> => history[t] # << >> /\ left[Len(left)] = history[t][Len(history[t])]
    BY <2>2, <2>5, SuffixLast
  <2> HIDE DEF left
  <2>7. QED
    BY <2>1, <2>6 DEF Agrees, Tells
<1>2. QED
  BY <1>1, AgreesNext

LEMMA AgreesStep ==
    ASSUME Inv, HistoryInv, SoleRun, HistoryAgrees, [Next]_vars
    PROVE  HistoryAgrees'
<1>1. ASSUME UNCHANGED <<history, txns>>
      PROVE  HistoryAgrees'
  BY <1>1 DEF HistoryAgrees
<1>2. CASE RuleStep
  <2>1. ASSUME NEW r \in Runners, RunWrite(r)
        PROVE  HistoryAgrees'
    BY <2>1, RunWriteAgrees
  <2>2. ASSUME ~\E r \in Runners : RunWrite(r)
        PROVE  HistoryAgrees'
    BY <1>1, <1>2, <2>2 DEF RuleStep, CreateRule, UpdateRule, DeleteRule, RunFails,
                            RunAllRules, RunRule, UnapplyRule, ReadForRun
  <2>3. QED
    BY <2>1, <2>2
<1>3. CASE EntryStep
  <2>1. ASSUME NEW src, PurgeSource(src)
        PROVE  HistoryAgrees'
    BY <2>1, RemoveAgrees DEF PurgeSource, DeleteAccounts
  <2>2. ASSUME NEW t, NEW a, DeleteTransaction(t) \/ DeleteAccount(a)
        PROVE  HistoryAgrees'
    BY <2>2, RemoveAgrees DEF DeleteTransaction, DeleteAccount, DeleteAccounts
  <2>3. ASSUME NEW a, NEW b, CreateManualAccount(a, b) \/ UpdateAccount(a, b)
        PROVE  HistoryAgrees'
    BY <1>1, <2>3 DEF CreateManualAccount, UpdateAccount
  <2>4. QED
    BY <1>3, <2>1, <2>2, <2>3, PersistAgrees, ManualEntryAgrees DEF EntryStep
<1>4. CASE MetaStep
  <2>1. ASSUME NEW t, NEW e, AddRelationship(t, e) \/ RemoveRelationship(t, e)
        PROVE  HistoryAgrees'
    BY <2>1, EdgeAgrees DEF AddRelationship, RemoveRelationship
  <2>2. QED
    BY <1>4, <2>1, RewrittenAgrees, DeleteLabelAgrees, PruneAgrees, MetaCases
<1>5. CASE UNCHANGED vars
  BY <1>1, <1>5 DEF vars
<1>6. QED
  BY <1>2, <1>3, <1>4, <1>5 DEF Next

\* If nothing is written between the read and the write of a rule run, the newest version of a transaction
\* is the transaction as it is, up to labels deleted everywhere, before and after retention
\* (RecordTransactionVersion, PruneTransactionVersions), and a transaction that was deleted has no history.
THEOREM HistoryTellsTheLedger == ~Overlap => (Spec => []HistoryAgrees)
<1> SUFFICES ASSUME ~Overlap
             PROVE  Spec => []HistoryAgrees
  OBVIOUS
<1> DEFINE IInv == Inv /\ ToldInv /\ HistoryInv /\ HistoryAgrees
<1>1. Init => HistoryAgrees
  BY DEF Init, HistoryAgrees
<1>2. Init => IInv
  BY <1>1, InvInit, ToldInit, HistoryInit
<1>3. IInv /\ [Next]_vars => IInv'
  BY InvStep, ToldStep, HistoryStep, AgreesStep DEF ToldInv
<1>4. IInv => HistoryAgrees
  OBVIOUS
<1> HIDE DEF IInv
<1>5. QED
  BY <1>2, <1>3, <1>4, PTL DEF Spec
-----------------------------------------------------------------------------
(***************************************************************************)
(* Each version differs from the one before in what its kind names.  A     *)
(* step names the difference between the row as it was and as it writes    *)
(* it; that the newest version tells the row carries this to the history.  *)
(***************************************************************************)
Chain(h) == \A i \in 2 .. Len(h) : NamesDiff(h[i - 1].snap, h[i])

LEMMA ChainNow == DiffNamesCause <=> \A t \in Txns : Chain(history[t])
BY DEF DiffNamesCause, Chain

LEMMA ChainNext == (\A t \in Txns : Chain(history'[t])) => DiffNamesCause'
BY DEF DiffNamesCause, Chain

\* The kind of a change from the row prior to the row next.
NamesChange(prior, next, kind) ==
  /\ kind \in {"synced", "edited"} => \A s \in Seams : next.meta[s] = prior.meta[s]
  /\ kind \in {"labeled", "extended"} =>
       /\ next.account = prior.account /\ next.core = prior.core
       /\ \A s \in Seams : KindOf[s] # kind => next.meta[s] = prior.meta[s]

LEMMA NamesChangeOfLast ==
    ASSUME NEW h, h # << >>, NEW prior, Tells(h, prior), NEW next,
           NEW kind \in {"synced", "edited", "labeled", "extended"}, NamesChange(prior, next, kind)
    PROVE  NamesDiff(h[Len(h)].snap, NewVersion(kind, TransactionSnapshot(next)))
<1> DEFINE was == h[Len(h)].snap
           v == NewVersion(kind, TransactionSnapshot(next))
<1>1. v.kind = kind /\ v.snap.account = next.account /\ v.snap.core = next.core /\ v.snap.meta = next.meta
  BY DEF NewVersion, TransactionSnapshot
<1>2. was.account = prior.account /\ was.core = prior.core /\ Remnant(prior.meta, was.meta)
  BY DEF Tells
<1>3. ASSUME kind \in {"synced", "edited"}
      PROVE  NamesDiff(was, v)
  <2>1. next.meta["labels"] = prior.meta["labels"] /\ next.meta["extensions"] = prior.meta["extensions"]
    BY <1>3 DEF NamesChange, Seams
  <2> HIDE DEF was, v
  <2>2. Remnant(v.snap.meta, was.meta)
    BY <1>1, <1>2, <2>1 DEF Remnant, LabelsLeft
  <2>3. QED
    BY <1>1, <1>3, <2>2 DEF NamesDiff
<1> HIDE DEF was, v
<1>4. ASSUME kind = "labeled"
      PROVE  NamesDiff(was, v)
  BY <1>1, <1>2, <1>4 DEF NamesDiff, NamesChange, Remnant, Seams, KindOf
<1>5. ASSUME kind = "extended"
      PROVE  NamesDiff(was, v)
  BY <1>1, <1>2, <1>5 DEF NamesDiff, NamesChange, Remnant, LabelsLeft, Seams, KindOf
<1>6. QED
  BY <1>3, <1>4, <1>5 DEF was, v

LEMMA ChainAppend ==
    ASSUME NEW h \in Histories, Chain(h), NEW v, h # << >> => NamesDiff(h[Len(h)].snap, v)
    PROVE  Chain(h \o <<v>>)
<1> DEFINE g == h \o <<v>>
<1>1. Len(h) \in Nat /\ Len(g) = Len(h) + 1 /\ g[Len(h) + 1] = v /\ \A i \in 1 .. Len(h) : g[i] = h[i]
  BY DEF Histories
<1>2. Len(h) # 0 => h # << >>
  OBVIOUS
<1> HIDE DEF g
<1>3. ASSUME NEW i \in 2 .. Len(g) PROVE NamesDiff(g[i - 1].snap, g[i])
  <2>1. CASE i = Len(g)
    BY <1>1, <1>2, <2>1
  <2>2. CASE i # Len(g)
    <3>1. i \in 2 .. Len(h) /\ i - 1 \in 1 .. Len(h) /\ i \in 1 .. Len(h)
      BY <1>1, <2>2
    <3>2. g[i] = h[i] /\ g[i - 1] = h[i - 1]
      BY <1>1, <3>1
    <3>3. QED
      BY <3>1, <3>2 DEF Chain
  <2>3. QED
    BY <2>1, <2>2
<1>4. QED
  BY <1>3 DEF Chain, g

LEMMA ChangeChain ==
    ASSUME HistoryInv, NEW h \in Histories, Chain(h), NEW prior, GoodRow(prior), Tells(h, prior),
           NEW next, NEW kind \in {"synced", "edited", "labeled", "extended"},
           NamesChange(prior, next, kind)
    PROVE  Chain(VersionChange(h, TransactionSnapshot(prior), TransactionSnapshot(next), kind))
<1> DEFINE one == <<NewVersion("imported", TransactionSnapshot(prior))>>
           first == IF h = << >> THEN one ELSE h
<1>1. one \in Histories /\ Len(one) = 1
  <2>1. NewVersion("imported", TransactionSnapshot(prior)) \in VersionUpTo(clock + 1)
    BY SnapOfRow, NewVersionType DEF Kind
  <2>2. QED
    BY <2>1 DEF Histories
<1>2. one = << >> \o one
  OBVIOUS
<1>3. << >> \in Histories
  BY DEF Histories
<1>4. Tells(one, prior)
  BY <1>2, <1>3, LastTells
<1>5. VersionChange(h, TransactionSnapshot(prior), TransactionSnapshot(next), kind)
        = first \o <<NewVersion(kind, TransactionSnapshot(next))>>
  BY DEF VersionChange
<1> HIDE DEF one
<1>6. first \in Histories /\ Tells(first, prior) /\ Chain(first)
  <2>1. Chain(one)
    BY <1>1 DEF Chain
  <2>2. QED
    BY <1>1, <1>4, <2>1
<1> HIDE DEF first
<1>7. QED
  BY <1>5, <1>6, NamesChangeOfLast, ChainAppend

LEMMA RunChain ==
    ASSUME HistoryInv, NEW h \in Histories, Chain(h), NEW row, GoodRow(row), Tells(h, row),
           NEW new, \A s \in Seams : Bounded(s, new[s])
    PROVE  Chain(RunVersions(h, row, new))
<1> DEFINE labeled  == [row EXCEPT !.meta["labels"] = new["labels"]]
           extended == [labeled EXCEPT !.meta["extensions"] = new["extensions"]]
           first == IF labeled = row THEN h
                    ELSE VersionChange(h, TransactionSnapshot(row), TransactionSnapshot(labeled), "labeled")
<1>1. GoodRow(labeled)
  BY WithSet DEF Seams
<1>2. GoodRow(extended)
  <2> HIDE DEF labeled
  <2>1. QED
    BY <1>1, WithSet DEF Seams
<1>3. NamesChange(row, labeled, "labeled")
  BY DEF NamesChange, KindOf, GoodRow, Row, Meta, Seams
<1>4. NamesChange(labeled, extended, "extended")
  <2> HIDE DEF labeled
  <2>1. QED
    BY <1>1 DEF NamesChange, KindOf, GoodRow, Row, Meta, Seams
<1>5. RunVersions(h, row, new) =
        IF extended = labeled THEN first
        ELSE VersionChange(first, TransactionSnapshot(labeled), TransactionSnapshot(extended), "extended")
  BY DEF RunVersions
<1> HIDE DEF labeled, extended
<1>6. first \in Histories
  BY <1>1, RowVersion DEF Kind
<1>7. Tells(first, labeled)
  BY ChangeTells
<1>8. Chain(first)
  BY <1>1, <1>3, ChangeChain
<1> HIDE DEF first
<1>9. QED
  BY <1>1, <1>2, <1>4, <1>5, <1>6, <1>7, <1>8, ChangeChain

LEMMA RunWriteChain ==
    ASSUME Inv, HistoryInv, SoleRun, HistoryAgrees, DiffNamesCause, NEW r \in Runners, RunWrite(r)
    PROVE  DiffNamesCause'
<1> DEFINE new(t) == Outcome(run[r], txns[t])
<1>1. run[r].read = txns /\ GoodJob(run[r])
  BY DEF RunWrite, SoleRun, Inv, TablesInv
<1>2. ASSUME NEW t \in Txns PROVE Chain(history'[t])
  <2>1. Agrees(t) /\ history[t] \in Histories /\ Chain(history[t])
    BY AgreesMeans, HistoryStays, ChainNow
  <2>2. CASE t \in DOMAIN txns
    <3>1. GoodRow(txns[t]) /\ \A s \in Seams : Bounded(s, new(t)[s])
      BY <1>1, <2>2, OutcomeBounded DEF Inv, TablesInv, GoodTable
    <3>2. history'[t] = RunVersions(history[t], txns[t], new(t))
      BY <1>1, <2>2 DEF RunWrite, Recorded
    <3> HIDE DEF new
    <3>3. Tells(history[t], txns[t])
      BY <2>1 DEF Agrees, Tells
    <3>4. QED
      BY <2>1, <3>1, <3>2, <3>3, RunChain
  <2>3. CASE t \notin DOMAIN txns
    BY <1>1, <2>1, <2>3 DEF RunWrite, Recorded
  <2>4. QED
    BY <2>2, <2>3
<1>3. QED
  BY <1>2, ChainNext

LEMMA OneRowChain ==
    ASSUME HistoryInv, DiffNamesCause, NEW t \in Txns, NEW g,
           Recorded([history EXCEPT ![t] = g]), Chain(g)
    PROVE  DiffNamesCause'
<1>1. history' = [history EXCEPT ![t] = g] /\ DOMAIN history = Txns
  BY DEF Recorded, HistoryInv
<1>2. ASSUME NEW u \in Txns PROVE Chain(history'[u])
  BY <1>1, ChainNow
<1>3. QED
  BY <1>2, ChainNext

LEMMA FirstChain ==
    ASSUME NEW h, h = << >>, NEW v
    PROVE  Chain(h \o <<v>>)
<1>1. Len(h \o <<v>>) = 1
  OBVIOUS
<1>2. QED
  BY <1>1 DEF Chain

LEMMA ManualEntryChain ==
    ASSUME Inv, HistoryInv, IdsMinted, HistoryAgrees, DiffNamesCause,
           NEW t \in Txns, NEW a \in Accounts, NEW c \in Cores,
           CreateManualTransaction(t, a, c) \/ UpdateTransactionCore(t, a, c)
    PROVE  DiffNamesCause'
<1>1. CASE CreateManualTransaction(t, a, c)
  <2> DEFINE row == [account |-> a, core |-> c, meta |-> NoMeta, edges |-> {}]
             g == history[t] \o <<NewVersion("imported", TransactionSnapshot(row))>>
  <2>1. Recorded([history EXCEPT ![t] = g])
    BY <1>1 DEF CreateManualTransaction
  <2> HIDE DEF row
  <2>2. t \notin DOMAIN txns
    BY <1>1 DEF CreateManualTransaction, IdsMinted
  <2>3. Chain(g)
    BY <2>2, AgreesMeans, FirstChain DEF Agrees
  <2> HIDE DEF g
  <2>4. QED
    BY <2>1, <2>3, OneRowChain
<1>2. CASE UpdateTransactionCore(t, a, c)
  <2> DEFINE row == [txns[t] EXCEPT !.account = a, !.core = c]
             g == VersionChange(history[t], TransactionSnapshot(txns[t]), TransactionSnapshot(row), "edited")
  <2>1. t \in DOMAIN txns /\ GoodRow(txns[t])
    BY <1>2 DEF UpdateTransactionCore, Inv, TablesInv, GoodTable
  <2>2. GoodRow(row) /\ NamesChange(txns[t], row, "edited")
    BY <2>1 DEF NamesChange, GoodRow, Row
  <2>3. Recorded([history EXCEPT ![t] = g])
    BY <1>2 DEF UpdateTransactionCore
  <2> HIDE DEF row
  <2>4. history[t] \in Histories /\ Chain(history[t]) /\ Tells(history[t], txns[t])
    BY HistoryStays, ChainNow, AgreesMeans DEF Agrees, Tells
  <2>5. Chain(g)
    BY <2>1, <2>2, <2>4, ChangeChain
  <2> HIDE DEF g
  <2>6. QED
    BY <2>3, <2>5, OneRowChain
<1>3. QED
  BY <1>1, <1>2

LEMMA RewrittenChain ==
    ASSUME Inv, HistoryInv, HistoryAgrees, DiffNamesCause, NEW t \in Txns, Rewritten(t)
    PROVE  DiffNamesCause'
<1>1. PICK s \in Seams, kind \in Kind : \E n :
        kind = KindOf[s] /\ t \in DOMAIN txns /\ Bounded(s, n) /\ WriteSet(t, s, n, kind)
  BY DEF Rewritten
<1>2. PICK n : kind = KindOf[s] /\ t \in DOMAIN txns /\ Bounded(s, n) /\ WriteSet(t, s, n, kind)
  BY <1>1
<1> DEFINE row == [txns[t] EXCEPT !.meta[s] = n]
           g == VersionChange(history[t], TransactionSnapshot(txns[t]), TransactionSnapshot(row), kind)
<1>3. GoodRow(txns[t])
  BY <1>2 DEF Inv, TablesInv, GoodTable
<1>4. GoodRow(row)
  BY <1>2, <1>3, WithSet
<1>5. kind \in {"labeled", "extended"} /\ NamesChange(txns[t], row, kind)
  BY <1>2, <1>3 DEF NamesChange, KindOf, GoodRow, Row, Meta, Seams
<1>6. Recorded([history EXCEPT ![t] = g])
  BY <1>2 DEF WriteSet
<1> HIDE DEF row
<1>7. history[t] \in Histories /\ Chain(history[t]) /\ Tells(history[t], txns[t])
  BY HistoryStays, ChainNow, AgreesMeans DEF Agrees, Tells
<1>8. Chain(g)
  BY <1>3, <1>4, <1>5, <1>7, ChangeChain
<1> HIDE DEF g
<1>9. QED
  BY <1>6, <1>8, OneRowChain

LEMMA PersistChain ==
    ASSUME Inv, HistoryInv, HistoryAgrees, DiffNamesCause, NEW src, PersistBatch(src)
    PROVE  DiffNamesCause'
<1>1. PICK as \in SUBSET SyncedAccounts, ts \in SUBSET SyncedTxns :
        \E accts \in [as -> Balances], items \in [ts -> [account : as, core : Cores]] :
          Persist(accts, items)
  BY DEF PersistBatch
<1>2. PICK accts \in [as -> Balances], items \in [ts -> [account : as, core : Cores]] :
        Persist(accts, items)
  BY <1>1
<1> DEFINE new == ts \ DOMAIN txns
           changed == {t \in ts \cap DOMAIN txns :
                         txns[t].account # items[t].account \/ txns[t].core # items[t].core}
           born == [t \in new |-> BirthMeta(items[t].core)]
           row(t) == IF t \in new
                     THEN [account |-> items[t].account, core |-> items[t].core,
                           meta |-> born[t], edges |-> {}]
                     ELSE UpdateTransactionFromSync(txns[t], items[t])
<1>3. DOMAIN items = ts
  OBVIOUS
<1>4. history' = [t \in Txns |->
           IF t \in new
           THEN history[t] \o <<NewVersion("imported", TransactionSnapshot(row(t)))>>
           ELSE IF t \in changed
           THEN VersionChange(history[t], TransactionSnapshot(txns[t]),
                              TransactionSnapshot(row(t)), "synced")
           ELSE history[t]]
  BY <1>2, <1>3 DEF Persist, Recorded
<1>5. ASSUME NEW t \in Txns PROVE Chain(history'[t])
  <2>1. Agrees(t) /\ history[t] \in Histories /\ Chain(history[t])
    BY AgreesMeans, HistoryStays, ChainNow
  <2>2. CASE t \in new
    <3>1. history[t] = << >>
      BY <2>1, <2>2 DEF Agrees
    <3>2. history'[t] = history[t] \o <<NewVersion("imported", TransactionSnapshot(row(t)))>>
      BY <1>4, <2>2
    <3> HIDE DEF row
    <3>3. QED
      BY <3>1, <3>2, FirstChain
  <2>3. CASE t \in changed
    <3>1. row(t) = UpdateTransactionFromSync(txns[t], items[t]) /\ t \in DOMAIN txns /\ t \in ts
      BY <2>3
    <3>2. history'[t] = VersionChange(history[t], TransactionSnapshot(txns[t]),
                                      TransactionSnapshot(row(t)), "synced")
      BY <1>4, <2>3
    <3> HIDE DEF row
    <3>3. items[t] \in [account : Accounts, core : Cores]
      BY <3>1 DEF Accounts
    <3>4. GoodRow(txns[t]) /\ GoodRow(row(t))
      BY <3>1, <3>3, SyncedRowGood DEF Inv, TablesInv, GoodTable
    <3>5. NamesChange(txns[t], row(t), "synced")
      BY <3>1, <3>4 DEF NamesChange, UpdateTransactionFromSync, GoodRow, Row
    <3>6. Tells(history[t], txns[t])
      BY <2>1 DEF Agrees, Tells
    <3>7. QED
      BY <2>1, <3>2, <3>4, <3>5, <3>6, ChangeChain
  <2>4. CASE t \notin new /\ t \notin changed
    BY <1>4, <2>1, <2>4
  <2>5. QED
    BY <2>2, <2>3, <2>4
<1>6. QED
  BY <1>5, ChainNext

LEMMA RemoveChain ==
    ASSUME DiffNamesCause, NEW as, NEW ts, Remove(as, ts)
    PROVE  DiffNamesCause'
<1>1. ASSUME NEW t \in Txns PROVE Chain(history'[t])
  <2>1. history'[t] = IF t \in ts THEN << >> ELSE history[t]
    BY DEF Remove
  <2>2. Chain(<< >>)
    BY DEF Chain
  <2>3. QED
    BY <2>1, <2>2, ChainNow
<1>2. QED
  BY <1>1, ChainNext

LEMMA SuffixChain ==
    ASSUME NEW S, NEW h \in Seq(S), Chain(h), NEW n \in Nat
    PROVE  Chain(SubSeq(h, n + 1, Len(h)))
<1> DEFINE left == SubSeq(h, n + 1, Len(h))
<1>1. /\ Len(left) = IF n + 1 <= Len(h) THEN Len(h) - n ELSE 0
      /\ \A i \in 1 .. Len(h) - n : left[i] = h[n + i]
  OBVIOUS
<1> HIDE DEF left
<1>2. ASSUME NEW i \in 2 .. Len(left) PROVE NamesDiff(left[i - 1].snap, left[i])
  <2>1. i - 1 \in 1 .. Len(h) - n /\ i \in 1 .. Len(h) - n /\ n + i \in 2 .. Len(h)
    BY <1>1
  <2>2. left[i - 1] = h[(n + i) - 1] /\ left[i] = h[n + i]
    BY <1>1, <2>1
  <2>3. QED
    BY <2>1, <2>2 DEF Chain
<1>3. QED
  BY <1>2 DEF Chain, left

LEMMA PruneChain ==
    ASSUME HistoryInv, DiffNamesCause, NEW cutoff, PruneTransactionVersions(cutoff)
    PROVE  DiffNamesCause'
<1>1. ASSUME NEW t \in Txns PROVE Chain(history'[t])
  <2> DEFINE older == {i \in DOMAIN history[t] : history[t][i].at < cutoff}
  <2>1. /\ history'[t] = SubSeq(history[t], Cardinality(older) + 1, Len(history[t]))
        /\ Chain(history[t])
    BY ChainNow DEF PruneTransactionVersions
  <2>2. history[t] \in Seq(VersionUpTo(clock)) /\ Len(history[t]) \in Nat
    BY DEF HistoryInv
  <2>3. IsFiniteSet(1 .. Len(history[t]))
    BY <2>2, FS_Interval
  <2>4. older \in SUBSET (1 .. Len(history[t]))
    BY <2>2
  <2> HIDE DEF older
  <2>5. Cardinality(older) \in Nat
    BY <2>3, <2>4, FS_Subset, FS_CardinalityType
  <2>6. QED
    BY <2>1, <2>2, <2>5, SuffixChain
<1>2. QED
  BY <1>1, ChainNext

LEMMA ChainStep ==
    ASSUME Inv, HistoryInv, SoleRun, IdsMinted, HistoryAgrees, DiffNamesCause, [Next]_vars
    PROVE  DiffNamesCause'
<1>1. ASSUME UNCHANGED history
      PROVE  DiffNamesCause'
  BY <1>1 DEF DiffNamesCause
<1>2. CASE RuleStep
  <2>1. ASSUME NEW r \in Runners, RunWrite(r)
        PROVE  DiffNamesCause'
    BY <2>1, RunWriteChain
  <2>2. ASSUME ~\E r \in Runners : RunWrite(r)
        PROVE  DiffNamesCause'
    BY <1>1, <1>2, <2>2 DEF RuleStep, CreateRule, UpdateRule, DeleteRule, RunFails,
                            RunAllRules, RunRule, UnapplyRule, ReadForRun
  <2>3. QED
    BY <2>1, <2>2
<1>3. CASE EntryStep
  <2>1. ASSUME NEW src, PurgeSource(src)
        PROVE  DiffNamesCause'
    BY <2>1, RemoveChain DEF PurgeSource, DeleteAccounts
  <2>2. ASSUME NEW t, NEW a, DeleteTransaction(t) \/ DeleteAccount(a)
        PROVE  DiffNamesCause'
    BY <2>2, RemoveChain DEF DeleteTransaction, DeleteAccount, DeleteAccounts
  <2>3. ASSUME NEW a, NEW b, CreateManualAccount(a, b) \/ UpdateAccount(a, b)
        PROVE  DiffNamesCause'
    BY <1>1, <2>3 DEF CreateManualAccount, UpdateAccount
  <2>4. QED
    BY <1>3, <2>1, <2>2, <2>3, PersistChain, ManualEntryChain DEF EntryStep
<1>4. CASE MetaStep
  <2>1. ASSUME NEW t, NEW e, NEW k, NEW vs,
               AddRelationship(t, e) \/ RemoveRelationship(t, e) \/ DeleteLabel(k, vs)
        PROVE  DiffNamesCause'
    BY <1>1, <2>1 DEF AddRelationship, RemoveRelationship, SetEdges, DeleteLabel
  <2>2. QED
    BY <1>4, <2>1, RewrittenChain, PruneChain, MetaCases
<1>5. CASE UNCHANGED vars
  BY <1>1, <1>5 DEF vars
<1>6. QED
  BY <1>2, <1>3, <1>4, <1>5 DEF Next

\* If nothing is written between the read and the write of a rule run, the difference between a version and
\* the one before is what its kind names, up to labels deleted everywhere in between, and only a first
\* version is imported (RecordTransactionVersion, RecordVersionChange, applyRules), before and after retention.
THEOREM VersionsNameTheirCause == ~Overlap => (Spec => []DiffNamesCause)
<1> SUFFICES ASSUME ~Overlap
             PROVE  Spec => []DiffNamesCause
  OBVIOUS
<1> DEFINE IInv == Inv /\ ToldInv /\ HistoryInv /\ HistoryAgrees /\ DiffNamesCause
<1>1. ASSUME Init
      PROVE  HistoryAgrees /\ DiffNamesCause
  BY <1>1 DEF Init, HistoryAgrees, DiffNamesCause
<1>2. Init => IInv
  BY <1>1, InvInit, ToldInit, HistoryInit
<1>3. IInv /\ [Next]_vars => IInv'
  BY InvStep, ToldStep, HistoryStep, AgreesStep, ChainStep DEF ToldInv
<1>4. IInv => DiffNamesCause
  OBVIOUS
<1> HIDE DEF IInv
<1>5. QED
  BY <1>2, <1>3, <1>4, PTL DEF Spec

-----------------------------------------------------------------------------
(* The copy of the ledger into another database, beside the writes of the server. *)
CONSTANTS CopiedAccounts, AccountOf, Copiers, MaxEvents, MaxPrunes
VARIABLES origin, target, copier, prunes, foreign, switched

Copy == INSTANCE DbMigrate WITH Accounts <- CopiedAccounts, src <- origin, dst <- target

\* Every transaction has its account, and the events are counted.
CopySizes == MaxEvents \in Nat /\ \A x \in Copy!Transactions : AccountOf[x] \in CopiedAccounts

Ids == 0 .. MaxEvents + 1
AnyKey == CopiedAccounts \cup Copy!Transactions \cup Ids
AnyRows ==
  {r \in [Copy!TableNames -> SUBSET AnyKey] :
    r["accounts"] \subseteq CopiedAccounts /\ r["transactions"] \subseteq Copy!Transactions /\ r["events"] \subseteq Ids}
CopyPcs == {"idle", "schema", "check", "read", "insert", "identity", "commit", "done", "failed"}
AnyCopier == [pc : CopyPcs, table : 1 .. 3, read : SUBSET AnyKey, rows : AnyRows, always : AnyRows, ever : AnyRows,
              last : Nat, crossed : BOOLEAN]

AnyTarget == [rows : AnyRows, next : Nat \ {0}]

CopyTyped ==
  /\ origin.rows \in AnyRows /\ origin.last \in 0 .. MaxEvents
  /\ target \in AnyTarget
  /\ copier \in [Copiers -> AnyCopier] /\ foreign \in BOOLEAN /\ switched \in BOOLEAN

\* The tables a copy has inserted, and the accounts it has read.
Inserted(r) == IF r.pc \in {"identity", "commit", "done"} THEN Copy!TableNames
               ELSE {t \in Copy!TableNames : \E i \in 1 .. r.table - 1 : t = Copy!Tables[i]}
Claimed(r) == IF r.pc = "insert" /\ r.table = 1 THEN r.read ELSE r.rows["accounts"]
Between(r, t, rows) == r.always[t] \subseteq rows /\ rows \subseteq r.ever[t]
Begun(r) == r.pc \notin {"idle", "done", "failed"}
Opened(r) == r.pc \in {"read", "insert", "identity", "commit", "done"}

\* What a copy has inserted, and what it has read and not inserted yet, is what the source held meanwhile.
CopyOk(r, S, T, f) ==
  /\ \A t \in Inserted(r) : Between(r, t, r.rows[t])
  /\ \A t \in Copy!TableNames \ Inserted(r) : r.rows[t] = {}
  /\ r.pc = "insert" => Between(r, Copy!Tables[r.table], r.read)
  /\ Begun(r) => \A t \in Copy!TableNames : Between(r, t, S[t])
  /\ ~Opened(r) => r.table = 1
  /\ Claimed(r) \subseteq S["accounts"]
  /\ "transactions" \in Inserted(r) => \A x \in r.rows["transactions"] : AccountOf[x] \in r.rows["accounts"] \cup T.rows["accounts"]
  /\ r.pc = "done" => \A t \in Copy!TableNames : r.rows[t] \subseteq T.rows[t]
  /\ r.pc \in {"commit", "done"} /\ ~r.crossed /\ r.last \in {0} \cup r.rows["events"] => T.next > r.last
  /\ Opened(r) => ~f

\* Of two copies, one had read the accounts that the other had, and at most one has inserted any.
PairOk(r, q) ==
  /\ Claimed(r) \subseteq Claimed(q) \/ Claimed(q) \subseteq Claimed(r)
  /\ r.rows["accounts"] = {} \/ q.rows["accounts"] = {}

\* What the destination holds is a copy, or what it held before.
TargetOk ==
  /\ foreign => target.rows["accounts"] = {} /\ target.rows["transactions"] = {} /\ target.rows["events"] = {0}
  /\ switched => Copy!Done # {}
  /\ Copy!Done = {} /\ ~foreign => Copy!IsEmpty(target.rows)
  /\ ~switched => \/ Copy!Done = {}
                  \/ \E c \in Copy!Done : target.rows = copier[c].rows \/ copier[c].rows["accounts"] = {}
  /\ \A x \in target.rows["transactions"] : AccountOf[x] \in target.rows["accounts"]

CopyInv ==
  /\ CopyTyped
  /\ \A c \in Copiers : CopyOk(copier[c], origin.rows, target, foreign)
  /\ \A c \in Copiers : \A d \in Copiers \ {c} : PairOk(copier[c], copier[d])
  /\ TargetOk

LEMMA TablesAre ==
  /\ Copy!TableNames = {"accounts", "transactions", "events"} /\ Len(Copy!Tables) = 3
  /\ Copy!Tables[1] = "accounts" /\ Copy!Tables[2] = "transactions" /\ Copy!Tables[3] = "events"
BY DEF Copy!TableNames, Copy!Tables

LEMMA NoRowsIs == Copy!None \in AnyRows /\ \A t \in Copy!TableNames : Copy!None[t] = {}
<1>1. Copy!None \in [Copy!TableNames -> SUBSET AnyKey] /\ \A t \in Copy!TableNames : Copy!None[t] = {}
  BY DEF Copy!None
<1>2. QED
  BY <1>1, TablesAre DEF AnyRows

LEMMA RowsAre ==
  ASSUME NEW r \in AnyRows
  PROVE  /\ r \in [Copy!TableNames -> SUBSET AnyKey] /\ r["accounts"] \subseteq CopiedAccounts
         /\ r["transactions"] \subseteq Copy!Transactions /\ r["events"] \subseteq Ids
BY DEF AnyRows

\* No copy, and one that failed: nothing is inserted or claimed.
LEMMA NoCopierIs ==
  /\ Copy!NoCopier \in AnyCopier /\ Copy!NoCopier.pc = "idle" /\ Copy!NoCopier.table = 1 /\ Copy!NoCopier.rows = Copy!None
  /\ Copy!NoCopier.always = Copy!None /\ Copy!NoCopier.ever = Copy!None
<1>1. Copy!NoCopier = [pc |-> "idle", table |-> 1, read |-> {}, rows |-> Copy!None, always |-> Copy!None, ever |-> Copy!None,
                       last |-> 0, crossed |-> FALSE]
  BY DEF Copy!NoCopier
<1>2. QED
  BY <1>1, NoRowsIs DEF AnyCopier, CopyPcs

LEMMA AtRest ==
  ASSUME NEW k, k.pc \in {"idle", "failed", "schema", "check", "read"}, k.table = 1, k.rows = Copy!None,
         Begun(k) => \A t \in Copy!TableNames : Between(k, t, origin.rows[t]),
         k.pc # "read" \/ ~foreign
  PROVE  CopyOk(k, origin.rows, target, foreign) /\ Claimed(k) = {} /\ k.rows["accounts"] = {}
<1>1. Inserted(k) = {}
  BY DEF Inserted
<1>2. Claimed(k) = {} /\ k.rows["accounts"] = {}
  BY NoRowsIs, TablesAre DEF Claimed
<1>3. k.pc # "insert" /\ (Opened(k) => k.pc = "read") /\ k.pc \notin {"commit", "done"}
  BY DEF Opened
<1>4. \A t \in Copy!TableNames : k.rows[t] = {}
  BY NoRowsIs
<1>5. QED
  BY <1>1, <1>2, <1>3, <1>4 DEF CopyOk

LEMMA ClaimsNothing ==
  ASSUME NEW k, NEW q, Claimed(k) = {}, k.rows["accounts"] = {} PROVE PairOk(k, q) /\ PairOk(q, k)
BY DEF PairOk

\* A step of one copy that neither begins nor is reported as success.
LEMMA OneChanges ==
  ASSUME CopyInv, NEW c \in Copiers, NEW k \in AnyCopier, copier' = [copier EXCEPT ![c] = k], UNCHANGED <<origin, target, foreign, switched>>,
         CopyOk(k, origin.rows, target, foreign), \A d \in Copiers \ {c} : PairOk(k, copier[d]) /\ PairOk(copier[d], k),
         k.pc # "done", copier[c].pc # "done"
  PROVE  CopyInv'
<1>1. copier \in [Copiers -> AnyCopier]
  BY DEF CopyInv, CopyTyped
<1>2. copier' \in [Copiers -> AnyCopier] /\ copier'[c] = k /\ \A d \in Copiers \ {c} : copier'[d] = copier[d]
  BY <1>1
<1>3. CopyTyped'
  BY <1>2 DEF CopyInv, CopyTyped
<1>4. (\A d \in Copiers : CopyOk(copier[d], origin.rows, target, foreign))'
  BY <1>2 DEF CopyInv
<1>5. (\A d \in Copiers : \A e \in Copiers \ {d} : PairOk(copier[d], copier[e]))'
  BY <1>2 DEF CopyInv
<1>6. Copy!Done' = Copy!Done /\ \A d \in Copy!Done : copier'[d] = copier[d]
  BY <1>2 DEF Copy!Done
<1>7. TargetOk'
  BY <1>6 DEF CopyInv, TargetOk, Copy!IsEmpty
<1>8. QED
  BY <1>3, <1>4, <1>5, <1>7 DEF CopyInv

LEMMA CopyStarts == ASSUME CopySizes PROVE Copy!Init => CopyInv
<1> SUFFICES ASSUME Copy!Init PROVE CopyInv
  OBVIOUS
<1>1. PICK t \in SUBSET Copy!Transactions :
        origin = [rows |-> [Copy!None EXCEPT !["transactions"] = t, !["accounts"] = {AccountOf[x] : x \in t}], last |-> 0]
  BY DEF Copy!Init
<1>2. PICK f \in BOOLEAN : foreign = f /\ target = [rows |-> IF f THEN [Copy!None EXCEPT !["events"] = {0}] ELSE Copy!None, next |-> 1]
  BY DEF Copy!Init
<1>3. copier = [c \in Copiers |-> Copy!NoCopier] /\ prunes = 0 /\ switched = FALSE
  BY DEF Copy!Init
<1>4. {AccountOf[x] : x \in t} \subseteq CopiedAccounts /\ MaxEvents \in Nat /\ 0 \in Ids
  BY DEF CopySizes, Ids
<1>5. origin.rows \in AnyRows /\ origin.last = 0
  <2> DEFINE r == [Copy!None EXCEPT !["transactions"] = t]
             q == [r EXCEPT !["accounts"] = {AccountOf[x] : x \in t}]
  <2>1. t \in SUBSET AnyKey /\ {AccountOf[x] : x \in t} \in SUBSET AnyKey
    BY <1>4 DEF AnyKey
  <2>2. Copy!None \in [Copy!TableNames -> SUBSET AnyKey] /\ Copy!None["events"] = {}
    BY NoRowsIs, TablesAre DEF AnyRows
  <2>3. r \in [Copy!TableNames -> SUBSET AnyKey] /\ r["transactions"] = t /\ r["events"] = {}
    BY <2>1, <2>2, TablesAre
  <2>4. q \in [Copy!TableNames -> SUBSET AnyKey] /\ q["transactions"] = t /\ q["events"] = {} /\ q["accounts"] = {AccountOf[x] : x \in t}
    BY <2>1, <2>3, TablesAre
  <2>5. q \in AnyRows
    BY <2>4, <1>4 DEF AnyRows
  <2>6. origin.rows = q /\ origin.last = 0
    BY <1>1
  <2>7. QED
    BY <2>5, <2>6
<1>6. /\ target.next = 1 /\ target.rows \in AnyRows /\ target.rows["accounts"] = {} /\ target.rows["transactions"] = {}
      /\ (f => target.rows["events"] = {0}) /\ (~f => target.rows = Copy!None)
  <2> DEFINE r == [Copy!None EXCEPT !["events"] = {0}]
  <2>1. Copy!None \in [Copy!TableNames -> SUBSET AnyKey] /\ (\A n \in Copy!TableNames : Copy!None[n] = {}) /\ {0} \in SUBSET AnyKey
    BY NoRowsIs, <1>4 DEF AnyRows, AnyKey
  <2>2. r \in [Copy!TableNames -> SUBSET AnyKey] /\ r["accounts"] = {} /\ r["transactions"] = {} /\ r["events"] = {0}
    BY <2>1, TablesAre
  <2>3. r \in AnyRows
    BY <2>2, <1>4 DEF AnyRows
  <2>4. QED
    BY <1>2, <2>1, <2>2, <2>3, NoRowsIs, TablesAre
<1>7. CopyTyped
  <2>0. target \in AnyTarget
    BY <1>2, <1>6 DEF AnyTarget
  <2>1. origin.last \in 0 .. MaxEvents /\ target.next \in Nat \ {0}
    BY <1>4, <1>5, <1>6
  <2>2. copier \in [Copiers -> AnyCopier]
    BY <1>3, NoCopierIs
  <2>3. QED
    BY <1>2, <1>3, <1>5, <2>0, <2>1, <2>2 DEF CopyTyped
<1>8. \A c \in Copiers : copier[c] = Copy!NoCopier
  BY <1>3
<1>9. \A c \in Copiers : CopyOk(copier[c], origin.rows, target, foreign) /\ Claimed(copier[c]) = {} /\ copier[c].rows["accounts"] = {}
  BY <1>2, <1>8, NoCopierIs, AtRest DEF Begun
<1>10. Copy!Done = {}
  BY <1>8, NoCopierIs DEF Copy!Done
<1>11. TargetOk
  BY <1>2, <1>3, <1>6, <1>10, NoRowsIs DEF TargetOk, Copy!IsEmpty
<1>12. QED
  BY <1>7, <1>9, <1>11, ClaimsNothing DEF CopyInv

LEMMA CopierIs ==
  ASSUME CopyInv, NEW c \in Copiers
  PROVE  copier[c] \in AnyCopier /\ CopyOk(copier[c], origin.rows, target, foreign) /\ foreign \in BOOLEAN
BY DEF CopyInv, CopyTyped

LEMMA MigrateKeeps == ASSUME CopyInv, NEW c \in Copiers, Copy!Migrate(c) PROVE CopyInv'
<1> DEFINE a == [Copy!NoCopier EXCEPT !.pc = "schema"]
           b == [a EXCEPT !.always = origin.rows]
           k == [b EXCEPT !.ever = origin.rows]
<1>1. origin.rows \in AnyRows /\ foreign \in BOOLEAN
  BY DEF CopyInv, CopyTyped
<1>2. a \in AnyCopier /\ a.pc = "schema" /\ a.table = 1 /\ a.rows = Copy!None
  BY NoCopierIs DEF AnyCopier, CopyPcs
<1>3. copier' = [copier EXCEPT ![c] = k]
  BY DEF Copy!Migrate, Copy!Become
<1> HIDE DEF a
<1>4. b \in AnyCopier /\ b.pc = "schema" /\ b.table = 1 /\ b.rows = Copy!None /\ b.always = origin.rows
  BY <1>1, <1>2 DEF AnyCopier
<1> HIDE DEF b
<1>5. k \in AnyCopier /\ k.pc = "schema" /\ k.table = 1 /\ k.rows = Copy!None /\ k.always = origin.rows /\ k.ever = origin.rows
  BY <1>1, <1>4 DEF AnyCopier
<1> HIDE DEF k
<1>6. \A t \in Copy!TableNames : Between(k, t, origin.rows[t])
  BY <1>5 DEF Between
<1>7. CopyOk(k, origin.rows, target, foreign) /\ Claimed(k) = {} /\ k.rows["accounts"] = {}
  BY <1>1, <1>5, <1>6, AtRest
<1>8. UNCHANGED <<origin, target, foreign, switched>> /\ copier[c].pc # "done"
  BY DEF Copy!Migrate, Copy!KeepAll
<1>9. QED
  BY <1>3, <1>5, <1>7, <1>8, ClaimsNothing, OneChanges

\* A copy that ends, and one that is asked for again.
LEMMA EndKeeps ==
  ASSUME CopyInv, NEW c \in Copiers, copier[c].pc # "done", Copy!Become(c, Copy!NoCopier) \/ Copy!Become(c, [Copy!NoCopier EXCEPT !.pc = "failed"]),
         UNCHANGED <<origin, target, foreign, switched>>
  PROVE  CopyInv'
<1> DEFINE e == [Copy!NoCopier EXCEPT !.pc = "failed"]
<1>1. e \in AnyCopier /\ e.pc = "failed" /\ e.table = 1 /\ e.rows = Copy!None
  BY NoCopierIs DEF AnyCopier, CopyPcs
<1>2. copier' = [copier EXCEPT ![c] = Copy!NoCopier] \/ copier' = [copier EXCEPT ![c] = e]
  BY DEF Copy!Become
<1> HIDE DEF e
<1>3. PICK k \in AnyCopier : /\ copier' = [copier EXCEPT ![c] = k] /\ k.pc \in {"idle", "failed"} /\ k.table = 1 /\ k.rows = Copy!None
  BY <1>1, <1>2, NoCopierIs
<1>4. ~Begun(k) /\ foreign \in BOOLEAN
  BY <1>3, CopierIs DEF Begun
<1>5. CopyOk(k, origin.rows, target, foreign) /\ Claimed(k) = {} /\ k.rows["accounts"] = {}
  BY <1>3, <1>4, AtRest
<1>6. QED
  BY <1>3, <1>5, ClaimsNothing, OneChanges

\* The checks before the first row.
LEMMA CheckKeeps == ASSUME CopyInv, NEW c \in Copiers, Copy!ApplyMigrations(c) \/ Copy!EnsureEmpty(c) PROVE CopyInv'
<1>1. PICK p \in {"check", "read", "failed"} :
        /\ copier[c].pc \in {"schema", "check"} /\ copier' = [copier EXCEPT ![c] = [copier[c] EXCEPT !.pc = p]]
        /\ p = "read" => Copy!IsEmpty(target.rows)
        /\ UNCHANGED <<origin, target, foreign, switched>>
  <2>1. CASE Copy!ApplyMigrations(c)
    BY <2>1 DEF Copy!ApplyMigrations, Copy!Become, Copy!KeepAll
  <2>2. CASE Copy!EnsureEmpty(c)
    BY <2>2 DEF Copy!EnsureEmpty, Copy!Become, Copy!KeepAll
  <2>3. QED
    BY <2>1, <2>2
<1> DEFINE k == [copier[c] EXCEPT !.pc = p]
<1>2. copier[c] \in AnyCopier /\ CopyOk(copier[c], origin.rows, target, foreign) /\ foreign \in BOOLEAN
  BY CopierIs
<1>3. k \in AnyCopier /\ k.pc = p /\ k.table = copier[c].table /\ k.rows = copier[c].rows /\ k.always = copier[c].always /\ k.ever = copier[c].ever
  BY <1>2 DEF AnyCopier, CopyPcs
<1>4. copier' = [copier EXCEPT ![c] = k]
  BY <1>1
<1> HIDE DEF k
<1>5. ~Opened(copier[c]) /\ Begun(copier[c])
  BY <1>1 DEF Opened, Begun
<1>6. copier[c].table = 1 /\ \A t \in Copy!TableNames : Between(copier[c], t, origin.rows[t])
  BY <1>2, <1>5 DEF CopyOk
<1>7. Inserted(copier[c]) = {}
  BY <1>1, <1>6 DEF Inserted
<1>8. copier[c].rows = Copy!None
  <2>1. \A t \in Copy!TableNames : copier[c].rows[t] = {}
    BY <1>2, <1>7 DEF CopyOk
  <2>2. copier[c].rows \in [Copy!TableNames -> SUBSET AnyKey]
    BY <1>2, RowsAre DEF AnyCopier
  <2>3. QED
    BY <2>1, <2>2 DEF Copy!None
<1>9. \A t \in Copy!TableNames : Between(k, t, origin.rows[t])
  BY <1>3, <1>6 DEF Between
<1>10. p = "read" => ~foreign
  <2> SUFFICES ASSUME p = "read", foreign PROVE FALSE
    BY <1>2
  <2>1. target.rows["events"] = {0}
    BY DEF CopyInv, TargetOk
  <2>2. QED
    BY <1>1, <2>1, TablesAre DEF Copy!IsEmpty
<1>11. CopyOk(k, origin.rows, target, foreign) /\ Claimed(k) = {} /\ k.rows["accounts"] = {}
  <2>1. k.pc \in {"idle", "failed", "schema", "check", "read"} /\ k.table = 1 /\ k.rows = Copy!None /\ (k.pc # "read" \/ ~foreign)
    BY <1>3, <1>6, <1>8, <1>10
  <2>2. QED
    BY <1>2, <1>9, <2>1, AtRest
<1>12. QED
  <2>1. k.pc # "done" /\ copier[c].pc # "done"
    BY <1>1, <1>3
  <2>2. QED
    BY <1>1, <1>3, <1>4, <1>11, <2>1, ClaimsNothing, OneChanges

LEMMA InsertedIs ==
  ASSUME NEW r \in AnyCopier
  PROVE  /\ r.pc \in {"identity", "commit", "done"} => Inserted(r) = Copy!TableNames
         /\ r.pc \notin {"identity", "commit", "done"} =>
              /\ r.table = 1 => Inserted(r) = {}
              /\ r.table = 2 => Inserted(r) = {"accounts"}
              /\ r.table = 3 => Inserted(r) = {"accounts", "transactions"}
<1> SUFFICES ASSUME r.pc \notin {"identity", "commit", "done"}
             PROVE  /\ r.table = 1 => Inserted(r) = {}
                    /\ r.table = 2 => Inserted(r) = {"accounts"}
                    /\ r.table = 3 => Inserted(r) = {"accounts", "transactions"}
  BY DEF Inserted
<1>1. Inserted(r) = {t \in Copy!TableNames : \E i \in 1 .. r.table - 1 : t = Copy!Tables[i]}
  BY DEF Inserted
<1>2. CASE r.table = 1
  BY <1>1, <1>2
<1>3. CASE r.table = 2
  <2>1. \A i : i \in 1 .. r.table - 1 <=> i = 1
    BY <1>3
  <2>2. QED
    BY <1>1, <1>3, <2>1, TablesAre
<1>4. CASE r.table = 3
  <2>1. \A i : i \in 1 .. r.table - 1 <=> i = 1 \/ i = 2
    BY <1>4
  <2>2. QED
    BY <1>1, <1>4, <2>1, TablesAre
<1>5. QED
  BY <1>2, <1>3, <1>4 DEF AnyCopier

LEMMA TableIs ==
  ASSUME NEW r \in AnyCopier
  PROVE  Copy!Tables[r.table] \in Copy!TableNames /\ (Copy!Tables[r.table] = "accounts" <=> r.table = 1)
         /\ (Copy!Tables[r.table] = "events" <=> r.table = 3)
<1>1. r.table = 1 \/ r.table = 2 \/ r.table = 3
  BY DEF AnyCopier
<1>2. QED
  BY <1>1, TablesAre

LEMMA ReadKeeps == ASSUME CopyInv, NEW c \in Copiers, Copy!ReadTable(c) PROVE CopyInv'
<1> DEFINE r == copier[c]
           t == Copy!Tables[r.table]
           new == IF t = "events" THEN origin.last ELSE 0
           a == [r EXCEPT !.pc = "insert"]
           b == [a EXCEPT !.read = origin.rows[t]]
           k == [b EXCEPT !.last = new]
<1>1. r \in AnyCopier /\ CopyOk(r, origin.rows, target, foreign) /\ foreign \in BOOLEAN /\ t \in Copy!TableNames
  BY CopierIs, TableIs
<1>2. r.pc = "read" /\ copier' = [copier EXCEPT ![c] = k] /\ UNCHANGED <<origin, target, foreign, switched>>
  BY DEF Copy!ReadTable, Copy!Become, Copy!KeepAll
<1>3. origin.rows[t] \in SUBSET AnyKey /\ new \in Nat
  <2>1. origin.rows \in AnyRows /\ origin.last \in Nat
    BY DEF CopyInv, CopyTyped
  <2>2. QED
    BY <1>1, <2>1, RowsAre
<1> HIDE DEF r, t, new
<1>4. a \in AnyCopier /\ a.pc = "insert" /\ a.table = r.table /\ a.rows = r.rows /\ a.always = r.always /\ a.ever = r.ever
  BY <1>1 DEF AnyCopier, CopyPcs
<1> HIDE DEF a
<1>5. /\ b \in AnyCopier /\ b.pc = "insert" /\ b.table = r.table /\ b.rows = r.rows /\ b.always = r.always /\ b.ever = r.ever
      /\ b.read = origin.rows[t]
  BY <1>3, <1>4 DEF AnyCopier
<1> HIDE DEF b
<1>6. /\ k \in AnyCopier /\ k.pc = "insert" /\ k.table = r.table /\ k.rows = r.rows /\ k.always = r.always /\ k.ever = r.ever
      /\ k.read = origin.rows[t]
  BY <1>3, <1>5 DEF AnyCopier
<1> HIDE DEF k
<1>7. Inserted(k) = Inserted(r)
  BY <1>2, <1>6 DEF Inserted
<1>8. \A u \in Copy!TableNames : Between(k, u, origin.rows[u])
  BY <1>1, <1>2, <1>6 DEF CopyOk, Begun, Between
<1>9. Claimed(r) = r.rows["accounts"] /\ (r.table = 1 => Claimed(k) = origin.rows["accounts"]) /\ (r.table # 1 => Claimed(k) = Claimed(r))
  BY <1>1, <1>2, <1>6, TablesAre DEF Claimed, t
<1>10. CopyOk(k, origin.rows, target, foreign)
  <2>1. \A u \in Inserted(k) : Between(k, u, k.rows[u])
    BY <1>1, <1>6, <1>7 DEF CopyOk, Between
  <2>2. \A u \in Copy!TableNames \ Inserted(k) : k.rows[u] = {}
    BY <1>1, <1>6, <1>7 DEF CopyOk
  <2>3. Between(k, Copy!Tables[k.table], k.read)
    BY <1>1, <1>6, <1>8 DEF t
  <2>4. Claimed(k) \subseteq origin.rows["accounts"]
    BY <1>1, <1>9 DEF CopyOk
  <2>5. "transactions" \in Inserted(k) => \A x \in k.rows["transactions"] : AccountOf[x] \in k.rows["accounts"] \cup target.rows["accounts"]
    BY <1>1, <1>6, <1>7 DEF CopyOk
  <2>6. ~foreign /\ Opened(k)
    BY <1>1, <1>2, <1>6 DEF CopyOk, Opened
  <2>7. k.pc \notin {"commit", "done"} /\ k.pc = "insert"
    BY <1>6
  <2>8. QED
    BY <1>8, <2>1, <2>2, <2>3, <2>4, <2>5, <2>6, <2>7 DEF CopyOk
<1>11. ASSUME NEW d \in Copiers \ {c} PROVE PairOk(k, copier[d]) /\ PairOk(copier[d], k)
  <2>1. PairOk(r, copier[d]) /\ Claimed(copier[d]) \subseteq origin.rows["accounts"]
    BY CopierIs DEF CopyInv, CopyOk, r
  <2>2. QED
    BY <1>6, <1>9, <2>1 DEF PairOk
<1>12. k.pc # "done" /\ r.pc # "done"
  BY <1>2, <1>6
<1>13. QED
  BY <1>2, <1>6, <1>10, <1>11, <1>12, OneChanges DEF r

LEMMA InsertKeeps == ASSUME CopyInv, NEW c \in Copiers, Copy!CopyTable(c) PROVE CopyInv'
<1> DEFINE r == copier[c]
           t == Copy!Tables[r.table]
           a == [r EXCEPT !.pc = IF r.table = 3 THEN "identity" ELSE "read"]
           b == [a EXCEPT !.table = IF r.table = 3 THEN 3 ELSE r.table + 1]
           filled == [r.rows EXCEPT ![t] = r.read]
           k == [b EXCEPT !.rows = filled]
<1>1. r \in AnyCopier /\ CopyOk(r, origin.rows, target, foreign) /\ foreign \in BOOLEAN /\ t \in Copy!TableNames
  BY CopierIs, TableIs
<1>2. r.pc = "insert" /\ UNCHANGED <<origin, target, foreign, switched>>
  BY DEF Copy!CopyTable, Copy!KeepAll
<1>3. CASE Copy!Become(c, [Copy!NoCopier EXCEPT !.pc = "failed"])
  <2>1. copier[c].pc # "done"
    BY <1>2
  <2>2. QED
    BY <1>2, <1>3, <2>1, EndKeeps
<1>4. CASE ~Copy!Become(c, [Copy!NoCopier EXCEPT !.pc = "failed"])
  <2>1. /\ r.read \cap target.rows[t] = {}
        /\ t = "transactions" => \A x \in r.read : AccountOf[x] \in r.rows["accounts"] \cup target.rows["accounts"]
        /\ \A d \in Copiers \ {c} : copier[d].pc \in Copy!Open => r.read \cap copier[d].rows[t] = {}
    BY <1>4 DEF Copy!CopyTable, Copy!Other
  <2>2. copier' = [copier EXCEPT ![c] = k]
    <3>1. CASE r.table = 3
      <4>1. copier' = [copier EXCEPT ![c] = [r EXCEPT !.pc = "identity", !.rows[t] = r.read]]
        BY <1>4, <3>1, TablesAre DEF Copy!CopyTable, Copy!Become
      <4>2. [r EXCEPT !.pc = "identity", !.rows[t] = r.read] = k
        BY <1>1, <3>1 DEF AnyCopier
      <4>3. QED
        BY <4>1, <4>2
    <3>2. CASE r.table # 3
      <4>1. copier' = [copier EXCEPT ![c] = [r EXCEPT !.pc = "read", !.table = @ + 1, !.rows[t] = r.read]]
        BY <1>4, <3>2, TablesAre DEF Copy!CopyTable, Copy!Become
      <4>2. [r EXCEPT !.pc = "read", !.table = @ + 1, !.rows[t] = r.read] = k
        BY <1>1, <3>2 DEF AnyCopier
      <4>3. QED
        BY <4>1, <4>2
    <3>3. QED
      BY <3>1, <3>2
  <2> HIDE DEF r, t
  <2>3. r.read \subseteq r.ever[t] /\ Between(r, t, r.read)
    BY <1>1, <1>2 DEF CopyOk, Between, t
  <2>4. filled \in AnyRows /\ filled[t] = r.read /\ \A u \in Copy!TableNames \ {t} : filled[u] = r.rows[u]
    <3>1. r.rows \in AnyRows /\ r.ever \in AnyRows /\ r.read \in SUBSET AnyKey
      BY <1>1 DEF AnyCopier
    <3>2. r.rows \in [Copy!TableNames -> SUBSET AnyKey]
      BY <3>1, RowsAre
    <3>3. filled \in [Copy!TableNames -> SUBSET AnyKey] /\ filled[t] = r.read /\ \A u \in Copy!TableNames \ {t} : filled[u] = r.rows[u]
      BY <1>1, <3>1, <3>2
    <3> HIDE DEF filled
    <3>4. \A u \in Copy!TableNames : filled[u] \subseteq r.rows[u] \/ filled[u] \subseteq r.ever[u]
      BY <2>3, <3>3
    <3>5. QED
      BY <3>1, <3>3, <3>4, RowsAre, TablesAre DEF AnyRows
  <2> HIDE DEF filled
  <2>5. a \in AnyCopier /\ a.pc = (IF r.table = 3 THEN "identity" ELSE "read") /\ a.rows = r.rows /\ a.always = r.always /\ a.ever = r.ever
    BY <1>1 DEF AnyCopier, CopyPcs
  <2> HIDE DEF a
  <2>6. /\ b \in AnyCopier /\ b.pc = (IF r.table = 3 THEN "identity" ELSE "read") /\ b.rows = r.rows /\ b.always = r.always /\ b.ever = r.ever
        /\ b.table = (IF r.table = 3 THEN 3 ELSE r.table + 1)
    <3>1. (IF r.table = 3 THEN 3 ELSE r.table + 1) \in 1 .. 3
      BY <1>1 DEF AnyCopier
    <3>2. QED
      BY <2>5, <3>1 DEF AnyCopier
  <2> HIDE DEF b
  <2>7. /\ k \in AnyCopier /\ k.pc = (IF r.table = 3 THEN "identity" ELSE "read") /\ k.rows = filled /\ k.always = r.always /\ k.ever = r.ever
        /\ k.table = (IF r.table = 3 THEN 3 ELSE r.table + 1)
    BY <2>4, <2>6 DEF AnyCopier
  <2> HIDE DEF k
  <2>8. Inserted(k) = Inserted(r) \cup {t}
    <3>1. r.table = 1 \/ r.table = 2 \/ r.table = 3
      BY <1>1 DEF AnyCopier
    <3>2. CASE r.table = 1
      BY <1>1, <1>2, <2>7, <3>2, InsertedIs, TablesAre DEF t
    <3>3. CASE r.table = 2
      BY <1>1, <1>2, <2>7, <3>3, InsertedIs, TablesAre DEF t
    <3>4. CASE r.table = 3
      BY <1>1, <1>2, <2>7, <3>4, InsertedIs, TablesAre DEF t
    <3>5. QED
      BY <3>1, <3>2, <3>3, <3>4
  <2>9. Claimed(k) = Claimed(r) /\ Claimed(k) = k.rows["accounts"]
    BY <1>1, <1>2, <2>4, <2>7, TableIs, TablesAre DEF Claimed, t
  <2>10. CopyOk(k, origin.rows, target, foreign)
    <3>1. \A u \in Inserted(k) : Between(k, u, k.rows[u])
      <4>1. \A u \in Inserted(r) : Between(r, u, r.rows[u])
        BY <1>1 DEF CopyOk
      <4>2. Inserted(r) \subseteq Copy!TableNames
        BY DEF Inserted
      <4>3. QED
        BY <2>3, <2>4, <2>7, <2>8, <4>1, <4>2 DEF Between
    <3>2. \A u \in Copy!TableNames \ Inserted(k) : k.rows[u] = {}
      BY <1>1, <2>4, <2>7, <2>8 DEF CopyOk
    <3>3. \A u \in Copy!TableNames : Between(k, u, origin.rows[u])
      BY <1>1, <1>2, <2>7 DEF CopyOk, Begun, Between
    <3>4. Claimed(k) \subseteq origin.rows["accounts"]
      BY <1>1, <2>9 DEF CopyOk
    <3>5. "transactions" \in Inserted(k) => \A x \in k.rows["transactions"] : AccountOf[x] \in k.rows["accounts"] \cup target.rows["accounts"]
      <4> SUFFICES ASSUME "transactions" \in Inserted(k), NEW x \in k.rows["transactions"]
                   PROVE  AccountOf[x] \in k.rows["accounts"] \cup target.rows["accounts"]
        OBVIOUS
      <4>1. r.table # 1
        BY <1>1, <1>2, <2>7, InsertedIs, TablesAre
      <4>2. k.rows["accounts"] = r.rows["accounts"]
        BY <1>1, <2>4, <2>7, <4>1, TableIs, TablesAre DEF t
      <4>3. CASE t = "transactions"
        BY <2>1, <2>4, <2>7, <4>2, <4>3
      <4>4. CASE t # "transactions"
        <5>1. "transactions" \in Inserted(r) /\ x \in r.rows["transactions"]
          BY <2>4, <2>7, <2>8, <4>4, TablesAre
        <5>2. QED
          BY <1>1, <4>2, <5>1 DEF CopyOk
      <4>5. QED
        BY <4>3, <4>4
    <3>6. ~foreign /\ Opened(k)
      BY <1>1, <1>2, <2>7 DEF CopyOk, Opened
    <3>7. k.pc \notin {"commit", "done", "insert"}
      BY <2>7
    <3>8. QED
      BY <3>1, <3>2, <3>3, <3>4, <3>5, <3>6, <3>7 DEF CopyOk
  <2>11. ASSUME NEW d \in Copiers \ {c} PROVE PairOk(k, copier[d]) /\ PairOk(copier[d], k)
    <3>1. PairOk(r, copier[d]) /\ CopyOk(copier[d], origin.rows, target, foreign) /\ copier[d] \in AnyCopier
      BY CopierIs DEF CopyInv, r
    <3>2. CASE t # "accounts"
      BY <2>4, <2>7, <2>9, <3>1, <3>2, TablesAre DEF PairOk
    <3>3. CASE t = "accounts"
      <4>1. Claimed(r) = r.read /\ k.rows["accounts"] = r.read
        BY <1>1, <1>2, <2>4, <2>7, <3>3, TableIs DEF Claimed, t
      <4>2. r.read \cap copier[d].rows["accounts"] = {}
        <5>1. CASE copier[d].pc \in Copy!Open
          BY <2>1, <3>3, <5>1
        <5>2. CASE copier[d].pc = "done"
          BY <2>1, <3>1, <3>3, <5>2, TablesAre DEF CopyOk
        <5>3. CASE copier[d].pc \notin Copy!Open /\ copier[d].pc # "done"
          <6>1. ~Opened(copier[d]) /\ copier[d].pc \notin {"identity", "commit", "done"}
            BY <5>3 DEF Opened, Copy!Open
          <6>2. Inserted(copier[d]) = {}
            BY <3>1, <6>1, InsertedIs DEF CopyOk
          <6>3. QED
            BY <3>1, <6>2, TablesAre DEF CopyOk
        <5>4. QED
          BY <5>1, <5>2, <5>3
      <4>3. Claimed(copier[d]) = copier[d].rows["accounts"] \/ copier[d].rows["accounts"] = {}
        <5>1. CASE copier[d].pc = "insert" /\ copier[d].table = 1
          <6>1. Inserted(copier[d]) = {}
            BY <3>1, <5>1, InsertedIs
          <6>2. QED
            BY <3>1, <6>1, TablesAre DEF CopyOk
        <5>2. QED
          BY <5>1 DEF Claimed
      <4>4. QED
        BY <2>9, <3>1, <4>1, <4>2, <4>3 DEF PairOk
    <3>4. QED
      BY <3>2, <3>3
  <2>12. k.pc # "done" /\ r.pc # "done"
    BY <1>2, <2>7
  <2>13. QED
    BY <1>2, <2>2, <2>7, <2>10, <2>11, <2>12, OneChanges DEF r
<1>5. QED
  BY <1>3, <1>4

\* The highest of the ids there are.
LEMMA HighestIs ==
  ASSUME CopySizes, NEW ids \in SUBSET Ids
  PROVE  Copy!PastHighest(ids) \in Nat \ {0} /\ \A n \in ids : n < Copy!PastHighest(ids)
<1>1. CASE ids = {}
  BY <1>1 DEF Copy!PastHighest
<1>2. CASE ids # {}
  <2> DEFINE M == MaxEvents + 1
             gaps == {M - n : n \in ids}
  <2>1. M \in Nat /\ \A n \in ids : n \in Nat /\ n <= M
    BY DEF CopySizes, Ids
  <2> HIDE DEF M
  <2>2. gaps \subseteq Nat /\ gaps # {}
    BY <1>2, <2>1
  <2>3. PICK g \in gaps : \A h \in gaps : <<h, g>> \notin OpToRel(<, Nat)
    BY <2>2, NatLessThanWellFounded, WFMin
  <2>4. PICK n \in ids : g = M - n
    OBVIOUS
  <2>5. ASSUME NEW m \in ids PROVE m <= n
    <3>1. M - m \in gaps /\ M - m \in Nat /\ g \in Nat
      BY <2>1, <2>2
    <3>2. ~(M - m < g)
      BY <2>3, <3>1 DEF OpToRel
    <3>3. QED
      BY <2>1, <2>4, <3>2
  <2> DEFINE top == CHOOSE i \in ids : \A m \in ids : m <= i
  <2>6. top \in ids /\ \A m \in ids : m <= top
    BY <2>5
  <2>7. Copy!PastHighest(ids) = 1 + top
    BY <1>2 DEF Copy!PastHighest
  <2> HIDE DEF top
  <2>8. QED
    BY <2>1, <2>6, <2>7
<1>3. QED
  BY <1>1, <1>2

LEMMA ResetKeeps == ASSUME CopySizes, CopyInv, NEW c \in Copiers, Copy!ResetIdentity(c) PROVE CopyInv'
<1> DEFINE ids == copier[c].rows["events"] \cup target.rows["events"]
<1>1. /\ copier[c].pc = "identity" /\ UNCHANGED <<origin, foreign, switched>>
      /\ copier' = [d \in Copiers |-> IF d = c THEN [copier[c] EXCEPT !.pc = "commit"]
                                      ELSE [copier[d] EXCEPT !.crossed = @ \/ copier[d].pc = "commit"]]
      /\ target' = [target EXCEPT !.next = Copy!PastHighest(ids)]
  BY DEF Copy!ResetIdentity, Copy!KeepAll
<1>2. target.rows \in AnyRows /\ ids \in SUBSET Ids
  <2>1. copier[c].rows \in AnyRows /\ target.rows \in AnyRows
    BY CopierIs DEF CopyInv, CopyTyped, AnyCopier, AnyTarget
  <2>2. QED
    BY <2>1, RowsAre
<1>3. Copy!PastHighest(ids) \in Nat \ {0} /\ \A n \in ids : n < Copy!PastHighest(ids)
  BY <1>2, HighestIs
<1>4. target'.rows = target.rows /\ target'.next = Copy!PastHighest(ids)
  <2>1. target \in [rows : {target.rows}, next : {target.next}]
    BY DEF CopyInv, CopyTyped, AnyTarget
  <2>2. QED
    BY <1>1, <2>1
<1>5. ASSUME NEW d \in Copiers
      PROVE  /\ copier'[d] \in AnyCopier /\ copier'[d].table = copier[d].table /\ copier'[d].read = copier[d].read
             /\ copier'[d].rows = copier[d].rows /\ copier'[d].always = copier[d].always /\ copier'[d].ever = copier[d].ever
             /\ copier'[d].last = copier[d].last
             /\ d = c => copier'[d].pc = "commit"
             /\ d # c => copier'[d].pc = copier[d].pc /\ copier'[d].crossed = (copier[d].crossed \/ copier[d].pc = "commit")
  <2>1. copier[d] \in AnyCopier
    BY CopierIs
  <2>2. CASE d = c
    BY <1>1, <2>1, <2>2 DEF AnyCopier, CopyPcs
  <2>3. CASE d # c
    <3>1. (copier[d].crossed \/ copier[d].pc = "commit") \in BOOLEAN
      BY <2>1 DEF AnyCopier
    <3>2. copier'[d] = [copier[d] EXCEPT !.crossed = copier[d].crossed \/ copier[d].pc = "commit"]
      BY <1>1, <2>3
    <3>3. QED
      BY <2>1, <2>3, <3>1, <3>2 DEF AnyCopier
  <2>4. QED
    BY <2>2, <2>3
<1> HIDE DEF ids
<1>6. CopyTyped'
  <2>1. copier' \in [Copiers -> AnyCopier]
    BY <1>1, <1>5
  <2>2. QED
    BY <1>1, <1>2, <1>3, <1>4, <2>1 DEF CopyInv, CopyTyped, AnyTarget
<1>7. \A d \in Copiers : Claimed(copier'[d]) = Claimed(copier[d]) /\ Inserted(copier'[d]) = Inserted(copier[d])
  BY <1>1, <1>5 DEF Claimed, Inserted
<1>8. ASSUME NEW d \in Copiers PROVE CopyOk(copier[d], origin.rows, target, foreign)'
  <2> DEFINE r == copier[d]
             k == copier'[d]
  <2>1. r \in AnyCopier /\ CopyOk(r, origin.rows, target, foreign)
    BY CopierIs
  <2>2. /\ k.table = r.table /\ k.read = r.read /\ k.rows = r.rows /\ k.always = r.always /\ k.ever = r.ever /\ k.last = r.last
        /\ Claimed(k) = Claimed(r) /\ Inserted(k) = Inserted(r)
    BY <1>5, <1>7
  <2>3. \/ d = c /\ r.pc = "identity" /\ k.pc = "commit"
        \/ d # c /\ k.pc = r.pc /\ k.crossed = (r.crossed \/ r.pc = "commit")
    BY <1>1, <1>5
  <2>4. r.rows["events"] \subseteq target.rows["events"] \/ r.pc # "done"
    BY <2>1, TablesAre DEF CopyOk
  <2> HIDE DEF r, k
  <2>5. k.pc \in {"commit", "done"} /\ ~k.crossed /\ k.last \in {0} \cup k.rows["events"] => target'.next > k.last
    <3> SUFFICES ASSUME k.pc \in {"commit", "done"}, ~k.crossed, k.last \in {0} \cup k.rows["events"] PROVE target'.next > k.last
      OBVIOUS
    <3>1. r.rows["events"] \subseteq ids
      BY <2>3, <2>4 DEF r, ids
    <3>2. CASE k.last = 0
      BY <1>3, <1>4, <3>2
    <3>3. CASE k.last \in k.rows["events"]
      <4>1. k.last \in ids
        BY <2>2, <3>1, <3>3
      <4>2. k.last < Copy!PastHighest(ids)
        BY <1>3, <4>1
      <4>3. QED
        BY <1>4, <4>2
    <3>4. QED
      BY <3>2, <3>3
  <2>6. (Opened(k) <=> Opened(r)) /\ (Begun(k) <=> Begun(r)) /\ (k.pc = "insert" <=> r.pc = "insert") /\ (k.pc = "done" <=> r.pc = "done")
    BY <2>3 DEF Opened, Begun
  <2>7. CopyOk(k, origin.rows, target', foreign)
    BY <1>4, <2>1, <2>2, <2>5, <2>6 DEF CopyOk, Between
  <2>8. QED
    BY <1>1, <2>7 DEF k
<1>9. (\A d \in Copiers : \A e \in Copiers \ {d} : PairOk(copier[d], copier[e]))'
  BY <1>5, <1>7 DEF CopyInv, PairOk
<1>10. Copy!Done' = Copy!Done
  BY <1>1, <1>5 DEF Copy!Done
<1>11. TargetOk'
  <2>1. \A d \in Copy!Done : copier'[d].rows = copier[d].rows
    BY <1>5 DEF Copy!Done
  <2>2. QED
    BY <1>1, <1>4, <1>10, <2>1 DEF CopyInv, TargetOk, Copy!IsEmpty
<1>12. QED
  BY <1>6, <1>8, <1>9, <1>11 DEF CopyInv

LEMMA CommitKeeps == ASSUME CopySizes, CopyInv, NEW c \in Copiers, Copy!Commit(c) PROVE CopyInv'
<1> DEFINE k == [copier[c] EXCEPT !.pc = "done"]
           both == [t \in Copy!TableNames |-> target.rows[t] \cup copier[c].rows[t]]
<1>1. copier[c].pc = "commit" /\ UNCHANGED <<origin, foreign, switched>> /\ copier' = [copier EXCEPT ![c] = k]
  BY DEF Copy!Commit, Copy!KeepAll, Copy!Become
<1>2. target'.rows = both /\ target'.next = target.next /\ target' \in AnyTarget
  <2>1. target \in AnyTarget /\ copier[c].rows \in AnyRows
    BY CopierIs DEF CopyInv, CopyTyped, AnyCopier
  <2>2. target' = [target EXCEPT !.rows = both]
    BY DEF Copy!Commit
  <2>3. target.rows \in AnyRows
    BY <2>1 DEF AnyTarget
  <2>4. both \in [Copy!TableNames -> SUBSET AnyKey] /\ \A t \in Copy!TableNames : both[t] = target.rows[t] \cup copier[c].rows[t]
    BY <2>1, <2>3, RowsAre
  <2> HIDE DEF both
  <2>5. both \in AnyRows
    BY <2>1, <2>3, <2>4, RowsAre, TablesAre DEF AnyRows
  <2>6. QED
    BY <2>1, <2>2, <2>5 DEF AnyTarget
<1>3. copier[c] \in AnyCopier /\ copier \in [Copiers -> AnyCopier] /\ CopyOk(copier[c], origin.rows, target, foreign)
  BY CopierIs DEF CopyInv, CopyTyped
<1>4. /\ k \in AnyCopier /\ k.pc = "done" /\ k.table = copier[c].table /\ k.read = copier[c].read /\ k.rows = copier[c].rows
      /\ k.always = copier[c].always /\ k.ever = copier[c].ever /\ k.last = copier[c].last /\ k.crossed = copier[c].crossed
  BY <1>3 DEF AnyCopier, CopyPcs
<1> HIDE DEF k
<1>5. copier' \in [Copiers -> AnyCopier] /\ copier'[c] = k /\ \A d \in Copiers \ {c} : copier'[d] = copier[d]
  BY <1>1, <1>3, <1>4
<1>6. Claimed(k) = Claimed(copier[c]) /\ Inserted(k) = Inserted(copier[c])
  BY <1>1, <1>4 DEF Claimed, Inserted
<1>7. \A t \in Copy!TableNames : target'.rows[t] = target.rows[t] \cup copier[c].rows[t]
  BY <1>2
<1> HIDE DEF both
<1>8. CopyTyped'
  BY <1>1, <1>2, <1>5 DEF CopyInv, CopyTyped
<1>9. ASSUME NEW d \in Copiers PROVE CopyOk(copier[d], origin.rows, target, foreign)'
  <2>1. CASE d = c
    <3>1. CopyOk(k, origin.rows, target', foreign)
      BY <1>1, <1>2, <1>3, <1>4, <1>6, <1>7, TablesAre DEF CopyOk, Between, Opened, Begun
    <3>2. QED
      BY <1>1, <1>5, <2>1, <3>1
  <2>2. CASE d # c
    <3>1. CopyOk(copier[d], origin.rows, target, foreign)
      BY CopierIs
    <3>2. CopyOk(copier[d], origin.rows, target', foreign)
      BY <1>2, <1>7, <3>1, TablesAre DEF CopyOk
    <3>3. QED
      BY <1>1, <1>5, <2>2, <3>2
  <2>3. QED
    BY <2>1, <2>2
<1>10. (\A d \in Copiers : \A e \in Copiers \ {d} : PairOk(copier[d], copier[e]))'
  <2>1. \A d \in Copiers : Claimed(copier'[d]) = Claimed(copier[d]) /\ copier'[d].rows = copier[d].rows
    BY <1>4, <1>5, <1>6
  <2>2. QED
    BY <2>1 DEF CopyInv, PairOk
<1>11. Copy!Done' = Copy!Done \cup {c}
  BY <1>4, <1>5 DEF Copy!Done
<1>12. TargetOk'
  <2>1. ~foreign
    BY <1>1, <1>3 DEF CopyOk, Opened
  <2>2. c \in Copy!Done' /\ Copy!Done' # {}
    BY <1>11
  <2>3. ~switched => \E d \in Copy!Done' : target'.rows = copier'[d].rows \/ copier'[d].rows["accounts"] = {}
    <3>1. CASE copier[c].rows["accounts"] = {}
      BY <1>4, <1>5, <2>2, <3>1
    <3>2. CASE copier[c].rows["accounts"] # {} /\ Copy!Done # {}
      <4>1. PICK d \in Copy!Done : TRUE
        BY <3>2
      <4>2. d \in Copiers \ {c} /\ PairOk(copier[c], copier[d])
        BY <1>1, <4>1 DEF Copy!Done, CopyInv
      <4>3. copier'[d].rows["accounts"] = {} /\ d \in Copy!Done'
        BY <1>5, <1>11, <3>2, <4>2 DEF PairOk
      <4>4. QED
        BY <4>3
    <3>3. CASE Copy!Done = {}
      <4>1. \A t \in Copy!TableNames : target.rows[t] = {}
        BY <2>1, <3>3 DEF CopyInv, TargetOk, Copy!IsEmpty
      <4>2. target'.rows \in [Copy!TableNames -> SUBSET AnyKey] /\ copier[c].rows \in [Copy!TableNames -> SUBSET AnyKey]
        BY <1>2, <1>3, RowsAre DEF AnyCopier, AnyTarget
      <4>3. \A t \in Copy!TableNames : target'.rows[t] = copier[c].rows[t]
        BY <1>7, <4>1
      <4>4. target'.rows = copier[c].rows
        BY <4>2, <4>3
      <4>5. QED
        BY <1>4, <1>5, <2>2, <4>4
    <3>4. QED
      BY <3>1, <3>2, <3>3
  <2>4. \A x \in target'.rows["transactions"] : AccountOf[x] \in target'.rows["accounts"]
    <3>1. Inserted(copier[c]) = Copy!TableNames
      BY <1>1, <1>3, InsertedIs
    <3>2. \A x \in copier[c].rows["transactions"] : AccountOf[x] \in copier[c].rows["accounts"] \cup target.rows["accounts"]
      BY <1>3, <3>1, TablesAre DEF CopyOk
    <3>3. \A x \in target.rows["transactions"] : AccountOf[x] \in target.rows["accounts"]
      BY DEF CopyInv, TargetOk
    <3>4. QED
      BY <1>7, <3>2, <3>3, TablesAre
  <2>5. QED
    BY <1>1, <2>1, <2>2, <2>3, <2>4 DEF TargetOk
<1>13. QED
  BY <1>8, <1>9, <1>10, <1>12 DEF CopyInv

LEMMA SwitchKeeps == ASSUME CopyInv, Copy!Switch PROVE CopyInv'
<1>1. switched' = TRUE /\ (\E c \in Copiers : copier[c].pc = "done") /\ UNCHANGED <<origin, target, copier, foreign>>
  BY DEF Copy!Switch
<1>2. Copy!Done # {} /\ Copy!Done' = Copy!Done
  BY <1>1 DEF Copy!Done
<1>3. TargetOk'
  BY <1>1, <1>2 DEF CopyInv, TargetOk, Copy!IsEmpty
<1>4. CopyTyped'
  BY <1>1 DEF CopyInv, CopyTyped
<1>5. QED
  BY <1>1, <1>3, <1>4 DEF CopyInv

LEMMA EmitKeeps == ASSUME CopySizes, CopyInv, Copy!Emit PROVE CopyInv'
<1> DEFINE more == [target.rows EXCEPT !["events"] = @ \cup {target.next}]
<1>1. switched /\ target.next <= MaxEvents + 1 /\ target' = [rows |-> more, next |-> target.next + 1] /\ UNCHANGED <<origin, copier, foreign, switched>>
  BY DEF Copy!Emit
<1>2. target.rows \in AnyRows /\ target.next \in Nat \ {0} /\ MaxEvents \in Nat
  BY DEF CopyInv, CopyTyped, AnyTarget, CopySizes
<1>3. target.next \in Ids /\ target.next \in AnyKey
  BY <1>1, <1>2 DEF Ids, AnyKey
<1>4. target.rows \in [Copy!TableNames -> SUBSET AnyKey]
  BY <1>2, RowsAre
<1>5. /\ more \in [Copy!TableNames -> SUBSET AnyKey] /\ more["events"] = target.rows["events"] \cup {target.next}
      /\ more["accounts"] = target.rows["accounts"] /\ more["transactions"] = target.rows["transactions"]
  BY <1>3, <1>4, TablesAre
<1>6. target'.rows = more /\ target'.next = target.next + 1
  BY <1>1
<1> HIDE DEF more
<1>7. more \in AnyRows
  BY <1>2, <1>3, <1>5, RowsAre DEF AnyRows
<1>8. target' \in AnyTarget
  BY <1>1, <1>2, <1>7 DEF AnyTarget
<1>9. ~foreign /\ Copy!Done # {} /\ Copy!Done' = Copy!Done
  <2>1. Copy!Done # {}
    BY <1>1 DEF CopyInv, TargetOk
  <2>2. PICK c \in Copiers : copier[c].pc = "done"
    BY <2>1 DEF Copy!Done
  <2>3. QED
    BY <1>1, <2>1, <2>2, CopierIs DEF CopyOk, Opened, Copy!Done
<1>10. CopyTyped'
  BY <1>1, <1>8 DEF CopyInv, CopyTyped
<1>11. ASSUME NEW d \in Copiers PROVE CopyOk(copier[d], origin.rows, target, foreign)'
  <2>1. CopyOk(copier[d], origin.rows, target, foreign) /\ copier[d] \in AnyCopier
    BY CopierIs
  <2>2. copier[d].last \in Nat
    BY <2>1 DEF AnyCopier
  <2>3. target.next > copier[d].last => target'.next > copier[d].last
    BY <1>2, <1>6, <2>2
  <2>4. \A t \in Copy!TableNames : target.rows[t] \subseteq target'.rows[t]
    BY <1>5, <1>6, TablesAre
  <2>5. CopyOk(copier[d], origin.rows, target', foreign)
    BY <2>1, <2>3, <2>4, TablesAre DEF CopyOk
  <2>6. QED
    BY <1>1, <2>5
<1>12. TargetOk'
  BY <1>1, <1>5, <1>6, <1>9 DEF CopyInv, TargetOk
<1>13. QED
  BY <1>1, <1>10, <1>11, <1>12 DEF CopyInv

\* The server's writes: what each copy is measured by follows, and no account goes.
LEMMA SourceChanges ==
  ASSUME CopyInv, NEW rows \in AnyRows, NEW last \in 0 .. MaxEvents, Copy!ToSource(rows, last), origin.rows["accounts"] \subseteq rows["accounts"]
  PROVE  CopyInv'
<1>1. origin' = [rows |-> rows, last |-> last] /\ copier' = Copy!Watched(rows) /\ UNCHANGED <<target, foreign, switched>>
  BY DEF Copy!ToSource
<1>2. origin'.rows = rows /\ origin'.last = last
  BY <1>1
<1>3. ASSUME NEW c \in Copiers
      PROVE  /\ copier'[c] \in AnyCopier /\ copier'[c].pc = copier[c].pc /\ copier'[c].table = copier[c].table
             /\ copier'[c].read = copier[c].read /\ copier'[c].rows = copier[c].rows /\ copier'[c].last = copier[c].last
             /\ copier'[c].crossed = copier[c].crossed
             /\ \A t \in Copy!TableNames : copier'[c].always[t] \subseteq copier[c].always[t] /\ copier[c].ever[t] \subseteq copier'[c].ever[t]
             /\ Begun(copier[c]) => \A t \in Copy!TableNames : Between(copier'[c], t, rows[t])
  <2>1. copier[c] \in AnyCopier
    BY CopierIs
  <2>2. CASE ~Begun(copier[c])
    <3>1. copier'[c] = copier[c]
      BY <1>1, <2>2 DEF Copy!Watched, Begun
    <3>2. QED
      BY <2>1, <2>2, <3>1
  <2>3. CASE Begun(copier[c])
    <3> DEFINE less == [t \in Copy!TableNames |-> copier[c].always[t] \cap rows[t]]
               more == [t \in Copy!TableNames |-> copier[c].ever[t] \cup rows[t]]
               a == [copier[c] EXCEPT !.always = less]
               k == [a EXCEPT !.ever = more]
    <3>1. copier'[c] = k
      <4>1. copier'[c] = [copier[c] EXCEPT !.always = less, !.ever = more]
        BY <1>1, <2>3 DEF Copy!Watched, Begun
      <4>2. [copier[c] EXCEPT !.always = less, !.ever = more] = k
        BY <2>1 DEF AnyCopier
      <4>3. QED
        BY <4>1, <4>2
    <3>2. copier[c].always \in AnyRows /\ copier[c].ever \in AnyRows
      BY <2>1 DEF AnyCopier
    <3>3. \A t \in Copy!TableNames : copier[c].always[t] \in SUBSET AnyKey /\ copier[c].ever[t] \in SUBSET AnyKey /\ rows[t] \in SUBSET AnyKey
      BY <3>2, RowsAre
    <3>4. less \in [Copy!TableNames -> SUBSET AnyKey] /\ \A t \in Copy!TableNames : less[t] = copier[c].always[t] \cap rows[t]
      BY <3>3
    <3>5. more \in [Copy!TableNames -> SUBSET AnyKey] /\ \A t \in Copy!TableNames : more[t] = copier[c].ever[t] \cup rows[t]
      BY <3>3
    <3> HIDE DEF less, more
    <3>6. less \in AnyRows /\ more \in AnyRows
      BY <3>2, <3>4, <3>5, RowsAre, TablesAre DEF AnyRows
    <3>7. /\ a \in AnyCopier /\ a.pc = copier[c].pc /\ a.table = copier[c].table /\ a.read = copier[c].read /\ a.rows = copier[c].rows
          /\ a.last = copier[c].last /\ a.crossed = copier[c].crossed /\ a.always = less
      BY <2>1, <3>6 DEF AnyCopier
    <3> HIDE DEF a
    <3>8. /\ k \in AnyCopier /\ k.pc = copier[c].pc /\ k.table = copier[c].table /\ k.read = copier[c].read /\ k.rows = copier[c].rows
          /\ k.last = copier[c].last /\ k.crossed = copier[c].crossed /\ k.always = less /\ k.ever = more
      BY <3>6, <3>7 DEF AnyCopier
    <3> HIDE DEF k
    <3>9. \A t \in Copy!TableNames : Between(k, t, rows[t])
      BY <3>4, <3>5, <3>8 DEF Between
    <3>10. QED
      BY <3>1, <3>4, <3>5, <3>8, <3>9
  <2>4. QED
    BY <2>2, <2>3
<1>4. CopyTyped'
  <2>1. copier' \in [Copiers -> AnyCopier]
    BY <1>1, <1>3 DEF Copy!Watched
  <2>2. QED
    BY <1>1, <1>2, <2>1 DEF CopyInv, CopyTyped
<1>5. \A c \in Copiers : Claimed(copier'[c]) = Claimed(copier[c]) /\ Inserted(copier'[c]) = Inserted(copier[c])
  BY <1>3 DEF Claimed, Inserted
<1>6. ASSUME NEW c \in Copiers PROVE CopyOk(copier[c], origin.rows, target, foreign)'
  <2> DEFINE r == copier[c]
             k == copier'[c]
  <2>1. CopyOk(r, origin.rows, target, foreign) /\ r \in AnyCopier
    BY CopierIs
  <2>2. /\ k.pc = r.pc /\ k.table = r.table /\ k.read = r.read /\ k.rows = r.rows /\ k.last = r.last /\ k.crossed = r.crossed
        /\ \A t \in Copy!TableNames : k.always[t] \subseteq r.always[t] /\ r.ever[t] \subseteq k.ever[t]
        /\ Begun(r) => \A t \in Copy!TableNames : Between(k, t, rows[t])
        /\ Claimed(k) = Claimed(r) /\ Inserted(k) = Inserted(r)
    BY <1>3, <1>5
  <2> HIDE DEF r, k
  <2>3. Inserted(r) \subseteq Copy!TableNames /\ Copy!Tables[r.table] \in Copy!TableNames
    BY <2>1, TableIs DEF Inserted
  <2>4. (Opened(k) <=> Opened(r)) /\ (Begun(k) <=> Begun(r))
    BY <2>2 DEF Opened, Begun
  <2>5. \A t \in Inserted(k) : Between(k, t, k.rows[t])
    BY <2>1, <2>2, <2>3 DEF CopyOk, Between
  <2>6. k.pc = "insert" => Between(k, Copy!Tables[k.table], k.read)
    BY <2>1, <2>2, <2>3 DEF CopyOk, Between
  <2>7. Claimed(k) \subseteq rows["accounts"]
    BY <2>1, <2>2 DEF CopyOk
  <2>8. CopyOk(k, rows, target, foreign)
    BY <2>1, <2>2, <2>4, <2>5, <2>6, <2>7 DEF CopyOk
  <2>9. QED
    BY <1>1, <1>2, <2>8 DEF k
<1>7. (\A c \in Copiers : \A d \in Copiers \ {c} : PairOk(copier[c], copier[d]))'
  BY <1>3, <1>5 DEF CopyInv, PairOk
<1>8. Copy!Done' = Copy!Done /\ \A c \in Copy!Done : copier'[c].rows = copier[c].rows
  BY <1>3 DEF Copy!Done
<1>9. TargetOk'
  BY <1>1, <1>8 DEF CopyInv, TargetOk, Copy!IsEmpty
<1>10. QED
  BY <1>4, <1>6, <1>7, <1>9 DEF CopyInv

\* A table with other rows of its own.
LEMMA TransactionsSet ==
  ASSUME NEW r \in AnyRows, NEW s, s \subseteq Copy!Transactions, NEW q, q = [r EXCEPT !["transactions"] = s]
  PROVE  q \in AnyRows /\ q["transactions"] = s /\ q["accounts"] = r["accounts"] /\ q["events"] = r["events"]
<1>1. r \in [Copy!TableNames -> SUBSET AnyKey] /\ s \in SUBSET AnyKey
  BY RowsAre DEF AnyKey
<1>2. q \in [Copy!TableNames -> SUBSET AnyKey] /\ q["transactions"] = s /\ q["accounts"] = r["accounts"] /\ q["events"] = r["events"]
  BY <1>1, TablesAre
<1>3. q \in AnyRows
  BY <1>2, RowsAre DEF AnyRows
<1>4. QED
  BY <1>2, <1>3

LEMMA EventsSet ==
  ASSUME NEW r \in AnyRows, NEW s, s \subseteq Ids, NEW q, q = [r EXCEPT !["events"] = s]
  PROVE  q \in AnyRows /\ q["events"] = s /\ q["accounts"] = r["accounts"] /\ q["transactions"] = r["transactions"]
<1>1. r \in [Copy!TableNames -> SUBSET AnyKey] /\ s \in SUBSET AnyKey
  BY RowsAre DEF AnyKey
<1>2. q \in [Copy!TableNames -> SUBSET AnyKey] /\ q["events"] = s /\ q["accounts"] = r["accounts"] /\ q["transactions"] = r["transactions"]
  BY <1>1, TablesAre
<1>3. q \in AnyRows
  BY <1>2, RowsAre DEF AnyRows
<1>4. QED
  BY <1>2, <1>3

LEMMA OriginIs ==
  ASSUME CopySizes, CopyInv
  PROVE  /\ origin.rows \in AnyRows /\ origin.last \in Nat /\ MaxEvents \in Nat
         /\ origin.rows["accounts"] \subseteq CopiedAccounts /\ origin.rows["transactions"] \subseteq Copy!Transactions /\ origin.rows["events"] \subseteq Ids
<1>1. origin.rows \in AnyRows /\ origin.last \in 0 .. MaxEvents /\ MaxEvents \in Nat
  BY DEF CopyInv, CopyTyped, CopySizes
<1>2. QED
  BY <1>1, RowsAre

\* The event of a write comes with it.
LEMMA LoggedIs ==
  ASSUME CopySizes, CopyInv, NEW r \in AnyRows, r["events"] = origin.rows["events"], origin.last < MaxEvents
  PROVE  Copy!Logged(r) \in AnyRows /\ Copy!Logged(r)["accounts"] = r["accounts"] /\ origin.last + 1 \in 0 .. MaxEvents
<1> DEFINE s == r["events"] \cup {origin.last + 1}
<1>1. origin.last + 1 \in 0 .. MaxEvents /\ origin.last + 1 \in Ids
  BY OriginIs DEF Ids
<1>2. s \subseteq Ids /\ s \subseteq AnyKey
  BY <1>1, RowsAre DEF AnyKey
<1>3. Copy!Logged(r) = [r EXCEPT !["events"] = s]
  BY DEF Copy!Logged
<1> HIDE DEF s
<1> DEFINE q == Copy!Logged(r)
<1>4. q = [r EXCEPT !["events"] = s]
  BY <1>3
<1> HIDE DEF q
<1>5. q \in AnyRows /\ q["accounts"] = r["accounts"]
  BY <1>2, <1>4, EventsSet
<1>6. QED
  BY <1>1, <1>5 DEF q

LEMMA WriteKeeps == ASSUME CopySizes, CopyInv, NEW t \in Copy!Transactions, Copy!Write(t) PROVE CopyInv'
<1> DEFINE acc == origin.rows["accounts"] \cup {AccountOf[t]}
           txn == origin.rows["transactions"] \cup {t}
           a == [origin.rows EXCEPT !["accounts"] = acc]
           b == [a EXCEPT !["transactions"] = txn]
<1>1. origin.last < MaxEvents /\ Copy!ToSource(Copy!Logged(b), origin.last + 1)
  <2>1. origin.last < MaxEvents /\ Copy!ToSource(Copy!Logged([origin.rows EXCEPT !["accounts"] = acc, !["transactions"] = txn]), origin.last + 1)
    BY DEF Copy!Write
  <2>2. [origin.rows EXCEPT !["accounts"] = acc, !["transactions"] = txn] = b
    <3>1. origin.rows \in [Copy!TableNames -> SUBSET AnyKey]
      BY OriginIs, RowsAre
    <3>2. QED
      BY <3>1, TablesAre
  <2>3. QED
    BY <2>1, <2>2
<1>2. acc \subseteq CopiedAccounts /\ acc \subseteq AnyKey /\ txn \subseteq Copy!Transactions /\ txn \subseteq AnyKey
  BY OriginIs DEF CopySizes, AnyKey
<1> HIDE DEF txn
<1>3. a \in AnyRows /\ a["accounts"] = acc /\ a["events"] = origin.rows["events"]
  <2>1. a = [origin.rows EXCEPT !["accounts"] = acc]
    OBVIOUS
  <2> HIDE DEF a, b, acc
  <2>2. origin.rows \in AnyRows /\ acc \subseteq CopiedAccounts
    BY <1>2, OriginIs
  <2>3. origin.rows \in [Copy!TableNames -> SUBSET AnyKey] /\ acc \in SUBSET AnyKey
    BY <1>2, <2>2, RowsAre
  <2>4. /\ a \in [Copy!TableNames -> SUBSET AnyKey] /\ a["accounts"] = acc /\ a["transactions"] = origin.rows["transactions"]
        /\ a["events"] = origin.rows["events"]
    BY <2>1, <2>3, TablesAre
  <2>5. a \in AnyRows
    BY <2>2, <2>4, RowsAre DEF AnyRows
  <2>6. QED
    BY <2>4, <2>5
<1> HIDE DEF a
<1>4. b \in AnyRows /\ b["accounts"] = acc /\ b["events"] = origin.rows["events"]
  <2> HIDE DEF acc
  <2>1. QED
    BY <1>2, <1>3, TransactionsSet
<1> HIDE DEF b
<1>5. Copy!Logged(b) \in AnyRows /\ Copy!Logged(b)["accounts"] = acc /\ origin.last + 1 \in 0 .. MaxEvents
  BY <1>1, <1>4, LoggedIs
<1>6. QED
  BY <1>1, <1>5, SourceChanges

LEMMA DeleteKeeps == ASSUME CopySizes, CopyInv, NEW t \in Copy!Transactions, Copy!Delete(t) PROVE CopyInv'
<1> DEFINE txn == origin.rows["transactions"] \ {t}
           b == [origin.rows EXCEPT !["transactions"] = txn]
<1>1. origin.last < MaxEvents /\ Copy!ToSource(Copy!Logged(b), origin.last + 1)
  BY DEF Copy!Delete
<1>2. txn \subseteq Copy!Transactions /\ txn \subseteq AnyKey
  BY OriginIs DEF AnyKey
<1> HIDE DEF txn
<1>3. b \in AnyRows /\ b["accounts"] = origin.rows["accounts"] /\ b["events"] = origin.rows["events"]
  BY <1>2, OriginIs, TransactionsSet
<1> HIDE DEF b
<1>4. Copy!Logged(b) \in AnyRows /\ Copy!Logged(b)["accounts"] = origin.rows["accounts"] /\ origin.last + 1 \in 0 .. MaxEvents
  BY <1>1, <1>3, LoggedIs
<1>5. QED
  BY <1>1, <1>4, SourceChanges

LEMMA PruneKeeps == ASSUME CopySizes, CopyInv, NEW n, Copy!Prune(n) PROVE CopyInv'
<1> DEFINE kept == {e \in origin.rows["events"] : e > n}
           b == [origin.rows EXCEPT !["events"] = kept]
<1>1. Copy!ToSource(b, origin.last)
  BY DEF Copy!Prune
<1>2. kept \subseteq Ids /\ kept \subseteq AnyKey
  BY OriginIs DEF AnyKey
<1> HIDE DEF kept
<1>3. b \in AnyRows /\ b["accounts"] = origin.rows["accounts"]
  BY <1>2, OriginIs, EventsSet
<1> HIDE DEF b
<1>4. origin.last \in 0 .. MaxEvents
  BY DEF CopyInv, CopyTyped
<1>5. QED
  BY <1>1, <1>3, <1>4, SourceChanges

LEMMA CopyStep == ASSUME CopySizes, CopyInv, [Copy!Next]_(Copy!vars) PROVE CopyInv'
<1>1. CASE UNCHANGED Copy!vars
  BY <1>1 DEF Copy!vars, CopyInv, CopyTyped, TargetOk, Copy!Done, Copy!IsEmpty
<1>2. CASE \/ \E t \in Copy!Transactions : Copy!Write(t) \/ Copy!Delete(t)
           \/ \E n \in 1 .. MaxEvents : Copy!Prune(n)
           \/ Copy!Switch \/ Copy!Emit
  BY <1>2, WriteKeeps, DeleteKeeps, PruneKeeps, SwitchKeeps, EmitKeeps
<1>3. ASSUME NEW c \in Copiers, Copy!HandleMigrate(c) \/ Copy!Command(c) \/ Copy!ApplyMigrations(c) \/ Copy!EnsureEmpty(c) \/ Copy!ReadTable(c)
             \/ Copy!CopyTable(c) \/ Copy!ResetIdentity(c) \/ Copy!Commit(c) \/ Copy!Fail(c) \/ Copy!Again(c)
      PROVE  CopyInv'
  <2>1. CASE Copy!HandleMigrate(c) \/ Copy!Command(c)
    BY <2>1, MigrateKeeps DEF Copy!HandleMigrate, Copy!Command
  <2>2. CASE Copy!Fail(c) \/ Copy!Again(c)
    <3>1. /\ copier[c].pc # "done" /\ UNCHANGED <<origin, target, foreign, switched>>
          /\ Copy!Become(c, Copy!NoCopier) \/ Copy!Become(c, [Copy!NoCopier EXCEPT !.pc = "failed"])
      BY <2>2 DEF Copy!Fail, Copy!Again, Copy!KeepAll, Copy!Open
    <3>2. QED
      BY <3>1, EndKeeps
  <2>3. QED
    BY <1>3, <2>1, <2>2, CheckKeeps, ReadKeeps, InsertKeeps, ResetKeeps, CommitKeeps
<1>4. QED
  BY <1>1, <1>2, <1>3 DEF Copy!Next

LEMMA CopySafe == ASSUME CopySizes, CopyInv PROVE Copy!CopyIsWhole /\ Copy!NotMixed /\ Copy!IdsGoOn
<1>1. ASSUME NEW c \in Copy!Done
      PROVE  c \in Copiers /\ copier[c].pc = "done" /\ copier[c] \in AnyCopier /\ CopyOk(copier[c], origin.rows, target, foreign)
             /\ Inserted(copier[c]) = Copy!TableNames
  BY CopierIs, InsertedIs DEF Copy!Done
<1>2. Copy!CopyIsWhole
  BY <1>1 DEF Copy!CopyIsWhole, CopyOk, Between
<1>3. Copy!IdsGoOn
  BY <1>1 DEF Copy!IdsGoOn, CopyOk
<1>4. Copy!NotMixed
  <2>1. foreign => Copy!Done = {}
    BY <1>1 DEF CopyOk, Opened
  <2>2. foreign => Copy!IsEmpty([target.rows EXCEPT !["events"] = @ \ {0}])
    <3> SUFFICES ASSUME foreign PROVE Copy!IsEmpty([target.rows EXCEPT !["events"] = @ \ {0}])
      OBVIOUS
    <3>1. target.rows["accounts"] = {} /\ target.rows["transactions"] = {} /\ target.rows["events"] = {0}
      BY DEF CopyInv, TargetOk
    <3>2. target.rows \in [Copy!TableNames -> SUBSET AnyKey]
      BY RowsAre DEF CopyInv, CopyTyped, AnyTarget
    <3>3. QED
      BY <3>1, <3>2, TablesAre DEF Copy!IsEmpty
  <2>3. ~switched => \/ Copy!Done = {} /\ (foreign \/ Copy!IsEmpty(target.rows))
                     \/ \E c \in Copy!Done : target.rows = copier[c].rows \/ copier[c].rows["accounts"] = {}
    BY DEF CopyInv, TargetOk
  <2>4. \A x \in target.rows["transactions"] : AccountOf[x] \in target.rows["accounts"]
    BY DEF CopyInv, TargetOk
  <2>5. QED
    BY <2>1, <2>2, <2>3, <2>4 DEF Copy!NotMixed
<1>5. QED
  BY <1>2, <1>3, <1>4

\* Beside any writes of the server, and beside other copies: a copy that reports success has every row that
\* the source held from its start to its end, and only rows it held meanwhile; nothing is copied into a ledger
\* that was there, and two copies never mix; and the event ids go on above the last one that was copied
\* (internal/dbmigrate/migrate.go).
THEOREM CopiesWhole ==
  ASSUME CopySizes PROVE Copy!Spec => [](Copy!CopyIsWhole /\ Copy!NotMixed /\ Copy!IdsGoOn)
<1>1. Copy!Init => CopyInv
  BY CopyStarts
<1>2. CopyInv /\ [Copy!Next]_(Copy!vars) => CopyInv'
  BY CopyStep
<1>3. CopyInv => Copy!CopyIsWhole /\ Copy!NotMixed /\ Copy!IdsGoOn
  BY CopySafe
<1>4. QED
  BY <1>1, <1>2, <1>3, PTL DEF Copy!Spec

=============================================================================
