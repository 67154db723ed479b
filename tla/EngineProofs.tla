---------------------------- MODULE EngineProofs ----------------------------
(*************************************************************************)
(* The engine's syncs exclude each other and tell what they did, and its *)
(* schedules are those of the registered sources, for any number of      *)
(* sources, of goroutines that sync and of plugins that come and go.     *)
(* Then what the process stands on, each as an instance of its module:   *)
(* the secret store, the update of the binary, the SimpleFIN credential  *)
(* and the settings.                                                     *)
(*************************************************************************)
EXTENDS Engine, FiniteSetTheorems, SequenceTheorems, WellFoundedInduction, TLAPS

\* What the variables range over, once these pollers are made.
Made == DOMAIN typeOf
AnyRow == [status : {"running", "success", "error"}, p : Made]
RunPcs == {"idle", "lock", "deliver", "log", "logBatch", "fetch", "persist", "emit", "finish"}
AnyRunner == [pc : RunPcs, p : Made \cup {None}, todo : Seq(Made), log : Nat, ok : BOOLEAN,
              ctx : {"live", "dead", "background"}]
AnyManager == [pc : {"idle", "add", "replace", "start", "stop"}, new : Made \cup {None}, old : Made \cup {None}]
AnyMain == [pc : {"off", "fresh", "starting", "up", "stopping", "down"}, todo : Seq(Made)]

\* The registry holds pollers that were made, one of a type.
Registry ==
  /\ typeOf \in Seq(Types) /\ Len(Builtin) <= Len(typeOf) /\ Len(typeOf) <= MaxPollers
  /\ order \in Seq(Made)
  /\ \A i, j \in DOMAIN order : typeOf[order[i]] = typeOf[order[j]] => i = j

Typed ==
  /\ field \in [Pollers -> {"none", "live", "shut"}] /\ live \in [Pollers -> Nat]
  /\ \A p \in Pollers : (live[p] > 0 => p \in Made) /\ (field[p] = "live" => live[p] > 0)
  /\ main \in AnyMain
  /\ mgr \in [Plugins -> AnyManager]
  /\ \A m \in Plugins : /\ mgr[m].pc \in {"add", "replace", "start"} => mgr[m].new \in Made
                        /\ mgr[m].pc \in {"replace", "stop"} => mgr[m].old \in Made
  /\ cred \in [Credentialed -> {"unset", "set"}]
  /\ lock \in [Pollers -> Runners \cup {None}]
  /\ runner \in [Runners -> AnyRunner] /\ rows \in Seq(AnyRow)
  /\ raced \in BOOLEAN

-----------------------------------------------------------------------------
(***************************************************************************)
(* Sequences.                                                              *)
(***************************************************************************)
LEMMA Wider ==
    ASSUME NEW S, NEW T, S \subseteq T
    PROVE  Seq(S) \subseteq Seq(T)
OBVIOUS

\* What is left of a sequence of different things when its first one is taken.
LEMMA Rest ==
    ASSUME NEW S, NEW s \in Seq(S), s # << >>
    PROVE  /\ Head(s) \in ToSet(s) /\ Head(s) \in S /\ Tail(s) \in Seq(S)
           /\ ToSet(Tail(s)) \subseteq ToSet(s) /\ ToSet(s) \subseteq ToSet(Tail(s)) \cup {Head(s)}
           /\ (\A i, j \in DOMAIN s : s[i] = s[j] => i = j) =>
                /\ Head(s) \notin ToSet(Tail(s))
                /\ \A i, j \in DOMAIN Tail(s) : Tail(s)[i] = Tail(s)[j] => i = j
<1>1. /\ Head(s) = s[1] /\ 1 \in DOMAIN s /\ Tail(s) \in Seq(S) /\ Len(s) \in Nat /\ Len(Tail(s)) = Len(s) - 1
      /\ DOMAIN s = 1 .. Len(s) /\ DOMAIN Tail(s) = 1 .. Len(s) - 1
  OBVIOUS
<1>2. \A i \in DOMAIN Tail(s) : Tail(s)[i] = s[i + 1] /\ i + 1 \in DOMAIN s /\ i + 1 # 1 /\ i \in Nat
  BY <1>1
<1>3. ToSet(s) \subseteq ToSet(Tail(s)) \cup {Head(s)}
  <2>1. \A i \in DOMAIN s : i # 1 => i - 1 \in DOMAIN Tail(s) /\ Tail(s)[i - 1] = s[i]
    BY <1>1
  <2>2. ASSUME NEW x \in ToSet(s), x # Head(s) PROVE x \in ToSet(Tail(s))
    <3>1. PICK i \in DOMAIN s : s[i] = x
      BY DEF ToSet
    <3>2. i - 1 \in DOMAIN Tail(s) /\ Tail(s)[i - 1] = x
      BY <1>1, <2>1, <2>2, <3>1
    <3>3. QED
      BY <3>2 DEF ToSet
  <2>3. QED
    BY <2>2
<1>4. QED
  BY <1>1, <1>2, <1>3 DEF ToSet

LEMMA Longer ==
    ASSUME NEW S, NEW s \in Seq(S), NEW x \in S
    PROVE  /\ Append(s, x) \in Seq(S) /\ Len(Append(s, x)) = Len(s) + 1
           /\ DOMAIN Append(s, x) = DOMAIN s \cup {Len(s) + 1}
           /\ \A i \in DOMAIN s : Append(s, x)[i] = s[i] /\ i # Len(s) + 1
           /\ Append(s, x)[Len(s) + 1] = x
           /\ ToSet(Append(s, x)) = ToSet(s) \cup {x}
<1>1. /\ Append(s, x) \in Seq(S) /\ Len(Append(s, x)) = Len(s) + 1
      /\ DOMAIN Append(s, x) = DOMAIN s \cup {Len(s) + 1}
      /\ \A i \in DOMAIN s : Append(s, x)[i] = s[i] /\ i # Len(s) + 1
      /\ Append(s, x)[Len(s) + 1] = x
  OBVIOUS
<1>2. QED
  BY <1>1 DEF ToSet

LEMMA Without ==
    ASSUME NEW S, NEW s \in Seq(S), NEW i \in DOMAIN s
    PROVE  /\ RemoveAt(s, i) \in Seq(S)
           /\ \A j \in DOMAIN RemoveAt(s, i) :
                \/ j \in DOMAIN s /\ j < i /\ RemoveAt(s, i)[j] = s[j]
                \/ j + 1 \in DOMAIN s /\ j >= i /\ RemoveAt(s, i)[j] = s[j + 1]
           /\ ToSet(RemoveAt(s, i)) \subseteq ToSet(s)
           /\ ToSet(s) \subseteq ToSet(RemoveAt(s, i)) \cup {s[i]}
<1> DEFINE a == SubSeq(s, 1, i - 1)
           b == SubSeq(s, i + 1, Len(s))
           r == a \o b
<1>0. i \in Nat /\ i >= 1 /\ i <= Len(s) /\ Len(s) \in Nat /\ DOMAIN s = 1 .. Len(s)
  OBVIOUS
<1>1. a \in Seq(S) /\ Len(a) = i - 1 /\ \A j \in 1 .. i - 1 : a[j] = s[j]
  BY <1>0
<1>2. b \in Seq(S) /\ Len(b) = Len(s) - i /\ \A j \in 1 .. Len(s) - i : b[j] = s[j + i]
  BY <1>0
<1> HIDE DEF a, b
<1>3. /\ r \in Seq(S) /\ Len(r) = Len(s) - 1 /\ DOMAIN r = 1 .. Len(s) - 1
      /\ \A j \in 1 .. i - 1 : r[j] = a[j]
      /\ \A j \in i .. Len(s) - 1 : r[j] = b[j - (i - 1)]
  <2>1. /\ r \in Seq(S) /\ Len(r) = Len(a) + Len(b)
        /\ \A j \in 1 .. Len(a) + Len(b) : r[j] = IF j <= Len(a) THEN a[j] ELSE b[j - Len(a)]
    BY <1>1, <1>2, ConcatProperties
  <2>2. Len(a) + Len(b) = Len(s) - 1
    BY <1>0, <1>1, <1>2
  <2> HIDE DEF r
  <2>3. r \in Seq(S) /\ Len(r) = Len(s) - 1 /\ DOMAIN r = 1 .. Len(s) - 1
    BY <2>1, <2>2
  <2>4. \A j \in 1 .. Len(s) - 1 : r[j] = IF j <= i - 1 THEN a[j] ELSE b[j - (i - 1)]
    BY <1>1, <2>1, <2>2
  <2>5. \A j \in 1 .. i - 1 : j \in 1 .. Len(s) - 1 /\ j <= i - 1
    BY <1>0
  <2>6. \A j \in i .. Len(s) - 1 : j \in 1 .. Len(s) - 1 /\ ~(j <= i - 1)
    BY <1>0
  <2>7. QED
    BY <2>3, <2>4, <2>5, <2>6
<1>4. \A j \in i .. Len(s) - 1 : r[j] = s[j + 1]
  <2>1. \A j \in i .. Len(s) - 1 : j - (i - 1) \in 1 .. Len(s) - i /\ (j - (i - 1)) + i = j + 1
    BY <1>0
  <2>2. QED
    BY <1>2, <1>3, <2>1
<1>5. \A j \in 1 .. i - 1 : r[j] = s[j]
  BY <1>1, <1>3
<1> HIDE DEF r
<1>6. \A j \in DOMAIN r : \/ j \in DOMAIN s /\ j < i /\ r[j] = s[j]
                          \/ j + 1 \in DOMAIN s /\ j >= i /\ r[j] = s[j + 1]
  BY <1>0, <1>3, <1>4, <1>5
<1>7. \A k \in DOMAIN s : k # i => \E j \in DOMAIN r : r[j] = s[k]
  <2>1. ASSUME NEW k \in DOMAIN s, k < i PROVE k \in DOMAIN r /\ r[k] = s[k]
    BY <1>0, <1>3, <1>5, <2>1
  <2>2. ASSUME NEW k \in DOMAIN s, k > i PROVE k - 1 \in DOMAIN r /\ r[k - 1] = s[k]
    <3>1. k - 1 \in i .. Len(s) - 1 /\ (k - 1) + 1 = k
      BY <1>0, <2>2
    <3>2. QED
      BY <1>0, <1>3, <1>4, <3>1
  <2>3. QED
    BY <1>0, <2>1, <2>2
<1>8. ToSet(r) \subseteq ToSet(s) /\ ToSet(s) \subseteq ToSet(r) \cup {s[i]}
  BY <1>6, <1>7 DEF ToSet
<1>9. QED
  BY <1>3, <1>6, <1>8 DEF RemoveAt, r, a, b

\* The first of what a sync-all still visits.
LEMMA FirstEager ==
    ASSUME NEW S, NEW s \in Seq(S), Eager(s) # {}
    PROVE  s[Min(Eager(s))] \in S /\ After(s, Min(Eager(s))) \in Seq(S)
<1> DEFINE E == Eager(s)
<1>1. E \subseteq DOMAIN s /\ DOMAIN s = 1 .. Len(s) /\ Len(s) \in Nat
  BY DEF Eager
<1>2. E \subseteq Nat /\ E # {}
  BY <1>1
<1> HIDE DEF E
<1>3. PICK n \in E : \A m \in E : ~(<<m, n>> \in OpToRel(<, Nat))
  BY <1>2, NatLessThanWellFounded, WFMin
<1>4. \A m \in E : n <= m
  <2>1. \A m \in E : ~(m < n)
    BY <1>2, <1>3 DEF OpToRel
  <2>2. QED
    BY <1>2, <2>1
<1>5. Min(E) \in E
  BY <1>4 DEF Min
<1>6. Min(E) \in 1 .. Len(s)
  BY <1>1, <1>5
<1>7. SubSeq(s, Min(E) + 1, Len(s)) \in Seq(S)
  BY <1>1, <1>6
<1>8. QED
  BY <1>6, <1>7 DEF After, E

-----------------------------------------------------------------------------
(***************************************************************************)
(* The syncs.  A run that has its row is the only one with that row and    *)
(* holds the mutex of its poller; what a row says is what its run did.     *)
(***************************************************************************)
Doing == {"fetch", "persist", "emit", "finish"}
HasRow(t) == runner[t].log # None

RunOf(t) ==
  /\ runner[t].pc # "idle" => runner[t].p \in Made
  /\ HasRow(t) <=> runner[t].pc \in Doing
  /\ HasRow(t) => /\ runner[t].log \in DOMAIN rows
                  /\ rows[runner[t].log].status = "running" /\ rows[runner[t].log].p = runner[t].p
                  /\ runner[t].log \notin lost
  /\ Running(t) => lock[runner[t].p] = t
  /\ runner[t].pc # "finish" => runner[t].ok
  /\ runner[t].pc \in {"fetch", "persist"} => runner[t].log \notin stored
  /\ runner[t].pc = "emit" => runner[t].log \in stored
  /\ runner[t].pc = "finish" =>
       IF runner[t].ok THEN runner[t].log \in stored \/ KindOf[typeOf[runner[t].p]] = "warm"
                       ELSE runner[t].log \notin stored

RowOf(l) ==
  /\ rows[l].status = "running" <=> l \in lost \/ \E t \in Runners : runner[t].log = l
  /\ rows[l].status = "success" => l \in stored \/ KindOf[typeOf[rows[l].p]] = "warm"
  /\ rows[l].status = "error" => l \notin stored

RunInv ==
  /\ \A t \in Runners : RunOf(t)
  /\ \A t, u \in Runners : HasRow(t) /\ runner[t].log = runner[u].log => t = u
  /\ \A l \in DOMAIN rows : RowOf(l)
  /\ told \subseteq stored /\ stored \subseteq DOMAIN rows /\ lost \subseteq DOMAIN rows

\* What a step of one run leaves alone: other rows, what is stored of them and whether they
\* are lost, and the mutexes that others hold.
Apart(t) ==
  /\ \A l \in DOMAIN rows : l # runner[t].log =>
       /\ l \in DOMAIN rows' /\ rows'[l] = rows[l]
       /\ (l \in stored' <=> l \in stored) /\ (l \in lost' <=> l \in lost)
  /\ \A p \in Pollers : lock[p] \notin {t, None} => lock'[p] = lock[p]

LEMMA RunFields ==
    ASSUME Typed, NEW t \in Runners
    PROVE  /\ runner[t] \in AnyRunner /\ runner[t].pc \in RunPcs /\ runner[t].log \in Nat /\ runner[t].ok \in BOOLEAN
           /\ runner[t].todo \in Seq(Made) /\ runner[t].ctx \in {"live", "dead", "background"}
           /\ runner[t].p \in Made \cup {None}
BY DEF Typed, AnyRunner

LEMMA Becomes ==
    ASSUME Typed, NEW t \in Runners, NEW q, Become(t, q)
    PROVE  /\ runner'[t] = q /\ \A u \in Runners \ {t} : runner'[u] = runner[u]
           /\ q \in AnyRunner => runner' \in [Runners -> AnyRunner]
BY DEF Typed, Become

LEMMA MadePoller ==
    ASSUME Registry
    PROVE  Made \subseteq Pollers /\ Made \subseteq Nat /\ None \notin Made
BY EngineAssumption DEF Registry, Made, Pollers, None

LEMMA OthersKeepOn ==
    ASSUME Registry, Typed, RunInv, NEW t \in Runners, NEW q, Become(t, q), Same, Apart(t),
           NEW u \in Runners, u # t
    PROVE  RunOf(u)'
<1>1. runner'[u] = runner[u]
  BY Becomes
<1>2. typeOf' = typeOf /\ Made' = Made
  BY DEF Same, Made
<1>3. RunOf(u)
  BY DEF RunInv
<1>4. HasRow(u) => runner[u].log # runner[t].log
  BY DEF RunInv
<1>5. Running(u) => lock'[runner[u].p] = u
  <2>1. Running(u) => runner[u].p \in Pollers /\ lock[runner[u].p] = u
    BY <1>3, MadePoller DEF RunOf, Running
  <2>2. u \notin {t, None}
    BY EngineAssumption
  <2>3. QED
    BY <2>1, <2>2 DEF Apart
<1>6. HasRow(u) => /\ runner[u].log \in DOMAIN rows' /\ rows'[runner[u].log] = rows[runner[u].log]
                   /\ runner[u].log \in stored' <=> runner[u].log \in stored
                   /\ runner[u].log \in lost' <=> runner[u].log \in lost
  BY <1>3, <1>4 DEF Apart, RunOf
<1> DEFINE b == runner[u]
<1>8. /\ HasRow(u)' = HasRow(u) /\ Running(u)' = Running(u)
  BY <1>1 DEF HasRow, Running
<1>9. HasRow(u) <=> b.pc \in Doing
  BY <1>3 DEF RunOf
<1>10. QED
  BY <1>1, <1>2, <1>3, <1>5, <1>6, <1>8, <1>9 DEF RunOf, Doing

LEMMA RunMoves ==
    ASSUME Registry, Typed, RunInv, NEW t \in Runners, NEW q, Become(t, q), Same, Apart(t),
           NEW o, o = runner[t].log, NEW n, n = Len(rows) + 1,
           RunOf(t)', q.log \in {None, o, n},
           \A l \in DOMAIN rows' : l \in DOMAIN rows \/ l = n,
           o \in DOMAIN rows' => RowOf(o)',
           n \in DOMAIN rows' => RowOf(n)',
           told' \subseteq stored', stored' \subseteq DOMAIN rows', lost' \subseteq DOMAIN rows'
    PROVE  RunInv'
<1>1. runner'[t] = q /\ \A u \in Runners \ {t} : runner'[u] = runner[u]
  BY Becomes
<1>2. \A u \in Runners : RunOf(u)'
  BY OthersKeepOn
<1>3. \A u \in Runners : runner[u].log # None => runner[u].log \in DOMAIN rows /\ runner[u].log \in Nat
  BY DEF RunInv, RunOf, HasRow, Typed, AnyRunner
<1>4. n \notin DOMAIN rows /\ n # None /\ None \notin DOMAIN rows
  BY DEF Typed, None
<1>5. \A u, v \in Runners : HasRow(u)' /\ runner'[u].log = runner'[v].log => u = v
  <2>1. \A u, v \in Runners : runner[u].log # None /\ runner[u].log = runner[v].log => u = v
    BY DEF RunInv, HasRow
  <2>2. \A u \in Runners \ {t} : runner[u].log = q.log /\ q.log # None => FALSE
    BY <1>3, <1>4, <2>1
  <2>3. QED
    BY <1>1, <2>1, <2>2 DEF HasRow
<1>6. \A l \in DOMAIN rows' : RowOf(l)'
  <2>1. ASSUME NEW l \in DOMAIN rows', l # o, l # n PROVE RowOf(l)'
    <3>1. /\ l \in DOMAIN rows /\ rows'[l] = rows[l] /\ (l \in stored' <=> l \in stored)
          /\ (l \in lost' <=> l \in lost) /\ l # q.log
      BY <1>4, <2>1 DEF Apart
    <3>2. RowOf(l) /\ typeOf' = typeOf
      BY <3>1 DEF RunInv, Same
    <3>3. \A u \in Runners : runner[u].log = l <=> runner'[u].log = l
      BY <1>1, <2>1, <3>1
    <3>4. QED
      BY <3>1, <3>2, <3>3 DEF RowOf
  <2>2. QED
    BY <2>1
<1>7. QED
  BY <1>2, <1>5, <1>6 DEF RunInv

LEMMA StaysTyped ==
    ASSUME Typed, NEW t \in Runners, NEW q \in AnyRunner, Become(t, q), Same,
           rows' \in Seq(AnyRow), lock' \in [Pollers -> Runners \cup {None}]
    PROVE  Typed'
<1>1. Made' = Made /\ AnyRow' = AnyRow /\ AnyRunner' = AnyRunner /\ AnyManager' = AnyManager /\ AnyMain' = AnyMain
  BY DEF Same, Made, AnyRow, AnyRunner, AnyManager, AnyMain
<1>2. runner' \in [Runners -> AnyRunner]
  BY Becomes
<1>3. QED
  BY <1>1, <1>2 DEF Typed, Same, schedVars, Pollers, None

\* A runner between two polls, or one that waits for its poller.
Waiting(q) ==
  /\ q \in AnyRunner /\ q.pc \in {"idle", "lock", "deliver"} /\ q.log = None /\ q.ok
  /\ q.pc # "idle" => q.p \in Made

LEMMA WaitsWell ==
    ASSUME Typed, NEW t \in Runners, NEW q, Waiting(q), Become(t, q), Same
    PROVE  RunOf(t)'
<1>1. runner'[t] = q /\ Made' = Made
  BY Becomes DEF Same, Made
<1>2. q.pc \notin Doing /\ q.pc # "finish" /\ q.pc \notin {"fetch", "persist"} /\ q.pc # "emit"
  BY DEF Waiting, Doing
<1>3. QED
  BY <1>1, <1>2 DEF RunOf, Waiting, HasRow, Running, Doing

LEMMA ProceedWaits ==
    ASSUME Typed, NEW t \in Runners
    PROVE  Waiting(Proceed(t))
<1>1. CASE Eager(runner[t].todo) = {}
  <2>1. << >> \in Seq(Made)
    OBVIOUS
  <2>2. IdleRunner \in AnyRunner
    BY <2>1 DEF IdleRunner, AnyRunner, RunPcs, None
  <2>3. QED
    BY <1>1, <2>2 DEF Waiting, Proceed, IdleRunner
<1>2. CASE Eager(runner[t].todo) # {}
  <2> DEFINE i == Min(Eager(runner[t].todo))
             q == [pc |-> "lock", p |-> runner[t].todo[i], todo |-> After(runner[t].todo, i), log |-> None,
                   ok |-> TRUE, ctx |-> runner[t].ctx]
  <2>1. runner[t].todo[i] \in Made /\ After(runner[t].todo, i) \in Seq(Made)
    BY <1>2, RunFields, FirstEager
  <2>2. Proceed(t) = q
    BY <1>2 DEF Proceed
  <2>3. runner[t].ctx \in {"live", "dead", "background"}
    BY RunFields
  <2> HIDE DEF i
  <2>4. q \in AnyRunner
    BY <2>1, <2>3 DEF AnyRunner, RunPcs, None
  <2>5. QED
    BY <2>1, <2>2, <2>4 DEF Waiting
<1>3. QED
  BY <1>1, <1>2

LEMMA IdleTyped ==
    /\ IdleRunner \in AnyRunner /\ IdleRunner.log = None /\ IdleRunner.ok
    /\ IdleRunner.pc = "idle"
<1>1. << >> \in Seq(Made)
  OBVIOUS
<1>2. QED
  BY <1>1 DEF IdleRunner, AnyRunner, RunPcs, None

\* A run that waits again: its row, if it had one, completed or lost, and a row it made lost.
LEMMA WaitsOn ==
    ASSUME Registry, Typed, RunInv, NEW t \in Runners, NEW q, Waiting(q), Become(t, q), Same, Apart(t),
           UNCHANGED <<stored, told>>, rows' \in Seq(AnyRow), lock' \in [Pollers -> Runners \cup {None}],
           NEW n, n = Len(rows) + 1, DOMAIN rows' \in {DOMAIN rows, DOMAIN rows \cup {n}}, lost' \subseteq DOMAIN rows',
           n \in DOMAIN rows' => RowOf(n)',
           NEW o, o = runner[t].log, o # None => RowOf(o)'
    PROVE  Typed' /\ RunInv'
<1>1. Typed'
  BY StaysTyped DEF Waiting
<1>2. RunOf(t)'
  BY WaitsWell
<1>3. None \notin DOMAIN rows' /\ q.log = None
  BY DEF Waiting, None
<1>4. told' \subseteq stored' /\ stored' \subseteq DOMAIN rows' /\ \A l \in DOMAIN rows' : l \in DOMAIN rows \/ l = n
  BY DEF RunInv
<1>5. RunInv'
  BY <1>2, <1>3, <1>4, RunMoves
<1>6. QED
  BY <1>1, <1>5

LEMMA BeginsWell ==
    ASSUME Registry, Typed, RunInv, NEW t \in Runners, NEW q, Waiting(q), Become(t, q), runner[t].pc = "idle",
           UNCHANGED <<lock, rows, stored, told, lost>>, Same
    PROVE  Typed' /\ RunInv'
<1>1. runner[t].log = None
  BY DEF RunInv, RunOf, HasRow, Doing
<1>2. Apart(t)
  BY DEF Apart
<1>3. /\ rows \in Seq(AnyRow) /\ lock \in [Pollers -> Runners \cup {None}] /\ lost \subseteq DOMAIN rows
      /\ Len(rows) + 1 \notin DOMAIN rows
  BY DEF Typed, RunInv
<1>4. QED
  BY <1>1, <1>2, <1>3, WaitsOn

LEMMA BeginKeeps ==
    ASSUME Registry, Typed, RunInv, NEW t \in Runners, NEW p \in Made, NEW todo \in Seq(Made),
           NEW ctx \in {"live", "background"}, Begin(t, p, todo, ctx)
    PROVE  Typed' /\ RunInv'
<1> DEFINE q == [IdleRunner EXCEPT !.pc = "lock", !.p = p, !.todo = todo, !.ctx = ctx]
<1>1. q \in AnyRunner /\ q.pc = "lock" /\ q.p = p /\ q.log = None /\ q.ok
  BY IdleTyped DEF AnyRunner, RunPcs
<1> HIDE DEF q
<1>2. Waiting(q)
  BY <1>1 DEF Waiting
<1>3. Become(t, q) /\ Same /\ runner[t].pc = "idle" /\ UNCHANGED <<lock, rows, stored, told, lost>>
  BY DEF Begin, Become, Same, schedVars, q
<1>4. QED
  BY <1>2, <1>3, BeginsWell

LEMMA SyncsBegin ==
    ASSUME Registry, Typed, RunInv, NEW t \in Runners, Tick(t) \/ SyncAll(t) \/ SyncSource(t) \/ Ingest(t)
    PROVE  Typed' /\ RunInv'
<1>1. << >> \in Seq(Made)
  OBVIOUS
<1>2. \A ty : OfType(ty) \subseteq Made
  BY DEF OfType, Registered, ToSet, Registry
<1>3. CASE Tick(t)
  BY <1>1, <1>3, BeginKeeps DEF Tick, Typed
<1>4. CASE SyncAll(t)
  <2>1. Eager(order) # {} /\ order \in Seq(Made) /\ Begin(t, order[Min(Eager(order))], After(order, Min(Eager(order))), "live")
    BY <1>4 DEF SyncAll, Registry
  <2>2. order[Min(Eager(order))] \in Made /\ After(order, Min(Eager(order))) \in Seq(Made)
    BY <2>1, FirstEager
  <2>3. QED
    BY <2>1, <2>2, BeginKeeps
<1>5. CASE SyncSource(t)
  BY <1>1, <1>2, <1>5, BeginKeeps DEF SyncSource
<1>6. CASE Ingest(t)
  <2>1. PICK p \in Made : /\ runner[t].pc = "idle" /\ Become(t, [IdleRunner EXCEPT !.pc = "deliver", !.p = p])
                          /\ Same /\ UNCHANGED <<lock, rows, stored, told, lost>>
    BY <1>2, <1>6 DEF Ingest, Become, Same, schedVars
  <2> DEFINE q == [IdleRunner EXCEPT !.pc = "deliver", !.p = p]
  <2>2. q \in AnyRunner /\ q.pc = "deliver" /\ q.p = p /\ q.log = None /\ q.ok
    BY IdleTyped DEF AnyRunner, RunPcs
  <2>3. Become(t, q)
    BY <2>1
  <2> HIDE DEF q
  <2>4. Waiting(q)
    BY <2>2 DEF Waiting
  <2>5. QED
    BY <2>1, <2>3, <2>4, BeginsWell
<1>7. QED
  BY <1>3, <1>4, <1>5, <1>6

LEMMA SyncKeeps ==
    ASSUME Registry, Typed, RunInv, NEW t \in Runners, Sync(t)
    PROVE  Typed' /\ RunInv'
<1> DEFINE p == runner[t].p
           q == [runner[t] EXCEPT !.pc = IF @ = "lock" THEN "log" ELSE "logBatch"]
<1>1. /\ runner[t].pc \in {"lock", "deliver"} /\ lock[p] = None /\ Same /\ UNCHANGED <<rows, stored, told, lost>>
      /\ rows \in Seq(AnyRow) /\ lock \in [Pollers -> Runners \cup {None}]
      /\ lost \subseteq DOMAIN rows /\ Len(rows) + 1 \notin DOMAIN rows
  BY DEF Sync, Typed, RunInv
<1>2. runner[t].log = None /\ p \in Made /\ runner[t].ok
  BY <1>1 DEF RunInv, RunOf, HasRow, Doing
<1>3. CASE Become(t, Proceed(t)) /\ UNCHANGED lock
  <2>1. Apart(t)
    BY <1>1, <1>3 DEF Apart
  <2>2. QED
    BY <1>1, <1>2, <1>3, <2>1, ProceedWaits, WaitsOn
<1>4. CASE Become(t, q) /\ lock' = [lock EXCEPT ![p] = t]
  <2>1. lock' \in [Pollers -> Runners \cup {None}] /\ p \in Pollers /\ lock'[p] = t
    BY <1>1, <1>2, <1>4, MadePoller
  <2>2. Apart(t)
    BY <1>1, <1>4 DEF Apart
  <2>3. /\ q.log = None /\ q.pc \in {"log", "logBatch"} /\ q.p = p /\ q.ok = runner[t].ok
        /\ q \in AnyRunner
    BY <1>1, <1>2, RunFields DEF AnyRunner, RunPcs
  <2>4. Become(t, q)
    BY <1>4
  <2> HIDE DEF q
  <2>5. runner'[t] = q /\ Made' = Made
    BY <1>1, <2>4, Becomes DEF Same, Made
  <2>6. RunOf(t)'
    <3>1. q.pc # "idle" /\ q.pc \notin Doing /\ q.pc # "finish" /\ q.pc \notin {"fetch", "persist"} /\ q.pc # "emit"
      BY <2>3 DEF Doing
    <3>2. QED
      BY <1>2, <2>1, <2>3, <2>5, <3>1 DEF RunOf, HasRow, Running
  <2>7. Typed'
    BY <1>1, <2>1, <2>3, <2>4, StaysTyped
  <2>8. None \notin DOMAIN rows' /\ Len(rows) + 1 \notin DOMAIN rows'
    BY <1>1 DEF None
  <2>9. told' \subseteq stored' /\ stored' \subseteq DOMAIN rows' /\ lost' \subseteq DOMAIN rows' /\ rows' = rows
    BY <1>1 DEF RunInv
  <2>10. RunInv'
    BY <1>1, <1>2, <2>2, <2>3, <2>4, <2>6, <2>8, <2>9, RunMoves
  <2>11. QED
    BY <2>7, <2>10
<1>5. QED
  BY <1>3, <1>4 DEF Sync

\* A step of a run that has its row and keeps it.
LEMMA RunWorks ==
    ASSUME Registry, Typed, RunInv, NEW t \in Runners, NEW q \in AnyRunner, Become(t, q), Same,
           HasRow(t), NEW o, o = runner[t].log, q.log = o, q.p = runner[t].p, q.pc \in Doing,
           UNCHANGED <<lock, rows, lost>>, stored' \in {stored, stored \cup {o}}, told' \subseteq stored',
           q.pc # "finish" => q.ok,
           q.pc \in {"fetch", "persist"} => o \notin stored',
           q.pc = "emit" => o \in stored',
           q.pc = "finish" => IF q.ok THEN o \in stored' \/ KindOf[typeOf[runner[t].p]] = "warm" ELSE o \notin stored'
    PROVE  Typed' /\ RunInv'
<1>1. /\ rows \in Seq(AnyRow) /\ lock \in [Pollers -> Runners \cup {None}] /\ runner'[t] = q /\ typeOf' = typeOf
      /\ Made' = Made
  BY Becomes DEF Typed, Same, Made
<1>2. /\ runner[t].p \in Made /\ o \in DOMAIN rows /\ rows[o].status = "running" /\ rows[o].p = runner[t].p
      /\ o # None /\ o \notin lost /\ Running(t) /\ lock[runner[t].p] = t
  BY DEF RunInv, RunOf, HasRow, Running, Doing
<1>3. Typed'
  BY <1>1, StaysTyped
<1>4. Apart(t)
  BY DEF Apart
<1>5. RunOf(t)'
  <2>1. (HasRow(t)' <=> q.pc \in Doing) /\ q.pc # "idle" /\ Running(t)'
    BY <1>1, <1>2 DEF HasRow, Running, Doing
  <2>2. QED
    BY <1>1, <1>2, <2>1 DEF RunOf
<1>6. RowOf(o)'
  BY <1>1, <1>2 DEF RowOf
<1>7. stored' \subseteq DOMAIN rows' /\ lost' \subseteq DOMAIN rows' /\ Len(rows) + 1 \notin DOMAIN rows'
  BY <1>1, <1>2 DEF RunInv
<1>8. RunInv'
  BY <1>4, <1>5, <1>6, <1>7, RunMoves
<1>9. QED
  BY <1>3, <1>8

LEMMA CreateLogKeeps ==
    ASSUME Registry, Typed, RunInv, NEW t \in Runners, CreateLog(t)
    PROVE  Typed' /\ RunInv'
<1> DEFINE p == runner[t].p
           q == [runner[t] EXCEPT !.pc = IF @ = "log" THEN "fetch" ELSE "persist", !.log = Len(rows) + 1]
           row == [status |-> "running", p |-> p]
<1>1. /\ runner[t].pc \in {"log", "logBatch"} /\ Same /\ UNCHANGED <<stored, told>>
      /\ rows \in Seq(AnyRow) /\ lock \in [Pollers -> Runners \cup {None}] /\ lost \subseteq DOMAIN rows
  BY DEF CreateLog, Typed, RunInv
<1>2. runner[t].log = None /\ p \in Made /\ p \in Pollers /\ lock[p] = t /\ runner[t].ok /\ t # None
  BY <1>1, MadePoller, EngineAssumption DEF RunInv, RunOf, HasRow, Doing, Running
<1>l. PICK l \in Nat : l = Len(rows) + 1
  BY <1>1
<1>r. row \in AnyRow /\ row.status = "running" /\ row.p = p
  BY <1>2 DEF AnyRow
<1>3. CASE UNCHANGED <<rows, lost>> /\ Quit(t)
  <2>1. Apart(t) /\ lock' \in [Pollers -> Runners \cup {None}] /\ l \notin DOMAIN rows'
    BY <1>1, <1>2, <1>3, <1>l DEF Apart, Free, Quit
  <2>2. QED
    BY <1>1, <1>2, <1>3, <1>l, <2>1, ProceedWaits, WaitsOn DEF Quit
<1> HIDE DEF row
<1>5. CASE rows' = Append(rows, row) /\ lost' = lost \cup {l} /\ Quit(t)
  <2>1. /\ rows' \in Seq(AnyRow) /\ DOMAIN rows' = DOMAIN rows \cup {l} /\ rows'[l] = row
        /\ \A k \in DOMAIN rows : rows'[k] = rows[k] /\ k # l
    BY <1>1, <1>5, <1>l, <1>r, Longer
  <2>2. Apart(t) /\ lock' \in [Pollers -> Runners \cup {None}]
    BY <1>1, <1>2, <1>5, <2>1 DEF Apart, Free, Quit
  <2>3. RowOf(l)'
    BY <1>5, <1>r, <2>1 DEF RowOf
  <2>4. lost' \subseteq DOMAIN rows'
    BY <1>1, <1>5, <2>1
  <2>5. QED
    BY <1>1, <1>2, <1>5, <1>l, <2>1, <2>2, <2>3, <2>4, ProceedWaits, WaitsOn DEF Quit
<1>4. CASE runner[t].ctx # "dead" /\ rows' = Append(rows, row) /\ Become(t, q) /\ UNCHANGED <<lock, lost>>
  <2>1. /\ rows' \in Seq(AnyRow) /\ DOMAIN rows' = DOMAIN rows \cup {l} /\ rows'[l] = row
        /\ \A k \in DOMAIN rows : rows'[k] = rows[k]
    BY <1>1, <1>4, <1>r, <1>l, Longer
  <2>2. l \notin DOMAIN rows /\ l \in Nat /\ l # None
    BY <1>1, <1>l DEF None
  <2>3. /\ q \in AnyRunner /\ q.log = l /\ q.pc \in {"fetch", "persist"} /\ q.p = p /\ q.ok = runner[t].ok
        /\ q.ctx = runner[t].ctx
    BY <1>1, <2>2, <1>l, RunFields DEF AnyRunner, RunPcs
  <2>4. Become(t, q)
    BY <1>4
  <2> HIDE DEF q
  <2>5. runner'[t] = q /\ Made' = Made
    BY <1>1, <2>4, Becomes DEF Same, Made
  <2>6. Apart(t)
    BY <1>1, <1>4, <2>1 DEF Apart
  <2>7. stored \subseteq DOMAIN rows /\ told \subseteq stored /\ lost \subseteq DOMAIN rows
    BY DEF RunInv
  <2>8. RunOf(t)'
    <3>1. q.pc # "idle" /\ q.pc \in Doing /\ q.pc # "finish" /\ q.pc # "emit" /\ q.log \notin lost' /\ q.log \notin stored
      BY <1>4, <2>2, <2>3, <2>7 DEF Doing
    <3>2. HasRow(t)' /\ q.log \in DOMAIN rows' /\ rows'[q.log] = row /\ lock'[q.p] = t
      BY <1>2, <1>4, <2>1, <2>2, <2>3, <2>5 DEF HasRow
    <3>3. QED
      BY <1>1, <1>2, <1>r, <2>3, <2>5, <3>1, <3>2 DEF RunOf
  <2>9. RowOf(l)'
    <3>1. rows'[l].status = "running" /\ runner'[t].log = l
      BY <1>r, <2>1, <2>3, <2>5
    <3>2. QED
      BY <3>1 DEF RowOf
  <2>10. None \notin DOMAIN rows'
    BY <2>1, <2>2, <1>1 DEF None
  <2>11. told' \subseteq stored' /\ stored' \subseteq DOMAIN rows' /\ lost' \subseteq DOMAIN rows'
    BY <1>1, <1>4, <2>1, <2>7
  <2>12. Typed'
    BY <1>1, <1>4, <2>1, <2>3, <2>4, StaysTyped
  <2>13. \A k \in DOMAIN rows' : k \in DOMAIN rows \/ k = l
    BY <2>1
  <2>14. RunInv'
    BY <1>1, <1>2, <1>l, <2>3, <2>4, <2>6, <2>8, <2>9, <2>10, <2>11, <2>13, RunMoves
  <2>15. QED
    BY <2>12, <2>14
<1>6. QED
  BY <1>3, <1>4, <1>5, <1>l DEF CreateLog, Insert, row

LEMMA WithRow ==
    ASSUME Typed, RunInv, NEW t \in Runners, runner[t].pc \in Doing
    PROVE  /\ HasRow(t) /\ RunOf(t) /\ runner[t].log \in DOMAIN rows /\ runner[t].p \in Made
           /\ told \subseteq stored
BY DEF RunInv, RunOf, Doing

LEMMA FetchKeeps ==
    ASSUME Registry, Typed, RunInv, NEW t \in Runners, Fetch(t)
    PROVE  Typed' /\ RunInv'
<1>1. runner[t].pc = "fetch" /\ Same /\ UNCHANGED <<lock, rows, stored, told, lost>> /\ runner[t].pc \in Doing
  BY DEF Fetch, Doing
<1>2. runner[t].log \notin stored /\ runner[t].ok
  BY <1>1, WithRow DEF RunOf
<1>3. CASE Become(t, [runner[t] EXCEPT !.pc = "finish", !.ok = FALSE])
  <2> DEFINE q == [runner[t] EXCEPT !.pc = "finish", !.ok = FALSE]
  <2>1. /\ q \in AnyRunner /\ q.pc = "finish" /\ q.ok = FALSE /\ q.log = runner[t].log /\ q.p = runner[t].p
        /\ q.ctx = runner[t].ctx
    BY RunFields DEF AnyRunner, RunPcs
  <2>2. Become(t, q)
    BY <1>3
  <2> HIDE DEF q
  <2>3. QED
    BY <1>1, <1>2, <2>1, <2>2, WithRow, RunWorks DEF Doing
<1>4. ASSUME NEW pc \in {"finish", "persist"}, pc = "finish" => KindOf[typeOf[runner[t].p]] = "warm",
             Become(t, [runner[t] EXCEPT !.pc = pc])
      PROVE  Typed' /\ RunInv'
  <2> DEFINE q == [runner[t] EXCEPT !.pc = pc]
  <2>1. /\ q \in AnyRunner /\ q.pc = pc /\ q.ok = runner[t].ok /\ q.log = runner[t].log /\ q.p = runner[t].p
        /\ q.ctx = runner[t].ctx
    BY RunFields DEF AnyRunner, RunPcs
  <2>2. Become(t, q)
    BY <1>4
  <2> HIDE DEF q
  <2>3. QED
    BY <1>1, <1>2, <1>4, <2>1, <2>2, WithRow, RunWorks DEF Doing
<1>5. QED
  BY <1>3, <1>4 DEF Fetch

LEMMA PersistKeeps ==
    ASSUME Registry, Typed, RunInv, NEW t \in Runners, Persist(t)
    PROVE  Typed' /\ RunInv'
<1>1. runner[t].pc = "persist" /\ Same /\ UNCHANGED <<lock, rows, told, lost>> /\ runner[t].pc \in Doing
  BY DEF Persist, Doing
<1>2. runner[t].log \notin stored /\ runner[t].ok
  BY <1>1, WithRow DEF RunOf
<1>3. CASE UNCHANGED stored /\ Become(t, [runner[t] EXCEPT !.pc = "finish", !.ok = FALSE])
  <2> DEFINE q == [runner[t] EXCEPT !.pc = "finish", !.ok = FALSE]
  <2>1. /\ q \in AnyRunner /\ q.pc = "finish" /\ q.ok = FALSE /\ q.log = runner[t].log /\ q.p = runner[t].p
        /\ q.ctx = runner[t].ctx
    BY RunFields DEF AnyRunner, RunPcs
  <2>2. Become(t, q)
    BY <1>3
  <2> HIDE DEF q
  <2>3. QED
    BY <1>1, <1>2, <1>3, <2>1, <2>2, WithRow, RunWorks DEF Doing
<1>4. CASE stored' = stored \cup {runner[t].log} /\ Become(t, [runner[t] EXCEPT !.pc = "emit"])
  <2> DEFINE q == [runner[t] EXCEPT !.pc = "emit"]
  <2>1. /\ q \in AnyRunner /\ q.pc = "emit" /\ q.ok = runner[t].ok /\ q.log = runner[t].log /\ q.p = runner[t].p
        /\ q.ctx = runner[t].ctx
    BY RunFields DEF AnyRunner, RunPcs
  <2>2. Become(t, q)
    BY <1>4
  <2> HIDE DEF q
  <2>3. told' \subseteq stored' /\ runner[t].log \in stored' /\ stored' \in {stored, stored \cup {runner[t].log}}
    BY <1>1, <1>4, WithRow
  <2>4. QED
    BY <1>1, <1>2, <2>1, <2>2, <2>3, WithRow, RunWorks DEF Doing
<1>5. QED
  BY <1>3, <1>4 DEF Persist

LEMMA EmitKeeps ==
    ASSUME Registry, Typed, RunInv, NEW t \in Runners, EmitSyncCompleted(t)
    PROVE  Typed' /\ RunInv'
<1>1. runner[t].pc = "emit" /\ Same /\ UNCHANGED <<lock, rows, stored, lost>> /\ runner[t].pc \in Doing
  BY DEF EmitSyncCompleted, Doing
<1>2. runner[t].log \in stored /\ runner[t].ok
  BY <1>1, WithRow DEF RunOf
<1> DEFINE q == [runner[t] EXCEPT !.pc = "finish"]
<1>3. /\ q \in AnyRunner /\ q.pc = "finish" /\ q.ok = runner[t].ok /\ q.log = runner[t].log /\ q.p = runner[t].p
      /\ q.ctx = runner[t].ctx
  BY RunFields DEF AnyRunner, RunPcs
<1>4. Become(t, q)
  BY DEF EmitSyncCompleted
<1> HIDE DEF q
<1>5. told' \subseteq stored'
  BY <1>1, <1>2, WithRow DEF EmitSyncCompleted
<1>6. QED
  BY <1>1, <1>2, <1>3, <1>4, <1>5, WithRow, RunWorks DEF Doing

LEMMA RecordRunKeeps ==
    ASSUME Registry, Typed, RunInv, NEW t \in Runners, RecordRun(t)
    PROVE  Typed' /\ RunInv'
<1>o. PICK o : o = runner[t].log
  OBVIOUS
<1>s. PICK s \in {"success", "error"} : s = IF runner[t].ok THEN "success" ELSE "error"
  OBVIOUS
<1>1. /\ runner[t].pc = "finish" /\ Same /\ UNCHANGED <<stored, told>> /\ runner[t].pc \in Doing
      /\ Free(runner[t].p) /\ Become(t, Proceed(t))
  BY DEF RecordRun, Quit, Doing
<1>2. /\ rows \in Seq(AnyRow) /\ lock \in [Pollers -> Runners \cup {None}] /\ o \in DOMAIN rows /\ runner[t].p \in Pollers
      /\ lock[runner[t].p] = t /\ lost \subseteq DOMAIN rows /\ Len(rows) + 1 \notin DOMAIN rows
  <2>1. rows \in Seq(AnyRow) /\ Len(rows) + 1 \notin DOMAIN rows /\ lock \in [Pollers -> Runners \cup {None}]
    BY DEF Typed
  <2>2. lost \subseteq DOMAIN rows
    BY DEF RunInv
  <2>3. o \in DOMAIN rows /\ runner[t].p \in Pollers /\ lock[runner[t].p] = t
    BY <1>1, <1>o, WithRow, MadePoller DEF RunOf, Running
  <2>4. QED
    BY <2>1, <2>2, <2>3
<1>3. /\ rows[o].status = "running" /\ rows[o].p = runner[t].p /\ o \notin lost /\ o # None
      /\ IF runner[t].ok THEN o \in stored \/ KindOf[typeOf[runner[t].p]] = "warm" ELSE o \notin stored
  BY <1>1, <1>o, WithRow DEF RunOf, HasRow
<1>4. lock' \in [Pollers -> Runners \cup {None}] /\ \A p \in Pollers : lock[p] \notin {t, None} => lock'[p] = lock[p]
  BY <1>1, <1>2 DEF Free
<1>5. CASE UNCHANGED rows /\ lost' = lost \cup {o}
  <2>1. Apart(t) /\ RowOf(o)'
    BY <1>3, <1>4, <1>5, <1>1, <1>o DEF Apart, RowOf
  <2>2. QED
    BY <1>1, <1>2, <1>4, <1>5, <1>o, <2>1, ProceedWaits, WaitsOn
<1>6. CASE rows' = [rows EXCEPT ![o].status = s] /\ UNCHANGED lost
  <2>1. rows[o] \in AnyRow
    BY <1>2
  <2>2. [rows[o] EXCEPT !.status = s] \in AnyRow /\ [rows[o] EXCEPT !.status = s].status = s
        /\ [rows[o] EXCEPT !.status = s].p = rows[o].p
    BY <2>1 DEF AnyRow
  <2>3. PICK r \in AnyRow : r = [rows[o] EXCEPT !.status = s]
    BY <2>2
  <2>4. rows' = [rows EXCEPT ![o] = r] /\ r.status = s /\ r.p = rows[o].p
    BY <1>6, <2>2, <2>3
  <2>5. rows' \in Seq(AnyRow) /\ Len(rows') = Len(rows)
    BY <1>2, <2>4, ExceptSeq
  <2>6. DOMAIN rows' = DOMAIN rows /\ rows'[o] = r /\ \A l \in DOMAIN rows : l # o => rows'[l] = rows[l]
    BY <1>2, <2>4
  <2>7. Apart(t)
    BY <1>1, <1>4, <1>6, <1>o, <2>6 DEF Apart
  <2>8. \A u \in Runners : runner'[u].log # o
    <3>1. runner'[t].log = None
      BY <1>1, Becomes, ProceedWaits DEF Waiting
    <3>2. \A u \in Runners \ {t} : runner'[u] = runner[u] /\ runner[u].log # o
      BY <1>1, <1>3, <1>o, Becomes DEF RunInv, HasRow
    <3>3. QED
      BY <1>3, <3>1, <3>2
  <2>9. RowOf(o)'
    BY <1>s, <1>3, <1>6, <1>1, <2>4, <2>6, <2>8 DEF RowOf, Same
  <2>10. QED
    BY <1>1, <1>2, <1>4, <1>6, <1>o, <2>5, <2>6, <2>7, <2>9, ProceedWaits, WaitsOn
<1>7. QED
  BY <1>5, <1>6, <1>o, <1>s DEF RecordRun, CompleteSyncLog

LEMMA CtxEndsKeeps ==
    ASSUME Registry, Typed, RunInv, NEW t \in Runners, CtxEnds(t)
    PROVE  Typed' /\ RunInv'
<1> DEFINE q == [runner[t] EXCEPT !.ctx = "dead"]
<1>1. /\ runner[t].pc # "idle" /\ Same /\ UNCHANGED <<lock, rows, stored, told, lost>> /\ Become(t, q)
  BY DEF CtxEnds
<1>2. /\ q \in AnyRunner /\ q.pc = runner[t].pc /\ q.ok = runner[t].ok /\ q.log = runner[t].log /\ q.p = runner[t].p
      /\ q.ctx = "dead"
  BY RunFields DEF AnyRunner
<1> HIDE DEF q
<1>3. RunOf(t) /\ told \subseteq stored /\ rows \in Seq(AnyRow) /\ lock \in [Pollers -> Runners \cup {None}]
  BY DEF RunInv, Typed
<1>4. CASE HasRow(t)
  <2>1. runner[t].pc \in Doing
    BY <1>1, <1>3, <1>4 DEF HasRow, RunOf
  <2>2. QED
    BY <1>1, <1>2, <1>3, <1>4, <2>1, RunWorks DEF RunOf
<1>5. CASE ~HasRow(t)
  <2>1. runner[t].log = None /\ Apart(t)
    BY <1>1, <1>5 DEF HasRow, Apart
  <2>2. runner'[t] = q /\ Made' = Made
    BY <1>1, Becomes DEF Same, Made
  <2>3. RunOf(t)'
    BY <1>1, <1>2, <1>3, <1>5, <2>1, <2>2 DEF RunOf, HasRow, Running, Same, Doing
  <2>4. Typed' /\ None \notin DOMAIN rows' /\ Len(rows) + 1 \notin DOMAIN rows'
    BY <1>1, <1>2, <1>3, StaysTyped DEF None
  <2>5. told' \subseteq stored' /\ stored' \subseteq DOMAIN rows' /\ lost' \subseteq DOMAIN rows'
    BY <1>1, <2>1 DEF RunInv
  <2>6. RunInv'
    BY <1>1, <1>2, <2>1, <2>3, <2>4, <2>5, RunMoves
  <2>7. QED
    BY <2>4, <2>6
<1>6. QED
  BY <1>4, <1>5

-----------------------------------------------------------------------------
(***************************************************************************)
(* The registry and the schedules.                                         *)
(***************************************************************************)
\* What is made stays as it is.
Grows == Made \subseteq Made' /\ \A p \in Made : typeOf'[p] = typeOf[p]

LEMMA SyncsUntouched ==
    ASSUME Registry, Typed, RunInv, Grows, UNCHANGED syncVars
    PROVE  /\ RunInv'
           /\ lock' \in [Pollers -> Runners \cup {None}]
           /\ runner' \in [Runners -> AnyRunner'] /\ rows' \in Seq(AnyRow')
<1>1. Made \subseteq Made' /\ \A p \in Made : typeOf'[p] = typeOf[p]
  BY DEF Grows
<1>2. Seq(Made) \subseteq Seq(Made')
  BY <1>1, Wider
<1>3. AnyRunner \subseteq AnyRunner' /\ AnyRow \subseteq AnyRow'
  BY <1>1, <1>2 DEF AnyRunner, AnyRow, RunPcs, None
<1>4. Seq(AnyRow) \subseteq Seq(AnyRow')
  BY <1>3, Wider
<1>5. /\ UNCHANGED <<lock, runner, rows, stored, told, lost>>
      /\ lock \in [Pollers -> Runners \cup {None}] /\ runner \in [Runners -> AnyRunner] /\ rows \in Seq(AnyRow)
  BY DEF Typed, syncVars
<1>6. ASSUME NEW t \in Runners PROVE RunOf(t)'
  <2>1. RunOf(t) /\ runner'[t] = runner[t] /\ HasRow(t)' = HasRow(t) /\ Running(t)' = Running(t)
    BY <1>5 DEF RunInv, HasRow, Running
  <2>2. runner[t].pc # "idle" => runner[t].p \in Made /\ runner[t].p \in Made' /\ typeOf'[runner[t].p] = typeOf[runner[t].p]
    BY <1>1, <2>1 DEF RunOf
  <2>3. QED
    BY <1>5, <2>1, <2>2 DEF RunOf
<1>7. ASSUME NEW l \in DOMAIN rows' PROVE RowOf(l)'
  <2>1. RowOf(l) /\ rows[l] \in AnyRow
    BY <1>5, <1>7 DEF RunInv
  <2>2. typeOf'[rows[l].p] = typeOf[rows[l].p]
    BY <1>1, <2>1 DEF AnyRow
  <2>3. QED
    BY <1>5, <2>1, <2>2 DEF RowOf
<1>8. RunInv'
  BY <1>5, <1>6, <1>7 DEF RunInv, HasRow
<1>9. QED
  BY <1>3, <1>4, <1>5, <1>8

LEMMA Starts ==
    ASSUME Registry, Typed, NEW p \in Made, Start(p)
    PROVE  /\ field' \in [Pollers -> {"none", "live", "shut"}] /\ live' \in [Pollers -> Nat]
           /\ \A q \in Pollers : (live'[q] > 0 => q \in Made) /\ (field'[q] = "live" => live'[q] > 0)
           /\ \A q \in Pollers \ {p} : field'[q] = field[q] /\ live'[q] = live[q]
           /\ IF typeOf[p] \in Timed THEN field'[p] = "live" /\ live'[p] = live[p] + 1
              ELSE field'[p] = field[p] /\ live'[p] = live[p]
<1>1. p \in Pollers /\ live \in [Pollers -> Nat] /\ field \in [Pollers -> {"none", "live", "shut"}]
      /\ \A q \in Pollers : (live[q] > 0 => q \in Made) /\ (field[q] = "live" => live[q] > 0)
  BY MadePoller DEF Typed
<1>2. CASE typeOf[p] \notin Timed
  BY <1>1, <1>2 DEF Start, schedVars
<1>3. CASE typeOf[p] \in Timed
  <2>1. field' = [field EXCEPT ![p] = "live"] /\ live' = [live EXCEPT ![p] = @ + 1]
    BY <1>3 DEF Start
  <2>2. QED
    BY <1>1, <1>3, <2>1
<1>4. QED
  BY <1>2, <1>3

LEMMA Stops ==
    ASSUME Registry, Typed, NEW p \in Made, Stop(p)
    PROVE  /\ field' \in [Pollers -> {"none", "live", "shut"}] /\ live' \in [Pollers -> Nat]
           /\ \A q \in Pollers : (live'[q] > 0 => q \in Made) /\ (field'[q] = "live" => live'[q] > 0)
           /\ \A q \in Pollers \ {p} : field'[q] = field[q] /\ live'[q] = live[q]
           /\ field'[p] # "live"
           /\ IF field[p] = "live" THEN live'[p] = live[p] - 1 ELSE live'[p] = live[p]
<1>1. p \in Pollers /\ live \in [Pollers -> Nat] /\ field \in [Pollers -> {"none", "live", "shut"}]
      /\ \A q \in Pollers : (live[q] > 0 => q \in Made) /\ (field[q] = "live" => live[q] > 0)
  BY MadePoller DEF Typed
<1>2. CASE field[p] # "live"
  BY <1>1, <1>2 DEF Stop, schedVars
<1>3. CASE field[p] = "live"
  <2>1. field' = [field EXCEPT ![p] = "shut"] /\ live' = [live EXCEPT ![p] = @ - 1] /\ live[p] > 0
    BY <1>1, <1>3 DEF Stop
  <2>2. QED
    BY <1>1, <1>3, <2>1
<1>4. QED
  BY <1>2, <1>3

LEMMA RegisteredIsMade ==
    ASSUME Registry
    PROVE  /\ Registered \subseteq Made
           /\ \A i, j \in DOMAIN order : order[i] = order[j] => i = j
           /\ \A p, q \in Registered : typeOf[p] = typeOf[q] => p = q
BY DEF Registry, Registered, ToSet

\* What a registration does to the registry: the poller of its type, if there is one, gives way.
LEMMA Adds ==
    ASSUME Registry, Typed, NEW m \in Plugins, AddPoller(m),
           NEW p, p = mgr[m].new, NEW had, had = OfType(typeOf[p])
    PROVE  /\ order' \in Seq(Made) /\ p \in Made /\ had \subseteq Registered
           /\ Registered' = (Registered \ had) \cup {p}
           /\ \A i, j \in DOMAIN order' : typeOf[order'[i]] = typeOf[order'[j]] => i = j
<1>1. p \in Made /\ order \in Seq(Made) /\ \A i, j \in DOMAIN order : typeOf[order[i]] = typeOf[order[j]] => i = j
  BY DEF AddPoller, Typed, Registry
<1>2. had = {q \in Registered : typeOf[q] = typeOf[p]}
  BY DEF OfType
<1>3. Registered = {order[i] : i \in DOMAIN order}
  BY DEF Registered, ToSet
<1>4. CASE had = {}
  <2>1. order' = Append(order, p)
    BY <1>4 DEF AddPoller
  <2>2. /\ order' \in Seq(Made) /\ DOMAIN order' = DOMAIN order \cup {Len(order) + 1}
        /\ \A i \in DOMAIN order : order'[i] = order[i]
        /\ order'[Len(order) + 1] = p /\ ToSet(order') = ToSet(order) \cup {p}
    BY <1>1, <2>1, Longer
  <2>3. \A i \in DOMAIN order : typeOf[order[i]] # typeOf[p]
    BY <1>2, <1>3, <1>4
  <2>4. QED
    BY <1>1, <1>2, <1>4, <2>2, <2>3 DEF Registered
<1>5. CASE had # {}
  <2>1. order' = [i \in DOMAIN order |-> IF order[i] \in had THEN p ELSE order[i]]
    BY <1>5 DEF AddPoller
  <2>2. PICK k \in DOMAIN order : typeOf[order[k]] = typeOf[p]
    BY <1>2, <1>3, <1>5
  <2>3. \A i \in DOMAIN order : order[i] \in had <=> i = k
    BY <1>1, <1>2, <1>3, <2>2
  <2>4. DOMAIN order' = DOMAIN order /\ order'[k] = p /\ \A i \in DOMAIN order : i # k => order'[i] = order[i]
    BY <2>1, <2>3
  <2>5. order' \in Seq(Made)
    BY <1>1, <2>1
  <2>6. \A i, j \in DOMAIN order' : typeOf[order'[i]] = typeOf[order'[j]] => i = j
    BY <1>1, <2>2, <2>4
  <2>7. had = {order[k]}
    BY <1>2, <1>3, <2>2, <2>3
  <2>8. Registered' = {order'[i] : i \in DOMAIN order}
    BY <2>4 DEF Registered, ToSet
  <2>9. Registered' = (Registered \ {order[k]}) \cup {p}
    <3>1. \A i \in DOMAIN order : i # k => order[i] # order[k]
      BY <2>3, <2>7
    <3>2. QED
      BY <1>3, <2>4, <2>8, <3>1
  <2>10. QED
    BY <1>1, <1>2, <2>5, <2>6, <2>7, <2>9
<1>6. QED
  BY <1>4, <1>5

LEMMA Removes ==
    ASSUME Registry, NEW i \in DOMAIN order, order' = RemoveAt(order, i)
    PROVE  /\ order' \in Seq(Made) /\ order[i] \in Registered
           /\ Registered' = Registered \ {order[i]}
           /\ \A j, k \in DOMAIN order' : typeOf[order'[j]] = typeOf[order'[k]] => j = k
<1>1. order \in Seq(Made) /\ \A j, k \in DOMAIN order : typeOf[order[j]] = typeOf[order[k]] => j = k
  BY DEF Registry
<1>2. /\ order' \in Seq(Made)
      /\ \A j \in DOMAIN order' :
           \/ j \in DOMAIN order /\ j < i /\ order'[j] = order[j]
           \/ j + 1 \in DOMAIN order /\ j >= i /\ order'[j] = order[j + 1]
      /\ ToSet(order') \subseteq ToSet(order) /\ ToSet(order) \subseteq ToSet(order') \cup {order[i]}
  BY <1>1, Without
<1>3. i \in Nat /\ DOMAIN order' \subseteq Nat
  BY <1>1, <1>2
<1>4. \A j, k \in DOMAIN order' : typeOf[order'[j]] = typeOf[order'[k]] => j = k
  BY <1>1, <1>2, <1>3
<1>5. \A j \in DOMAIN order' : order'[j] # order[i]
  BY <1>1, <1>2, <1>3
<1>6. order[i] \notin ToSet(order') /\ order[i] \in ToSet(order)
  BY <1>5 DEF ToSet
<1>7. QED
  BY <1>2, <1>4, <1>6 DEF Registered

LEMMA RaceTyped ==
    ASSUME Typed, NEW found \in BOOLEAN, Race(found)
    PROVE  raced' \in BOOLEAN /\ (~raced' => ~raced /\ Quiet /\ ~found)
BY DEF Typed, Race

LEMMA SameRegistry ==
    ASSUME Registry, UNCHANGED typeOf
    PROVE  /\ Grows /\ Made' = Made /\ AnyManager' = AnyManager /\ AnyMain' = AnyMain
           /\ order' \in Seq(Made) /\ (\A i, j \in DOMAIN order' : typeOf[order'[i]] = typeOf[order'[j]] => i = j) => Registry'
BY DEF Registry, Grows, Made, AnyManager, AnyMain, Pollers, None

\* A step of one goroutine of the plugin manager.
LEMMA Manages ==
    ASSUME Registry, Typed, Grows, NEW m \in Plugins, NEW g \in AnyManager', mgr' = [mgr EXCEPT ![m] = g],
           g.pc \in {"add", "replace", "start"} => g.new \in Made',
           g.pc \in {"replace", "stop"} => g.old \in Made'
    PROVE  /\ mgr'[m] = g /\ \A n \in Plugins \ {m} : mgr'[n] = mgr[n]
           /\ mgr' \in [Plugins -> AnyManager']
           /\ \A n \in Plugins : /\ mgr'[n].pc \in {"add", "replace", "start"} => mgr'[n].new \in Made'
                                 /\ mgr'[n].pc \in {"replace", "stop"} => mgr'[n].old \in Made'
<1>1. mgr \in [Plugins -> AnyManager] /\ Made \subseteq Made'
  BY DEF Typed, Grows
<1>2. AnyManager \subseteq AnyManager'
  BY <1>1 DEF AnyManager, None
<1>3. mgr'[m] = g /\ \A n \in Plugins \ {m} : mgr'[n] = mgr[n]
  BY <1>1
<1>4. \A n \in Plugins \ {m} : /\ mgr[n].pc \in {"add", "replace", "start"} => mgr[n].new \in Made
                               /\ mgr[n].pc \in {"replace", "stop"} => mgr[n].old \in Made
  BY DEF Typed
<1>5. mgr' \in [Plugins -> AnyManager']
  BY <1>1, <1>2
<1>6. QED
  BY <1>1, <1>3, <1>4, <1>5

LEMMA StillTyped ==
    ASSUME Registry, Typed, RunInv, Grows, UNCHANGED <<cred, syncVars>>,
           field' \in [Pollers -> {"none", "live", "shut"}], live' \in [Pollers -> Nat],
           \A q \in Pollers : (live'[q] > 0 => q \in Made) /\ (field'[q] = "live" => live'[q] > 0),
           main' \in AnyMain', mgr' \in [Plugins -> AnyManager'],
           \A n \in Plugins : /\ mgr'[n].pc \in {"add", "replace", "start"} => mgr'[n].new \in Made'
                              /\ mgr'[n].pc \in {"replace", "stop"} => mgr'[n].old \in Made',
           raced' \in BOOLEAN
    PROVE  Typed' /\ RunInv'
<1>1. /\ RunInv' /\ lock' \in [Pollers -> Runners \cup {None}]
      /\ runner' \in [Runners -> AnyRunner'] /\ rows' \in Seq(AnyRow')
  BY SyncsUntouched
<1>2. Made \subseteq Made' /\ cred' \in [Credentialed -> {"unset", "set"}]
  BY DEF Grows, Typed
<1>3. QED
  BY <1>1, <1>2 DEF Typed, Pollers, None

LEMMA SchedFields ==
    ASSUME Registry, Typed
    PROVE  /\ field \in [Pollers -> {"none", "live", "shut"}] /\ live \in [Pollers -> Nat]
           /\ \A q \in Pollers : (live[q] > 0 => q \in Made) /\ (field[q] = "live" => live[q] > 0)
           /\ main \in AnyMain /\ mgr \in [Plugins -> AnyManager] /\ order \in Seq(Made) /\ raced \in BOOLEAN
           /\ \A m \in Plugins : /\ mgr[m].pc \in {"add", "replace", "start"} => mgr[m].new \in Made
                                 /\ mgr[m].pc \in {"replace", "stop"} => mgr[m].old \in Made
           /\ \A i, j \in DOMAIN order : typeOf[order[i]] = typeOf[order[j]] => i = j
BY DEF Registry, Typed

-----------------------------------------------------------------------------
\* One goroutine of the plugin manager is at work, and only between a start and a stop of the
\* engine; it holds the poller it adds, and the one it took out of the registry.
Busy(m) == mgr[m].pc # "idle"
Alone ==
  /\ \A m, n \in Plugins : Busy(m) /\ Busy(n) => m = n
  /\ \A m \in Plugins : Busy(m) => main.pc \in {"fresh", "off", "up"}
Hands(m) ==
  /\ mgr[m].pc = "add" => mgr[m].new \notin Registered
  /\ mgr[m].pc \in {"add", "replace", "start"} => ByPlugin(mgr[m].new)
  /\ mgr[m].pc \in {"replace", "start"} => mgr[m].new \in Registered
  /\ mgr[m].pc \in {"replace", "stop"} => mgr[m].old \notin Registered

\* A start or a stop visits registered pollers, none of them twice.
Visits ==
  main.pc \in {"starting", "stopping"} =>
    /\ ToSet(main.todo) \subseteq Registered
    /\ \A i, j \in DOMAIN main.todo : main.todo[i] = main.todo[j] => i = j

\* The pollers that have a schedule by now, and those whose schedule is about to change.
Scheduled(p) ==
  /\ p \in Registered /\ typeOf[p] \in Timed
  /\ \/ main.pc = "up"
     \/ main.pc \in {"fresh", "off"} /\ ByPlugin(p)
     \/ main.pc = "starting" /\ p \notin ToSet(main.todo)
     \/ main.pc = "stopping" /\ p \in ToSet(main.todo)
Arriving(p) == \E m \in Plugins : mgr[m].pc \in {"replace", "start"} /\ mgr[m].new = p
Leaving(p) == \E m \in Plugins : mgr[m].pc \in {"replace", "stop"} /\ mgr[m].old = p
OnSchedule(p) ==
  /\ live[p] = IF field[p] = "live" THEN 1 ELSE 0
  /\ Arriving(p) => live[p] = 0
  /\ ~Arriving(p) /\ ~Leaving(p) => live[p] = IF Scheduled(p) THEN 1 ELSE 0
SchedInv ==
  ~raced => /\ Alone /\ Visits
            /\ \A m \in Plugins : Hands(m)
            /\ \A p \in Pollers : OnSchedule(p)

Kept == Registry' /\ Typed' /\ RunInv' /\ SchedInv'

LEMMA Resting ==
    ASSUME \A m \in Plugins : mgr[m].pc = "idle"
    PROVE  /\ Alone /\ \A m \in Plugins : Hands(m)
           /\ \A p : ~Arriving(p) /\ ~Leaving(p)
BY DEF Alone, Busy, Hands, Arriving, Leaving

LEMMA SnapshotKeeps ==
    ASSUME Registry, Typed, RunInv, SchedInv, NEW from, NEW to,
           <<from, to>> \in {<<"fresh", "starting">>, <<"up", "stopping">>}, Snapshot(from, to)
    PROVE  Kept
<1> DEFINE found == \E p \in Registered : field[p] = "live" /\ from = "fresh"
<1>1. /\ main.pc = from /\ main' = [pc |-> to, todo |-> order] /\ Race(found)
      /\ UNCHANGED <<typeOf, order, field, live, mgr, cred, syncVars>>
      /\ to \in {"starting", "stopping"}
  BY DEF Snapshot, schedVars
<1>f. found \in BOOLEAN
  OBVIOUS
<1>2. Registry' /\ Grows /\ Made' = Made /\ AnyManager' = AnyManager /\ AnyMain' = AnyMain
  BY <1>1, SameRegistry, SchedFields
<1>3. main' \in AnyMain
  BY <1>1, SchedFields DEF AnyMain
<1>4. raced' \in BOOLEAN /\ (~raced' => ~raced /\ Quiet /\ ~found)
  <2> HIDE DEF found
  <2>1. QED
    BY <1>1, <1>f, RaceTyped
<1>5. Typed' /\ RunInv'
  BY <1>1, <1>2, <1>3, <1>4, SchedFields, StillTyped
<1>6. ASSUME ~raced'
      PROVE  SchedInv'
  <2>1. /\ ~found /\ \A m \in Plugins : mgr[m].pc = "idle" /\ mgr'[m].pc = "idle"
        /\ Visits /\ \A p \in Pollers : OnSchedule(p)
    BY <1>1, <1>4, <1>6 DEF Quiet, SchedInv
  <2>2. Alone' /\ (\A m \in Plugins : Hands(m)') /\ \A p : ~Arriving(p)' /\ ~Leaving(p)' /\ ~Arriving(p) /\ ~Leaving(p)
    BY <2>1, Resting DEF Alone, Busy, Hands, Arriving, Leaving
  <2>3. Registered' = Registered /\ ToSet(main'.todo) = Registered
    BY <1>1 DEF Registered
  <2>4. Visits'
    BY <1>1, <2>3, RegisteredIsMade DEF Visits
  <2>5. ASSUME NEW p \in Pollers PROVE OnSchedule(p)'
    <3>1. OnSchedule(p) /\ live[p] = IF Scheduled(p) THEN 1 ELSE 0
      BY <2>1, <2>2 DEF OnSchedule
    <3>2. UNCHANGED <<field, live>>
      BY <1>1
    <3>3. live[p] = IF Scheduled(p)' THEN 1 ELSE 0
      <4>1. CASE from = "fresh" /\ to = "starting"
        <5>1. ~Scheduled(p)'
          BY <1>1, <2>3, <4>1 DEF Scheduled
        <5>2. p \in Registered => live[p] = 0
          BY <2>1, <3>1, <4>1 DEF OnSchedule
        <5>3. p \notin Registered => live[p] = 0
          BY <3>1 DEF Scheduled
        <5>4. QED
          BY <5>1, <5>2, <5>3
      <4>2. CASE from = "up" /\ to = "stopping"
        <5>1. Scheduled(p)' <=> Scheduled(p)
          BY <1>1, <2>3, <4>2 DEF Scheduled, ByPlugin
        <5>2. QED
          BY <3>1, <5>1
      <4>3. QED
        BY <4>1, <4>2
    <3>4. QED
      BY <2>2, <3>1, <3>2, <3>3 DEF OnSchedule
  <2>6. QED
    BY <2>2, <2>4, <2>5 DEF SchedInv, Pollers
<1>7. QED
  BY <1>2, <1>5, <1>6 DEF Kept, SchedInv

\* The step of a start or a stop of the engine from which it has nothing left to visit.
LEMMA VisitsEnd ==
    ASSUME Registry, Typed, RunInv, SchedInv,
           NEW to, <<main.pc, to>> \in {<<"starting", "up">>, <<"stopping", "down">>},
           main.todo = << >>, main' = [main EXCEPT !.pc = to],
           UNCHANGED <<typeOf, order, field, live, mgr, cred, syncVars, raced>>
    PROVE  Kept
<1>1. Registry' /\ Grows /\ Made' = Made /\ AnyManager' = AnyManager /\ AnyMain' = AnyMain
  BY SameRegistry, SchedFields
<1>2. main' \in AnyMain /\ main'.pc = to /\ ToSet(main.todo) = {}
  <2>1. main \in AnyMain /\ to \in {"up", "down"}
    BY SchedFields
  <2>2. main' \in AnyMain /\ main'.pc = to
    BY <2>1 DEF AnyMain
  <2>3. ToSet(main.todo) = {}
    BY DEF ToSet
  <2>4. QED
    BY <2>2, <2>3
<1>3. Typed' /\ RunInv'
  BY <1>1, <1>2, SchedFields, StillTyped
<1>4. ASSUME ~raced
      PROVE  SchedInv'
  <2>1. \A m \in Plugins : mgr[m].pc = "idle"
    BY <1>4 DEF SchedInv, Alone, Busy
  <2>2. Alone' /\ (\A m \in Plugins : Hands(m)') /\ \A p : ~Arriving(p)' /\ ~Leaving(p)' /\ ~Arriving(p) /\ ~Leaving(p)
    BY <2>1, Resting DEF Alone, Busy, Hands, Arriving, Leaving
  <2>3. Visits'
    BY <1>2 DEF Visits
  <2>4. \A p : Scheduled(p)' <=> Scheduled(p)
    BY <1>2 DEF Scheduled, Registered
  <2>5. \A p \in Pollers : OnSchedule(p)'
    BY <1>4, <2>2, <2>4 DEF SchedInv, OnSchedule
  <2>6. QED
    BY <2>2, <2>3, <2>5 DEF SchedInv, Pollers
<1>5. QED
  BY <1>1, <1>3, <1>4 DEF Kept, SchedInv

\* One that visits the next poller.
LEMMA VisitKeeps ==
    ASSUME Registry, Typed, RunInv, SchedInv, main.pc \in {"starting", "stopping"},
           main.todo # << >>, main' = [main EXCEPT !.todo = Tail(@)],
           UNCHANGED <<typeOf, order, mgr, cred, syncVars, raced>>,
           IF main.pc = "starting" THEN Start(Head(main.todo)) ELSE Stop(Head(main.todo))
    PROVE  Kept
<1> DEFINE h == Head(main.todo)
<1>1. Registry' /\ Grows /\ Made' = Made /\ AnyManager' = AnyManager /\ AnyMain' = AnyMain
  BY SameRegistry, SchedFields
<1>2. main.todo \in Seq(Made)
  BY SchedFields DEF AnyMain
<1>3. /\ h \in ToSet(main.todo) /\ h \in Made /\ Tail(main.todo) \in Seq(Made)
      /\ ToSet(Tail(main.todo)) \subseteq ToSet(main.todo)
      /\ ToSet(main.todo) \subseteq ToSet(Tail(main.todo)) \cup {h}
      /\ (\A i, j \in DOMAIN main.todo : main.todo[i] = main.todo[j] => i = j) =>
           /\ h \notin ToSet(Tail(main.todo))
           /\ \A i, j \in DOMAIN Tail(main.todo) : Tail(main.todo)[i] = Tail(main.todo)[j] => i = j
  BY <1>2, Rest
<1>4. main' \in AnyMain /\ main'.pc = main.pc /\ main'.todo = Tail(main.todo)
  BY <1>3, SchedFields DEF AnyMain
<1>h. h \in Pollers
  BY <1>3, MadePoller
<1> HIDE DEF h
<1>5. /\ field' \in [Pollers -> {"none", "live", "shut"}] /\ live' \in [Pollers -> Nat]
      /\ \A q \in Pollers : (live'[q] > 0 => q \in Made) /\ (field'[q] = "live" => live'[q] > 0)
      /\ \A q \in Pollers \ {h} : field'[q] = field[q] /\ live'[q] = live[q]
  <2>1. CASE main.pc = "starting"
    BY <1>3, <2>1, Starts DEF h
  <2>2. CASE main.pc = "stopping"
    BY <1>3, <2>2, Stops DEF h
  <2>3. QED
    BY <2>1, <2>2
<1>6. Typed' /\ RunInv'
  BY <1>1, <1>4, <1>5, SchedFields, StillTyped
<1>7. ASSUME ~raced
      PROVE  SchedInv'
  <2>1. \A m \in Plugins : mgr[m].pc = "idle"
    BY <1>7 DEF SchedInv, Alone, Busy
  <2>2. Alone' /\ (\A m \in Plugins : Hands(m)') /\ \A p : ~Arriving(p)' /\ ~Leaving(p)' /\ ~Arriving(p) /\ ~Leaving(p)
    BY <2>1, Resting DEF Alone, Busy, Hands, Arriving, Leaving
  <2>3. /\ ToSet(main.todo) \subseteq Registered /\ h \in Registered /\ h \notin ToSet(Tail(main.todo))
        /\ \A i, j \in DOMAIN Tail(main.todo) : Tail(main.todo)[i] = Tail(main.todo)[j] => i = j
    BY <1>3, <1>7 DEF SchedInv, Visits
  <2>4. Visits'
    BY <1>3, <1>4, <2>3 DEF Visits, Registered
  <2>5. \A p \in Pollers : OnSchedule(p) /\ live[p] = IF Scheduled(p) THEN 1 ELSE 0
    BY <1>7, <2>2 DEF SchedInv, OnSchedule
  <2>6. ASSUME NEW p \in Pollers, p # h PROVE OnSchedule(p)'
    <3>1. Scheduled(p)' <=> Scheduled(p)
      BY <1>3, <1>4, <2>6 DEF Scheduled, Registered
    <3>2. QED
      BY <1>5, <2>2, <2>5, <2>6, <3>1 DEF OnSchedule
  <2>7. /\ live'[h] = IF field'[h] = "live" THEN 1 ELSE 0
        /\ live'[h] = IF typeOf[h] \in Timed /\ main.pc = "starting" THEN 1 ELSE 0
    <3>1. CASE main.pc = "starting"
      <4>1. live[h] = 0 /\ field[h] # "live"
        BY <1>3, <1>h, <2>5, <3>1 DEF Scheduled, OnSchedule
      <4>2. IF typeOf[h] \in Timed THEN field'[h] = "live" /\ live'[h] = live[h] + 1
            ELSE field'[h] = field[h] /\ live'[h] = live[h]
        BY <1>3, <3>1, Starts DEF h
      <4>3. QED
        BY <3>1, <4>1, <4>2
    <3>2. CASE main.pc = "stopping"
      <4>1. field'[h] # "live" /\ IF field[h] = "live" THEN live'[h] = live[h] - 1 ELSE live'[h] = live[h]
        BY <1>3, <3>2, Stops DEF h
      <4>2. live[h] = IF field[h] = "live" THEN 1 ELSE 0
        BY <1>h, <2>5 DEF OnSchedule
      <4>3. QED
        BY <3>2, <4>1, <4>2
    <3>3. QED
      BY <3>1, <3>2
  <2>8. ASSUME NEW p \in Pollers, p = h PROVE OnSchedule(p)'
    <3>1. Scheduled(p)' <=> typeOf[h] \in Timed /\ main.pc = "starting"
      BY <1>4, <2>3, <2>8 DEF Scheduled, Registered
    <3>2. QED
      BY <2>2, <2>7, <2>8, <3>1 DEF OnSchedule
  <2>9. QED
    BY <2>2, <2>4, <2>6, <2>8 DEF SchedInv, Pollers
<1>8. QED
  BY <1>1, <1>6, <1>7 DEF Kept, SchedInv

LEMMA VisitsKeep ==
    ASSUME Registry, Typed, RunInv, SchedInv, StartNext \/ StopNext
    PROVE  Kept
<1>1. CASE StartNext /\ main.todo = << >>
  BY <1>1, VisitsEnd DEF StartNext, schedVars
<1>2. CASE StopNext /\ main.todo = << >>
  BY <1>2, VisitsEnd DEF StopNext, schedVars
<1>3. CASE StartNext /\ main.todo # << >>
  BY <1>3, VisitKeeps DEF StartNext
<1>4. CASE StopNext /\ main.todo # << >>
  BY <1>4, VisitKeeps DEF StopNext
<1>5. QED
  BY <1>1, <1>2, <1>3, <1>4

\* While one goroutine of the plugin manager is at work the others are not.
LEMMA OnlyOne ==
    ASSUME SchedInv, ~raced, NEW m \in Plugins, Busy(m)
    PROVE  /\ \A n \in Plugins \ {m} : mgr[n].pc = "idle"
           /\ main.pc \in {"fresh", "off", "up"}
BY DEF SchedInv, Alone, Busy


LEMMA RegisterKeeps ==
    ASSUME Registry, Typed, RunInv, SchedInv, NEW m \in Plugins, NEW ty \in Types, RegisterSource(m, ty)
    PROVE  Kept
<1> DEFINE down == main.pc = "down"
<1>p. PICK p : p = Len(typeOf) + 1
  OBVIOUS
<1>1. /\ mgr[m].pc = "idle" /\ typeOf' = Append(typeOf, ty) /\ Race(down) /\ Len(typeOf) < MaxPollers
      /\ mgr' = [mgr EXCEPT ![m] = [pc |-> "add", new |-> p, old |-> None]]
      /\ UNCHANGED <<order, field, live, main, cred, syncVars>>
  BY <1>p DEF RegisterSource, schedVars
<1>2. /\ typeOf' \in Seq(Types) /\ Len(typeOf') = Len(typeOf) + 1 /\ Made' = Made \cup {p}
      /\ \A q \in Made : typeOf'[q] = typeOf[q] /\ q # p
  BY <1>1, <1>p, Longer DEF Registry, Made
<1>3. p > Len(Builtin) /\ p \in Nat
  BY <1>p, EngineAssumption DEF Registry
<1>4. Grows /\ Seq(Made) \subseteq Seq(Made')
  BY <1>2, Wider DEF Grows
<1>5. Registry'
  <2>1. \A i \in DOMAIN order : order[i] \in Made
    BY SchedFields
  <2>2. \A i, j \in DOMAIN order' : typeOf'[order'[i]] = typeOf'[order'[j]] => i = j
    BY <1>1, <1>2, <2>1, SchedFields
  <2>3. order' \in Seq(Made')
    BY <1>1, <1>4, SchedFields
  <2>4. Len(Builtin) <= Len(typeOf') /\ Len(typeOf') <= MaxPollers
    BY <1>1, <1>2, EngineAssumption DEF Registry
  <2>5. QED
    BY <1>2, <2>2, <2>3, <2>4 DEF Registry
<1> DEFINE g == [pc |-> "add", new |-> p, old |-> None]
<1>6. g \in AnyManager' /\ g.pc = "add" /\ g.new = p /\ p \in Made'
  BY <1>2 DEF AnyManager
<1> HIDE DEF g
<1>7. /\ mgr'[m] = g /\ \A n \in Plugins \ {m} : mgr'[n] = mgr[n]
      /\ mgr' \in [Plugins -> AnyManager']
      /\ \A n \in Plugins : /\ mgr'[n].pc \in {"add", "replace", "start"} => mgr'[n].new \in Made'
                            /\ mgr'[n].pc \in {"replace", "stop"} => mgr'[n].old \in Made'
  <2>1. mgr' = [mgr EXCEPT ![m] = g]
    BY <1>1 DEF g
  <2>2. QED
    BY <1>4, <1>6, <2>1, Manages
<1>8. raced' \in BOOLEAN /\ (~raced' => ~raced /\ Quiet /\ main.pc # "down")
  <2>1. down \in BOOLEAN
    OBVIOUS
  <2> HIDE DEF down
  <2>2. raced' \in BOOLEAN /\ (~raced' => ~raced /\ Quiet /\ ~down)
    BY <1>1, <2>1, RaceTyped
  <2>3. QED
    BY <2>2 DEF down
<1>9. main' \in AnyMain'
  BY <1>1, <1>4, SchedFields DEF AnyMain
<1>10. Typed' /\ RunInv'
  BY <1>1, <1>4, <1>7, <1>8, <1>9, SchedFields, StillTyped
<1>11. ASSUME ~raced'
       PROVE  SchedInv'
  <2>1. /\ main.pc \in {"fresh", "off", "up"} /\ \A n \in Plugins : mgr[n].pc = "idle"
        /\ \A q \in Pollers : OnSchedule(q)
    BY <1>8, <1>11 DEF Quiet, SchedInv
  <2>2. \A n \in Plugins : n # m => mgr'[n].pc = "idle"
    BY <1>7, <2>1
  <2>3. Alone'
    BY <1>1, <2>1, <2>2 DEF Alone, Busy
  <2>4. Visits'
    BY <1>1, <2>1 DEF Visits
  <2>5. Registered' = Registered /\ p \notin Registered
    BY <1>1, <1>2, RegisteredIsMade DEF Registered
  <2>6. \A n \in Plugins : Hands(n)'
    <3>1. Hands(m)'
      BY <1>3, <1>6, <1>7, <2>5 DEF Hands, ByPlugin
    <3>2. \A n \in Plugins : n # m => Hands(n)'
      BY <2>2 DEF Hands
    <3>3. QED
      BY <3>1, <3>2
  <2>7. \A q : ~Arriving(q) /\ ~Leaving(q) /\ ~Arriving(q)' /\ ~Leaving(q)'
    BY <1>6, <1>7, <2>1, <2>2 DEF Arriving, Leaving
  <2>8. \A q \in Pollers : Scheduled(q)' <=> Scheduled(q)
    BY <1>1, <1>2, <2>5, RegisteredIsMade DEF Scheduled, ByPlugin
  <2>9. \A q \in Pollers : OnSchedule(q)'
    BY <1>1, <2>1, <2>7, <2>8 DEF OnSchedule
  <2>10. QED
    BY <2>3, <2>4, <2>6, <2>9 DEF SchedInv, Pollers
<1>12. QED
  BY <1>5, <1>10, <1>11 DEF Kept, SchedInv

\* The new poller is registered and has no schedule yet; the one it replaces is not, and may have one.
LEMMA AddKeeps ==
    ASSUME Registry, Typed, RunInv, SchedInv, NEW m \in Plugins, AddPoller(m)
    PROVE  Kept
<1>p. PICK p : p = mgr[m].new
  OBVIOUS
<1>h. PICK had : had = OfType(typeOf[p])
  OBVIOUS
<1>g. PICK g : g = [mgr[m] EXCEPT !.pc = IF had = {} THEN "start" ELSE "replace",
                                  !.old = IF had = {} THEN None ELSE CHOOSE q \in had : TRUE]
  OBVIOUS
<1>1. /\ mgr[m].pc = "add" /\ UNCHANGED <<typeOf, field, live, main, cred, syncVars, raced>>
  BY DEF AddPoller, schedVars
<1>2. /\ order' \in Seq(Made) /\ p \in Made /\ had \subseteq Registered
      /\ Registered' = (Registered \ had) \cup {p}
      /\ \A i, j \in DOMAIN order' : typeOf[order'[i]] = typeOf[order'[j]] => i = j
  BY <1>p, <1>h, Adds
<1>3. mgr' = [mgr EXCEPT ![m] = g]
  <2>1. mgr \in [Plugins -> AnyManager]
    BY SchedFields
  <2>2. QED
    BY <1>p, <1>h, <1>g, <2>1 DEF AddPoller
<1>4. /\ Registry' /\ Grows /\ Made' = Made /\ AnyManager' = AnyManager /\ AnyMain' = AnyMain
  BY <1>1, <1>2, SameRegistry
<1>5. /\ g \in AnyManager /\ g.new = p /\ g.pc = (IF had = {} THEN "start" ELSE "replace")
      /\ had # {} => g.old \in had
  <2>1. mgr[m] \in AnyManager /\ had \subseteq Made
    BY <1>2, SchedFields, RegisteredIsMade
  <2>2. PICK q : q = IF had = {} THEN None ELSE CHOOSE r \in had : TRUE
    OBVIOUS
  <2>3. q \in Made \cup {None} /\ (had # {} => q \in had)
    BY <2>1, <2>2
  <2>4. PICK pc \in {"start", "replace"} : pc = IF had = {} THEN "start" ELSE "replace"
    OBVIOUS
  <2>5. g = [mgr[m] EXCEPT !.pc = pc, !.old = q]
    BY <1>g, <2>2, <2>4
  <2>6. QED
    BY <1>p, <2>1, <2>3, <2>4, <2>5 DEF AnyManager
<1>6. /\ mgr'[m] = g /\ \A n \in Plugins \ {m} : mgr'[n] = mgr[n]
      /\ mgr' \in [Plugins -> AnyManager']
      /\ \A n \in Plugins : /\ mgr'[n].pc \in {"add", "replace", "start"} => mgr'[n].new \in Made'
                            /\ mgr'[n].pc \in {"replace", "stop"} => mgr'[n].old \in Made'
  BY <1>2, <1>3, <1>4, <1>5, RegisteredIsMade, Manages
<1>7. Typed' /\ RunInv'
  BY <1>1, <1>4, <1>6, SchedFields, StillTyped
<1>8. ASSUME ~raced
      PROVE  SchedInv'
  <2>1. /\ main.pc \in {"fresh", "off", "up"} /\ \A n \in Plugins : n # m => mgr[n].pc = "idle" /\ mgr'[n].pc = "idle"
    BY <1>1, <1>6, <1>8, OnlyOne DEF Busy
  <2>2. p \notin Registered /\ ByPlugin(p) /\ \A q \in Pollers : OnSchedule(q)
    BY <1>1, <1>8, <1>p DEF SchedInv, Hands
  <2>3. Alone' /\ Visits'
    BY <1>1, <2>1 DEF Alone, Busy, Visits
  <2>4. /\ p \in Registered' /\ \A q \in had : q # p /\ q \notin Registered'
        /\ \A q : q # p /\ q \notin had => (q \in Registered' <=> q \in Registered)
    BY <1>2, <2>2
  <2>5. \A n \in Plugins : Hands(n)'
    <3>1. Hands(m)'
      BY <1>5, <1>6, <2>2, <2>4 DEF Hands, ByPlugin
    <3>2. \A n \in Plugins : n # m => Hands(n)'
      BY <2>1 DEF Hands
    <3>3. QED
      BY <3>1, <3>2
  <2>6. \A q : ~Arriving(q) /\ ~Leaving(q)
    BY <1>1, <2>1 DEF Arriving, Leaving
  <2>7. \A q : (Arriving(q)' <=> q = p) /\ (Leaving(q)' <=> had # {} /\ q = g.old)
    <3>1. mgr'[m].pc \in {"replace", "start"} /\ mgr'[m].new = p /\ mgr'[m].old = g.old
          /\ (mgr'[m].pc = "replace" <=> had # {}) /\ mgr'[m].pc # "stop"
      BY <1>5, <1>6
    <3>2. \A q : Arriving(q)' <=> q = p
      BY <2>1, <3>1 DEF Arriving
    <3>3. \A q : Leaving(q)' <=> had # {} /\ q = g.old
      BY <2>1, <3>1 DEF Leaving
    <3>4. QED
      BY <3>2, <3>3
  <2>8. ASSUME NEW q \in Pollers PROVE OnSchedule(q)'
    <3>1. OnSchedule(q) /\ live[q] = IF Scheduled(q) THEN 1 ELSE 0
      BY <2>2, <2>6 DEF OnSchedule
    <3>2. CASE q = p
      BY <1>1, <2>2, <2>7, <3>1, <3>2 DEF OnSchedule, Scheduled
    <3>3. CASE q # p
      <4>1. ~Leaving(q)' => q \notin had
        <5>1. \A r \in had : r = q => had = {q}
          BY <1>h, RegisteredIsMade DEF OfType
        <5>2. QED
          BY <1>5, <2>7, <5>1
      <4>2. q \notin had => (Scheduled(q)' <=> Scheduled(q))
        BY <1>1, <2>4, <3>3 DEF Scheduled, ByPlugin
      <4>3. QED
        BY <1>1, <2>7, <3>1, <3>3, <4>1, <4>2 DEF OnSchedule
    <3>4. QED
      BY <3>2, <3>3
  <2>9. QED
    BY <2>3, <2>5, <2>8 DEF SchedInv, Pollers
<1>9. QED
  BY <1>1, <1>4, <1>7, <1>8 DEF Kept, SchedInv

LEMMA RemoveKeeps ==
    ASSUME Registry, Typed, RunInv, SchedInv, NEW m \in Plugins, NEW ty \in Types, RemovePoller(m, ty)
    PROVE  Kept
<1> DEFINE down == main.pc = "down"
<1>i. PICK i \in DOMAIN order :
        /\ order' = RemoveAt(order, i)
        /\ mgr' = [mgr EXCEPT ![m] = [pc |-> "stop", new |-> None, old |-> order[i]]]
  BY DEF RemovePoller
<1>p. PICK p : p = order[i]
  OBVIOUS
<1>1. mgr[m].pc = "idle" /\ Race(down) /\ UNCHANGED <<typeOf, field, live, main, cred, syncVars>>
  BY DEF RemovePoller, schedVars
<1>2. /\ order' \in Seq(Made) /\ p \in Made /\ p \in Registered /\ Registered' = Registered \ {p}
      /\ \A j, k \in DOMAIN order' : typeOf[order'[j]] = typeOf[order'[k]] => j = k
  BY <1>i, <1>p, Removes, RegisteredIsMade
<1>3. Registry' /\ Grows /\ Made' = Made /\ AnyManager' = AnyManager /\ AnyMain' = AnyMain
  BY <1>1, <1>2, SameRegistry
<1> DEFINE g == [pc |-> "stop", new |-> None, old |-> p]
<1>4. g \in AnyManager /\ g.pc = "stop" /\ g.old = p
  BY <1>2 DEF AnyManager
<1>5. mgr' = [mgr EXCEPT ![m] = g]
  BY <1>i, <1>p
<1> HIDE DEF g
<1>6. /\ mgr'[m] = g /\ \A n \in Plugins \ {m} : mgr'[n] = mgr[n]
      /\ mgr' \in [Plugins -> AnyManager']
      /\ \A n \in Plugins : /\ mgr'[n].pc \in {"add", "replace", "start"} => mgr'[n].new \in Made'
                            /\ mgr'[n].pc \in {"replace", "stop"} => mgr'[n].old \in Made'
  BY <1>2, <1>3, <1>4, <1>5, Manages
<1>7. raced' \in BOOLEAN /\ (~raced' => ~raced /\ Quiet /\ main.pc # "down")
  <2>1. down \in BOOLEAN
    OBVIOUS
  <2> HIDE DEF down
  <2>2. raced' \in BOOLEAN /\ (~raced' => ~raced /\ Quiet /\ ~down)
    BY <1>1, <2>1, RaceTyped
  <2>3. QED
    BY <2>2 DEF down
<1>8. Typed' /\ RunInv'
  BY <1>1, <1>3, <1>6, <1>7, SchedFields, StillTyped
<1>9. ASSUME ~raced'
      PROVE  SchedInv'
  <2>1. /\ main.pc \in {"fresh", "off", "up"} /\ \A n \in Plugins : mgr[n].pc = "idle"
        /\ \A q \in Pollers : OnSchedule(q)
    BY <1>7, <1>9 DEF Quiet, SchedInv
  <2>2. \A n \in Plugins : n # m => mgr'[n].pc = "idle"
    BY <1>6, <2>1
  <2>3. Alone' /\ Visits'
    BY <1>1, <2>1, <2>2 DEF Alone, Busy, Visits
  <2>4. \A n \in Plugins : Hands(n)'
    <3>1. Hands(m)'
      BY <1>2, <1>4, <1>6 DEF Hands
    <3>2. \A n \in Plugins : n # m => Hands(n)'
      BY <2>2 DEF Hands
    <3>3. QED
      BY <3>1, <3>2
  <2>5. \A q : ~Arriving(q) /\ ~Leaving(q) /\ ~Arriving(q)' /\ (Leaving(q)' <=> q = p)
    BY <1>4, <1>6, <2>1, <2>2 DEF Arriving, Leaving
  <2>6. \A q \in Pollers : q # p => (Scheduled(q)' <=> Scheduled(q))
    BY <1>1, <1>2 DEF Scheduled, ByPlugin
  <2>7. \A q \in Pollers : OnSchedule(q)'
    BY <1>1, <2>1, <2>5, <2>6 DEF OnSchedule
  <2>8. QED
    BY <2>3, <2>4, <2>7 DEF SchedInv, Pollers
<1>10. QED
  BY <1>3, <1>8, <1>9 DEF Kept, SchedInv

\* The poller that left is silenced, or the new one gets its schedule.
LEMMA OutsideLockKeeps ==
    ASSUME Registry, Typed, RunInv, SchedInv, NEW m \in Plugins, OutsideLock(m)
    PROVE  Kept
<1>h. PICK h : h = IF mgr[m].pc = "start" THEN mgr[m].new ELSE mgr[m].old
  OBVIOUS
<1>g. PICK g : g = IF mgr[m].pc = "replace" THEN [mgr[m] EXCEPT !.pc = "start"] ELSE IdleManager
  OBVIOUS
<1>1. /\ mgr[m].pc \in {"replace", "start", "stop"} /\ UNCHANGED <<typeOf, order, main, cred, syncVars, raced>>
      /\ IF mgr[m].pc = "start" THEN Start(h) ELSE Stop(h)
  BY <1>h DEF OutsideLock
<1>2. /\ mgr[m] \in AnyManager /\ h \in Made /\ h \in Pollers
      /\ mgr[m].pc \in {"add", "replace", "start"} => mgr[m].new \in Made
  BY <1>1, <1>h, SchedFields, MadePoller
<1>3. mgr' = [mgr EXCEPT ![m] = g]
  BY <1>g, SchedFields DEF OutsideLock
<1>4. Registry' /\ Grows /\ Made' = Made /\ AnyManager' = AnyManager /\ AnyMain' = AnyMain
  BY <1>1, SameRegistry, SchedFields
<1>5. /\ g \in AnyManager /\ g.pc \in {"idle", "start"}
      /\ IF mgr[m].pc = "replace" THEN g.pc = "start" /\ g.new = mgr[m].new ELSE g.pc = "idle"
  <2>1. IdleManager \in AnyManager /\ IdleManager.pc = "idle"
    BY DEF IdleManager, AnyManager
  <2>2. CASE mgr[m].pc = "replace"
    BY <1>2, <1>g, <2>2 DEF AnyManager
  <2>3. CASE mgr[m].pc # "replace"
    BY <1>g, <2>1, <2>3
  <2>4. QED
    BY <2>2, <2>3
<1>6. /\ mgr'[m] = g /\ \A n \in Plugins \ {m} : mgr'[n] = mgr[n]
      /\ mgr' \in [Plugins -> AnyManager']
      /\ \A n \in Plugins : /\ mgr'[n].pc \in {"add", "replace", "start"} => mgr'[n].new \in Made'
                            /\ mgr'[n].pc \in {"replace", "stop"} => mgr'[n].old \in Made'
  BY <1>2, <1>3, <1>4, <1>5, Manages
<1>7. /\ field' \in [Pollers -> {"none", "live", "shut"}] /\ live' \in [Pollers -> Nat]
      /\ \A q \in Pollers : (live'[q] > 0 => q \in Made) /\ (field'[q] = "live" => live'[q] > 0)
      /\ \A q \in Pollers \ {h} : field'[q] = field[q] /\ live'[q] = live[q]
  <2>1. CASE mgr[m].pc = "start"
    BY <1>1, <1>2, <2>1, Starts
  <2>2. CASE mgr[m].pc # "start"
    BY <1>1, <1>2, <2>2, Stops
  <2>3. QED
    BY <2>1, <2>2
<1>8. Typed' /\ RunInv'
  BY <1>1, <1>4, <1>6, <1>7, SchedFields, StillTyped
<1>9. ASSUME ~raced
      PROVE  SchedInv'
  <2>1. /\ main.pc \in {"fresh", "off", "up"} /\ \A n \in Plugins : n # m => mgr[n].pc = "idle" /\ mgr'[n].pc = "idle"
    BY <1>1, <1>6, <1>9, OnlyOne DEF Busy
  <2>2. Hands(m) /\ \A q \in Pollers : OnSchedule(q)
    BY <1>9 DEF SchedInv
  <2>3. Alone' /\ Visits'
    BY <1>1, <2>1 DEF Alone, Busy, Visits
  <2>4. Registered' = Registered /\ \A q : Scheduled(q)' <=> Scheduled(q)
    BY <1>1 DEF Registered, Scheduled, ByPlugin
  <2>5. \A n \in Plugins : Hands(n)'
    <3>1. Hands(m)'
      BY <1>5, <1>6, <2>2, <2>4 DEF Hands, ByPlugin
    <3>2. \A n \in Plugins : n # m => Hands(n)'
      BY <2>1 DEF Hands
    <3>3. QED
      BY <3>1, <3>2
  <2>6. /\ \A q : Arriving(q) <=> mgr[m].pc \in {"replace", "start"} /\ mgr[m].new = q
        /\ \A q : Leaving(q) <=> mgr[m].pc \in {"replace", "stop"} /\ mgr[m].old = q
        /\ \A q : Arriving(q)' <=> mgr[m].pc = "replace" /\ mgr[m].new = q
        /\ \A q : ~Leaving(q)'
    <3>1. \A q : Arriving(q) <=> mgr[m].pc \in {"replace", "start"} /\ mgr[m].new = q
      BY <2>1 DEF Arriving
    <3>2. \A q : Leaving(q) <=> mgr[m].pc \in {"replace", "stop"} /\ mgr[m].old = q
      BY <2>1 DEF Leaving
    <3>3. \A q : Arriving(q)' <=> mgr[m].pc = "replace" /\ mgr[m].new = q
      BY <1>5, <1>6, <2>1 DEF Arriving
    <3>4. \A q : ~Leaving(q)'
      BY <1>5, <1>6, <2>1 DEF Leaving
    <3>5. QED
      BY <3>1, <3>2, <3>3, <3>4
  <2>7. ASSUME NEW q \in Pollers, q # h PROVE OnSchedule(q)'
    <3>1. /\ Arriving(q)' => Arriving(q)
          /\ ~Arriving(q)' => ~Arriving(q) /\ ~Leaving(q)
      BY <1>1, <1>h, <2>6, <2>7
    <3>2. OnSchedule(q) /\ field'[q] = field[q] /\ live'[q] = live[q]
      BY <1>7, <2>2, <2>7
    <3>3. QED
      BY <2>4, <2>6, <3>1, <3>2 DEF OnSchedule
  <2>8. ASSUME NEW q \in Pollers, q = h PROVE OnSchedule(q)'
    <3>1. CASE mgr[m].pc = "start"
      <4>1. q \in Registered /\ ByPlugin(q) /\ Arriving(q) /\ ~Arriving(q)'
        BY <1>h, <2>2, <2>6, <2>8, <3>1 DEF Hands
      <4>2. live[q] = 0 /\ field[q] # "live"
        BY <2>2, <4>1 DEF OnSchedule
      <4>3. IF typeOf[q] \in Timed THEN field'[q] = "live" /\ live'[q] = live[q] + 1
            ELSE field'[q] = field[q] /\ live'[q] = live[q]
        BY <1>1, <1>2, <2>8, <3>1, Starts
      <4>4. Scheduled(q)' <=> typeOf[q] \in Timed
        BY <2>1, <2>4, <4>1 DEF Scheduled
      <4>5. QED
        BY <4>1, <4>2, <4>3, <4>4 DEF OnSchedule
    <3>2. CASE mgr[m].pc # "start"
      <4>1. q \notin Registered /\ q = mgr[m].old
        BY <1>1, <1>h, <2>2, <2>8, <3>2 DEF Hands
      <4>2. /\ field'[q] # "live"
            /\ IF field[q] = "live" THEN live'[q] = live[q] - 1 ELSE live'[q] = live[q]
            /\ live[q] = IF field[q] = "live" THEN 1 ELSE 0
        BY <1>1, <1>2, <2>2, <2>8, <3>2, Stops DEF OnSchedule
      <4>3. live'[q] = 0
        BY <4>2
      <4>4. ~Scheduled(q)'
        BY <2>4, <4>1 DEF Scheduled
      <4>5. QED
        BY <4>2, <4>3, <4>4 DEF OnSchedule
    <3>3. QED
      BY <3>1, <3>2
  <2>9. QED
    BY <2>3, <2>5, <2>7, <2>8 DEF SchedInv, Pollers
<1>10. QED
  BY <1>1, <1>4, <1>8, <1>9 DEF Kept, SchedInv

-----------------------------------------------------------------------------
(***************************************************************************)
(* The invariant.                                                          *)
(***************************************************************************)
IInv == Registry /\ Typed /\ RunInv /\ SchedInv

\* Of two pollers of one type that main builds the first is kept.
LEMMA FirstOfEachType ==
    ASSUME NEW s \in NewEngine(Builtin)
    PROVE  s \in Seq(DOMAIN Builtin) /\ \A i, j \in DOMAIN s : Builtin[s[i]] = Builtin[s[j]] => i = j
<1> DEFINE first == {i \in DOMAIN Builtin : \A j \in 1 .. i - 1 : Builtin[j] # Builtin[i]}
<1>1. DOMAIN Builtin = 1 .. Len(Builtin) /\ Len(Builtin) \in Nat
  BY EngineAssumption
<1>2. IsFiniteSet(first)
  <2>1. IsFiniteSet(1 .. Len(Builtin)) /\ first \subseteq 1 .. Len(Builtin)
    BY <1>1, FS_Interval
  <2>2. QED
    BY <2>1, FS_Subset
<1>3. Cardinality(first) \in Nat
  BY <1>2, FS_CardinalityType
<1>4. s \in [1 .. Cardinality(first) -> first] /\ \A i, j \in DOMAIN s : i < j => s[i] < s[j]
  BY DEF NewEngine
<1>5. \A a, b \in first : a < b => Builtin[a] # Builtin[b]
  BY <1>1
<1>6. first \subseteq DOMAIN Builtin /\ first \subseteq Nat
  BY <1>1
<1> HIDE DEF first
<1>7. \A i, j \in DOMAIN s : i < j => Builtin[s[i]] # Builtin[s[j]]
  BY <1>4, <1>5
<1>8. \A i, j \in DOMAIN s : i = j \/ i < j \/ j < i
  BY <1>3, <1>4
<1>9. QED
  BY <1>3, <1>4, <1>6, <1>7, <1>8

LEMMA InitKeeps ==
    ASSUME Init
    PROVE  IInv
<1>1. /\ typeOf = Builtin /\ order \in Seq(Made) /\ typeOf \in Seq(Types)
      /\ \A i, j \in DOMAIN order : typeOf[order[i]] = typeOf[order[j]] => i = j
  BY FirstOfEachType, EngineAssumption DEF Init, Made
<1>2. Registry
  BY <1>1, EngineAssumption DEF Registry
<1>3. << >> \in Seq(Made) /\ << >> \in Seq(AnyRow)
  OBVIOUS
<1>4. IdleManager \in AnyManager /\ main \in AnyMain
  BY <1>3 DEF Init, IdleManager, AnyManager, AnyMain
<1>5. Typed
  <2>1. /\ field \in [Pollers -> {"none", "live", "shut"}] /\ live \in [Pollers -> Nat]
        /\ \A p \in Pollers : (live[p] > 0 => p \in Made) /\ (field[p] = "live" => live[p] > 0)
    BY DEF Init
  <2>2. mgr \in [Plugins -> AnyManager] /\ \A m \in Plugins : mgr[m].pc = "idle"
    BY <1>4 DEF Init, IdleManager
  <2>3. /\ cred \in [Credentialed -> {"unset", "set"}] /\ lock \in [Pollers -> Runners \cup {None}]
        /\ runner \in [Runners -> AnyRunner] /\ rows \in Seq(AnyRow) /\ raced \in BOOLEAN
    BY <1>3, IdleTyped DEF Init
  <2>4. QED
    BY <1>4, <2>1, <2>2, <2>3 DEF Typed
<1>6. RunInv
  <2>1. \A t \in Runners : runner[t] = IdleRunner /\ runner[t].log = None /\ runner[t].pc = "idle" /\ runner[t].ok
    BY IdleTyped DEF Init
  <2>2. DOMAIN rows = {}
    BY DEF Init
  <2>3. QED
    BY <2>1, <2>2 DEF Init, RunInv, RunOf, HasRow, Running, Doing
<1>7. SchedInv
  <2>1. \A m \in Plugins : mgr[m].pc = "idle"
    BY DEF Init, IdleManager
  <2>2. \A p \in Registered : ~ByPlugin(p)
    BY <1>1, EngineAssumption DEF Registered, ToSet, ByPlugin, Made
  <2>3. \A p \in Pollers : OnSchedule(p)
    BY <2>2 DEF Init, OnSchedule, Scheduled
  <2>4. QED
    BY <2>1, <2>3, Resting DEF Init, SchedInv, Visits
<1>8. QED
  BY <1>2, <1>5, <1>6, <1>7 DEF IInv

LEMMA StepKeeps ==
    ASSUME IInv, [Next]_vars
    PROVE  IInv'
<1> USE DEF IInv
<1>1. CASE SchedStep
  <2>1. CASE EngineStart \/ EngineStop
    BY <2>1, SnapshotKeeps DEF EngineStart, EngineStop, Kept
  <2>2. CASE StartNext \/ StopNext
    BY <2>2, VisitsKeep DEF Kept
  <2>3. ASSUME NEW m \in Plugins, NEW ty \in Types, RegisterSource(m, ty) \/ RemovePoller(m, ty) PROVE IInv'
    BY <2>3, RegisterKeeps, RemoveKeeps DEF Kept
  <2>4. ASSUME NEW m \in Plugins, AddPoller(m) \/ OutsideLock(m) PROVE IInv'
    BY <2>4, AddKeeps, OutsideLockKeeps DEF Kept
  <2>5. QED
    BY <1>1, <2>1, <2>2, <2>3, <2>4 DEF SchedStep
<1>2. ASSUME UNCHANGED <<typeOf, order, schedVars, main, mgr, raced>>
      PROVE  Registry' /\ SchedInv'
  BY <1>2 DEF schedVars, Registry, Made, SchedInv, Alone, Busy, Hands, Visits, OnSchedule, Scheduled, Arriving, Leaving,
              Registered, ByPlugin, Pollers
<1>3. ASSUME NEW t \in Runners,
             Tick(t) \/ SyncAll(t) \/ SyncSource(t) \/ Ingest(t) \/ Sync(t) \/ Work(t) \/ CtxEnds(t)
      PROVE  IInv'
  <2>1. Typed' /\ RunInv'
    BY <1>3, SyncsBegin, SyncKeeps, CreateLogKeeps, FetchKeeps, PersistKeeps, EmitKeeps, RecordRunKeeps, CtxEndsKeeps DEF Work
  <2>2. UNCHANGED <<typeOf, order, schedVars, main, mgr, raced>>
    BY <1>3 DEF Tick, SyncAll, SyncSource, Ingest, Begin, Sync, Work, CreateLog, Fetch, Persist, EmitSyncCompleted, RecordRun,
                CtxEnds, Same
  <2>3. QED
    BY <1>2, <2>1, <2>2
<1>4. ASSUME NEW ty \in Types, SetCredential(ty) \/ RemoveSourceCredential(ty)
      PROVE  IInv'
  <2>1. UNCHANGED <<typeOf, order, schedVars, main, mgr, syncVars, raced>> /\ cred' \in [Credentialed -> {"unset", "set"}]
    BY <1>4 DEF SetCredential, RemoveSourceCredential, Typed
  <2>2. Typed'
    BY <2>1 DEF Typed, schedVars, syncVars, Made, AnyMain, AnyManager, AnyRunner, AnyRow, RunPcs, Pollers, None
  <2>3. RunInv'
    BY <2>1 DEF RunInv, RunOf, RowOf, HasRow, Running, Doing, Made, syncVars, None
  <2>4. QED
    BY <1>2, <2>1, <2>2, <2>3
<1>5. CASE UNCHANGED vars
  BY <1>5, <1>2 DEF vars, schedVars, Typed, Made, AnyMain, AnyManager, AnyRunner, AnyRow, RunPcs, Pollers, None,
                    RunInv, RunOf, RowOf, HasRow, Running, Doing
<1>6. QED
  BY <1>1, <1>3, <1>4, <1>5 DEF Next

LEMMA Invariant == Spec => []IInv
<1>1. Init => IInv
  BY InitKeeps
<1>2. IInv /\ [Next]_vars => IInv'
  BY StepKeeps
<1>3. QED
  BY <1>1, <1>2, PTL DEF Spec

\* Two syncs of one poller never overlap, each row of the history says what its run did unless
\* the write that makes or completes it goes wrong, and sync.completed never speaks of a batch
\* that is not in the ledger, whatever fails and whoever registers, replaces and removes sources
\* meanwhile.
THEOREM SyncsAreTold == Spec => []RunsAreTold
<1>1. ASSUME IInv PROVE RunsAreTold
  <2>1. \A t \in Runners : Running(t) => lock[runner[t].p] = t
    BY <1>1 DEF IInv, RunInv, RunOf
  <2>2. QED
    BY <1>1, <2>1 DEF IInv, RunInv, RowOf, RunsAreTold
<1>2. QED
  BY <1>1, Invariant, PTL

\* When nothing is being started or stopped, and nothing was at the same time, the running
\* schedules are one for each registered source that has an interval, and no other: what was
\* replaced or removed is silent.
THEOREM SchedulesAreKept == Spec => []SchedulesMatch
<1>1. ASSUME IInv PROVE SchedulesMatch
  <2>1. SUFFICES ASSUME Quiet, ~raced, NEW p \in Pollers
                 PROVE  live[p] = IF /\ p \in Registered /\ typeOf[p] \in Timed
                                     /\ (main.pc = "up" \/ (ByPlugin(p) /\ main.pc \in {"fresh", "off"}))
                                  THEN 1 ELSE 0
    BY DEF SchedulesMatch
  <2>2. ~Arriving(p) /\ ~Leaving(p) /\ main.pc \in {"fresh", "off", "up", "down"}
    BY <2>1 DEF Quiet, Arriving, Leaving
  <2>3. live[p] = IF Scheduled(p) THEN 1 ELSE 0
    BY <1>1, <2>1, <2>2 DEF IInv, SchedInv, OnSchedule
  <2>4. QED
    BY <2>2, <2>3 DEF Scheduled
<1>2. QED
  BY <1>1, Invariant, PTL

\* Every variable has its type and the registry holds one poller of a type.
THEOREM TypesKept == Spec => []TypeOK
<1>1. ASSUME IInv PROVE TypeOK
  <2>1. typeOf \in Seq(Types) /\ order \in Seq(DOMAIN typeOf)
        /\ \A p, q \in Registered : typeOf[p] = typeOf[q] => p = q
    BY <1>1, RegisteredIsMade DEF IInv, Registry, Made
  <2>2. IsInjective(order)
    BY <1>1, RegisteredIsMade DEF IInv, IsInjective
  <2>3. main \in AnyMain /\ Seq(Made) \subseteq Seq(Pollers)
    BY <1>1, Wider, MadePoller DEF IInv, Typed
  <2>4. main.pc \in {"off", "fresh", "starting", "up", "stopping", "down"} /\ main.todo \in Seq(Pollers)
    BY <2>3 DEF AnyMain
  <2>5. \A m \in Plugins : mgr[m].pc \in {"idle", "add", "replace", "start", "stop"}
    BY <1>1 DEF IInv, Typed, AnyManager
  <2>6. \A t \in Runners : runner[t].pc \in RunPcs
    BY <1>1, RunFields DEF IInv
  <2>7. stored \cup told \cup lost \subseteq DOMAIN rows
    BY <1>1 DEF IInv, RunInv
  <2>8. /\ field \in [Pollers -> {"none", "live", "shut"}] /\ live \in [Pollers -> Nat]
        /\ cred \in [Credentialed -> {"unset", "set"}] /\ lock \in [Pollers -> Runners \cup {None}] /\ raced \in BOOLEAN
    BY <1>1 DEF IInv, Typed
  <2>9. QED
    BY <2>1, <2>2, <2>4, <2>5, <2>6, <2>7, <2>8 DEF TypeOK, RunPcs
<1>2. QED
  BY <1>1, Invariant, PTL

\* The two as the run checks them.
THEOREM SyncsAreKept == Spec => []SyncsKept
<1>1. TypeOK /\ RunsAreTold => SyncsKept
  BY DEF SyncsKept
<1>2. QED
  BY <1>1, SyncsAreTold, TypesKept, PTL

-----------------------------------------------------------------------------
(* The secret store, where the sources keep their credentials. *)
CONSTANTS Backend, Keys, Values, Writers, MaxWrites, MaxStops
VARIABLES secrets, tmp, writer, mutex, writes, stops, meant, crossed

Store == INSTANCE SecretStore

\* A backend is one of the two, and the free mutex is told from its holders.
StoreSizes == Backend \in {"file", "vault"} /\ Store!None \notin Writers

Contents == [Keys -> Values \cup {Store!Empty}]
AnyWriter == [pc : {"idle", "save", "rename", "put"}, key : Keys \cup {Store!None},
              value : Values \cup {Store!Empty}, read : Contents]
Writing(w) == writer[w].pc # "idle"

StoreTyped ==
  /\ secrets \in Contents /\ meant \in Contents
  /\ writer \in [Writers -> AnyWriter]
  /\ tmp = {} \/ \E s \in Contents : tmp = {s}
  /\ crossed \in BOOLEAN

\* Who writes says what, and holds the file's mutex.
WritersSound ==
  \A w \in Writers : Writing(w) =>
    /\ writer[w].key \in Keys
    /\ Backend = "file" => mutex = w /\ writer[w].pc # "put"
    /\ Backend = "vault" => writer[w].pc = "put"

\* One write at a time: always with the file, with Vault until two cross.
Uncrossed == Backend = "vault" => ~crossed

\* What a lone writer has read is what is stored, and what is stored is what was meant.
StoreAsMeant ==
  Uncrossed => /\ secrets = meant
           /\ \A w \in Writers : Writing(w) =>
                /\ writer[w].read = secrets
                /\ writer[w].pc = "rename" => tmp = {Store!Merged(w)}
                /\ \A u \in Writers \ {w} : ~Writing(u)

StoreInv == StoreTyped /\ WritersSound /\ StoreAsMeant

\* The writer a step changes, and the others.
LEMMA WriterIs ==
  ASSUME NEW w \in Writers, NEW x \in AnyWriter, writer \in [Writers -> AnyWriter], Store!Become(w, x)
  PROVE  /\ writer' \in [Writers -> AnyWriter] /\ writer'[w] = x
         /\ \A u \in Writers : u # w => writer'[u] = writer[u]
BY DEF Store!Become

LEMMA StoreStarts == Store!Init => StoreInv
<1> SUFFICES ASSUME Store!Init PROVE StoreInv
  OBVIOUS
<1>1. Store!NoSecrets \in Contents
  BY DEF Store!NoSecrets, Contents, Store!Empty
<1>2. Store!IdleWriter \in AnyWriter /\ Store!IdleWriter.pc = "idle"
  BY <1>1 DEF Store!IdleWriter, AnyWriter, Store!Empty, Store!None
<1>3. writer \in [Writers -> AnyWriter] /\ \A w \in Writers : ~Writing(w)
  BY <1>2 DEF Store!Init, Writing
<1>4. StoreTyped
  BY <1>1, <1>3 DEF Store!Init, StoreTyped
<1>5. WritersSound
  BY <1>3 DEF WritersSound
<1>6. StoreAsMeant
  BY <1>3 DEF Store!Init, StoreAsMeant
<1>7. QED
  BY <1>4, <1>5, <1>6 DEF StoreInv

LEMMA IdleIsWriter == Store!IdleWriter \in AnyWriter /\ Store!IdleWriter.pc = "idle"
<1>1. Store!NoSecrets \in Contents
  BY DEF Store!NoSecrets, Contents, Store!Empty
<1>2. QED
  BY <1>1 DEF Store!IdleWriter, AnyWriter, Store!Empty, Store!None

LEMMA MergedIs ==
  ASSUME StoreTyped, NEW w \in Writers, writer[w].key \in Keys
  PROVE  /\ Store!Merged(w) \in Contents
         /\ Store!Merged(w) = [writer[w].read EXCEPT ![writer[w].key] = writer[w].value]
BY DEF Store!Merged, StoreTyped, AnyWriter, Contents

\* Where a write takes hold: the keys and what was meant of them move together.
LEMMA Together ==
  ASSUME StoreSizes, StoreInv, NEW w \in Writers, Writing(w),
         Store!Become(w, Store!IdleWriter), secrets' = Store!Merged(w),
         meant' = [meant EXCEPT ![writer[w].key] = writer[w].value],
         tmp' = {} \/ tmp' = tmp, crossed' = crossed,
         \A u \in Writers \ {w} : mutex = u => mutex' = u
  PROVE  StoreInv'
<1>1. writer' \in [Writers -> AnyWriter] /\ ~Writing(w)' /\ \A u \in Writers : u # w => writer'[u] = writer[u]
  BY IdleIsWriter, WriterIs DEF StoreInv, StoreTyped, Writing
<1>2. writer[w].key \in Keys /\ Store!Merged(w) \in Contents
  BY MergedIs DEF StoreInv, WritersSound
<1>3. meant' \in Contents
  BY <1>2 DEF StoreInv, StoreTyped, AnyWriter, Contents
<1>4. StoreTyped'
  BY <1>1, <1>2, <1>3 DEF StoreInv, StoreTyped
<1>5. WritersSound'
  BY <1>1 DEF StoreInv, WritersSound, Writing
<1>6. StoreAsMeant'
  <2>1. SUFFICES ASSUME Uncrossed' PROVE secrets' = meant' /\ \A u \in Writers : ~Writing(u)'
    BY DEF StoreAsMeant
  <2>2. Uncrossed
    BY <2>1 DEF Uncrossed
  <2>3. secrets = meant /\ writer[w].read = secrets /\ \A u \in Writers \ {w} : ~Writing(u)
    BY <2>2 DEF StoreInv, StoreAsMeant
  <2>4. secrets' = meant'
    BY <2>3, <1>2, MergedIs DEF StoreInv
  <2>5. QED
    BY <1>1, <2>3, <2>4 DEF Writing
<1>7. QED
  BY <1>4, <1>5, <1>6 DEF StoreInv

LEMMA StoreLoad ==
  ASSUME StoreSizes, StoreInv, NEW w \in Writers, NEW k \in Keys, NEW v \in Values \cup {Store!Empty}, Store!Load(w, k, v)
  PROVE  StoreInv'
<1> DEFINE x == [pc |-> IF Backend = "file" THEN "save" ELSE "put", key |-> k, value |-> v, read |-> secrets]
<1>1. x \in AnyWriter /\ x.pc # "idle" /\ x.key \in Keys /\ x.read = secrets /\ x.pc # "rename"
      /\ (Backend = "file" => x.pc # "put") /\ (Backend = "vault" => x.pc = "put")
  BY DEF AnyWriter, StoreInv, StoreTyped, StoreSizes
<1>2. Store!Become(w, x)
  BY DEF Store!Load
<1> HIDE DEF x
<1>3. writer' \in [Writers -> AnyWriter] /\ writer'[w] = x /\ \A u \in Writers : u # w => writer'[u] = writer[u]
  BY <1>1, <1>2, WriterIs DEF StoreInv, StoreTyped
<1>4. secrets' = secrets /\ meant' = meant /\ tmp' = tmp /\ crossed' = (crossed \/ \E u \in Writers : Writing(u))
  BY DEF Store!Load, Writing
<1>5. StoreTyped'
  BY <1>3, <1>4 DEF StoreInv, StoreTyped
<1>6. Backend = "file" => mutex = Store!None /\ mutex' = w
  BY DEF Store!Load
<1>7. Backend = "file" => \A u \in Writers : ~Writing(u)
  BY <1>6 DEF StoreInv, WritersSound, StoreSizes
<1>8. WritersSound'
  BY <1>1, <1>3, <1>6, <1>7 DEF StoreInv, WritersSound, Writing
<1>9. StoreAsMeant'
  <2>1. SUFFICES ASSUME Uncrossed' PROVE StoreAsMeant'
    BY DEF StoreAsMeant
  <2>2. Uncrossed /\ \A u \in Writers : ~Writing(u)
    BY <2>1, <1>4, <1>7 DEF Uncrossed, StoreSizes
  <2>3. \A u \in Writers \ {w} : ~Writing(u)'
    BY <2>2, <1>3 DEF Writing
  <2>4. QED
    BY <2>2, <2>3, <1>1, <1>3, <1>4 DEF StoreInv, StoreAsMeant
<1>10. QED
  BY <1>5, <1>8, <1>9 DEF StoreInv

LEMMA StoreSaveTmp ==
  ASSUME StoreSizes, StoreInv, NEW w \in Writers, Store!SaveTmp(w)
  PROVE  StoreInv'
<1> DEFINE x == [writer[w] EXCEPT !.pc = "rename"]
<1>0. writer[w] \in AnyWriter
  BY DEF StoreInv, StoreTyped
<1>1. x \in AnyWriter /\ x.pc = "rename" /\ x.key = writer[w].key /\ x.read = writer[w].read /\ x.value = writer[w].value
  BY <1>0 DEF AnyWriter
<1>2. Store!Become(w, x)
  BY DEF Store!SaveTmp
<1> HIDE DEF x
<1>3. writer' \in [Writers -> AnyWriter] /\ writer'[w] = x /\ \A u \in Writers : u # w => writer'[u] = writer[u]
  BY <1>1, <1>2, WriterIs DEF StoreInv, StoreTyped
<1>4. secrets' = secrets /\ meant' = meant /\ tmp' = {Store!Merged(w)} /\ crossed' = crossed /\ mutex' = mutex /\ writer[w].pc = "save"
  BY DEF Store!SaveTmp
<1>5. writer[w].key \in Keys /\ Store!Merged(w) \in Contents
  BY <1>4, MergedIs DEF StoreInv, WritersSound, Writing
<1>6. StoreTyped'
  BY <1>3, <1>4, <1>5 DEF StoreInv, StoreTyped
<1>7. WritersSound'
  BY <1>1, <1>3, <1>4 DEF StoreInv, WritersSound, Writing
<1>8. Store!Merged(w)' = Store!Merged(w)
  BY <1>1, <1>3 DEF Store!Merged
<1>9. StoreAsMeant'
  <2>1. SUFFICES ASSUME Uncrossed' PROVE StoreAsMeant'
    BY DEF StoreAsMeant
  <2>2. Uncrossed /\ \A u \in Writers \ {w} : ~Writing(u)
    BY <2>1, <1>4 DEF Uncrossed, StoreInv, StoreAsMeant, Writing
  <2>3. secrets = meant /\ writer[w].read = secrets
    BY <2>2, <1>4 DEF StoreInv, StoreAsMeant, Writing
  <2>4. \A u \in Writers \ {w} : ~Writing(u)'
    BY <2>2, <1>3 DEF Writing
  <2>5. QED
    BY <2>3, <2>4, <1>1, <1>3, <1>4, <1>8 DEF StoreAsMeant
<1>10. QED
  BY <1>6, <1>7, <1>9 DEF StoreInv

LEMMA StoreRename ==
  ASSUME StoreSizes, StoreInv, NEW w \in Writers, Store!SaveRename(w)
  PROVE  StoreInv'
<1>1. Writing(w) /\ writer[w].pc = "rename" /\ Store!Become(w, Store!IdleWriter)
      /\ meant' = [meant EXCEPT ![writer[w].key] = writer[w].value] /\ tmp' = {} /\ crossed' = crossed
  BY DEF Store!SaveRename, Writing
<1>2. Backend = "file" /\ mutex = w
  BY <1>1 DEF StoreInv, WritersSound, StoreSizes
<1>3. tmp = {Store!Merged(w)}
  BY <1>1, <1>2 DEF StoreInv, StoreAsMeant, Uncrossed
<1>4. secrets' = Store!Merged(w)
  BY <1>3 DEF Store!SaveRename
<1>5. QED
  BY <1>1, <1>2, <1>4, Together

LEMMA StorePut ==
  ASSUME StoreSizes, StoreInv, NEW w \in Writers, Store!PutMerged(w)
  PROVE  StoreInv'
<1>1. Writing(w) /\ Store!Become(w, Store!IdleWriter) /\ secrets' = Store!Merged(w)
      /\ meant' = [meant EXCEPT ![writer[w].key] = writer[w].value] /\ tmp' = tmp /\ crossed' = crossed /\ mutex' = mutex
  BY DEF Store!PutMerged, Writing
<1>2. QED
  BY <1>1, Together

LEMMA StoreFails ==
  ASSUME StoreSizes, StoreInv, NEW w \in Writers, Store!WriteFails(w)
  PROVE  StoreInv'
<1>1. Writing(w) /\ Store!Become(w, Store!IdleWriter) /\ UNCHANGED <<secrets, meant, tmp, crossed>>
      /\ mutex' = IF mutex = w THEN Store!None ELSE mutex
  BY DEF Store!WriteFails, Writing
<1>2. writer' \in [Writers -> AnyWriter] /\ ~Writing(w)' /\ \A u \in Writers : u # w => writer'[u] = writer[u]
  BY <1>1, IdleIsWriter, WriterIs DEF StoreInv, StoreTyped, Writing
<1>3. StoreTyped'
  BY <1>1, <1>2 DEF StoreInv, StoreTyped
<1>4. WritersSound'
  BY <1>1, <1>2 DEF StoreInv, WritersSound, Writing
<1>5. StoreAsMeant'
  <2>1. SUFFICES ASSUME Uncrossed' PROVE secrets' = meant' /\ \A u \in Writers : ~Writing(u)'
    BY DEF StoreAsMeant
  <2>2. Uncrossed
    BY <1>1, <2>1 DEF Uncrossed
  <2>3. QED
    BY <1>1, <1>2, <2>2 DEF StoreInv, StoreAsMeant, Writing
<1>6. QED
  BY <1>3, <1>4, <1>5 DEF StoreInv

LEMMA StoreRestart ==
  ASSUME StoreSizes, StoreInv, Store!Restart
  PROVE  StoreInv'
<1>1. UNCHANGED <<secrets, meant, tmp, crossed>> /\ writer' = [w \in Writers |-> Store!IdleWriter]
  BY DEF Store!Restart
<1>2. writer' \in [Writers -> AnyWriter] /\ \A w \in Writers : ~Writing(w)'
  BY <1>1, IdleIsWriter DEF Writing
<1>3. StoreTyped'
  BY <1>1, <1>2 DEF StoreInv, StoreTyped
<1>4. WritersSound'
  BY <1>2 DEF WritersSound
<1>5. StoreAsMeant'
  BY <1>1, <1>2 DEF StoreInv, StoreAsMeant, Uncrossed
<1>6. QED
  BY <1>3, <1>4, <1>5 DEF StoreInv

LEMMA StoreStep == ASSUME StoreSizes PROVE StoreInv /\ [Store!Next]_(Store!vars) => StoreInv'
<1> SUFFICES ASSUME StoreInv, [Store!Next]_(Store!vars) PROVE StoreInv'
  OBVIOUS
<1>1. CASE Store!Next
  BY <1>1, StoreLoad, StoreSaveTmp, StoreRename, StorePut, StoreFails, StoreRestart DEF Store!Next
<1>2. CASE UNCHANGED Store!vars
  BY <1>2 DEF Store!vars, StoreInv, StoreTyped, WritersSound, StoreAsMeant, Uncrossed, Writing, Store!Merged
<1>3. QED
  BY <1>1, <1>2

\* What a reader finds under a key is what the last write of that key left, whatever else was written
\* beside it and through failures and stops: with the file always, with Vault's read and write of one
\* secret as long as no two writes cross.
THEOREM SecretsKept ==
  ASSUME StoreSizes
  PROVE  Store!Spec => [](Store!TypeOK /\ Store!SiblingsKept)
<1>1. ASSUME StoreInv PROVE Store!TypeOK /\ Store!SiblingsKept
  <2>1. Store!Cardinality(tmp) <= 1
    <3>1. Store!Cardinality(tmp) = Cardinality(tmp)
      BY DEF Cardinality, Store!Cardinality
    <3>2. Cardinality(tmp) = 0 \/ Cardinality(tmp) = 1
      <4>1. CASE tmp = {}
        BY <4>1, FS_EmptySet
      <4>2. ASSUME NEW s \in Contents, tmp = {s} PROVE Cardinality(tmp) = 1
        <5>1. Cardinality({s}) = 1
          BY FS_Singleton
        <5>2. QED
          BY <4>2, <5>1
      <4>3. QED
        BY <1>1, <4>1, <4>2 DEF StoreInv, StoreTyped
    <3>3. QED
      BY <3>1, <3>2
  <2>2. \A w \in Writers : writer[w].pc \in {"idle", "save", "rename", "put"}
    BY <1>1 DEF StoreInv, StoreTyped, AnyWriter
  <2>3. Store!TypeOK
    <3>1. secrets \in [Keys -> Values \cup {Store!Empty}]
      BY <1>1 DEF StoreInv, StoreTyped, Contents
    <3>2. QED
      BY <2>1, <2>2, <3>1 DEF Store!TypeOK
  <2>4. Store!SiblingsKept
    BY <1>1 DEF StoreInv, StoreAsMeant, Uncrossed, Store!SiblingsKept, Store!Reads
  <2>5. QED
    BY <2>3, <2>4
<1>2. QED
  BY <1>1, StoreStarts, StoreStep, PTL DEF Store!Spec

-----------------------------------------------------------------------------
(* The update of the binary, beside the command and the releases that come and go. *)
CONSTANTS Versions, Callers, TTL, MaxClock, MaxPublishes, MaxAsks
VARIABLES clock, hub, disk, proc, cache, release, caller, counts, overtaken

Update == INSTANCE SelfUpdate WITH crossed <- overtaken

\* Releases are numbered in the order they come.
UpdateSizes == Versions \subseteq Nat \ {0} /\ 1 \in Versions

AnyVersion == {0} \cup Versions
CallPcs == {"idle", "refresh", "set", "take", "tarball", "checksum", "extract", "replace", "restart"}
AnyCall == [pc : CallPcs, kind : {"none", "status", "apply", "poll", "command"}, self : AnyVersion, rel : AnyVersion, build : {0, 1},
            fresh : BOOLEAN, seen : SUBSET Versions, raced : BOOLEAN]
AnyHub == [latest : Versions, bin : [Versions -> {0, 1}], sum : [Versions -> {0, 1}]]
AnyDisk == [version : AnyVersion, build : {0, 1}]
AnyServer == [up : BOOLEAN, version : AnyVersion]

UpdateTyped ==
  /\ hub \in AnyHub /\ disk \in AnyDisk /\ proc \in AnyServer /\ release \in AnyVersion
  /\ caller \in [Callers -> AnyCall] /\ overtaken \in BOOLEAN

\* A request runs in the server it asked, a command found on disk what is there yet, unless updates crossed;
\* what either fetches is newer, was the latest since it was asked for, and is vouched for once it is checked.
CallOk(r, h, d, p, known, x) ==
  /\ r.pc # "idle" => h.latest \in r.seen
  /\ r.pc # "idle" /\ r.kind # "command" => p.up /\ r.self = p.version
  /\ r.pc # "idle" /\ r.kind = "command" /\ ~x => r.self = d.version
  /\ r.pc \in {"set", "take", "restart"} => r.kind # "command"
  /\ r.pc = "set" /\ r.self # 0 => r.rel \in r.seen
  /\ r.pc = "take" /\ r.self # 0 /\ ~r.raced => known \in r.seen
  /\ r.pc \in Update!Fetching => r.rel \in Versions /\ r.rel > r.self /\ (~r.raced => r.rel \in r.seen)
  /\ r.pc \in {"extract", "replace"} => r.build <= h.sum[r.rel]

DiskOk(h, d, p, x) ==
  /\ d.version # 0 => d.build <= h.sum[d.version]
  /\ p.up /\ ~x => p.version <= d.version

UpdateInv ==
  /\ UpdateTyped
  /\ \A c \in Callers : CallOk(caller[c], hub, disk, proc, release, overtaken)
  /\ DiskOk(hub, disk, proc, overtaken)

LEMMA VersionIs == ASSUME UpdateSizes, NEW v \in AnyVersion PROVE v \in Nat /\ v <= v
<1>1. Versions \subseteq Nat
  BY DEF UpdateSizes
<1>2. v \in Nat
  BY <1>1 DEF AnyVersion
<1>3. QED
  BY <1>2

LEMMA NoCallIs == Update!NoCaller \in AnyCall /\ Update!NoCaller.pc = "idle"
<1>1. Update!NoCaller = [pc |-> "idle", kind |-> "none", self |-> 0, rel |-> 0, build |-> 0, fresh |-> TRUE, seen |-> {}, raced |-> FALSE]
  BY DEF Update!NoCaller
<1>2. QED
  BY <1>1 DEF AnyCall, CallPcs, AnyVersion

LEMMA IdleIsOk == ASSUME NEW r, r.pc = "idle", NEW h, NEW d, NEW p, NEW known, NEW x PROVE CallOk(r, h, d, p, known, x)
BY DEF CallOk, Update!Fetching

LEMMA CallIs ==
  ASSUME UpdateInv, NEW c \in Callers
  PROVE  caller[c] \in AnyCall /\ CallOk(caller[c], hub, disk, proc, release, overtaken)
BY DEF UpdateInv, UpdateTyped

LEMMA UpdateStarts == ASSUME UpdateSizes PROVE Update!Init => UpdateInv
<1> SUFFICES ASSUME Update!Init PROVE UpdateInv
  OBVIOUS
<1>1. /\ hub = [latest |-> 1, bin |-> [v \in Versions |-> 0], sum |-> [v \in Versions |-> 0]]
      /\ release = 0 /\ caller = [c \in Callers |-> Update!NoCaller] /\ overtaken = FALSE
  BY DEF Update!Init
<1>2. PICK v \in {0, 1} : disk = [version |-> v, build |-> 0] /\ proc = [up |-> TRUE, version |-> v]
  BY DEF Update!Init
<1>3. v \in AnyVersion
  BY DEF UpdateSizes, AnyVersion
<1>4. hub \in AnyHub /\ hub.sum = [w \in Versions |-> 0]
  BY <1>1 DEF AnyHub, UpdateSizes
<1>5. disk \in AnyDisk /\ proc \in AnyServer /\ disk.build = 0 /\ disk.version = v /\ proc.version = v
  BY <1>2, <1>3 DEF AnyDisk, AnyServer
<1>6. UpdateTyped
  BY <1>1, <1>4, <1>5, NoCallIs DEF UpdateTyped, AnyVersion
<1>7. v # 0 => hub.sum[v] = 0
  BY <1>4 DEF UpdateSizes
<1>8. DiskOk(hub, disk, proc, overtaken)
  BY <1>5, <1>7 DEF DiskOk
<1>9. \A c \in Callers : CallOk(caller[c], hub, disk, proc, release, overtaken)
  BY <1>1, NoCallIs, IdleIsOk
<1>10. QED
  BY <1>6, <1>8, <1>9 DEF UpdateInv

\* A step of one caller alone.
LEMMA OneCalls ==
  ASSUME UpdateInv, NEW c \in Callers, NEW k \in AnyCall, caller' = [caller EXCEPT ![c] = k],
         UNCHANGED <<hub, disk, proc, release, overtaken>>, CallOk(k, hub, disk, proc, release, overtaken)
  PROVE  UpdateInv'
<1>1. caller' \in [Callers -> AnyCall] /\ caller'[c] = k /\ \A d \in Callers \ {c} : caller'[d] = caller[d]
  BY DEF UpdateInv, UpdateTyped
<1>2. UpdateTyped'
  BY <1>1 DEF UpdateInv, UpdateTyped
<1>3. (\A d \in Callers : CallOk(caller[d], hub, disk, proc, release, overtaken))'
  BY <1>1 DEF UpdateInv
<1>4. DiskOk(hub, disk, proc, overtaken)'
  BY DEF UpdateInv
<1>5. QED
  BY <1>2, <1>3, <1>4 DEF UpdateInv

LEMMA EndCall ==
  ASSUME UpdateInv, NEW c \in Callers, Update!End(c), UNCHANGED <<hub, disk, proc, release, overtaken>> PROVE UpdateInv'
BY NoCallIs, IdleIsOk, OneCalls DEF Update!End, Update!Become

LEMMA SameCalls == ASSUME UpdateInv, UNCHANGED <<hub, disk, proc, release, caller, overtaken>> PROVE UpdateInv'
BY DEF UpdateInv, UpdateTyped

LEMMA AskKeeps ==
  ASSUME UpdateInv, NEW c \in Callers, NEW kind \in {"status", "apply", "poll", "command"}, NEW self \in AnyVersion, Update!Ask(c, kind, self),
         kind # "command" => proc.up /\ self = proc.version, kind = "command" => self = disk.version
  PROVE  UpdateInv'
<1> DEFINE a == [Update!NoCaller EXCEPT !.kind = kind]
           b == [a EXCEPT !.self = self]
           d == [b EXCEPT !.seen = {hub.latest}]
           k == [d EXCEPT !.pc = "refresh"]
<1>1. UNCHANGED <<hub, disk, proc, release, overtaken>>
  BY DEF Update!Ask
<1>2. \/ caller' = [caller EXCEPT ![c] = k]
      \/ UNCHANGED caller
  <2>1. kind = "apply" => Update!NeedsRefresh(kind)
    BY DEF Update!NeedsRefresh, Update!AskFirst
  <2>2. [Update!NoCaller EXCEPT !.kind = kind, !.self = self, !.seen = {hub.latest}] = d
    BY DEF Update!NoCaller
  <2> HIDE DEF d
  <2>3. QED
    BY <2>1, <2>2 DEF Update!Ask, Update!Become
<1>3. hub.latest \in Versions
  BY DEF UpdateInv, UpdateTyped, AnyHub
<1>4. a \in AnyCall /\ a.kind = kind
  BY NoCallIs DEF AnyCall
<1> HIDE DEF a
<1>5. b \in AnyCall /\ b.kind = kind /\ b.self = self
  BY <1>4 DEF AnyCall
<1> HIDE DEF b
<1>6. d \in AnyCall /\ d.kind = kind /\ d.self = self /\ d.seen = {hub.latest}
  BY <1>3, <1>5 DEF AnyCall
<1> HIDE DEF d
<1>7. k \in AnyCall /\ k.kind = kind /\ k.self = self /\ k.seen = {hub.latest} /\ k.pc = "refresh"
  BY <1>6 DEF AnyCall, CallPcs
<1> HIDE DEF k
<1>8. CallOk(k, hub, disk, proc, release, overtaken)
  BY <1>7 DEF CallOk, Update!Fetching
<1>9. CASE caller' = [caller EXCEPT ![c] = k]
  BY <1>1, <1>7, <1>8, <1>9, OneCalls
<1>10. QED
  BY <1>1, <1>2, <1>9, SameCalls

LEMMA AsksKeep ==
  ASSUME UpdateInv, NEW c \in Callers, Update!UpdateStatus(c) \/ Update!ApplyUpdate(c) \/ Update!Run(c) \/ Update!Command(c)
  PROVE  UpdateInv'
<1>1. proc.version \in AnyVersion /\ disk.version \in AnyVersion
  BY DEF UpdateInv, UpdateTyped, AnyServer, AnyDisk
<1>2. QED
  BY <1>1, AskKeeps DEF Update!UpdateStatus, Update!ApplyUpdate, Update!Run, Update!Command

LEMMA CheckLatestKeeps == ASSUME UpdateSizes, UpdateInv, NEW c \in Callers, Update!CheckLatest(c) PROVE UpdateInv'
<1> DEFINE r == caller[c]
<1>1. r \in AnyCall /\ CallOk(r, hub, disk, proc, release, overtaken) /\ r.pc = "refresh" /\ UNCHANGED <<hub, disk, proc, release, overtaken>>
  BY CallIs DEF Update!CheckLatest, Update!At
<1>2. hub.latest \in Versions /\ hub.latest \in r.seen /\ hub.latest # 0 /\ 0 \in AnyVersion /\ hub.latest \in AnyVersion
  BY <1>1 DEF UpdateInv, UpdateTyped, AnyHub, CallOk, UpdateSizes, AnyVersion
<1>3. \/ Update!End(c)
      \/ \E v \in {0, hub.latest}, p \in {"tarball", "set"} :
           /\ caller' = [caller EXCEPT ![c] = [r EXCEPT !.pc = p, !.rel = v]]
           /\ p = "tarball" => r.kind = "command" /\ v = hub.latest /\ v > r.self
           /\ p = "set" => r.kind # "command" /\ (r.self # 0 => v = hub.latest)
  BY DEF Update!CheckLatest, Update!Become, Update!IsNewer, Update!IsRelease
<1>4. CASE Update!End(c)
  BY <1>1, <1>4, EndCall
<1>5. ASSUME NEW v \in {0, hub.latest}, NEW p \in {"tarball", "set"}, caller' = [caller EXCEPT ![c] = [r EXCEPT !.pc = p, !.rel = v]],
             p = "tarball" => r.kind = "command" /\ v = hub.latest /\ v > r.self,
             p = "set" => r.kind # "command" /\ (r.self # 0 => v = hub.latest)
      PROVE  UpdateInv'
  <2> DEFINE a == [r EXCEPT !.pc = p]
             k == [a EXCEPT !.rel = v]
  <2>1. caller' = [caller EXCEPT ![c] = k]
    BY <1>1, <1>5 DEF AnyCall
  <2>2. a \in AnyCall /\ a.pc = p /\ a.kind = r.kind /\ a.self = r.self /\ a.seen = r.seen /\ a.raced = r.raced
    BY <1>1 DEF AnyCall, CallPcs
  <2> HIDE DEF a
  <2>3. k \in AnyCall /\ k.pc = p /\ k.kind = r.kind /\ k.self = r.self /\ k.seen = r.seen /\ k.raced = r.raced /\ k.rel = v
    BY <1>2, <2>2 DEF AnyCall
  <2> HIDE DEF k, r
  <2>4. CallOk(k, hub, disk, proc, release, overtaken)
    BY <1>1, <1>2, <1>5, <2>3 DEF CallOk, Update!Fetching
  <2>5. QED
    BY <1>1, <2>1, <2>3, <2>4, OneCalls
<1>6. QED
  BY <1>3, <1>4, <1>5

\* The answer of a check: it is what every caller takes from then on.
LEMMA SetCacheKeeps == ASSUME UpdateSizes, UpdateInv, NEW c \in Callers, Update!SetCache(c) PROVE UpdateInv'
<1> DEFINE r == caller[c]
<1>1. r \in AnyCall /\ CallOk(r, hub, disk, proc, release, overtaken) /\ r.pc = "set" /\ UNCHANGED <<hub, disk, proc, overtaken>>
  BY CallIs DEF Update!SetCache, Update!At
<1>2. /\ release' = IF r.rel = 0 THEN release ELSE r.rel
      /\ caller' = [d \in Callers |-> IF d = c THEN IF r.kind = "apply" THEN [r EXCEPT !.pc = "take"] ELSE Update!NoCaller
                                      ELSE [caller[d] EXCEPT !.raced = @ \/ caller[d].pc = "take"]]
  BY DEF Update!SetCache
<1>3. release' \in AnyVersion /\ (r.self # 0 => release' \in r.seen)
  <2>1. r.self # 0 => r.rel \in r.seen /\ r.rel # 0
    BY <1>1 DEF CallOk, AnyCall, UpdateSizes
  <2>2. QED
    BY <1>1, <1>2, <2>1 DEF UpdateInv, UpdateTyped, AnyCall
<1>4. ASSUME NEW d \in Callers PROVE caller'[d] \in AnyCall /\ CallOk(caller'[d], hub, disk, proc, release', overtaken)
  <2>1. CASE d = c /\ r.kind # "apply"
    BY <1>2, <2>1, NoCallIs, IdleIsOk
  <2>2. CASE d = c /\ r.kind = "apply"
    <3> DEFINE k == [r EXCEPT !.pc = "take"]
    <3>1. caller'[d] = k
      BY <1>2, <2>2
    <3>2. k \in AnyCall /\ k.pc = "take" /\ k.kind = r.kind /\ k.self = r.self /\ k.seen = r.seen
      BY <1>1 DEF AnyCall, CallPcs
    <3> HIDE DEF k, r
    <3>3. CallOk(k, hub, disk, proc, release', overtaken)
      BY <1>1, <1>3, <2>2, <3>2 DEF CallOk, Update!Fetching
    <3>4. QED
      BY <3>1, <3>2, <3>3
  <2>3. CASE d # c
    <3> DEFINE q == caller[d]
               now == q.raced \/ q.pc = "take"
               k == [q EXCEPT !.raced = now]
    <3>1. caller'[d] = k
      BY <1>2, <2>3
    <3>2. q \in AnyCall /\ CallOk(q, hub, disk, proc, release, overtaken)
      BY CallIs
    <3>3. now \in BOOLEAN
      BY <3>2 DEF AnyCall
    <3>4. now <=> q.raced \/ q.pc = "take"
      OBVIOUS
    <3> HIDE DEF q, now
    <3>5. /\ k \in AnyCall /\ k.pc = q.pc /\ k.kind = q.kind /\ k.self = q.self /\ k.seen = q.seen /\ k.rel = q.rel /\ k.build = q.build
          /\ k.raced = now
      BY <3>2, <3>3 DEF AnyCall
    <3> HIDE DEF k
    <3>6. CallOk(k, hub, disk, proc, release', overtaken)
      BY <3>2, <3>4, <3>5 DEF CallOk, Update!Fetching
    <3>7. QED
      BY <3>1, <3>5, <3>6
  <2>4. QED
    BY <2>1, <2>2, <2>3
<1>5. UpdateTyped'
  <2>1. caller' \in [Callers -> AnyCall]
    BY <1>2, <1>4
  <2>2. QED
    BY <1>1, <1>3, <2>1 DEF UpdateInv, UpdateTyped
<1>6. (\A d \in Callers : CallOk(caller[d], hub, disk, proc, release, overtaken))'
  BY <1>1, <1>4
<1>7. DiskOk(hub, disk, proc, overtaken)'
  BY <1>1 DEF UpdateInv
<1>8. QED
  BY <1>5, <1>6, <1>7 DEF UpdateInv

LEMMA LatestReleaseKeeps == ASSUME UpdateSizes, UpdateInv, NEW c \in Callers, Update!LatestRelease(c) PROVE UpdateInv'
<1> DEFINE r == caller[c]
           a == [r EXCEPT !.pc = "tarball"]
           k == [a EXCEPT !.rel = release]
<1>1. r \in AnyCall /\ CallOk(r, hub, disk, proc, release, overtaken) /\ r.pc = "take" /\ UNCHANGED <<hub, disk, proc, release, overtaken>>
  BY CallIs DEF Update!LatestRelease, Update!At
<1>2. CASE Update!End(c)
  BY <1>1, <1>2, EndCall
<1>3. CASE ~Update!End(c)
  <2>1. release # 0 /\ release > r.self /\ r.self # 0 /\ caller' = [caller EXCEPT ![c] = [r EXCEPT !.pc = "tarball", !.rel = release]]
    BY <1>3 DEF Update!LatestRelease, Update!Become, Update!IsNewer, Update!IsRelease
  <2>2. caller' = [caller EXCEPT ![c] = k]
    BY <1>1, <2>1 DEF AnyCall
  <2>3. release \in AnyVersion /\ release \in Versions
    BY <2>1 DEF UpdateInv, UpdateTyped, AnyVersion
  <2>4. a \in AnyCall /\ a.pc = "tarball" /\ a.kind = r.kind /\ a.self = r.self /\ a.seen = r.seen /\ a.raced = r.raced
    BY <1>1 DEF AnyCall, CallPcs
  <2> HIDE DEF a
  <2>5. k \in AnyCall /\ k.pc = "tarball" /\ k.kind = r.kind /\ k.self = r.self /\ k.seen = r.seen /\ k.raced = r.raced /\ k.rel = release
    BY <2>3, <2>4 DEF AnyCall
  <2> HIDE DEF k, r
  <2>6. CallOk(k, hub, disk, proc, release, overtaken)
    BY <1>1, <2>1, <2>3, <2>5 DEF CallOk, Update!Fetching
  <2>7. QED
    BY <1>1, <2>2, <2>5, <2>6, OneCalls
<1>4. QED
  BY <1>2, <1>3

LEMMA HubFetchKeeps ==
  ASSUME UpdateSizes, UpdateInv, NEW c \in Callers, Update!Download(c) \/ Update!FetchChecksum(c) \/ Update!Extract(c) PROVE UpdateInv'
<1> DEFINE r == caller[c]
<1>1. r \in AnyCall /\ CallOk(r, hub, disk, proc, release, overtaken) /\ UNCHANGED <<hub, disk, proc, release, overtaken>>
  BY CallIs DEF Update!Download, Update!FetchChecksum, Update!Extract
<1>2. PICK p \in {"checksum", "extract", "replace"}, n \in {0, 1} :
        /\ caller' = [caller EXCEPT ![c] = [[r EXCEPT !.pc = p] EXCEPT !.build = n]]
        /\ r.pc \in Update!Fetching
        /\ p \in {"extract", "replace"} => n <= hub.sum[r.rel]
  <2>1. CASE Update!Download(c)
    <3>1. r.pc = "tarball" /\ caller' = [caller EXCEPT ![c] = [r EXCEPT !.pc = "checksum", !.build = hub.bin[r.rel]]]
      BY <2>1 DEF Update!Download, Update!At, Update!Become
    <3>2. r.rel \in Versions
      BY <1>1, <3>1 DEF CallOk, Update!Fetching
    <3>3. hub.bin[r.rel] \in {0, 1}
      BY <3>2 DEF UpdateInv, UpdateTyped, AnyHub
    <3>4. [r EXCEPT !.pc = "checksum", !.build = hub.bin[r.rel]] = [[r EXCEPT !.pc = "checksum"] EXCEPT !.build = hub.bin[r.rel]]
      BY <1>1 DEF AnyCall
    <3>5. QED
      BY <3>1, <3>3, <3>4 DEF Update!Fetching
  <2>2. ASSUME r.pc \in {"checksum", "extract"}, NEW q \in {"extract", "replace"}, caller' = [caller EXCEPT ![c] = [r EXCEPT !.pc = q]],
               r.build <= hub.sum[r.rel]
        PROVE  \E p \in {"checksum", "extract", "replace"}, n \in {0, 1} :
                 /\ caller' = [caller EXCEPT ![c] = [[r EXCEPT !.pc = p] EXCEPT !.build = n]]
                 /\ r.pc \in Update!Fetching
                 /\ p \in {"extract", "replace"} => n <= hub.sum[r.rel]
    <3>1. [r EXCEPT !.pc = q] = [[r EXCEPT !.pc = q] EXCEPT !.build = r.build] /\ r.build \in {0, 1}
      BY <1>1 DEF AnyCall
    <3>2. q \in {"checksum", "extract", "replace"} /\ r.pc \in Update!Fetching
      BY <2>2 DEF Update!Fetching
    <3>3. QED
      BY <2>2, <3>1, <3>2
  <2>3. CASE Update!FetchChecksum(c)
    <3>1. r.pc = "checksum" /\ r.build = hub.sum[r.rel] /\ caller' = [caller EXCEPT ![c] = [r EXCEPT !.pc = "extract"]]
      BY <2>3 DEF Update!FetchChecksum, Update!At, Update!Become, Update!Verifies
    <3>2. r.build <= hub.sum[r.rel]
      BY <1>1, <3>1 DEF AnyCall
    <3>3. QED
      BY <2>2, <3>1, <3>2
  <2>4. CASE Update!Extract(c)
    <3>1. r.pc = "extract" /\ caller' = [caller EXCEPT ![c] = [r EXCEPT !.pc = "replace"]]
      BY <2>4 DEF Update!Extract, Update!At, Update!Become
    <3>2. r.build <= hub.sum[r.rel]
      BY <1>1, <3>1 DEF CallOk
    <3>3. QED
      BY <2>2, <3>1, <3>2
  <2>5. QED
    BY <2>1, <2>3, <2>4
<1> DEFINE a == [r EXCEPT !.pc = p]
           k == [a EXCEPT !.build = n]
<1>3. a \in AnyCall /\ a.pc = p /\ a.kind = r.kind /\ a.self = r.self /\ a.seen = r.seen /\ a.raced = r.raced /\ a.rel = r.rel
  BY <1>1 DEF AnyCall, CallPcs
<1>4. caller' = [caller EXCEPT ![c] = k]
  BY <1>2
<1> HIDE DEF a
<1>5. /\ k \in AnyCall /\ k.pc = p /\ k.kind = r.kind /\ k.self = r.self /\ k.seen = r.seen /\ k.raced = r.raced /\ k.rel = r.rel
      /\ k.build = n
  BY <1>3 DEF AnyCall
<1> HIDE DEF k, r
<1>6. CallOk(k, hub, disk, proc, release, overtaken)
  BY <1>1, <1>2, <1>5 DEF CallOk, Update!Fetching
<1>7. QED
  BY <1>1, <1>4, <1>5, <1>6, OneCalls

\* The new binary: a second caller under way is one that crossed.
LEMMA ReplaceKeeps == ASSUME UpdateSizes, UpdateInv, NEW c \in Callers, Update!Replace(c) PROVE UpdateInv'
<1> DEFINE r == caller[c]
           e == [r EXCEPT !.pc = "restart"]
<1>1. r \in AnyCall /\ CallOk(r, hub, disk, proc, release, overtaken) /\ r.pc = "replace" /\ UNCHANGED <<hub, proc, release>>
  BY CallIs DEF Update!Replace, Update!At
<1>2. disk' = [version |-> r.rel, build |-> r.build] /\ overtaken' = (overtaken \/ \E d \in Callers \ {c} : caller[d].pc # "idle")
  BY DEF Update!Replace
<1>3. e \in AnyCall /\ e.pc = "restart" /\ e.kind = r.kind /\ e.self = r.self /\ e.seen = r.seen
  BY <1>1 DEF AnyCall, CallPcs
<1>4. PICK k \in AnyCall : /\ caller' = [caller EXCEPT ![c] = k]
                           /\ k.pc = "idle" \/ (k.pc = "restart" /\ k.kind = r.kind /\ k.self = r.self /\ k.seen = r.seen /\ r.kind # "command")
  <2>1. CASE r.kind = "command"
    BY <2>1, NoCallIs DEF Update!Replace, Update!End, Update!Become
  <2>2. CASE r.kind # "command"
    BY <2>2, <1>3 DEF Update!Replace, Update!Become
  <2>3. QED
    BY <2>1, <2>2
<1>5. caller' \in [Callers -> AnyCall] /\ caller'[c] = k /\ \A d \in Callers \ {c} : caller'[d] = caller[d]
  BY <1>4 DEF UpdateInv, UpdateTyped
<1>6. r.rel \in Versions /\ r.rel \in AnyVersion /\ r.self \in AnyVersion /\ r.rel > r.self /\ r.build <= hub.sum[r.rel] /\ r.build \in {0, 1}
  BY <1>1 DEF CallOk, AnyCall, AnyVersion, Update!Fetching
<1> HIDE DEF r, e
<1>7. disk' \in AnyDisk /\ disk'.version = r.rel /\ disk'.build = r.build
  BY <1>2, <1>6 DEF AnyDisk
<1>8. overtaken \in BOOLEAN /\ overtaken' \in BOOLEAN /\ (~overtaken' => ~overtaken /\ \A d \in Callers \ {c} : caller[d].pc = "idle")
  BY <1>2 DEF UpdateInv, UpdateTyped
<1>9. UpdateTyped'
  BY <1>1, <1>5, <1>7, <1>8 DEF UpdateInv, UpdateTyped
<1>10. ASSUME NEW d \in Callers PROVE CallOk(caller[d], hub, disk, proc, release, overtaken)'
  <2>1. CASE d = c
    <3>1. CallOk(k, hub, disk', proc, release, overtaken')
      BY <1>1, <1>4 DEF CallOk, Update!Fetching
    <3>2. QED
      BY <1>1, <1>5, <2>1, <3>1
  <2>2. CASE d # c
    <3>1. CallOk(caller[d], hub, disk, proc, release, overtaken)
      BY CallIs
    <3>2. CASE caller[d].pc = "idle"
      <4>1. CallOk(caller[d], hub, disk', proc, release, overtaken')
        BY <3>2, IdleIsOk
      <4>2. QED
        BY <1>1, <1>5, <2>2, <4>1
    <3>3. CASE caller[d].pc # "idle"
      <4>1. overtaken'
        BY <1>2, <2>2, <3>3
      <4>2. CallOk(caller[d], hub, disk', proc, release, overtaken')
        BY <3>1, <4>1 DEF CallOk
      <4>3. QED
        BY <1>1, <1>5, <2>2, <4>2
    <3>4. QED
      BY <3>2, <3>3
  <2>3. QED
    BY <2>1, <2>2
<1>11. DiskOk(hub, disk, proc, overtaken)'
  <2>1. proc.version \in Nat /\ disk.version \in Nat /\ r.rel \in Nat /\ r.self \in Nat
    <3>1. proc.version \in AnyVersion /\ disk.version \in AnyVersion
      BY DEF UpdateInv, UpdateTyped, AnyServer, AnyDisk
    <3>2. QED
      BY <1>6, <3>1, VersionIs
  <2>2. ASSUME proc.up, ~overtaken' PROVE proc.version <= r.rel
    <3>1. ~overtaken
      BY <1>8, <2>2
    <3>2. CASE r.kind # "command"
      BY <1>1, <1>6, <2>1, <3>2 DEF CallOk
    <3>3. CASE r.kind = "command"
      <4>1. r.self = disk.version /\ proc.version <= disk.version
        BY <1>1, <2>2, <3>1, <3>3 DEF CallOk, UpdateInv, DiskOk
      <4>2. QED
        BY <1>6, <2>1, <4>1
    <3>4. QED
      BY <3>2, <3>3
  <2>3. QED
    BY <1>1, <1>6, <1>7, <2>2 DEF DiskOk
<1>12. QED
  BY <1>9, <1>10, <1>11 DEF UpdateInv

\* What the server held ends with it; the commands go on.
LEMMA ForgetKeeps ==
  ASSUME UpdateInv, Update!Forget, UNCHANGED <<hub, disk, overtaken>>, proc' \in AnyServer, DiskOk(hub, disk, proc', overtaken)
  PROVE  UpdateInv'
<1>1. caller' = [c \in Callers |-> IF c \in Update!Requests THEN Update!NoCaller ELSE caller[c]] /\ release' = 0
  BY DEF Update!Forget
<1>2. ASSUME NEW c \in Callers PROVE caller'[c] \in AnyCall /\ CallOk(caller'[c], hub, disk, proc', release', overtaken)
  <2>1. CASE c \in Update!Requests
    BY <1>1, <2>1, NoCallIs, IdleIsOk
  <2>2. CASE c \notin Update!Requests
    <3>1. caller'[c] = caller[c] /\ caller[c].kind = "command"
      BY <1>1, <2>2 DEF Update!Requests
    <3>2. caller[c] \in AnyCall /\ CallOk(caller[c], hub, disk, proc, release, overtaken)
      BY CallIs
    <3>3. CallOk(caller[c], hub, disk, proc', release', overtaken)
      BY <3>1, <3>2 DEF CallOk
    <3>4. QED
      BY <3>1, <3>2, <3>3
  <2>3. QED
    BY <2>1, <2>2
<1>3. UpdateTyped'
  <2>1. caller' \in [Callers -> AnyCall] /\ release' \in AnyVersion
    BY <1>1, <1>2 DEF AnyVersion
  <2>2. QED
    BY <2>1 DEF UpdateInv, UpdateTyped
<1>4. QED
  BY <1>2, <1>3 DEF UpdateInv

LEMMA RestartKeeps == ASSUME UpdateSizes, UpdateInv, NEW c \in Callers, Update!Restart(c) PROVE UpdateInv'
<1>1. Update!Forget /\ UNCHANGED <<hub, disk, overtaken>> /\ proc' = [proc EXCEPT !.version = disk.version]
  BY DEF Update!Restart
<1>2. proc \in AnyServer /\ disk.version \in AnyVersion /\ DiskOk(hub, disk, proc, overtaken)
  BY DEF UpdateInv, UpdateTyped, AnyDisk
<1>3. proc' \in AnyServer /\ proc'.version = disk.version
  BY <1>1, <1>2 DEF AnyServer
<1>4. disk.version <= disk.version
  BY <1>2, VersionIs
<1>5. DiskOk(hub, disk, proc', overtaken)
  BY <1>2, <1>3, <1>4 DEF DiskOk
<1>6. QED
  BY <1>1, <1>3, <1>5, ForgetKeeps

LEMMA StopKeeps == ASSUME UpdateSizes, UpdateInv, Update!Stop PROVE UpdateInv'
<1>1. Update!Forget /\ UNCHANGED <<hub, disk, overtaken>> /\ proc' = [proc EXCEPT !.up = FALSE]
  BY DEF Update!Stop
<1>2. proc' \in AnyServer /\ ~proc'.up
  BY <1>1 DEF UpdateInv, UpdateTyped, AnyServer
<1>3. DiskOk(hub, disk, proc', overtaken)
  BY <1>2 DEF UpdateInv, DiskOk
<1>4. QED
  BY <1>1, <1>2, <1>3, ForgetKeeps

LEMMA StartKeeps == ASSUME UpdateSizes, UpdateInv, Update!Start PROVE UpdateInv'
<1>1. ~proc.up /\ proc' = [up |-> TRUE, version |-> disk.version] /\ UNCHANGED <<hub, disk, release, caller, overtaken>>
  BY DEF Update!Start
<1>2. disk.version \in AnyVersion
  BY DEF UpdateInv, UpdateTyped, AnyDisk
<1>3. proc' \in AnyServer /\ proc'.version = disk.version /\ disk.version <= disk.version
  BY <1>1, <1>2, VersionIs DEF AnyServer
<1>4. UpdateTyped'
  BY <1>1, <1>3 DEF UpdateInv, UpdateTyped
<1>5. (\A c \in Callers : CallOk(caller[c], hub, disk, proc, release, overtaken))'
  BY <1>1 DEF UpdateInv, CallOk
<1>6. DiskOk(hub, disk, proc, overtaken)'
  BY <1>1, <1>3 DEF UpdateInv, DiskOk
<1>7. QED
  BY <1>4, <1>5, <1>6 DEF UpdateInv

\* A release that comes or is withdrawn, or an asset that is replaced, its tarball first.
LEMMA ChangeKeeps ==
  ASSUME UpdateSizes, UpdateInv, NEW h \in AnyHub, Update!Change(h), \A v \in Versions : hub.sum[v] <= h.sum[v]
  PROVE  UpdateInv'
<1>1. /\ hub' = h /\ UNCHANGED <<disk, proc, release, overtaken>>
      /\ caller' = [c \in Callers |-> IF caller[c].pc = "idle" THEN caller[c] ELSE [caller[c] EXCEPT !.seen = @ \cup {h.latest}]]
  BY DEF Update!Change, Update!At
<1>2. \A v \in Versions : hub.sum[v] \in {0, 1} /\ h.sum[v] \in {0, 1}
  BY DEF UpdateInv, UpdateTyped, AnyHub
<1>3. ASSUME NEW c \in Callers PROVE caller'[c] \in AnyCall /\ CallOk(caller'[c], h, disk, proc, release, overtaken)
  <2>1. caller[c] \in AnyCall /\ CallOk(caller[c], hub, disk, proc, release, overtaken)
    BY CallIs
  <2>2. CASE caller[c].pc = "idle"
    BY <1>1, <2>1, <2>2, IdleIsOk
  <2>3. CASE caller[c].pc # "idle"
    <3> DEFINE r == caller[c]
               seen == r.seen \cup {h.latest}
               k == [r EXCEPT !.seen = seen]
    <3>1. caller'[c] = k
      BY <1>1, <2>3
    <3>2. r \in AnyCall /\ CallOk(r, hub, disk, proc, release, overtaken) /\ r.build \in {0, 1}
      BY <2>1 DEF AnyCall
    <3>3. seen \in SUBSET Versions /\ r.seen \subseteq seen /\ h.latest \in seen
      BY <3>2 DEF AnyCall, AnyHub
    <3> HIDE DEF r, seen
    <3>4. /\ k \in AnyCall /\ k.pc = r.pc /\ k.kind = r.kind /\ k.self = r.self /\ k.rel = r.rel /\ k.build = r.build /\ k.raced = r.raced
          /\ k.seen = seen
      BY <3>2, <3>3 DEF AnyCall
    <3> HIDE DEF k
    <3>5. k.pc \in {"extract", "replace"} => k.build <= h.sum[k.rel]
      <4> SUFFICES ASSUME k.pc \in {"extract", "replace"} PROVE k.build <= h.sum[k.rel]
        OBVIOUS
      <4>1. r.rel \in Versions /\ r.build <= hub.sum[r.rel]
        BY <3>2, <3>4 DEF CallOk, Update!Fetching
      <4>2. hub.sum[r.rel] <= h.sum[r.rel] /\ hub.sum[r.rel] \in {0, 1} /\ h.sum[r.rel] \in {0, 1}
        BY <1>2, <4>1
      <4>3. QED
        BY <3>2, <3>4, <4>1, <4>2
    <3>6. CallOk(k, h, disk, proc, release, overtaken)
      BY <3>2, <3>3, <3>4, <3>5 DEF CallOk
    <3>7. QED
      BY <3>1, <3>4, <3>6
  <2>4. QED
    BY <2>2, <2>3
<1>4. UpdateTyped'
  <2>1. caller' \in [Callers -> AnyCall]
    BY <1>1, <1>3
  <2>2. QED
    BY <1>1, <2>1 DEF UpdateInv, UpdateTyped
<1>5. (\A c \in Callers : CallOk(caller[c], hub, disk, proc, release, overtaken))'
  BY <1>1, <1>3
<1>6. DiskOk(hub, disk, proc, overtaken)'
  <2>1. ASSUME disk.version # 0 PROVE disk.build <= h.sum[disk.version]
    <3>1. disk.version \in Versions /\ disk.build \in {0, 1} /\ disk.build <= hub.sum[disk.version]
      BY <2>1 DEF UpdateInv, UpdateTyped, AnyDisk, AnyVersion, DiskOk
    <3>2. hub.sum[disk.version] <= h.sum[disk.version] /\ hub.sum[disk.version] \in {0, 1} /\ h.sum[disk.version] \in {0, 1}
      BY <1>2, <3>1
    <3>3. QED
      BY <3>1, <3>2
  <2>2. QED
    BY <1>1, <2>1 DEF UpdateInv, DiskOk
<1>7. QED
  BY <1>4, <1>5, <1>6 DEF UpdateInv

LEMMA ReleasesKeep ==
  ASSUME UpdateSizes, UpdateInv, NEW v \in Versions, Update!Publish(v) \/ Update!Upload(v) \/ Update!UploadSum(v) PROVE UpdateInv'
<1>1. hub \in AnyHub /\ \A w \in Versions : hub.sum[w] \in {0, 1}
  BY DEF UpdateInv, UpdateTyped, AnyHub
<1>2. CASE Update!Publish(v)
  <2> DEFINE h == [hub EXCEPT !.latest = v]
  <2>1. h \in AnyHub /\ h.sum = hub.sum /\ Update!Change(h)
    BY <1>1, <1>2 DEF AnyHub, Update!Publish
  <2> HIDE DEF h
  <2>2. \A w \in Versions : hub.sum[w] <= h.sum[w]
    BY <1>1, <2>1
  <2>3. QED
    BY <2>1, <2>2, ChangeKeeps
<1>3. CASE Update!Upload(v)
  <2> DEFINE h == [hub EXCEPT !.bin[v] = 1]
  <2>1. h \in AnyHub /\ h.sum = hub.sum /\ Update!Change(h)
    BY <1>1, <1>3 DEF AnyHub, Update!Upload
  <2> HIDE DEF h
  <2>2. \A w \in Versions : hub.sum[w] <= h.sum[w]
    BY <1>1, <2>1
  <2>3. QED
    BY <2>1, <2>2, ChangeKeeps
<1>4. CASE Update!UploadSum(v)
  <2> DEFINE h == [hub EXCEPT !.sum[v] = 1]
  <2>1. h \in AnyHub /\ h.sum = [hub.sum EXCEPT ![v] = 1] /\ Update!Change(h)
    BY <1>1, <1>4 DEF AnyHub, Update!UploadSum
  <2>2. hub.sum \in [Versions -> {0, 1}]
    BY <1>1 DEF AnyHub
  <2> HIDE DEF h
  <2>3. \A w \in Versions : hub.sum[w] <= h.sum[w]
    BY <1>1, <2>1, <2>2
  <2>4. QED
    BY <2>1, <2>3, ChangeKeeps
<1>5. QED
  BY <1>2, <1>3, <1>4

LEMMA UpdateStep == ASSUME UpdateSizes, UpdateInv, [Update!Next]_(Update!vars) PROVE UpdateInv'
<1>1. CASE UNCHANGED Update!vars \/ Update!Tick
  BY <1>1, SameCalls DEF Update!vars, Update!Tick
<1>2. ASSUME NEW c \in Callers, Update!CheckFails(c) \/ Update!ApplyFails(c) \/ Update!RestartFails(c) PROVE UpdateInv'
  BY <1>2, EndCall DEF Update!CheckFails, Update!ApplyFails, Update!RestartFails
<1>3. QED
  BY <1>1, <1>2, AsksKeep, CheckLatestKeeps, SetCacheKeeps, LatestReleaseKeeps, HubFetchKeeps, ReplaceKeeps, RestartKeeps,
     StopKeeps, StartKeeps, ReleasesKeep DEF Update!Next

\* Whatever releases come, are withdrawn or replaced, and wherever the server stops: the binary on disk is one
\* that its release's checksum vouched for and, unless updates crossed, never older than the server that runs;
\* and what is fetched was the latest since it was asked for, unless another answer came between
\* (internal/selfupdate/selfupdate.go).
THEOREM UpdatesSound == ASSUME UpdateSizes PROVE Update!Spec => [](Update!NeverOlder /\ Update!CurrentRelease)
<1>1. Update!Init => UpdateInv
  BY UpdateStarts
<1>2. UpdateInv /\ [Update!Next]_(Update!vars) => UpdateInv'
  BY UpdateStep
<1>3. UpdateInv => Update!NeverOlder /\ Update!CurrentRelease
  <2>1. UpdateInv => Update!CurrentRelease
    BY DEF UpdateInv, CallOk, Update!CurrentRelease
  <2>2. UpdateInv => Update!NeverOlder
    <3>1. UpdateInv => disk.version \in Nat /\ proc.version \in Nat
      BY VersionIs DEF UpdateInv, UpdateTyped, AnyDisk, AnyServer
    <3>2. QED
      BY <3>1 DEF UpdateInv, DiskOk, Update!NeverOlder
  <2>3. QED
    BY <2>1, <2>2
<1>4. QED
  BY <1>1, <1>2, <1>3, PTL DEF Update!Spec

-----------------------------------------------------------------------------
(* The credential of the SimpleFIN source. *)
CONSTANTS ConfigURL, SetupToken, Pasted, IsURL, Askers, Lookbacks, Skews, MaxCalls, MaxCuts
VARIABLES url, asking, claims, asked, answered, asks, cuts, mixed, wasted

Bridge == INSTANCE SimplefinSource WITH
  Callers <- Askers, MaxStops <- MaxCuts, call <- asking, calls <- asks, stops <- cuts

\* What is pasted is not the word that stands for nothing, and the bridge's clock is at most a day
\* ahead: what the margin of MaxLookback is for.
BridgeSizes ==
  /\ Bridge!None \notin Pasted /\ IsURL \in [Pasted -> BOOLEAN]
  /\ Lookbacks \subseteq Int /\ \A k \in Skews : k \in Int /\ k <= 1

SetupTokens == Pasted \cup {SetupToken}
Credentials == Pasted \cup {ConfigURL, SetupToken, Bridge!None}
AnyAsker == [pc : {"idle", "claim", "store", "fetch"}, input : Pasted \cup {Bridge!None}, holds : Credentials]

FinTyped ==
  /\ url \in Credentials /\ answered \in Pasted \cup {Bridge!None}
  /\ asking \in [Askers -> AnyAsker]
  /\ claims \in [SetupTokens -> 0 .. 1] /\ wasted \subseteq SetupTokens
  /\ mixed \in BOOLEAN
  /\ asked \in Int /\ asked <= Bridge!BridgeLimit

\* What a call under way has: something, and a request what was pasted.
AskOk(r) ==
  /\ r.pc = "claim" => r.holds \in SetupTokens
  /\ r.pc \in {"claim", "store"} => r.holds # Bridge!None
  /\ r.pc \in {"claim", "store"} /\ r.input # Bridge!None => r.holds = r.input /\ r.input \in Pasted

\* A token that was claimed, and not for nothing, is in the store or on its way there.
Fed == \A p \in SetupTokens : claims[p] > 0 /\ p \notin wasted =>
         url # Bridge!None \/ \E c \in Askers : p \in Bridge!Holding(c)

\* A fetch claims or stores because there was nothing in the store.
FromNothing(r, u, a) == r.pc \in {"claim", "store"} /\ r.input = Bridge!None => u = Bridge!None /\ a = Bridge!None

\* One call at a time.
OneCall ==
  /\ \A c, d \in Askers : asking[c].pc # "idle" /\ asking[d].pc # "idle" => c = d
  /\ \A c \in Askers : FromNothing(asking[c], url, answered)
  /\ answered # Bridge!None => url = answered

FinInv == FinTyped /\ (\A c \in Askers : AskOk(asking[c])) /\ Fed /\ (~mixed => OneCall)

UnderWay(c) == asking[c].pc # "idle"

LEMMA AtRestIs == Bridge!IdleCall \in AnyAsker /\ Bridge!IdleCall.pc = "idle"
  BY DEF Bridge!IdleCall, AnyAsker, Credentials

LEMMA FinBegins == ASSUME Bridge!Init PROVE FinInv
<1>1. asking = [c \in Askers |-> Bridge!IdleCall] /\ Bridge!IdleCall.pc = "idle" /\ Bridge!IdleCall \in AnyAsker
  BY AtRestIs DEF Bridge!Init
<1>2. FinTyped
  <2>1. claims \in [SetupTokens -> 0 .. 1]
    BY DEF Bridge!Init, SetupTokens
  <2>2. asked \in Int /\ asked <= Bridge!BridgeLimit
    BY DEF Bridge!Init, Bridge!BridgeLimit
  <2>3. asking \in [Askers -> AnyAsker]
    BY <1>1
  <2> QED  BY <2>1, <2>2, <2>3 DEF Bridge!Init, FinTyped, Credentials
<1>3. OneCall /\ \A c \in Askers : AskOk(asking[c])
  BY <1>1 DEF Bridge!Init, OneCall, AskOk, FromNothing
<1>4. Fed
  BY DEF Bridge!Init, Fed, SetupTokens
<1> QED  BY <1>2, <1>3, <1>4 DEF FinInv

\* One call moves on.
LEMMA OneAsks ==
    ASSUME FinInv, NEW c \in Askers, NEW r \in AnyAsker, AskOk(r), asking' = [asking EXCEPT ![c] = r]
    PROVE  /\ asking' \in [Askers -> AnyAsker] /\ asking'[c] = r
           /\ \A d \in Askers : d # c => asking'[d] = asking[d]
           /\ \A d \in Askers : AskOk(asking'[d])
  BY DEF FinInv, FinTyped

\* What a call holds of a token stays accounted for: it holds it on, it is stored, or it is wasted.
LEMMA StaysFed ==
    ASSUME FinInv, NEW c \in Askers, NEW r \in AnyAsker, AskOk(r), asking' = [asking EXCEPT ![c] = r],
           claims' \in [SetupTokens -> 0 .. 1], wasted \subseteq wasted', url # Bridge!None => url' # Bridge!None,
           \A p \in SetupTokens : claims'[p] > 0 => claims[p] > 0 \/ p \in wasted' \/ p \in Bridge!Holding(c)',
           \A p \in Bridge!Holding(c) : p \in wasted' \/ url' # Bridge!None
    PROVE  Fed'
<1>1. SUFFICES ASSUME NEW p \in SetupTokens, claims'[p] > 0, p \notin wasted', url' = Bridge!None
               PROVE  \E d \in Askers : p \in Bridge!Holding(d)'
  BY DEF Fed, SetupTokens
<1>2. DOMAIN claims = DOMAIN claims'
  BY DEF FinInv, FinTyped
<1>3. CASE p \in Bridge!Holding(c)'
  BY <1>3
<1>4. CASE claims[p] > 0
  <2>1. PICK d \in Askers : p \in Bridge!Holding(d)
    BY <1>1, <1>4 DEF FinInv, Fed
  <2>2. d # c
    BY <1>1, <2>1
  <2>3. asking'[d] = asking[d]
    BY <2>2, OneAsks
  <2>4. Bridge!Holding(d)' = Bridge!Holding(d)
    BY <1>2, <2>3 DEF Bridge!Holding
  <2> QED  BY <2>1, <2>4
<1> QED  BY <1>1, <1>3, <1>4

\* A call begins: it is the only one, or the calls are mixed.
LEMMA CallBegins ==
    ASSUME FinInv, NEW c \in Askers, NEW r \in AnyAsker, Bridge!Begins(c, r), AskOk(r),
           ~mixed => FromNothing(r, url, answered),
           UNCHANGED <<url, claims, asked, answered, wasted>>
    PROVE  FinInv'
<1>1. /\ asking' = [asking EXCEPT ![c] = r] /\ mixed' = (mixed \/ \E d \in Askers : UnderWay(d))
      /\ asking[c].pc = "idle"
  BY DEF Bridge!Begins, Bridge!Goto, Bridge!Free, UnderWay
<1>2. /\ asking' \in [Askers -> AnyAsker] /\ asking'[c] = r
      /\ \A d \in Askers : d # c => asking'[d] = asking[d]
      /\ \A d \in Askers : AskOk(asking'[d])
  BY <1>1, OneAsks
<1>3. mixed' \in BOOLEAN
  BY <1>1 DEF FinInv, FinTyped
<1>4. FinTyped'
  BY <1>2, <1>3 DEF FinInv, FinTyped, SetupTokens, Credentials
<1>5. Fed'
  <2>1. Bridge!Holding(c) = {} /\ claims' \in [SetupTokens -> 0 .. 1] /\ claims' = claims
    BY <1>1 DEF Bridge!Holding, FinInv, FinTyped
  <2> QED  BY <1>1, <2>1, StaysFed
<1>6. ASSUME ~mixed' PROVE OneCall'
  <2>1. ~mixed /\ \A d \in Askers : asking[d].pc = "idle"
    BY <1>1, <1>6 DEF UnderWay
  <2>2. OneCall
    BY <2>1 DEF FinInv
  <2>3. \A d \in Askers : d # c => asking'[d].pc = "idle"
    BY <1>2, <2>1
  <2>4. \A d \in Askers : FromNothing(asking[d], url, answered)'
    BY <1>2, <2>1, <2>3 DEF FromNothing
  <2> QED  BY <2>2, <2>3, <2>4 DEF OneCall
<1> QED  BY <1>2, <1>4, <1>5, <1>6 DEF FinInv, AskOk

LEMMA ResolveKeeps ==
    ASSUME FinInv, BridgeSizes, NEW c \in Askers, Bridge!ResolveAccessURL(c)
    PROVE  FinInv'
<1> DEFINE g == [Bridge!IdleCall EXCEPT !.pc = "fetch"]
           f == [g EXCEPT !.holds = url]
           r == IF url # Bridge!None THEN f ELSE Bridge!Unset
<1>1. url \in Credentials
  BY DEF FinInv, FinTyped
<1>2. Bridge!IdleCall \in AnyAsker /\ Bridge!IdleCall.pc = "idle"
  BY AtRestIs
<1>3. g \in AnyAsker /\ g.pc = "fetch"
  BY <1>2 DEF AnyAsker
<1> HIDE DEF g
<1>4. f \in AnyAsker /\ f.pc = "fetch"
  BY <1>1, <1>3 DEF AnyAsker
<1>5. f = [Bridge!IdleCall EXCEPT !.pc = "fetch", !.holds = url]
  BY <1>2 DEF g, AnyAsker
<1> HIDE DEF f
<1>6. /\ Bridge!Unset \in AnyAsker
      /\ Bridge!Unset.pc = "claim" => Bridge!Unset.holds = SetupToken
      /\ Bridge!Unset.pc \in {"claim", "store"} => Bridge!Unset.holds # Bridge!None /\ Bridge!Unset.input = Bridge!None
  BY <1>2 DEF Bridge!Unset, AnyAsker, Credentials
<1>7. Bridge!Begins(c, r) /\ UNCHANGED <<url, claims, asked, answered, wasted>>
  BY <1>5 DEF Bridge!ResolveAccessURL
<1>8. r \in AnyAsker /\ AskOk(r)
  <2>1. AskOk(f)
    BY <1>4 DEF AskOk
  <2>2. AskOk(Bridge!Unset)
    BY <1>6 DEF AskOk, SetupTokens
  <2> QED  BY <1>4, <1>6, <2>1, <2>2
<1>9. ASSUME ~mixed PROVE FromNothing(r, url, answered)
  <2>1. answered # Bridge!None => url = answered
    BY <1>9 DEF FinInv, OneCall
  <2>2. CASE url # Bridge!None
    BY <1>4, <2>2 DEF FromNothing
  <2>3. CASE url = Bridge!None
    BY <1>6, <2>1, <2>3 DEF FromNothing
  <2> QED  BY <2>2, <2>3
<1> HIDE DEF r
<1> QED  BY <1>7, <1>8, <1>9, CallBegins

LEMMA SetCredentialKeeps ==
    ASSUME FinInv, BridgeSizes, NEW c \in Askers, NEW p \in Pasted, Bridge!SetCredential(c, p)
    PROVE  FinInv'
<1> DEFINE r == [pc |-> IF IsURL[p] THEN "store" ELSE "claim", input |-> p, holds |-> p]
<1>1. r \in AnyAsker /\ r.holds = p /\ r.input = p
  BY DEF AnyAsker, Credentials
<1>2. Bridge!Begins(c, r) /\ UNCHANGED <<url, claims, asked, answered, wasted>>
  BY DEF Bridge!SetCredential
<1> HIDE DEF r
<1>3. AskOk(r) /\ FromNothing(r, url, answered)
  BY <1>1 DEF AskOk, FromNothing, BridgeSizes, SetupTokens
<1> QED  BY <1>1, <1>2, <1>3, CallBegins

LEMMA ClaimKeeps ==
    ASSUME FinInv, NEW c \in Askers, Bridge!Claim(c)
    PROVE  FinInv'
<1> DEFINE token == asking[c].holds
           s == [asking[c] EXCEPT !.pc = "store"]
<1>1. asking[c].pc = "claim" /\ UNCHANGED <<url, asked, answered, mixed>> /\ Bridge!Holding(c) = {}
  BY DEF Bridge!Claim, Bridge!Holding
<1>2. asking[c] \in AnyAsker /\ AskOk(asking[c]) /\ token \in SetupTokens
  BY <1>1 DEF FinInv, FinTyped, AskOk
<1>3. s \in AnyAsker /\ s.pc = "store" /\ s.holds = asking[c].holds /\ s.input = asking[c].input
  BY <1>2 DEF AnyAsker
<1>4. Bridge!IdleCall \in AnyAsker /\ Bridge!IdleCall.pc = "idle"
  BY AtRestIs
<1>5. /\ \/ claims' = [claims EXCEPT ![token] = 1] /\ wasted' = wasted /\ asking' = [asking EXCEPT ![c] = s]
         \/ claims' = [claims EXCEPT ![token] = 1] /\ wasted' = wasted \cup {token} /\ asking' = [asking EXCEPT ![c] = Bridge!IdleCall]
         \/ UNCHANGED <<claims, wasted>> /\ asking' = [asking EXCEPT ![c] = Bridge!IdleCall]
  BY DEF Bridge!Claim, Bridge!Goto
<1> HIDE DEF token
<1>6. PICK r \in {s, Bridge!IdleCall} : asking' = [asking EXCEPT ![c] = r]
  BY <1>5
<1>7. AskOk(s) /\ AskOk(Bridge!IdleCall) /\ r \in AnyAsker
  BY <1>1, <1>2, <1>3, <1>4 DEF AskOk
<1> HIDE DEF s
<1>8. /\ asking' \in [Askers -> AnyAsker] /\ asking'[c] = r
      /\ \A d \in Askers : d # c => asking'[d] = asking[d]
      /\ \A d \in Askers : AskOk(asking'[d])
  BY <1>6, <1>7, OneAsks
<1>9. claims' \in [SetupTokens -> 0 .. 1] /\ wasted' \subseteq SetupTokens /\ wasted \subseteq wasted'
  BY <1>2, <1>5 DEF FinInv, FinTyped
<1>10. FinTyped'
  BY <1>1, <1>8, <1>9 DEF FinInv, FinTyped, SetupTokens, Credentials
<1>11. Fed'
  <2>1. \A p \in SetupTokens : claims'[p] > 0 => claims[p] > 0 \/ p \in wasted' \/ p \in Bridge!Holding(c)'
    <3>1. ASSUME claims' = [claims EXCEPT ![token] = 1], asking' = [asking EXCEPT ![c] = s] PROVE token \in Bridge!Holding(c)'
      <4>1. asking'[c] = s
        BY <3>1 DEF FinInv, FinTyped
      <4>2. token \in DOMAIN claims'
        BY <1>2, <1>9
      <4> QED  BY <1>3, <4>1, <4>2 DEF Bridge!Holding, token
    <3>2. claims \in [SetupTokens -> 0 .. 1]
      BY DEF FinInv, FinTyped
    <3> QED  BY <1>2, <1>5, <3>1, <3>2
  <2> QED  BY <1>1, <1>6, <1>7, <1>9, <2>1, StaysFed
<1>12. ASSUME ~mixed PROVE OneCall'
  <2>1. OneCall
    BY <1>12 DEF FinInv
  <2>2. \A d \in Askers : d # c => asking'[d] = asking[d] /\ asking[d].pc = "idle"
    BY <1>1, <1>8, <2>1 DEF OneCall
  <2>3. FromNothing(s, url, answered) /\ FromNothing(Bridge!IdleCall, url, answered)
    BY <1>1, <1>3, <1>4, <2>1 DEF OneCall, FromNothing
  <2>4. \A d \in Askers : FromNothing(asking[d], url, answered)'
    BY <1>1, <1>6, <1>8, <2>1, <2>2, <2>3 DEF OneCall
  <2> QED  BY <1>1, <2>1, <2>2, <2>4 DEF OneCall
<1> QED  BY <1>1, <1>8, <1>10, <1>11, <1>12 DEF FinInv, AskOk

\* A call ends or goes to its fetch: what it held is in the store, or wasted.
LEMMA CallEnds ==
    ASSUME FinInv, NEW c \in Askers, NEW r \in AnyAsker, r.pc \in {"idle", "fetch"},
           asking' = [asking EXCEPT ![c] = r], UnderWay(c),
           url' \in Credentials, answered' \in Pasted \cup {Bridge!None}, asked' \in Int, asked' <= Bridge!BridgeLimit,
           claims' = claims, mixed' = mixed, wasted \subseteq wasted', wasted' \subseteq SetupTokens,
           url # Bridge!None => url' # Bridge!None,
           \A p \in Bridge!Holding(c) : p \in wasted' \/ url' # Bridge!None,
           ~mixed => (answered' # Bridge!None => url' = answered')
    PROVE  FinInv'
<1>1. AskOk(r)
  BY DEF AskOk
<1>2. /\ asking' \in [Askers -> AnyAsker] /\ asking'[c] = r
      /\ \A d \in Askers : d # c => asking'[d] = asking[d]
      /\ \A d \in Askers : AskOk(asking'[d])
  BY <1>1, OneAsks
<1>3. FinTyped'
  BY <1>2 DEF FinInv, FinTyped, SetupTokens, Credentials
<1>4. Fed'
  BY <1>1, StaysFed DEF FinInv, FinTyped
<1>5. ASSUME ~mixed PROVE OneCall'
  <2>1. OneCall
    BY <1>5 DEF FinInv
  <2>2. \A d \in Askers : d # c => asking'[d].pc = "idle"
    BY <1>2, <2>1 DEF OneCall, UnderWay
  <2>3. \A d \in Askers : FromNothing(asking[d], url, answered)'
    BY <1>2, <2>2 DEF FromNothing
  <2> QED  BY <1>2, <1>5, <2>2, <2>3 DEF OneCall
<1> QED  BY <1>2, <1>3, <1>4, <1>5 DEF FinInv, AskOk

\* What a call stores is something, and what it may waste is a token.
LEMMA StoresSome ==
    ASSUME FinInv, NEW c \in Askers, asking[c].pc = "store"
    PROVE  /\ asking[c] \in AnyAsker /\ asking[c].holds # Bridge!None /\ asking[c].holds \in Credentials
           /\ Bridge!Holding(c) \subseteq SetupTokens /\ UnderWay(c)
<1>1. asking[c] \in AnyAsker /\ AskOk(asking[c]) /\ DOMAIN claims = SetupTokens
  BY DEF FinInv, FinTyped
<1> QED  BY <1>1 DEF AnyAsker, AskOk, Bridge!Holding, UnderWay

LEMMA StoreResolvedKeeps ==
    ASSUME FinInv, NEW c \in Askers, Bridge!StoreResolved(c)
    PROVE  FinInv'
<1> DEFINE r == [asking[c] EXCEPT !.pc = "fetch"]
<1>1. /\ asking[c].pc = "store" /\ asking[c].input = Bridge!None /\ asking' = [asking EXCEPT ![c] = r]
      /\ UNCHANGED <<claims, asked, answered, mixed>>
      /\ \/ url' = asking[c].holds /\ wasted' = wasted
         \/ url' = url /\ wasted' = wasted \cup Bridge!Holding(c)
  BY DEF Bridge!StoreResolved, Bridge!Goto
<1>2. r \in AnyAsker /\ r.pc = "fetch"
  BY <1>1, StoresSome DEF AnyAsker
<1>3. ~mixed => answered = Bridge!None
  BY <1>1 DEF FinInv, OneCall, FromNothing
<1> HIDE DEF r
<1>4. /\ url' \in Credentials /\ wasted \subseteq wasted' /\ wasted' \subseteq SetupTokens
      /\ url # Bridge!None => url' # Bridge!None
      /\ \A p \in Bridge!Holding(c) : p \in wasted' \/ url' # Bridge!None
  BY <1>1, StoresSome DEF FinInv, FinTyped
<1> QED  BY <1>1, <1>2, <1>3, <1>4, StoresSome, CallEnds DEF FinInv, FinTyped

LEMMA StorePastedKeeps ==
    ASSUME FinInv, BridgeSizes, NEW c \in Askers, Bridge!StorePasted(c)
    PROVE  FinInv'
<1>1. /\ asking[c].pc = "store" /\ asking[c].input # Bridge!None /\ asking' = [asking EXCEPT ![c] = Bridge!IdleCall]
      /\ UNCHANGED <<claims, asked, mixed>>
      /\ \/ url' = asking[c].holds /\ answered' = asking[c].input /\ wasted' = wasted
         \/ UNCHANGED <<url, answered>> /\ wasted' = wasted \cup Bridge!Holding(c)
  BY DEF Bridge!StorePasted, Bridge!Goto
<1>2. asking[c].holds = asking[c].input /\ asking[c].input \in Pasted
  BY <1>1 DEF FinInv, AskOk
<1>3. /\ url \in Credentials /\ answered \in Pasted \cup {Bridge!None} /\ asked \in Int /\ asked <= Bridge!BridgeLimit
      /\ wasted \subseteq SetupTokens /\ (~mixed => (answered # Bridge!None => url = answered))
  BY DEF FinInv, FinTyped, OneCall
<1>4. /\ url' \in Credentials /\ answered' \in Pasted \cup {Bridge!None} /\ wasted \subseteq wasted' /\ wasted' \subseteq SetupTokens
      /\ url # Bridge!None => url' # Bridge!None
      /\ \A p \in Bridge!Holding(c) : p \in wasted' \/ url' # Bridge!None
      /\ ~mixed => (answered' # Bridge!None => url' = answered')
  BY <1>1, <1>2, <1>3, StoresSome
<1> QED  BY <1>1, <1>3, <1>4, AtRestIs, StoresSome, CallEnds

LEMMA FetchWindowKeeps ==
    ASSUME FinInv, BridgeSizes, NEW c \in Askers, Bridge!FetchWindow(c)
    PROVE  FinInv'
<1>1. /\ asking[c].pc = "fetch" /\ asking' = [asking EXCEPT ![c] = Bridge!IdleCall]
      /\ UNCHANGED <<url, claims, answered, mixed, wasted>> /\ Bridge!Holding(c) = {} /\ UnderWay(c)
  BY DEF Bridge!FetchWindow, Bridge!Goto, Bridge!Holding, UnderWay
<1>2. asked' \in Int /\ asked' <= Bridge!BridgeLimit
  <2>1. PICK days \in Lookbacks, skew \in Skews :
          asked' = IF days = 0 THEN 0 ELSE (IF days > Bridge!MaxLookback THEN Bridge!MaxLookback ELSE days) + skew
    BY DEF Bridge!FetchWindow
  <2>2. days \in Int /\ skew \in Int /\ skew <= 1
    BY DEF BridgeSizes
  <2>3. Bridge!MaxLookback = 89 /\ Bridge!BridgeLimit = 90
    BY DEF Bridge!MaxLookback, Bridge!BridgeLimit
  <2>4. CASE days = 0
    BY <2>1, <2>3, <2>4
  <2>5. CASE days # 0
    BY <2>1, <2>2, <2>3, <2>5
  <2> QED  BY <2>4, <2>5
<1>3. ~mixed => (answered # Bridge!None => url = answered)
  BY DEF FinInv, OneCall
<1> QED  BY <1>1, <1>2, <1>3, AtRestIs, CallEnds DEF FinInv, FinTyped

LEMMA CutKeeps ==
    ASSUME FinInv, Bridge!Stop
    PROVE  FinInv'
<1>1. /\ asking' = [c \in Askers |-> Bridge!IdleCall] /\ wasted' = wasted \cup UNION {Bridge!Holding(c) : c \in Askers}
      /\ UNCHANGED <<url, claims, asked, answered, mixed>>
  BY DEF Bridge!Stop
<1>2. Bridge!IdleCall \in AnyAsker /\ Bridge!IdleCall.pc = "idle"
  BY AtRestIs
<1>3. wasted' \subseteq SetupTokens
  <2>1. wasted \subseteq SetupTokens /\ DOMAIN claims = SetupTokens
    BY DEF FinInv, FinTyped
  <2>2. \A c \in Askers : Bridge!Holding(c) \subseteq SetupTokens
    BY <2>1 DEF Bridge!Holding
  <2> QED  BY <1>1, <2>1, <2>2
<1>4. FinTyped'
  BY <1>1, <1>2, <1>3 DEF FinInv, FinTyped, SetupTokens, Credentials
<1>5. Fed'
  BY <1>1 DEF FinInv, Fed, SetupTokens
<1>6. \A c \in Askers : AskOk(asking'[c])
  BY <1>1, <1>2 DEF AskOk
<1>7. ASSUME ~mixed' PROVE OneCall'
  BY <1>1, <1>2, <1>7 DEF FinInv, OneCall, FromNothing
<1> QED  BY <1>4, <1>5, <1>6, <1>7 DEF FinInv, AskOk

LEMMA FinStep ==
    ASSUME FinInv, BridgeSizes, [Bridge!Next]_(Bridge!vars)
    PROVE  FinInv'
<1>1. CASE UNCHANGED Bridge!vars
  BY <1>1 DEF Bridge!vars, FinInv, FinTyped, Fed, Bridge!Holding, OneCall, AskOk, FromNothing, SetupTokens, Credentials
<1>2. CASE Bridge!Next
  BY <1>2, ResolveKeeps, ClaimKeeps, StoreResolvedKeeps, FetchWindowKeeps, SetCredentialKeeps, StorePastedKeeps, CutKeeps
  DEF Bridge!Next
<1> QED  BY <1>1, <1>2

\* No request asks for more than the bridge serves. Where the calls come one after another, what a user was
\* last told is set is what is there, whatever fails or stops in between; and however the calls overlap, a
\* setup token whose URL was heard and stored is never claimed in vain: a URL is in the store from then on,
\* and until then a call holds it (resolveAccessURL, SetCredential, Claim, Fetch): for any number of calls
\* and any credentials.
THEOREM AccessIsKept == ASSUME BridgeSizes PROVE Bridge!Spec => []Bridge!AccessKept
<1>1. Bridge!Init => FinInv
  BY FinBegins
<1>2. FinInv /\ [Bridge!Next]_(Bridge!vars) => FinInv'
  BY FinStep
<1>3. FinInv => Bridge!AccessKept
  <2>1. FinTyped => DOMAIN claims = SetupTokens
    BY DEF FinTyped
  <2> QED  BY <2>1 DEF FinInv, FinTyped, Fed, OneCall, Bridge!AccessKept
<1> QED  BY <1>1, <1>2, <1>3, PTL DEF Bridge!Spec

-----------------------------------------------------------------------------
(* The settings that the process is built with. *)
CONSTANTS Environments, ConfigFiles, Stale, Requests, MaxEdits, MaxRestarts
VARIABLES base, overlay, boot, change, edits, starts, promised, fresh, overlapped, resets

Options == INSTANCE Settings WITH Files <- ConfigFiles, rows <- overlay, request <- change, mixed <- overlapped

OptionKeys == {"enabled", "timeout", "level", "secret"}
Canonical(k, v) == Options!Parses(k, v) /\ Options!Canon(k)[v] = v

\* The overrides o that parse, laid over the configuration b.
Laid(b, o) == [k \in OptionKeys |-> IF Options!Parses(k, o[k]) THEN Options!Canon(k)[o[k]] ELSE b[k]]

Underway(r) == change[r] # Options!None

SetTyped ==
  /\ base = [k \in OptionKeys |-> base[k]] /\ overlay = [k \in OptionKeys |-> overlay[k]]
  /\ promised = [k \in OptionKeys |-> promised[k]]
  /\ change = [r \in Requests |-> change[r]]
  /\ overlapped \in BOOLEAN /\ resets \in BOOLEAN /\ fresh \in BOOLEAN

\* What is stored or about to be is in its canonical form, and what was promised is stored.
OptionsKept ==
  /\ \A k \in OptionKeys : Options!Parses(k, overlay[k]) => Canonical(k, overlay[k])
  /\ \A r \in Requests : Underway(r) =>
       change[r][1] \in OptionKeys /\ Canonical(change[r][1], change[r][2])
  /\ \A k \in OptionKeys : promised[k] # Options!None => overlay[k] = promised[k] /\ Canonical(k, promised[k])

\* Requests one after another leave overrides that are valid together, before and after the one under way.
OptionsTogether ==
  /\ \A q, r \in Requests : Underway(q) /\ Underway(r) => q = r
  /\ ~resets => /\ Options!Valid(Laid(base, overlay))
                /\ \A r \in Requests : Underway(r) =>
                     Options!Valid(Laid(base, [overlay EXCEPT ![change[r][1]] = change[r][2]]))

SetInv ==
  /\ SetTyped /\ OptionsKept
  /\ Options!Valid(base) /\ Options!Valid(boot)
  /\ fresh => boot = Options!Apply(overlay)
  /\ ~overlapped => OptionsTogether

-----------------------------------------------------------------------------
(* The texts that a key parses. *)
LEMMA TheKeys == Options!Keys = OptionKeys
  BY DEF Options!Keys, Options!Kind, OptionKeys

LEMMA CanonIsCanonical ==
    ASSUME NEW k \in OptionKeys, NEW raw, Options!Parses(k, raw)
    PROVE  Canonical(k, Options!Canon(k)[raw])
<1>1. CASE k = "enabled"
  BY <1>1 DEF Options!Parses, Options!Canon, Options!Kind, Canonical
<1>2. CASE k = "timeout"
  BY <1>2 DEF Options!Parses, Options!Canon, Options!Kind, Canonical
<1>3. CASE k = "level"
  BY <1>3 DEF Options!Parses, Options!Canon, Options!Kind, Canonical
<1>4. CASE k = "secret"
  BY <1>4 DEF Options!Parses, Options!Canon, Options!Kind, Canonical
<1> QED  BY <1>1, <1>2, <1>3, <1>4 DEF OptionKeys

LEMMA NoneParsesNot == ASSUME NEW k \in OptionKeys PROVE ~Options!Parses(k, Options!None)
<1>1. CASE k = "enabled"
  BY <1>1 DEF Options!Parses, Options!Canon, Options!Kind, Options!None
<1>2. CASE k = "timeout"
  BY <1>2 DEF Options!Parses, Options!Canon, Options!Kind, Options!None
<1>3. CASE k = "level"
  BY <1>3 DEF Options!Parses, Options!Canon, Options!Kind, Options!None
<1>4. CASE k = "secret"
  BY <1>4 DEF Options!Parses, Options!Canon, Options!Kind, Options!None
<1> QED  BY <1>1, <1>2, <1>3, <1>4 DEF OptionKeys

\* Only a level can have been stored in a form that this version's canon does not know.
LEMMA LevelsAreCanonical == \A v : Options!Parses("level", v) => Canonical("level", v)
  BY DEF Options!Parses, Options!Canon, Options!Kind, Canonical

LEMMA OverIsLaid == ASSUME NEW o PROVE Options!Over(o) = Laid(base, o)
  BY TheKeys DEF Options!Over, Laid

\* The validity of a combination hangs on two of the keys.
LEMMA ValidByTwo ==
    ASSUME NEW c, NEW d, c["enabled"] = d["enabled"], c["timeout"] = d["timeout"], Options!Valid(c)
    PROVE  Options!Valid(d)
  BY DEF Options!Valid

LEMMA ApplyIsValid == ASSUME NEW o, Options!Valid(base) PROVE Options!Valid(Options!Apply(o))
  BY DEF Options!Apply

-----------------------------------------------------------------------------
LEMMA SetBegins == ASSUME Options!Init PROVE SetInv
<1>1. /\ overlay = [k \in OptionKeys |-> IF k = "level" THEN Stale ELSE Options!None]
      /\ promised = [k \in OptionKeys |-> Options!None] /\ change = [r \in Requests |-> Options!None]
      /\ boot = Options!Apply(overlay) /\ fresh = TRUE /\ overlapped = FALSE /\ resets = FALSE
  BY TheKeys DEF Options!Init
<1>2. Options!Valid(base) /\ base = [k \in OptionKeys |-> base[k]]
  <2>1. PICK e, f : base = Options!Load(e, f) /\ Options!Starts(e, f)
    BY DEF Options!Init
  <2> QED  BY <2>1, TheKeys DEF Options!Load, Options!Starts
<1>3. SetTyped
  BY <1>1, <1>2 DEF SetTyped
<1>4. OptionsKept
  BY <1>1, NoneParsesNot, LevelsAreCanonical DEF OptionsKept, Underway, OptionKeys
<1>5. OptionsTogether
  <2>1. "enabled" \in OptionKeys /\ "timeout" \in OptionKeys
    BY DEF OptionKeys
  <2>2. Laid(base, overlay)["enabled"] = base["enabled"] /\ Laid(base, overlay)["timeout"] = base["timeout"]
    BY <1>1, <2>1, NoneParsesNot DEF Laid
  <2>3. Options!Valid(Laid(base, overlay))
    BY <1>2, <2>2, ValidByTwo
  <2> QED  BY <1>1, <2>3 DEF OptionsTogether, Underway
<1> QED  BY <1>1, <1>2, <1>3, <1>4, <1>5, ApplyIsValid DEF SetInv

LEMMA OptionSetKeeps ==
    ASSUME SetInv, NEW r \in Requests, NEW k \in OptionKeys, NEW raw, Options!Set(r, k, raw)
    PROVE  SetInv'
<1> DEFINE v == Options!Canon(k)[raw]
<1>1. /\ Options!Parses(k, raw) /\ Options!Valid(Laid(base, [overlay EXCEPT ![k] = raw]))
      /\ overlapped' = (overlapped \/ \E q \in Requests : Underway(q))
      /\ change' = [change EXCEPT ![r] = <<k, v>>]
      /\ UNCHANGED <<base, overlay, boot, promised, fresh, resets>>
  BY OverIsLaid DEF Options!Set, Options!Begins, Options!Free, Underway
<1>2. Canonical(k, v)
  BY <1>1, CanonIsCanonical
<1>3. Options!Valid(Laid(base, [overlay EXCEPT ![k] = v]))
  <2>1. overlay = [j \in OptionKeys |-> overlay[j]] /\ DOMAIN overlay = OptionKeys
    BY DEF SetInv, SetTyped
  <2>2. Options!Canon(k)[v] = v /\ Options!Parses(k, v)
    BY <1>2 DEF Canonical
  <2> HIDE DEF v
  <2>3. \A j \in OptionKeys : /\ [overlay EXCEPT ![k] = raw][j] = IF j = k THEN raw ELSE overlay[j]
                              /\ [overlay EXCEPT ![k] = v][j] = IF j = k THEN v ELSE overlay[j]
    BY <2>1
  <2>4. v = Options!Canon(k)[raw]
    BY DEF v
  <2>5. \A j \in OptionKeys : Laid(base, [overlay EXCEPT ![k] = raw])[j] = Laid(base, [overlay EXCEPT ![k] = v])[j]
    BY <1>1, <2>2, <2>3, <2>4 DEF Laid
  <2>6. "enabled" \in OptionKeys /\ "timeout" \in OptionKeys
    BY DEF OptionKeys
  <2> QED  BY <1>1, <2>5, <2>6, ValidByTwo
<1> HIDE DEF v
<1>4. /\ change' = [q \in Requests |-> change'[q]]
      /\ change'[r][1] = k /\ change'[r][2] = v
      /\ \A q \in Requests : q # r => change'[q] = change[q]
  BY <1>1 DEF SetInv, SetTyped
<1>5. overlapped' \in BOOLEAN
  BY <1>1 DEF SetInv, SetTyped
<1>6. SetTyped'
  BY <1>1, <1>4, <1>5 DEF SetInv, SetTyped
<1>7. OptionsKept'
  <2>1. \A q \in Requests : Underway(q)' => change'[q][1] \in OptionKeys /\ Canonical(change'[q][1], change'[q][2])
    BY <1>2, <1>4 DEF SetInv, OptionsKept, Underway
  <2> QED  BY <1>1, <2>1 DEF SetInv, OptionsKept
<1>8. ASSUME ~overlapped' PROVE OptionsTogether'
  <2>1. ~overlapped /\ \A q \in Requests : ~Underway(q)
    BY <1>1, <1>8
  <2>2. \A q \in Requests : Underway(q)' => q = r
    BY <1>4, <2>1 DEF Underway
  <2>3. ~resets => Options!Valid(Laid(base, overlay))
    BY <2>1 DEF SetInv, OptionsTogether
  <2>4. \A q \in Requests : Underway(q)' => Options!Valid(Laid(base, [overlay EXCEPT ![change'[q][1]] = change'[q][2]]))
    BY <1>3, <1>4, <2>2
  <2> QED  BY <1>1, <2>2, <2>3, <2>4 DEF OptionsTogether
<1>9. fresh' => boot' = Options!Apply(overlay)'
  BY <1>1 DEF SetInv, Options!Apply, Options!Over
<1> QED  BY <1>1, <1>6, <1>7, <1>8, <1>9 DEF SetInv

LEMMA OptionStoreKeeps ==
    ASSUME SetInv, NEW r \in Requests, Options!Store(r)
    PROVE  SetInv'
<1> DEFINE k == change[r][1]
           v == change[r][2]
           gone == Options!Kind[k] = "secret" /\ v = ""
           w == IF gone THEN Options!None ELSE v
<1>1. /\ Underway(r) /\ overlay' = [overlay EXCEPT ![k] = w] /\ promised' = [promised EXCEPT ![k] = overlay'[k]]
      /\ change' = [change EXCEPT ![r] = Options!None] /\ fresh' = FALSE
      /\ UNCHANGED <<base, boot, overlapped, resets>>
  BY DEF Options!Store, Options!Free, Underway
<1>2. k \in OptionKeys /\ Canonical(k, v)
  BY <1>1 DEF SetInv, OptionsKept
<1> HIDE DEF k, v
<1>3. gone => k = "secret"
  <2>1. k \in {"enabled", "timeout", "level", "secret"}
    BY <1>2 DEF OptionKeys
  <2>2. Options!Kind["enabled"] # "secret" /\ Options!Kind["timeout"] # "secret" /\ Options!Kind["level"] # "secret"
    BY DEF Options!Kind
  <2> QED  BY <2>1, <2>2
<1> HIDE DEF gone
<1>4. /\ overlay' = [j \in OptionKeys |-> overlay'[j]] /\ promised' = [j \in OptionKeys |-> promised'[j]]
      /\ overlay'[k] = w /\ promised'[k] = w
      /\ \A j \in OptionKeys : j # k => overlay'[j] = overlay[j] /\ promised'[j] = promised[j]
      /\ change' = [q \in Requests |-> change'[q]] /\ ~Underway(r)'
      /\ \A q \in Requests : q # r => change'[q] = change[q]
  BY <1>1, <1>2 DEF SetInv, SetTyped, Underway
<1> HIDE DEF w
<1>5. w = Options!None \/ Canonical(k, w)
  BY <1>2 DEF w
<1>6. SetTyped'
  BY <1>1, <1>4 DEF SetInv, SetTyped
<1>7. OptionsKept'
  <2>1. \A j \in OptionKeys : Options!Parses(j, overlay'[j]) => Canonical(j, overlay'[j])
    BY <1>2, <1>4, <1>5, NoneParsesNot DEF SetInv, OptionsKept
  <2>2. \A q \in Requests : Underway(q)' => change'[q][1] \in OptionKeys /\ Canonical(change'[q][1], change'[q][2])
    BY <1>4 DEF SetInv, OptionsKept, Underway
  <2>3. \A j \in OptionKeys : promised'[j] # Options!None => overlay'[j] = promised'[j] /\ Canonical(j, promised'[j])
    BY <1>4, <1>5 DEF SetInv, OptionsKept
  <2> QED  BY <2>1, <2>2, <2>3 DEF OptionsKept
<1>8. ASSUME ~overlapped' PROVE OptionsTogether'
  <2>1. ~overlapped /\ OptionsTogether
    BY <1>1, <1>8 DEF SetInv
  <2>2. \A q \in Requests : ~Underway(q)'
    BY <1>1, <1>4, <2>1 DEF OptionsTogether, Underway
  <2>3. ASSUME ~resets PROVE Options!Valid(Laid(base, overlay'))
    <3>1. Options!Valid(Laid(base, [overlay EXCEPT ![k] = v]))
      BY <1>1, <2>1, <2>3 DEF OptionsTogether, k, v
    <3>2. CASE ~gone
      BY <1>1, <3>1, <3>2 DEF w
    <3>3. CASE gone
      <4>1. "enabled" \in OptionKeys /\ "timeout" \in OptionKeys /\ k # "enabled" /\ k # "timeout"
        BY <1>3, <3>3 DEF OptionKeys
      <4>2. \A j \in OptionKeys : j # k => [overlay EXCEPT ![k] = v][j] = overlay[j]
        BY DEF SetInv, SetTyped
      <4>3. \A j \in OptionKeys : j # k => Laid(base, [overlay EXCEPT ![k] = v])[j] = Laid(base, overlay')[j]
        BY <1>4, <4>2 DEF Laid
      <4> QED  BY <3>1, <4>1, <4>3, ValidByTwo
    <3> QED  BY <3>2, <3>3
  <2> QED  BY <1>1, <2>2, <2>3 DEF OptionsTogether
<1> QED  BY <1>1, <1>6, <1>7, <1>8 DEF SetInv

LEMMA OptionStoreFails ==
    ASSUME SetInv, NEW r \in Requests, Options!StoreFails(r)
    PROVE  SetInv'
<1>1. /\ change' = [change EXCEPT ![r] = Options!None]
      /\ UNCHANGED <<base, overlay, boot, promised, fresh, overlapped, resets>>
  BY DEF Options!StoreFails
<1>2. /\ change' = [q \in Requests |-> change'[q]]
      /\ \A q \in Requests : Underway(q)' => q # r /\ change'[q] = change[q] /\ Underway(q)
  BY <1>1 DEF SetInv, SetTyped, Underway
<1>3. SetTyped' /\ OptionsKept'
  BY <1>1, <1>2 DEF SetInv, SetTyped, OptionsKept
<1>4. OptionsTogether => OptionsTogether'
  BY <1>1, <1>2 DEF OptionsTogether
<1>5. fresh' => boot' = Options!Apply(overlay)'
  BY <1>1 DEF SetInv, Options!Apply, Options!Over
<1> QED  BY <1>1, <1>3, <1>4, <1>5 DEF SetInv

LEMMA OptionResetKeeps ==
    ASSUME SetInv, NEW r \in Requests, NEW k \in OptionKeys, Options!Reset(r, k)
    PROVE  SetInv'
<1>1. /\ overlay' = [overlay EXCEPT ![k] = Options!None] /\ promised' = [promised EXCEPT ![k] = Options!None]
      /\ overlapped' = (overlapped \/ \E q \in Requests : Underway(q))
      /\ resets' = TRUE /\ fresh' = FALSE /\ UNCHANGED <<base, boot, change>>
  BY DEF Options!Reset, Options!Begins, Options!Free, Underway
<1>2. overlapped' \in BOOLEAN
  BY <1>1 DEF SetInv, SetTyped
<1>3. /\ overlay' = [j \in OptionKeys |-> overlay'[j]] /\ promised' = [j \in OptionKeys |-> promised'[j]]
      /\ overlay'[k] = Options!None /\ promised'[k] = Options!None
      /\ \A j \in OptionKeys : j # k => overlay'[j] = overlay[j] /\ promised'[j] = promised[j]
  BY <1>1 DEF SetInv, SetTyped
<1>4. SetTyped'
  BY <1>1, <1>2, <1>3 DEF SetInv, SetTyped
<1>5. OptionsKept'
  BY <1>1, <1>3, NoneParsesNot DEF SetInv, OptionsKept, Underway
<1>6. ~overlapped' => OptionsTogether'
  BY <1>1 DEF SetInv, OptionsTogether, Underway
<1> QED  BY <1>1, <1>4, <1>5, <1>6 DEF SetInv

\* A start with the overrides or without: what was under way is lost.
LEMMA OptionStartKeeps ==
    ASSUME SetInv, Options!Restart \/ Options!RestartBlind
    PROVE  SetInv'
<1>1. /\ change' = [q \in Requests |-> Options!None] /\ UNCHANGED <<base, overlay, promised, overlapped, resets>>
      /\ \/ boot' = Options!Apply(overlay) /\ fresh' = TRUE
         \/ boot' = base /\ fresh' = FALSE
  BY DEF Options!Restart, Options!RestartBlind, Options!StartsWith
<1>2. \A q \in Requests : ~Underway(q)'
  BY <1>1 DEF Underway
<1>3. SetTyped' /\ OptionsKept'
  BY <1>1, <1>2 DEF SetInv, SetTyped, OptionsKept
<1>4. OptionsTogether => OptionsTogether'
  BY <1>1, <1>2 DEF OptionsTogether
<1>5. Options!Valid(boot')
  BY <1>1, ApplyIsValid DEF SetInv
<1>6. fresh' => boot' = Options!Apply(overlay)'
  BY <1>1 DEF Options!Apply, Options!Over
<1> QED  BY <1>1, <1>3, <1>4, <1>5, <1>6 DEF SetInv

LEMMA SetStep ==
    ASSUME SetInv, [Options!Next]_(Options!vars)
    PROVE  SetInv'
<1>1. CASE UNCHANGED Options!vars
  BY <1>1 DEF Options!vars, SetInv, SetTyped, OptionsKept, OptionsTogether, Underway, Options!Apply, Options!Over
<1>2. CASE Options!Next
  BY <1>2, TheKeys, OptionSetKeeps, OptionStoreKeeps, OptionStoreFails, OptionResetKeeps, OptionStartKeeps
  DEF Options!Next
<1> QED  BY <1>1, <1>2

LEMMA SetSays ==
    ASSUME SetInv
    PROVE  Options!BootIsSound /\ Options!ListedIsNext /\ Options!OverridesKept
<1>1. ASSUME ~overlapped, ~resets PROVE Options!Apply(overlay) = Laid(base, overlay)
  BY <1>1, OverIsLaid DEF SetInv, OptionsTogether, Options!Apply
<1>2. ASSUME NEW k \in OptionKeys
      PROVE  Laid(base, overlay)[k] = IF Options!Parses(k, overlay[k]) THEN overlay[k] ELSE base[k]
  BY DEF SetInv, OptionsKept, Canonical, Laid
<1>3. ASSUME ~overlapped, ~resets, NEW k \in OptionKeys, overlay[k] = Options!None \/ Options!Parses(k, overlay[k])
      PROVE  Options!Next_(k) = Options!Apply(overlay)[k]
  BY <1>1, <1>2, <1>3, NoneParsesNot DEF Options!Next_
<1>4. Options!ListedIsNext
  BY <1>3, TheKeys DEF Options!ListedIsNext, Options!RestartRequired
<1>5. ASSUME ~resets, fresh, ~overlapped, NEW k \in OptionKeys, promised[k] # Options!None
      PROVE  boot[k] = promised[k]
  <2>1. overlay[k] = promised[k] /\ Options!Parses(k, overlay[k])
    BY <1>5 DEF SetInv, OptionsKept, Canonical
  <2>2. boot = Laid(base, overlay)
    BY <1>1, <1>5 DEF SetInv
  <2> QED  BY <1>2, <2>1, <2>2
<1>6. Options!OverridesKept
  BY <1>5, TheKeys DEF Options!OverridesKept, Options!OverridesWin
<1> QED  BY <1>4, <1>6 DEF SetInv, Options!BootIsSound

\* The process always starts with a configuration that Validate accepts (Apply); unless requests
\* overlap or a setting is reset, the listing says of each key what the next start makes of it (statusFor),
\* and a change is in force after every start that read it (Set): for any number of requests and starts,
\* any environment and any file.
THEOREM SettingsSound == Options!Spec => [](Options!BootIsSound /\ Options!ListedIsNext /\ Options!OverridesKept)
<1>1. Options!Init => SetInv
  BY SetBegins
<1>2. SetInv /\ [Options!Next]_(Options!vars) => SetInv'
  BY SetStep
<1>3. SetInv => Options!BootIsSound /\ Options!ListedIsNext /\ Options!OverridesKept
  BY SetSays
<1> QED  BY <1>1, <1>2, <1>3, PTL DEF Options!Spec

=============================================================================
