----------------------------- MODULE DbMigrate -----------------------------
(* The copy of a SQLite ledger into a Postgres database, table by table in one transaction,
   while the server goes on writing; a second copy of it beside the first; and the restart on
   the copy.  The tables are a parent, its child and a table with an identity sequence. *)
EXTENDS Integers, FiniteSets, Sequences

CONSTANTS
  Accounts, AccountOf,   \* of each transaction
  Copiers,
  MaxEvents, MaxPrunes   \* bounds

VARIABLES
  src,       \* the source: its tables, and the last event id it gave
  dst,       \* the destination as committed, and the next event id of its sequence
  copier,
  prunes,
  foreign,   \* the destination held a ledger before
  switched   \* the server runs on the destination
vars == <<src, dst, copier, prunes, foreign, switched>>

Tables == <<"accounts", "transactions", "events">>
Transactions == DOMAIN AccountOf
TableNames == {"accounts", "transactions", "events"}
None == [t \in TableNames |-> {}]
NoCopier == [pc |-> "idle", table |-> 1, read |-> {}, rows |-> None, always |-> None, ever |-> None, last |-> 0, crossed |-> FALSE]

Held == [accounts |-> Accounts, transactions |-> Transactions, events |-> 0 .. MaxEvents + 1]
TypeOK ==
  /\ src.last \in 0 .. MaxEvents /\ dst.next \in 1 .. MaxEvents + 2
  /\ \A t \in TableNames : src.rows[t] \subseteq Held[t] /\ dst.rows[t] \subseteq Held[t]
  /\ \A c \in Copiers : copier[c].pc \in {"idle", "schema", "check", "read", "insert", "identity", "commit", "done", "failed"}

-----------------------------------------------------------------------------
(* The server on the source: each write is one transaction, its event last. *)

Watched(rows) == [c \in Copiers |->
  IF copier[c].pc \in {"idle", "done", "failed"} THEN copier[c]
  ELSE [copier[c] EXCEPT !.always = [t \in TableNames |-> @[t] \cap rows[t]], !.ever = [t \in TableNames |-> @[t] \cup rows[t]]]]
ToSource(rows, last) ==
  /\ ~switched /\ src' = [rows |-> rows, last |-> last] /\ copier' = Watched(rows)
  /\ UNCHANGED <<dst, foreign, switched>>
Logged(rows) == [rows EXCEPT !["events"] = @ \cup {src.last + 1}]
Write(t) ==
  /\ src.last < MaxEvents /\ UNCHANGED prunes
  /\ ToSource(Logged([src.rows EXCEPT !["accounts"] = @ \cup {AccountOf[t]}, !["transactions"] = @ \cup {t}]), src.last + 1)
Delete(t) ==
  /\ src.last < MaxEvents /\ t \in src.rows["transactions"] /\ UNCHANGED prunes
  /\ ToSource(Logged([src.rows EXCEPT !["transactions"] = @ \ {t}]), src.last + 1)
Prune(n) ==
  /\ prunes < MaxPrunes /\ prunes' = prunes + 1 /\ n \in src.rows["events"]
  /\ ToSource([src.rows EXCEPT !["events"] = {e \in @ : e > n}], src.last)

-----------------------------------------------------------------------------
(* A copy. *)

Become(c, r) == copier' = [copier EXCEPT ![c] = r]
Other(c) == Copiers \ {c}
Open == {"read", "insert", "identity", "commit"}
KeepAll == UNCHANGED <<src, prunes, foreign, switched>>

Migrate(c) ==
  /\ copier[c].pc = "idle" /\ KeepAll /\ UNCHANGED dst
  /\ Become(c, [NoCopier EXCEPT !.pc = "schema", !.always = src.rows, !.ever = src.rows])
\* Asked of the server or as a command; refused on Postgres.
HandleMigrate(c) == ~switched /\ Migrate(c)
Command(c) == ~switched /\ Migrate(c)
ApplyMigrations(c) ==
  /\ copier[c].pc = "schema" /\ Become(c, [copier[c] EXCEPT !.pc = "check"]) /\ KeepAll /\ UNCHANGED dst
\* The check is a query per table; what is committed between two of them is met by the inserts.
Unchecked(rows) == TRUE
IsEmpty(rows) == \A t \in TableNames : rows[t] = {}
EnsureEmpty(c) ==
  /\ copier[c].pc = "check" /\ KeepAll /\ UNCHANGED dst
  /\ Become(c, [copier[c] EXCEPT !.pc = IF IsEmpty(dst.rows) THEN "read" ELSE "failed"])
\* The rows of a table are those of one query's snapshot ...
ReadTable(c) ==
  /\ copier[c].pc = "read"
  /\ Become(c, [copier[c] EXCEPT !.pc = "insert", !.read = src.rows[Tables[copier[c].table]],
                                 !.last = IF Tables[copier[c].table] = "events" THEN src.last ELSE 0])
  /\ KeepAll /\ UNCHANGED dst
\* ... and their keys are waited for while another transaction holds one, taken once, with their parents there.
CopyTable(c) ==
  LET r == copier[c]  t == Tables[r.table]
      taken == r.read \cap dst.rows[t] # {}
      orphan == t = "transactions" /\ \E x \in r.read : AccountOf[x] \notin r.rows["accounts"] \cup dst.rows["accounts"]
  IN /\ r.pc = "insert"
     /\ \A d \in Other(c) : copier[d].pc \in Open => r.read \cap copier[d].rows[t] = {}
     /\ Become(c, IF taken \/ orphan THEN [NoCopier EXCEPT !.pc = "failed"]
                  ELSE IF r.table = Len(Tables) THEN [r EXCEPT !.pc = "identity", !.rows[t] = r.read]
                  ELSE [r EXCEPT !.pc = "read", !.table = @ + 1, !.rows[t] = r.read])
     /\ KeepAll /\ UNCHANGED dst
\* The sequence is outside the transaction: what it is set to stays when the copy is rolled back.
LeftAlone(ids) == dst.next
PastHighest(ids) == IF ids = {} THEN 1 ELSE 1 + CHOOSE n \in ids : \A m \in ids : m <= n
ResetIdentity(c) ==
  /\ copier[c].pc = "identity" /\ KeepAll
  /\ copier' = [d \in Copiers |-> IF d = c THEN [copier[c] EXCEPT !.pc = "commit"]
                                  ELSE [copier[d] EXCEPT !.crossed = @ \/ copier[d].pc = "commit"]]
  /\ dst' = [dst EXCEPT !.next = PastHighest(copier[c].rows["events"] \cup dst.rows["events"])]
Commit(c) ==
  /\ copier[c].pc = "commit" /\ KeepAll /\ Become(c, [copier[c] EXCEPT !.pc = "done"])
  /\ dst' = [dst EXCEPT !.rows = [t \in TableNames |-> @[t] \cup copier[c].rows[t]]]
\* An error, the deadline or a stop: the transaction is rolled back.
Fail(c) ==
  /\ copier[c].pc \in {"schema", "check"} \cup Open /\ Become(c, [NoCopier EXCEPT !.pc = "failed"]) /\ KeepAll /\ UNCHANGED dst
\* The operator asks again.
Again(c) == copier[c].pc = "failed" /\ Become(c, NoCopier) /\ KeepAll /\ UNCHANGED dst

-----------------------------------------------------------------------------
(* The server on the destination. *)

Switch ==
  /\ ~switched /\ switched' = TRUE /\ (\E c \in Copiers : copier[c].pc = "done") /\ UNCHANGED <<src, dst, copier, prunes, foreign>>
\* An id that is there already is refused.
Emit ==
  /\ switched /\ dst.next <= MaxEvents + 1 /\ dst.next \notin dst.rows["events"]
  /\ dst' = [rows |-> [dst.rows EXCEPT !["events"] = @ \cup {dst.next}], next |-> dst.next + 1]
  /\ UNCHANGED <<src, copier, prunes, foreign, switched>>

Init ==
  /\ \E t \in SUBSET Transactions : src = [rows |-> [None EXCEPT !["transactions"] = t, !["accounts"] = {AccountOf[x] : x \in t}], last |-> 0]
  /\ \E f \in BOOLEAN : foreign = f /\ dst = [rows |-> IF f THEN [None EXCEPT !["events"] = {0}] ELSE None, next |-> 1]
  /\ copier = [c \in Copiers |-> NoCopier] /\ prunes = 0 /\ switched = FALSE

Next ==
  \/ \E t \in Transactions : Write(t) \/ Delete(t)
  \/ \E n \in 1 .. MaxEvents : Prune(n)
  \/ \E c \in Copiers : \/ HandleMigrate(c) \/ Command(c) \/ ApplyMigrations(c) \/ EnsureEmpty(c) \/ ReadTable(c) \/ CopyTable(c)
                        \/ ResetIdentity(c) \/ Commit(c) \/ Fail(c) \/ Again(c)
  \/ Switch \/ Emit

Spec == Init /\ [][Next]_vars

-----------------------------------------------------------------------------
(* Properties. *)

Done == {c \in Copiers : copier[c].pc = "done"}

\* A copy that reports success has every row that the source held from its start to its end, and only
\* rows the source held meanwhile.
CopyIsWhole ==
  \A c \in Done : \A t \in TableNames :
    copier[c].always[t] \subseteq copier[c].rows[t] /\ copier[c].rows[t] \subseteq copier[c].ever[t]

\* Nothing is copied into a ledger that was there; two copies never mix, unless one of them began before the
\* source had a row that both would insert; no transaction is without its account.
NotMixed ==
  /\ foreign => Done = {} /\ IsEmpty([dst.rows EXCEPT !["events"] = @ \ {0}])
  /\ ~switched => \/ Done = {} /\ (foreign \/ IsEmpty(dst.rows))
                  \/ \E c \in Done : dst.rows = copier[c].rows \/ copier[c].rows["accounts"] = {}
  /\ \A x \in dst.rows["transactions"] : AccountOf[x] \in dst.rows["accounts"]

\* On the copy the event ids go on where the source had stopped when its events were read: unless the last
\* of them had been pruned, when they start again below the cursors of the source's clients, or the sequence
\* was set by another copy in between.
IdsGoOn ==
  \A c \in Done : copier[c].last \in {0} \cup copier[c].rows["events"] /\ ~copier[c].crossed => dst.next > copier[c].last
=============================================================================
