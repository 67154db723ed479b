---------------------------- MODULE PlaidSource ----------------------------
(* The Plaid source: a fetch takes each access token's item in turn, its
   accounts, the institution's name and its transactions page by page from an
   offset, while the bank posts and withdraws transactions.

   A transaction is a number, the newest the greatest; an amount is its sign and
   whether it is zero. *)
EXTENDS TokenSet

CONSTANTS
  Sees,        \* the accounts each token's item lists
  Institution, \* the institution of each token's item
  Owner,       \* the account each transaction is on
  Amount,      \* the amount Plaid gives each transaction
  PageCount,   \* transactions to a page
  MaxPages,    \* pages to a walk
  MaxTxns      \* bound on the transactions of an item

VARIABLES
  items,   \* the transactions each token's item has at the bank
  newest,  \* the last transaction posted to each item
  pull     \* the fetch: where it is, what is left, what it has
vars == <<editVars, items, newest, pull>>

-----------------------------------------------------------------------------
(* The tokens are kept as Teller's are, by a copy of that code. *)

PlaidCredentials == TokensNext

-----------------------------------------------------------------------------
(* Amounts: Plaid's outflows are positive, kasas's negative. *)

\* negateAmount as first written: a zero gets a sign.
NegateAmountPlain(a) == [a EXCEPT !.sign = IF a.sign = "-" THEN "" ELSE "-"]

NegateAmount(a) == [a EXCEPT !.sign = IF a.sign # "-" /\ ~a.zero THEN "-" ELSE ""]

ToImportTxn(n) == [id |-> n, amount |-> NegateAmount(Amount[n])]

-----------------------------------------------------------------------------
(* The bank. *)

\* The bank posts to the item that is being read; what it does to another shows in the item's first page.
Post(t) ==
  /\ pull.pc = "page" /\ t = Head(pull.tokens) /\ newest[t] < MaxTxns
  /\ newest' = [newest EXCEPT ![t] = @ + 1] /\ items' = [items EXCEPT ![t] = @ \cup {newest[t] + 1}]
  /\ UNCHANGED <<editVars, pull>>

\* A pending transaction goes; the walk of this item is not told.
Withdraw(t) ==
  /\ pull.pc = "page" /\ t = Head(pull.tokens)
  /\ \E n \in items[t] : items' = [items EXCEPT ![t] = @ \ {n}]
  /\ pull' = [pull EXCEPT !.shifted = TRUE]
  /\ UNCHANGED <<editVars, newest>>

-----------------------------------------------------------------------------
(* The fetch. *)

IdlePull == [pc |-> "idle", tokens |-> << >>, seen |-> {}, names |-> << >>, accts |-> {}, all |-> << >>, page |-> 0,
             had |-> {}, shifted |-> FALSE, errs |-> 0, batch |-> {}]

\* Without a token there is nothing to fetch.
FetchBegins ==
  /\ pull.pc = "idle" /\ CredentialConfigured
  /\ pull' = [IdlePull EXCEPT !.pc = "item", !.tokens = ResolveTokens]
  /\ UNCHANGED <<editVars, items, newest>>

\* resolveInstitutionName: asked once a fetch for each institution, its failure kept too.
ResolveInstitutionName(inst) ==
  IF inst \in DOMAIN pull.names THEN {pull.names}
  ELSE {[i \in DOMAIN pull.names \cup {inst} |-> IF i = inst THEN n ELSE pull.names[i]] : n \in {inst, ""}}

\* One item: the accounts that no earlier one has listed, or an error and the next item.
ItemAccounts ==
  /\ pull.pc = "item" /\ pull.tokens # << >> /\ UNCHANGED <<editVars, items, newest>>
  /\ LET t == Head(pull.tokens)
     IN  \/ pull' = [pull EXCEPT !.tokens = Tail(@), !.errs = @ + 1]
         \/ \E names \in ResolveInstitutionName(Institution[t]) :
              pull' = [pull EXCEPT !.pc = "page", !.names = names, !.accts = Sees[t] \ pull.seen, !.seen = @ \cup Sees[t],
                                   !.all = << >>, !.page = 0, !.had = items[t], !.shifted = FALSE]

\* The item's accounts join the batch, with those of its transactions that are on them.
NextItem(txns, read) ==
  LET t == Head(pull.tokens)
      rows == {[acct |-> a, token |-> t, name |-> pull.names[Institution[t]], read |-> read,
                had |-> {n \in pull.had : Owner[n] = a}, shifted |-> pull.shifted,
                txns |-> {ToImportTxn(n) : n \in {m \in ToSet(txns) : Owner[m] = a}}] : a \in pull.accts}
  IN  pull' = [pull EXCEPT !.pc = "item", !.tokens = Tail(@), !.batch = @ \cup rows]

\* The walk takes its first page for all.
ItemTransactionsOnce ==
  /\ pull.pc = "page" /\ UNCHANGED <<editVars, items, newest>>
  /\ LET list == Reverse(InOrder(items[Head(pull.tokens)]))
     IN  NextItem(SubSeq(list, 1, IF Len(list) < PageCount THEN Len(list) ELSE PageCount), TRUE)

\* client.Transactions: the page from the offset of what it has, until that reaches the total.
\* A walk that fails is not an error: the accounts go in without transactions.
ItemTransactions ==
  /\ pull.pc = "page" /\ UNCHANGED <<editVars, items, newest>>
  /\ \/ NextItem(<< >>, FALSE)
     \/ LET list == Reverse(InOrder(items[Head(pull.tokens)]))
            upTo == Len(pull.all) + PageCount
            got == SubSeq(list, Len(pull.all) + 1, IF Len(list) < upTo THEN Len(list) ELSE upTo)
            all == pull.all \o got
        IN  IF got = << >> \/ Len(all) >= Len(list) \/ pull.page + 1 = MaxPages THEN NextItem(all, TRUE)
            ELSE pull' = [pull EXCEPT !.all = all, !.page = @ + 1]

\* The fetch fails only if it has no account at all.
FetchEnds ==
  /\ pull.pc = "item" /\ pull.tokens = << >>
  /\ pull' = [pull EXCEPT !.pc = IF pull.batch = {} /\ pull.errs > 0 THEN "failed" ELSE "done"]
  /\ UNCHANGED <<editVars, items, newest>>

Taken == pull.pc \in {"failed", "done"} /\ pull' = IdlePull /\ UNCHANGED <<editVars, items, newest>>

Init ==
  /\ TokensInit
  /\ newest = [t \in Tokens |-> MaxTxns - 1] /\ items = [t \in Tokens |-> 1 .. MaxTxns - 1] /\ pull = IdlePull

Next ==
  \/ PlaidCredentials /\ UNCHANGED <<items, newest, pull>>
  \/ \E t \in Tokens : Post(t) \/ Withdraw(t)
  \/ FetchBegins \/ ItemAccounts \/ ItemTransactions \/ FetchEnds \/ Taken

Spec == Init /\ [][Next]_vars

-----------------------------------------------------------------------------
\* Every variable has its type.
TypeOK ==
  /\ TokensTypeOK
  /\ items \in [Tokens -> SUBSET (1 .. MaxTxns)] /\ newest \in [Tokens -> 0 .. MaxTxns]
  /\ pull.pc \in {"idle", "item", "page", "failed", "done"}

\* A batch has each account of the items it could list once, under one name for each
\* institution, with every transaction that was on it when its walk began, unless the walk
\* failed or the bank withdrew one meanwhile: offsets then slip.
ItemsAreWhole ==
  /\ pull.pc = "done" => {r.acct : r \in pull.batch} = pull.seen
  /\ \A r, s \in pull.batch : /\ r.acct = s.acct => r = s
                              /\ Institution[r.token] = Institution[s.token] => r.name = s.name
  /\ \A r \in pull.batch : r.read /\ ~r.shifted => r.had \subseteq {x.id : x \in r.txns}
  /\ pull.pc = "failed" => pull.batch = {}

\* What left an account is negative in kasas, what came in is not, and no zero has a sign.
SignsTurned ==
  \A r \in pull.batch : \A x \in r.txns :
    (x.amount.sign = "-") = (~x.amount.zero /\ Amount[x.id].sign # "-")

=============================================================================
