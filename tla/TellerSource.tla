---------------------------- MODULE TellerSource ----------------------------
(* The Teller source: a fetch fans out over the access tokens, account by
   account and page by page, while the bank goes on posting transactions.

   A transaction is its place in time, so a page is a run of places going down;
   amounts, names and the ids' prefixes are left out. *)
EXTENDS TokenSet

CONSTANTS
  Accounts,   \* accounts at the bank
  Sees,       \* the accounts each token lists
  Since,      \* the first place inside the lookback window
  PageCount,  \* transactions to a page
  MaxPages,   \* pages to a walk
  MaxTxns     \* bound on the transactions of an account

VARIABLES
  posted,   \* transactions each account has at the bank
  fetch     \* the fetch: where it is, what is left, what it has
vars == <<editVars, posted, fetch>>

-----------------------------------------------------------------------------
(* The fetch. *)

IdleFetch == [pc |-> "idle", tokens |-> << >>, accts |-> {}, acct |-> None, from |-> 0, page |-> 0,
              had |-> 0, got |-> {}, seen |-> {}, broken |-> {}, errs |-> 0, batch |-> << >>]

\* The bank posts a transaction; only while a fetch runs does it matter.
Post(a) ==
  /\ fetch.pc # "idle" /\ posted[a] < MaxTxns
  /\ posted' = [posted EXCEPT ![a] = @ + 1]
  /\ UNCHANGED <<editVars, fetch>>

\* Without a token, or with half of a client certificate, there is nothing to fetch.
FetchBegins ==
  /\ fetch.pc = "idle" /\ CredentialConfigured
  /\ fetch' = [IdleFetch EXCEPT !.pc = "token", !.tokens = ResolveTokens]
  /\ UNCHANGED <<editVars, posted>>

\* One token: the accounts it lists that no earlier one has listed, or an error and the next.
ListAccounts ==
  /\ fetch.pc = "token" /\ fetch.tokens # << >>
  /\ \/ fetch' = [fetch EXCEPT !.tokens = Tail(@), !.errs = @ + 1]
     \/ LET new == Sees[Head(fetch.tokens)] \ fetch.seen
        IN  fetch' = [fetch EXCEPT !.pc = IF new = {} THEN "token" ELSE "account",
                                   !.tokens = IF new = {} THEN Tail(@) ELSE @, !.accts = new]
  /\ UNCHANGED <<editVars, posted>>

\* An account is taken up: it counts as seen, and its balance is a matter of luck.
TakeAccount ==
  /\ fetch.pc = "account"
  /\ \E a \in fetch.accts :
       fetch' = [fetch EXCEPT !.pc = "page", !.acct = a, !.accts = @ \ {a}, !.seen = @ \cup {a},
                              !.from = 0, !.page = 0, !.got = {}, !.had = posted[a]]
  /\ UNCHANGED <<editVars, posted>>

\* What follows the last page of an account, with or without its transactions.
AfterAccount(f) == IF f.accts # {} THEN [f EXCEPT !.pc = "account"]
                   ELSE [f EXCEPT !.pc = "token", !.tokens = Tail(@)]

\* A page: newest first, below the cursor, or from it if the bank's from_id is inclusive.
PageFrom(a, from, inclusive) ==
  LET top == IF from = 0 THEN posted[a] ELSE IF inclusive THEN from ELSE from - 1
  IN  {n \in 1 .. top : n > top - PageCount}

\* The walk ends at an empty page, at one that reaches out of the window, or that has nothing new.
LastPage(items, got, from) ==
  \/ items = {}
  \/ \E n \in items : n < Since
  \/ items \subseteq got
  \/ Min(items) = from

\* A page that reaches out of the window is left aside as a whole.
TransactionsPageShort ==
  /\ fetch.pc = "page" /\ UNCHANGED <<editVars, posted>>
  /\ LET a == fetch.acct  items == PageFrom(a, fetch.from, FALSE)
     IN  IF LastPage(items, fetch.got, fetch.from)
         THEN fetch' = AfterAccount([fetch EXCEPT !.batch = Append(@, [acct |-> a, txns |-> fetch.got, had |-> fetch.had])])
         ELSE fetch' = [fetch EXCEPT !.from = Min(items), !.got = @ \cup items, !.page = @ + 1]

\* client.Transactions, one page at a time.  A page that fails drops the account from this sync.
TransactionsPage ==
  /\ fetch.pc = "page" /\ UNCHANGED <<editVars, posted>>
  /\ \/ fetch' = AfterAccount([fetch EXCEPT !.errs = @ + 1, !.broken = @ \cup {fetch.acct}])
     \/ \E inclusive \in BOOLEAN :
          LET a == fetch.acct  items == PageFrom(a, fetch.from, inclusive)
              got == fetch.got \cup {n \in items : n >= Since}
          IN  IF LastPage(items, fetch.got, fetch.from) \/ fetch.page + 1 = MaxPages
              THEN fetch' = AfterAccount([fetch EXCEPT !.batch = Append(@, [acct |-> a, txns |-> got, had |-> fetch.had])])
              ELSE fetch' = [fetch EXCEPT !.from = Min(items), !.got = got, !.page = @ + 1]

\* The fetch fails only if it has no account at all.
FetchEnds ==
  /\ fetch.pc = "token" /\ fetch.tokens = << >>
  /\ fetch' = [fetch EXCEPT !.pc = IF fetch.batch = << >> /\ fetch.errs > 0 THEN "failed" ELSE "done"]
  /\ UNCHANGED <<editVars, posted>>

\* The engine persists the batch; the next fetch starts over.
Taken == fetch.pc \in {"failed", "done"} /\ fetch' = IdleFetch /\ UNCHANGED <<editVars, posted>>

Init ==
  /\ TokensInit
  /\ posted = [a \in Accounts |-> MaxTxns - 1] /\ fetch = IdleFetch

Next ==
  \/ TokensNext /\ UNCHANGED <<posted, fetch>>
  \/ \E a \in Accounts : Post(a)
  \/ FetchBegins \/ ListAccounts \/ TakeAccount \/ TransactionsPage \/ FetchEnds \/ Taken

Spec == Init /\ [][Next]_vars

-----------------------------------------------------------------------------
\* Every variable has its type.
TypeOK ==
  /\ TokensTypeOK
  /\ posted \in [Accounts -> 0 .. MaxTxns]
  /\ fetch.pc \in {"idle", "token", "account", "page", "failed", "done"}

\* A fetch that ends has every account that a token it could read lists, once, unless its
\* transactions could not be read, and of an account in it every transaction inside the
\* window that was there when its walk began, whatever was posted or paged twice meanwhile.
FetchIsExact ==
  /\ fetch.pc \in {"done", "failed"} => {fetch.batch[i].acct : i \in DOMAIN fetch.batch} = fetch.seen \ fetch.broken
  /\ \A i \in DOMAIN fetch.batch :
       /\ \A j \in DOMAIN fetch.batch : fetch.batch[i].acct = fetch.batch[j].acct => i = j
       /\ Since .. fetch.batch[i].had \subseteq fetch.batch[i].txns
       /\ \A n \in fetch.batch[i].txns : n >= Since

=============================================================================
