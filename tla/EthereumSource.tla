--------------------------- MODULE EthereumSource ---------------------------
(* The Ethereum source: the window's first block is looked up once, then each
   watched address is read from it forwards, page by page, while the chain grows.

   Transactions are numbered in the order of the chain. *)
EXTENDS AddressBook

CONSTANTS
  Tx,          \* the transactions: [from, to, value, gas, failed]
  Since,       \* the first transaction inside the lookback window, 0 for no window
  PageSize, MaxPages

VARIABLES
  height,  \* the chain holds the transactions 1 .. height
  walk     \* the fetch
vars == <<editVars, height, walk>>

Touches(a) == {n \in 1 .. height : a \in {Tx[n].from, Tx[n].to}}

Grow == height < Len(Tx) /\ height' = height + 1 /\ UNCHANGED <<editVars, walk>>

-----------------------------------------------------------------------------
(* What a transaction is to an address. *)

\* A reverted transaction costs nothing.
NetForAddressFree(n, a) ==
  IF Tx[n].failed THEN 0
  ELSE (IF Tx[n].to = a THEN Tx[n].value ELSE 0) - (IF Tx[n].from = a THEN Tx[n].value + Tx[n].gas ELSE 0)

\* A reverted transaction moves nothing; its sender pays the gas all the same.
NetForAddress(n, a) ==
  LET value == IF Tx[n].failed THEN 0 ELSE Tx[n].value
  IN  (IF Tx[n].to = a THEN value ELSE 0) - (IF Tx[n].from = a THEN value + Tx[n].gas ELSE 0)

ToImportTxn(n, a) ==
  [tx |-> n, amount |-> DecimalFromBaseUnits(NetForAddress(n, a)),
   payee |-> IF Tx[n].from = a THEN Tx[n].to ELSE Tx[n].from]

-----------------------------------------------------------------------------
(* The fetch. *)

IdleWalk == [pc |-> "idle", addrs |-> << >>, start |-> 0, page |-> 0, all |-> << >>, had |-> {}, errs |-> 0, batch |-> << >>]

\* startBlock: the last block before the window, or the whole chain if that cannot be found.
StartBlock == IF Since = 0 THEN {0} ELSE {0, Since - 1}

FetchBegins ==
  /\ walk.pc = "idle" /\ CredentialConfigured
  /\ \E start \in StartBlock :
       walk' = [IdleWalk EXCEPT !.pc = "address", !.addrs = ResolveTokens, !.start = start]
  /\ UNCHANGED <<editVars, height>>

AddressBegins ==
  /\ walk.pc = "address" /\ walk.addrs # << >>
  /\ walk' = [walk EXCEPT !.pc = "page", !.page = 0, !.all = << >>, !.had = {n \in Touches(Head(walk.addrs)) : n >= walk.start}]
  /\ UNCHANGED <<editVars, height>>

\* A row for each transaction, the first of two with one hash.
AddressDone(all) ==
  LET a == Head(walk.addrs)
  IN  [walk EXCEPT !.pc = "address", !.addrs = Tail(@),
                   !.batch = Append(@, [addr |-> a, had |-> walk.had,
                                        rows |-> [i \in DOMAIN DedupeTokens(all) |-> ToImportTxn(DedupeTokens(all)[i], a)]])]

\* A walk that does not count its pages from the window's start.
TransactionsPageAgain ==
  /\ walk.pc = "page" /\ UNCHANGED <<editVars, height>>
  /\ LET found == InOrder({n \in Touches(Head(walk.addrs)) : n > walk.start})
     IN  walk' = AddressDone(SubSeq(found, 1, IF Len(found) < PageSize THEN Len(found) ELSE PageSize))

\* client.Transactions: one page, oldest first; a short page is the last.
TransactionsPage ==
  /\ walk.pc = "page" /\ UNCHANGED <<editVars, height>>
  /\ LET found == InOrder({n \in Touches(Head(walk.addrs)) : n >= walk.start})
         upTo == (walk.page + 1) * PageSize
         page == SubSeq(found, walk.page * PageSize + 1, IF Len(found) < upTo THEN Len(found) ELSE upTo)
         all == walk.all \o page
     IN  \/ walk' = [walk EXCEPT !.pc = "address", !.addrs = Tail(@), !.errs = @ + 1]
         \/ walk' = IF Len(page) < PageSize \/ walk.page + 1 = MaxPages THEN AddressDone(all)
                    ELSE [walk EXCEPT !.page = @ + 1, !.all = all]

FetchEnds ==
  /\ walk.pc = "address" /\ walk.addrs = << >>
  /\ walk' = [walk EXCEPT !.pc = IF walk.batch = << >> /\ walk.errs > 0 THEN "failed" ELSE "done"]
  /\ UNCHANGED <<editVars, height>>

Taken == walk.pc \in {"failed", "done"} /\ walk' = IdleWalk /\ UNCHANGED <<editVars, height>>

Init == TokensInit /\ height = Len(Tx) - 2 /\ walk = IdleWalk

Next ==
  \/ BookNext /\ UNCHANGED <<height, walk>>
  \/ Grow \/ FetchBegins \/ AddressBegins \/ TransactionsPage \/ FetchEnds \/ Taken

Spec == Init /\ [][Next]_vars

-----------------------------------------------------------------------------
\* Every variable has its type.
TypeOK ==
  /\ TokensTypeOK /\ height \in 0 .. Len(Tx)
  /\ walk.pc \in {"idle", "address", "page", "failed", "done"}

\* An address in the batch has every transaction of the window that the chain had when its
\* walk began, once, however the chain grows, as long as the walk's pages can hold them.
WalkIsWhole ==
  \A i \in DOMAIN walk.batch :
    LET r == walk.batch[i]  txs == {r.rows[j].tx : j \in DOMAIN r.rows}
    IN  /\ Cardinality(txs) = Len(r.rows)
        /\ Cardinality(r.had) <= MaxPages * PageSize => r.had \subseteq txs

\* The rows of a transaction on watched addresses are exact and add up to the gas, which its
\* sender pays even when it is reverted.
GasIsPaid ==
  \A n \in 1 .. height :
    LET rows == {x \in (DOMAIN walk.batch) \X (1 .. Len(Tx)) :
                 x[2] \in DOMAIN walk.batch[x[1]].rows /\ walk.batch[x[1]].rows[x[2]].tx = n}
    IN  /\ \A x \in rows : LET r == walk.batch[x[1]].rows[x[2]] IN Exact(r.amount, BaseUnits(r.amount))
        /\ {walk.batch[x[1]].addr : x \in rows} = {Tx[n].from, Tx[n].to} =>
             MapThenSumSet(LAMBDA x : BaseUnits(walk.batch[x[1]].rows[x[2]].amount), rows) = -Tx[n].gas

=============================================================================
