--------------------------- MODULE BitcoinSource ---------------------------
(* The Bitcoin source: for each watched address the mempool, then the chain from
   the newest transaction backwards, while transactions come in and are mined.

   Transactions are numbered in the order in which the chain takes them; a block's
   time need not be later than that of the one before it. *)
EXTENDS AddressBook

CONSTANTS
  Ins, Outs,   \* of each transaction: what each address puts in and takes out
  BlockTime,   \* the time of each transaction's block
  Since,       \* the first time inside the lookback window
  PageCount, MaxPages,
  MaxTxns      \* bound on the transactions of the chain

VARIABLES
  mined,    \* the chain holds the transactions 1 .. mined
  mempool,  \* transactions the node knows of beyond them
  scan      \* the fetch
vars == <<editVars, mined, mempool, scan>>

Moves(n) == {a \in DOMAIN Ins[n] : Ins[n][a] + Outs[n][a] > 0}

-----------------------------------------------------------------------------
(* The chain. *)

Broadcast ==
  /\ mined + Cardinality(mempool) < MaxTxns
  /\ mempool' = mempool \cup {mined + Cardinality(mempool) + 1}
  /\ UNCHANGED <<editVars, mined, scan>>

Mine == mempool # {} /\ mined' = mined + 1 /\ mempool' = mempool \ {mined + 1} /\ UNCHANGED <<editVars, scan>>

-----------------------------------------------------------------------------
(* What a transaction is to an address. *)

\* An address's own change is not counted.
NetForAddressGross(n, a) == IF Ins[n][a] > 0 THEN -Ins[n][a] ELSE Outs[n][a]

NetForAddress(n, a) == Outs[n][a] - Ins[n][a]

TxDirection(net) == IF net > 0 THEN "Received" ELSE IF net < 0 THEN "Sent" ELSE "Self-transfer"

ToImportTxn(x, a) ==
  LET net == NetForAddress(x.tx, a)
  IN  [tx |-> x.tx, amount |-> DecimalFromBaseUnits(net), direction |-> TxDirection(net), pending |-> ~x.confirmed]

-----------------------------------------------------------------------------
(* The fetch. *)

IdleScan == [pc |-> "idle", addrs |-> << >>, last |-> 0, page |-> 0, all |-> << >>,
             had |-> {}, errs |-> 0, batch |-> << >>]

FetchBegins ==
  /\ scan.pc = "idle" /\ CredentialConfigured
  /\ scan' = [IdleScan EXCEPT !.pc = "mempool", !.addrs = ResolveTokens]
  /\ UNCHANGED <<editVars, mined, mempool>>

AddressFails == [scan EXCEPT !.pc = "mempool", !.addrs = Tail(@), !.errs = @ + 1]

\* The unconfirmed transactions, all of them.
MempoolPage ==
  /\ scan.pc = "mempool" /\ scan.addrs # << >> /\ UNCHANGED <<editVars, mined, mempool>>
  /\ LET a == Head(scan.addrs)  found == {n \in mempool : a \in Moves(n)}
     IN  \/ scan' = AddressFails
         \/ scan' = [scan EXCEPT !.pc = "chain", !.last = 0, !.page = 0,
                                 !.all = [i \in DOMAIN InOrder(found) |-> [tx |-> InOrder(found)[i], confirmed |-> FALSE]],
                                 !.had = {n \in 1 .. mined + Cardinality(mempool) : a \in Moves(n)}]

\* A row for each transaction, the first of two that are the same: one mined meanwhile stays pending.
AddressDone(all) ==
  LET a == Head(scan.addrs)
      first == AtPlaces(all, {i \in DOMAIN all : \A j \in 1 .. i - 1 : all[j].tx # all[i].tx})
  IN  [scan EXCEPT !.pc = "mempool", !.addrs = Tail(@),
                   !.batch = Append(@, [addr |-> a, had |-> scan.had, rows |-> [i \in DOMAIN first |-> ToImportTxn(first[i], a)]])]

\* Only the mempool is read.
ChainPageNone ==
  /\ scan.pc = "chain" /\ UNCHANGED <<editVars, mined, mempool>>
  /\ scan' = AddressDone(scan.all)

\* A page of the chain, below the last transaction seen; the walk ends at an empty page, at a
\* transaction before the window or at one that does not move on.
ChainPage ==
  /\ scan.pc = "chain" /\ UNCHANGED <<editVars, mined, mempool>>
  /\ LET a == Head(scan.addrs)
         below == {n \in 1 .. mined : a \in Moves(n) /\ (scan.last # 0 => n < scan.last)}
         ordered == Reverse(InOrder(below))
         page == SubSeq(ordered, 1, IF Len(ordered) < PageCount THEN Len(ordered) ELSE PageCount)
         old == {i \in DOMAIN page : BlockTime[page[i]] < Since}
         keep == IF old = {} THEN page ELSE SubSeq(page, 1, Min(old) - 1)
         all == scan.all \o [i \in DOMAIN keep |-> [tx |-> keep[i], confirmed |-> TRUE]]
     IN  \/ scan' = AddressFails
         \/ scan' = IF page = << >> \/ old # {} \/ scan.page + 1 = MaxPages THEN AddressDone(all)
                    ELSE [scan EXCEPT !.last = page[Len(page)], !.page = @ + 1, !.all = all]

FetchEnds ==
  /\ scan.pc = "mempool" /\ scan.addrs = << >>
  /\ scan' = [scan EXCEPT !.pc = IF scan.batch = << >> /\ scan.errs > 0 THEN "failed" ELSE "done"]
  /\ UNCHANGED <<editVars, mined, mempool>>

Taken == scan.pc \in {"failed", "done"} /\ scan' = IdleScan /\ UNCHANGED <<editVars, mined, mempool>>

Init == TokensInit /\ mined = MaxTxns - 2 /\ mempool = {} /\ scan = IdleScan

Next ==
  \/ BookNext /\ UNCHANGED <<mined, mempool, scan>>
  \/ Broadcast \/ Mine
  \/ FetchBegins \/ MempoolPage \/ ChainPage \/ FetchEnds \/ Taken

Spec == Init /\ [][Next]_vars

-----------------------------------------------------------------------------
\* Every variable has its type.
TypeOK ==
  /\ TokensTypeOK /\ mined \in 0 .. MaxTxns
  /\ scan.pc \in {"idle", "mempool", "chain", "failed", "done"}

\* An address in the batch has each transaction once, and all that the node knew of when its
\* scan began, in the mempool or inside the window, whatever was mined meanwhile; one is
\* missing only if the chain has a block before the window above it.
AddressScanned ==
  \A i \in DOMAIN scan.batch :
    LET r == scan.batch[i]  txs == {r.rows[j].tx : j \in DOMAIN r.rows}
    IN  /\ Cardinality(txs) = Len(r.rows)
        /\ \A n \in r.had : n \in txs \/ \E m \in n .. mined : r.addr \in Moves(m) /\ BlockTime[m] < Since

\* The amounts are exact, and those of a transaction between watched addresses add up to
\* what it leaves to the miner.
AmountsExact ==
  /\ \A i \in DOMAIN scan.batch : \A j \in DOMAIN scan.batch[i].rows :
       LET r == scan.batch[i].rows[j]  v == Outs[r.tx][scan.batch[i].addr] - Ins[r.tx][scan.batch[i].addr]
       IN  Exact(r.amount, v) /\ (r.direction = "Sent") = (v < 0)
  /\ \A n \in 1 .. MaxTxns :
       LET rows == {x \in (DOMAIN scan.batch) \X (1 .. MaxTxns) :
                      x[2] \in DOMAIN scan.batch[x[1]].rows /\ scan.batch[x[1]].rows[x[2]].tx = n}
       IN  {scan.batch[x[1]].addr : x \in rows} = Moves(n) =>
             MapThenSumSet(LAMBDA x : BaseUnits(scan.batch[x[1]].rows[x[2]].amount), rows)
               = MapThenSumSet(LAMBDA a : Outs[n][a] - Ins[n][a], Moves(n))

=============================================================================
