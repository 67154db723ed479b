----------------------------- MODULE CsvSource -----------------------------
(* The import of CSV files from local and Drive folders: a sync takes the folders in turn,
   lists the files of each, reads every file whole and gives each row an id that is the hash
   of its content, while the files are written, edited and removed. *)
EXTENDS Integers, Sequences, FiniteSets, SequencesExt

CONSTANTS
  Folders,     \* the profiles in order: [name, backend, account, columns], the columns its mapping names
  FileIds,       \* their ids are numbers, in the order of a listing
  FolderOf, Header,   \* of a file: its profile's place and the columns it has
  Rows,        \* the rows a file may hold: [date, amount, debit, credit, text]; a date of 0 does not parse
  Cut,         \* of a row, what it reads as while its end is not written yet
  PageSize, MaxChanges, MaxSyncs   \* bounds

VARIABLES
  disk,     \* of each file: [here, rows, open], open while its last row is still being written
  token,    \* the refresh token: "none", "good" or "revoked"
  fetch,    \* the sync under way
  ledger,   \* the transactions ingested
  whole,    \* the transactions that a row of some file has stood for, the whole row
  torn,     \* those of rows read before they were written out
  counts    \* [changes, syncs]
vars == <<disk, token, fetch, ledger, whole, torn, counts>>

NoFile == [here |-> FALSE, rows |-> << >>, open |-> FALSE]
Idle == [pc |-> "idle", folder |-> 1, page |-> 0, refs |-> << >>, txns |-> {}, got |-> {}, failed |-> {}, skipped |-> {},
         stable |-> {}]
Current == Folders[fetch.folder]

TypeOK ==
  /\ \A f \in FileIds : disk[f].here \in BOOLEAN /\ Len(disk[f].rows) <= MaxChanges
  /\ token \in {"none", "good", "revoked"} /\ fetch.pc \in {"idle", "folder", "list", "files", "persist"}
  /\ fetch.folder \in 1 .. Len(Folders) + 1 /\ fetch.failed \subseteq DOMAIN Folders /\ fetch.skipped \subseteq FileIds

-----------------------------------------------------------------------------
(* A row: a cell is [said, value], its value <<n>> when it has digits. *)

NoCell == [said |-> FALSE, value |-> << >>]
Cell(row, header, column) == IF column \in header THEN row[column] ELSE NoCell
Value(cell) == IF cell.value = << >> THEN 0 ELSE cell.value[1]
\* The signed column decides wherever it says anything; else one side of the pair is enough.
ResolveAmount(row, header) ==
  LET amount == Cell(row, header, "amount")  debit == Cell(row, header, "debit")  credit == Cell(row, header, "credit")
  IN IF amount.said THEN amount.value
     ELSE IF debit.value = << >> /\ credit.value = << >> THEN << >>
     ELSE <<Value(credit) - Value(debit)>>
Maps(row, header) == row.date # 0 /\ ResolveAmount(row, header) # << >>
AccountOf(k) == Folders[k].account
\* The id hashes the profile and the fields: equal rows are one transaction.
RowToTxn(k, row, header) ==
  [profile |-> Folders[k].name, account |-> AccountOf(k), date |-> row.date, amount |-> ResolveAmount(row, header)[1], text |-> row.text]
\* A column that the mapping names must be there; a date and a column of amounts must be found.
ResolveMapping(k, header) ==
  /\ Folders[k].columns \subseteq header /\ "date" \in header /\ header \cap {"amount", "debit", "credit"} # {}
ReadRows(f) == LET n == Len(disk[f].rows)
               IN {disk[f].rows[i] : i \in 1 .. IF disk[f].open THEN n - 1 ELSE n} \cup (IF disk[f].open THEN {Cut[disk[f].rows[n]]} ELSE {})
WholeRows(d, f) == {d[f].rows[i] : i \in 1 .. IF d[f].open THEN Len(d[f].rows) - 1 ELSE Len(d[f].rows)}
Holds(d, x) == d[x[1]].here /\ x[2] \in WholeRows(d, x[1])
ParseCSV(k, f, rows) == IF ResolveMapping(k, Header[f]) THEN {RowToTxn(k, r, Header[f]) : r \in {x \in rows : Maps(x, Header[f])}} ELSE {}

-----------------------------------------------------------------------------
(* A sync. *)

Go(r) == fetch' = r
Keep == UNCHANGED <<disk, token, ledger, whole, torn, counts>>
\* With a Drive folder among them, no folder is read until a token is stored.
HasDrive == \E k \in DOMAIN Folders : Folders[k].backend = "gdrive"
CredentialConfigured == HasDrive => token # "none"
Fetch ==
  /\ fetch.pc = "idle" /\ counts.syncs < MaxSyncs /\ CredentialConfigured
  /\ counts' = [counts EXCEPT !.syncs = @ + 1]
  /\ Go([Idle EXCEPT !.pc = "folder", !.stable = {x \in FileIds \X Rows : Holds(disk, x)}])
  /\ UNCHANGED <<disk, token, ledger, whole, torn>>
FileStore == fetch.pc = "folder" /\ fetch.folder <= Len(Folders) /\ Go([fetch EXCEPT !.pc = "list", !.page = 0, !.refs = << >>, !.txns = {}]) /\ Keep
\* A folder that is missing, or a Drive that refuses: the others go on.
SkipFolder ==
  /\ fetch.pc = "list" /\ Go([fetch EXCEPT !.pc = "folder", !.folder = @ + 1, !.failed = @ \cup {fetch.folder}]) /\ Keep
Listed(after) == {f \in FileIds : FolderOf[f] = fetch.folder /\ disk[f].here /\ f > after}
InOrder(files) == [n \in 1 .. Cardinality(files) |-> CHOOSE f \in files : Cardinality({g \in files : g <= f}) = n]
ListLocal ==
  /\ fetch.pc = "list" /\ Current.backend = "local"
  /\ Go([fetch EXCEPT !.pc = "files", !.refs = InOrder(Listed(0))]) /\ Keep
Connected == token = "good"
ListPage ==
  LET left == InOrder(Listed(fetch.page))  more == Len(left) > PageSize
      page == IF more THEN SubSeq(left, 1, PageSize) ELSE left
  IN /\ fetch.pc = "list" /\ Current.backend = "gdrive" /\ Connected
     /\ Go([fetch EXCEPT !.refs = @ \o page, !.pc = IF more THEN "list" ELSE "files", !.page = IF more THEN Last(page) ELSE @]) /\ Keep
\* A file that cannot be read or mapped is skipped, and so is a row.
ParseFile ==
  /\ fetch.pc = "files" /\ fetch.refs # << >>
  /\ LET f == Head(fetch.refs)  rows == ReadRows(f)
     IN /\ disk[f].here
        /\ Go([fetch EXCEPT !.refs = Tail(@), !.txns = @ \cup ParseCSV(fetch.folder, f, rows)])
        /\ torn' = torn \cup ParseCSV(fetch.folder, f, rows \ WholeRows(disk, f))
  /\ UNCHANGED <<disk, token, ledger, whole, counts>>
SkipFile ==
  /\ fetch.pc = "files" /\ fetch.refs # << >>
  /\ Go([fetch EXCEPT !.refs = Tail(@), !.skipped = @ \cup {Head(fetch.refs)}]) /\ Keep
\* Folders of one account are put together.
Replaced(got, k, txns) == {t \in got : t.account # AccountOf(k)} \cup txns
Appended(got, k, txns) == got \cup txns
FolderDone ==
  /\ fetch.pc = "files" /\ fetch.refs = << >>
  /\ Go([fetch EXCEPT !.pc = "folder", !.folder = @ + 1, !.got = Appended(@, fetch.folder, fetch.txns)]) /\ Keep
\* Only when every folder failed is there nothing to ingest.
AllFailed == Folders # << >> /\ fetch.failed = DOMAIN Folders
FetchDone ==
  /\ fetch.pc = "folder" /\ fetch.folder > Len(Folders) /\ Keep
  /\ Go(IF AllFailed THEN Idle ELSE [fetch EXCEPT !.pc = "persist"])
Persist == /\ fetch.pc = "persist" /\ ledger' = ledger \cup fetch.got /\ Go(Idle)
           /\ UNCHANGED <<disk, token, whole, torn, counts>>

-----------------------------------------------------------------------------
(* The token, and the files. *)

Connect == token' = "good" /\ token # "good" /\ UNCHANGED <<disk, fetch, ledger, whole, torn, counts>>
Revoke == token = "good" /\ token' = "revoked" /\ UNCHANGED <<disk, fetch, ledger, whole, torn, counts>>
Put(f, file) ==
  /\ counts.changes < MaxChanges /\ counts' = [counts EXCEPT !.changes = @ + 1]
  /\ disk' = [disk EXCEPT ![f] = file]
  /\ whole' = whole \cup ParseCSV(FolderOf[f], f, WholeRows(disk', f))
  /\ Go([fetch EXCEPT !.stable = {x \in @ : Holds(disk', x)}])
  /\ UNCHANGED <<token, ledger, torn>>
\* A Drive file is uploaded whole; a local one may be read while its end is missing.
AddRow(f, row, open) ==
  /\ ~disk[f].open /\ (open => Folders[FolderOf[f]].backend = "local")
  /\ Put(f, [here |-> TRUE, rows |-> Append(disk[f].rows, row), open |-> open])
WriteOut(f) == disk[f].open /\ Put(f, [disk[f] EXCEPT !.open = FALSE])
Edit(f, row) == disk[f].here /\ ~disk[f].open /\ row # disk[f].rows[1] /\ Put(f, [disk[f] EXCEPT !.rows[1] = row])
Unlink(f) == disk[f].here /\ Put(f, NoFile)

Init ==
  /\ disk = [f \in FileIds |-> NoFile] /\ token \in {"none", "good"} /\ fetch = Idle /\ ledger = {} /\ whole = {} /\ torn = {}
  /\ counts = [changes |-> 0, syncs |-> 0]

Next ==
  \/ Fetch \/ FileStore \/ SkipFolder \/ ListLocal \/ ListPage \/ ParseFile \/ SkipFile \/ FolderDone \/ FetchDone \/ Persist
  \/ Connect \/ Revoke
  \/ \E f \in FileIds : \/ \E r \in Rows : (\E open \in BOOLEAN : AddRow(f, r, open)) \/ Edit(f, r)
                      \/ WriteOut(f) \/ Unlink(f)

Spec == Init /\ [][Next]_vars

-----------------------------------------------------------------------------
(* Properties. *)

\* What a sync is about to ingest has every row that can be mapped and was there throughout, of every file that
\* could be read in a folder that could be listed: a bad file or folder loses nothing of the others.
RestIsKept ==
  fetch.pc = "persist" =>
    \A x \in fetch.stable : x[1] \notin fetch.skipped /\ FolderOf[x[1]] \notin fetch.failed => ParseCSV(FolderOf[x[1]], x[1], {x[2]}) \subseteq fetch.got

\* Everything ingested stands for a row that a file really had; a row that was read half written is the exception,
\* and stays in the ledger beside the whole one.
RowsAreReal == ledger \subseteq whole \cup torn
=============================================================================
