---------------------------- MODULE SecretStore ----------------------------
(* The secrets of kasas: one JSON file, or one secret of a Vault KV engine.  All
   keys are in one place, so that a write of one reads and writes the others:
   under a mutex with the file, in two calls to Vault without one. *)
EXTENDS Naturals, FiniteSets

CONSTANTS
  Backend,    \* file or vault
  Keys,       \* the access URL, the dashboard token, the keys of sources and settings
  Values,     \* what is stored, with Empty to delete
  Writers,    \* goroutines that write
  MaxWrites, MaxStops  \* bounds on writes and on stops of the process

Empty == ""

VARIABLES
  secrets,  \* each key's value, Empty if it has none
  tmp,      \* the file beside it that a save writes first, None if there is none
  writer,   \* each writer: where it is, its key, its value, the secrets it read
  mutex,    \* f.mu
  writes, stops,
  meant,    \* what the last write of each key that was answered or is lost left it with
  crossed   \* two writes were between their calls at once
vars == <<secrets, tmp, writer, mutex, writes, stops, meant, crossed>>

None == "none"
NoSecrets == [k \in Keys |-> Empty]
IdleWriter == [pc |-> "idle", key |-> None, value |-> Empty, read |-> NoSecrets]
Merged(w) == [writer[w].read EXCEPT ![writer[w].key] = writer[w].value]
Become(w, r) == writer' = [writer EXCEPT ![w] = r]

-----------------------------------------------------------------------------
\* set and putMerged, up to the read of all secrets; a read that fails ends them.
Load(w, k, v) ==
  /\ writer[w].pc = "idle" /\ writes < MaxWrites /\ writes' = writes + 1
  /\ IF Backend = "file" THEN mutex = None /\ mutex' = w ELSE UNCHANGED mutex
  /\ Become(w, [pc |-> IF Backend = "file" THEN "save" ELSE "put", key |-> k, value |-> v, read |-> secrets])
  /\ crossed' = (crossed \/ \E u \in Writers : writer[u].pc # "idle")
  /\ UNCHANGED <<secrets, tmp, stops, meant>>

\* A save that writes the file in place: a stop in the middle leaves it cut off.
SaveInPlace(w) ==
  /\ writer[w].pc = "save"
  /\ secrets' = NoSecrets /\ tmp' = {Merged(w)}
  /\ Become(w, [writer[w] EXCEPT !.pc = "rename"])
  /\ UNCHANGED <<mutex, writes, stops, meant, crossed>>

\* save, first the file beside.
SaveTmp(w) ==
  /\ writer[w].pc = "save"
  /\ tmp' = {Merged(w)}
  /\ Become(w, [writer[w] EXCEPT !.pc = "rename"])
  /\ UNCHANGED <<secrets, mutex, writes, stops, meant, crossed>>

\* then its rename.
SaveRename(w) ==
  /\ writer[w].pc = "rename"
  /\ secrets' = CHOOSE m \in tmp : TRUE
  /\ tmp' = {} /\ mutex' = None
  /\ meant' = [meant EXCEPT ![writer[w].key] = writer[w].value]
  /\ Become(w, IdleWriter)
  /\ UNCHANGED <<writes, stops, crossed>>

\* A Put of the one key.
PutOne(w) ==
  /\ writer[w].pc = "put"
  /\ secrets' = [NoSecrets EXCEPT ![writer[w].key] = writer[w].value]
  /\ meant' = [meant EXCEPT ![writer[w].key] = writer[w].value]
  /\ Become(w, IdleWriter)
  /\ UNCHANGED <<tmp, mutex, writes, stops, crossed>>

\* kv.Put of the whole secret.
PutMerged(w) ==
  /\ writer[w].pc = "put"
  /\ secrets' = Merged(w)
  /\ meant' = [meant EXCEPT ![writer[w].key] = writer[w].value]
  /\ Become(w, IdleWriter)
  /\ UNCHANGED <<tmp, mutex, writes, stops, crossed>>

\* A call that fails, and a save that leaves its file beside.
WriteFails(w) ==
  /\ writer[w].pc # "idle"
  /\ mutex' = IF mutex = w THEN None ELSE mutex
  /\ Become(w, IdleWriter)
  /\ UNCHANGED <<secrets, tmp, writes, stops, meant, crossed>>

\* The process stops at any time and starts again.
Restart ==
  /\ stops < MaxStops /\ stops' = stops + 1
  /\ writer' = [w \in Writers |-> IdleWriter] /\ mutex' = None
  /\ UNCHANGED <<secrets, tmp, writes, meant, crossed>>

\* get and SecretValue: the file's reader waits for the mutex.
Reads(k) == IF Backend = "file" /\ mutex # None THEN None ELSE secrets[k]

Init ==
  /\ secrets = NoSecrets /\ tmp = {} /\ mutex = None
  /\ writer = [w \in Writers |-> IdleWriter]
  /\ writes = 0 /\ stops = 0 /\ meant = NoSecrets /\ crossed = FALSE

Next == \/ \E w \in Writers : \/ \E k \in Keys, v \in Values \cup {Empty} : Load(w, k, v)
                              \/ SaveTmp(w) \/ SaveRename(w) \/ PutMerged(w) \/ WriteFails(w)
        \/ Restart

Spec == Init /\ [][Next]_vars

-----------------------------------------------------------------------------
TypeOK == /\ secrets \in [Keys -> Values \cup {Empty}] /\ Cardinality(tmp) <= 1
          /\ \A w \in Writers : writer[w].pc \in {"idle", "save", "rename", "put"}

\* "One key ... without disturbing the others" (putMerged): what a reader finds under a key
\* is what its last write left, through failures and stops, for the file always and for
\* Vault if no two writes overlap.
SiblingsKept ==
  (Backend = "vault" => ~crossed) =>
    \A k \in Keys : Reads(k) \in {None, meant[k]}
=============================================================================
