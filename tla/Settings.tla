------------------------------ MODULE Settings ------------------------------
(* Settings that are changed at run time: each change is stored beside the
   configuration of file and environment and laid over it at the next start.

   Four keys stand for the editable ones: webhooks.enabled and webhooks.timeout,
   which are only valid together, log.level, and plaid.secret, which is kept in
   the secret store.  Nothing keeps two requests apart. *)
EXTENDS Naturals

CONSTANTS
  Environments,  \* what the environment may set, key by key
  Files,         \* what the configuration file may set
  Stale,         \* a row of log.level that another version left, or None
  Requests,      \* goroutines that handle requests
  MaxEdits, MaxRestarts  \* bounds on the requests and the starts

None == "none"    \* no row, no entry

VARIABLES
  base,     \* the configuration of file and environment
  rows,     \* the stored overrides
  boot,     \* the configuration the running process was built with
  request,  \* each change that is checked but not stored yet
  edits, starts,
  promised, \* what each key was last set to with success, until it is reset
  fresh,    \* nothing was stored since the process read the overrides
  mixed,    \* two requests were under way at once
  resets    \* a setting was reset
vars == <<base, rows, boot, request, edits, starts, promised, fresh, mixed, resets>>

Kind == [enabled |-> "bool", timeout |-> "duration", level |-> "enum", secret |-> "secret"]
Keys == DOMAIN Kind
Default == [enabled |-> "true", timeout |-> "10s", level |-> "info", secret |-> ""]

\* A kind's Set and Get: the texts it parses, each with its canonical form.
Canon(k) ==
  CASE Kind[k] = "bool" -> [raw \in {"true", "1", "false"} |-> IF raw = "1" THEN "true" ELSE raw]
    [] Kind[k] = "duration" -> [raw \in {"10s", "0s", "60s", "1m0s"} |-> IF raw = "60s" THEN "1m0s" ELSE raw]
    [] Kind[k] = "enum" -> [raw \in {"info", "debug"} |-> raw]
    [] Kind[k] = "secret" -> [raw \in {"", "s1"} |-> raw]
Parses(k, raw) == raw \in DOMAIN Canon(k)

\* Validate, of the two fields that depend on each other.
Valid(c) == c.enabled = "true" => c.timeout # "0s"

\* Load: environment over file over default.  It refuses a bad duration, and GetBool reads
\* a bad boolean as false.
Declared(env, file, k) == IF env[k] # None THEN env[k] ELSE IF file[k] # None THEN file[k] ELSE Default[k]
Load(env, file) ==
  [k \in Keys |-> LET raw == Declared(env, file, k)
                  IN  IF Parses(k, raw) THEN Canon(k)[raw] ELSE IF Kind[k] = "bool" THEN "false" ELSE raw]
Starts(env, file) == Parses("timeout", Declared(env, file, "timeout")) /\ Valid(Load(env, file))

\* The overrides that parse, laid over the base.
Over(overrides) ==
  [k \in Keys |-> IF Parses(k, overrides[k]) THEN Canon(k)[overrides[k]] ELSE base[k]]

\* Applied without a look at the combination.
ApplyAnyway(overrides) == Over(overrides)

\* Apply: an invalid combination is dropped as a whole.
Apply(overrides) == IF Valid(Over(overrides)) THEN Over(overrides) ELSE base

-----------------------------------------------------------------------------
(* The listing. *)

Next_(k) == IF rows[k] # None THEN rows[k] ELSE base[k]
RestartRequired(k) == Next_(k) # boot[k]

-----------------------------------------------------------------------------
(* Requests. *)

Free(r) == request[r] = None
Begins == /\ edits < MaxEdits /\ edits' = edits + 1
          /\ mixed' = (mixed \/ \E r \in Requests : ~Free(r))

\* A Set that looks at the value alone.
SetUnchecked(r, k, raw) ==
  /\ Free(r) /\ Parses(k, raw) /\ Begins
  /\ request' = [request EXCEPT ![r] = <<k, Canon(k)[raw]>>]
  /\ UNCHANGED <<base, rows, boot, starts, promised, fresh, resets>>

\* A Set that keeps the text as it was typed.
SetAsTyped(r, k, raw) ==
  /\ Free(r) /\ Parses(k, raw) /\ Valid(Over([rows EXCEPT ![k] = raw])) /\ Begins
  /\ request' = [request EXCEPT ![r] = <<k, raw>>]
  /\ UNCHANGED <<base, rows, boot, starts, promised, fresh, resets>>

\* Set, up to the store: the base, the other overrides and the new value must be valid together.
Set(r, k, raw) ==
  /\ Free(r) /\ Parses(k, raw) /\ Valid(Over([rows EXCEPT ![k] = raw])) /\ Begins
  /\ request' = [request EXCEPT ![r] = <<k, Canon(k)[raw]>>]
  /\ UNCHANGED <<base, rows, boot, starts, promised, fresh, resets>>

\* The row is written, or the secret; an empty secret is deleted, which is a reset.
Store(r) ==
  LET k == request[r][1]  v == request[r][2]  gone == Kind[k] = "secret" /\ v = ""
  IN  /\ ~Free(r)
      /\ rows' = [rows EXCEPT ![k] = IF gone THEN None ELSE v]
      /\ promised' = [promised EXCEPT ![k] = rows'[k]]
      /\ request' = [request EXCEPT ![r] = None]
      /\ fresh' = FALSE
      /\ UNCHANGED <<base, boot, edits, starts, mixed, resets>>

StoreFails(r) ==
  /\ ~Free(r) /\ request' = [request EXCEPT ![r] = None]
  /\ UNCHANGED <<base, rows, boot, edits, starts, promised, fresh, mixed, resets>>

\* Reset deletes the row and checks nothing.
Reset(r, k) ==
  /\ Free(r) /\ Begins
  /\ rows' = [rows EXCEPT ![k] = None]
  /\ promised' = [promised EXCEPT ![k] = None]
  /\ resets' = TRUE /\ fresh' = FALSE
  /\ UNCHANGED <<base, boot, request, starts>>

-----------------------------------------------------------------------------
(* Starts. *)

StartsWith(config, read) ==
  /\ starts < MaxRestarts /\ starts' = starts + 1
  /\ boot' = config /\ fresh' = read
  /\ request' = [r \in Requests |-> None]
  /\ UNCHANGED <<base, rows, edits, promised, mixed, resets>>

\* The restart that a request asks for, or a stop of any kind: requests under way are lost.
Restart == StartsWith(Apply(rows), TRUE)

\* Stored overrides that cannot be read are done without.
RestartBlind == StartsWith(base, FALSE)

Init ==
  /\ \E env \in Environments, file \in Files : Starts(env, file) /\ base = Load(env, file)
  /\ rows = [k \in Keys |-> IF k = "level" THEN Stale ELSE None]
  /\ boot = Apply(rows)
  /\ request = [r \in Requests |-> None] /\ edits = 0 /\ starts = 0
  /\ promised = [k \in Keys |-> None] /\ fresh = TRUE /\ mixed = FALSE /\ resets = FALSE

Next == \/ \E r \in Requests : \/ \E k \in Keys : Reset(r, k) \/ \E raw \in DOMAIN Canon(k) : Set(r, k, raw)
                               \/ Store(r) \/ StoreFails(r)
        \/ Restart \/ RestartBlind

Spec == Init /\ [][Next]_vars

-----------------------------------------------------------------------------
TypeOK ==
  /\ \A k \in Keys : rows[k] = None \/ k = "level" \/ rows[k] \in {Canon(k)[raw] : raw \in DOMAIN Canon(k)}
  /\ \A r \in Requests : Free(r) \/ request[r][1] \in Keys

\* kasas always starts with a configuration that Validate accepts, whatever is stored.
BootIsSound == Valid(boot)

\* Unless requests overlap or reset settings, the listing says of every key that is stored
\* in a form this version parses what the next start makes of it, and whether that
\* takes a restart.
ListedIsNext ==
  ~mixed /\ ~resets =>
    \A k \in Keys : rows[k] = None \/ Parses(k, rows[k]) =>
      /\ Next_(k) = Apply(rows)[k]
      /\ RestartRequired(k) <=> Apply(rows)[k] # boot[k]

\* "A dashboard change survives restarts and wins over static config until it is reset":
\* it is in force after every start that could read it, if no requests overlapped.
OverridesWin == fresh /\ ~mixed => \A k \in Keys : promised[k] # None => boot[k] = promised[k]

\* It is, as long as no other setting is reset.
OverridesKept == ~resets => OverridesWin
=============================================================================
