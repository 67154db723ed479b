------------------------------- MODULE Market -------------------------------
(* The read-through cache of market data: readers, the warm-up of the source's
   sync, the flight that fetches a series for all who wait for it, the refresh
   behind a stale read, and requests that add and remove series.

   The daily closes of a symbol are numbered by their time; a cached point is the symbol it was
   fetched for and when.  The provider serves the last Window closes. *)
EXTENDS Naturals, FiniteSets, WellFoundedInduction, TLAPS

CONSTANTS
  Ids, Symbols,  \* the series and the provider's symbols
  Readers,       \* requests for points
  Editors,       \* requests that add or remove a series
  TTL, Window,
  MaxClock, MaxEdits, MaxStops  \* bounds

VARIABLES
  clock,          \* the time; a close is published at each tick
  specs, saved,   \* the series in memory and in the settings table: id |-> symbol
  cache,          \* market_points: id |-> close |-> the symbol and the time, or NoPoint
  flight,         \* the single flight of each series: where it is, for which symbol, with what
  behind,         \* the refresh behind stale reads: none, spawned, joined (s.refreshing)
  reader, warm, editor,
  edits, stops,
  mixed,          \* edits overlapped since the start
  stained         \* the series removed while something read or fetched them, not cleared, or cached when
                  \* a process stopped whose edits had overlapped
vars == <<clock, specs, saved, cache, flight, behind, reader, warm, editor, edits, stops, mixed, stained>>

None == "none"
Closes == 0 .. MaxClock
NoPoint == [symbol |-> None, at |-> 0]
NoFlight == [pc |-> "none", symbol |-> None, points |-> {}, at |-> 0]
NoRead == [pc |-> "idle", id |-> None, symbol |-> None, stale |-> FALSE, cutoff |-> 0, points |-> {}, fresh |-> FALSE, undisturbed |-> TRUE]
NoEdit == [pc |-> "idle", id |-> None, next |-> [i \in Ids |-> None]]
NoWarm == [pc |-> "idle", id |-> None, todo |-> [i \in Ids |-> None]]

Cached(id) == {c \in Closes : cache[id][c] # NoPoint}
Newest(id) == CHOOSE c \in Cached(id) : \A d \in Cached(id) : d <= c
Cold(id) == Cached(id) = {}
Cutoff == IF clock > TTL THEN clock - TTL ELSE 0
Fresh(id, cutoff) == ~Cold(id) /\ cache[id][Newest(id)].at >= cutoff

-----------------------------------------------------------------------------
(* Reads. *)

\* refresh: what waits for a series joins its flight or begins one.
Join(id, symbol) == IF flight[id].pc # "none" THEN flight
                    ELSE [flight EXCEPT ![id] = [NoFlight EXCEPT !.pc = "begun", !.symbol = symbol]]

Ask(r, id) ==
  /\ reader[r].pc \in {"idle", "served"} /\ specs[id] # None
  /\ reader' = [reader EXCEPT ![r] = [NoRead EXCEPT !.pc = "look", !.id = id, !.symbol = specs[id]]]
  /\ UNCHANGED <<clock, specs, saved, cache, flight, behind, warm, editor, edits, stops, mixed, stained>>

Look(r) ==
  /\ reader[r].pc = "look"
  /\ LET id == reader[r].id
         stale == ~Cold(id) /\ ~Fresh(id, Cutoff)
     IN /\ reader' = [reader EXCEPT ![r].pc = IF Cold(id) THEN "wait" ELSE "read", ![r].stale = stale, ![r].cutoff = Cutoff]
        /\ flight' = IF Cold(id) THEN Join(id, reader[r].symbol) ELSE flight
        /\ behind' = IF stale /\ behind[id] = None THEN [behind EXCEPT ![id] = reader[r].symbol] ELSE behind
  /\ UNCHANGED <<clock, specs, saved, cache, warm, editor, edits, stops, mixed, stained>>

ReadPoints(r) ==
  /\ reader[r].pc = "read"
  /\ reader' = [reader EXCEPT ![r].pc = "tell",
                              ![r].points = {[close |-> c, point |-> cache[reader[r].id][c]] : c \in Cached(reader[r].id)}]
  /\ UNCHANGED <<clock, specs, saved, cache, flight, behind, warm, editor, edits, stops, mixed, stained>>

\* Old closes are served as fresh if the refresh behind them is done.
IsFreshByNow(r) == Fresh(reader[r].id, reader[r].cutoff)
IsFresh(r) == ~reader[r].stale /\ Fresh(reader[r].id, reader[r].cutoff)

Tell(r) ==
  /\ reader[r].pc = "tell"
  /\ reader' = [reader EXCEPT ![r].pc = "served", ![r].fresh = IsFresh(r)]
  /\ UNCHANGED <<clock, specs, saved, cache, flight, behind, warm, editor, edits, stops, mixed, stained>>

ReadFails(r) ==
  /\ reader[r].pc \in {"look", "read"}
  /\ reader' = [reader EXCEPT ![r] = NoRead]
  /\ UNCHANGED <<clock, specs, saved, cache, flight, behind, warm, editor, edits, stops, mixed, stained>>

\* The goroutine of backgroundRefresh reaches the flight.
Background(id) ==
  /\ behind[id] \in Symbols
  /\ flight' = Join(id, behind[id]) /\ behind' = [behind EXCEPT ![id] = "joined"]
  /\ UNCHANGED <<clock, specs, saved, cache, reader, warm, editor, edits, stops, mixed, stained>>

-----------------------------------------------------------------------------
(* The source's sync warms what is cold or stale, one series after the other. *)

Warm ==
  /\ warm.pc = "idle" /\ \E id \in Ids : specs[id] # None
  /\ warm' = [NoWarm EXCEPT !.pc = "next", !.todo = specs]
  /\ UNCHANGED <<clock, specs, saved, cache, flight, behind, reader, editor, edits, stops, mixed, stained>>

WarmNext(id) ==
  /\ warm.pc = "next" /\ warm.todo[id] # None
  /\ IF Fresh(id, Cutoff) THEN flight' = flight /\ warm' = [warm EXCEPT !.todo[id] = None]
     ELSE /\ flight' = Join(id, warm.todo[id])
          /\ warm' = [warm EXCEPT !.pc = "wait", !.id = id, !.todo[id] = None]
  /\ UNCHANGED <<clock, specs, saved, cache, behind, reader, editor, edits, stops, mixed, stained>>

\* Done, or its reads of what is left fail.
WarmEnds ==
  /\ warm.pc = "next" /\ warm' = NoWarm
  /\ UNCHANGED <<clock, specs, saved, cache, flight, behind, reader, editor, edits, stops, mixed, stained>>

-----------------------------------------------------------------------------
(* The flight, and its end for all who wait. *)

\* The closes that the provider answers with.
Answer == {c \in 0 .. clock : c + Window > clock}

Fetched(id) ==
  /\ flight[id].pc = "begun"
  /\ flight' = [flight EXCEPT ![id].pc = "fetched", ![id].points = Answer, ![id].at = clock]
  /\ UNCHANGED <<clock, specs, saved, cache, behind, reader, warm, editor, edits, stops, mixed, stained>>

Land(id, ok) ==
  /\ flight' = [flight EXCEPT ![id] = NoFlight]
  /\ behind' = [behind EXCEPT ![id] = IF @ = "joined" THEN None ELSE @]
  /\ warm' = IF warm.pc = "wait" /\ warm.id = id THEN [warm EXCEPT !.pc = "next", !.id = None] ELSE warm
  /\ reader' = [r \in Readers |-> IF reader[r].pc # "wait" \/ reader[r].id # id THEN reader[r]
                                  ELSE IF ok THEN [reader[r] EXCEPT !.pc = "read"] ELSE NoRead]

Recorded(id) ==
  /\ flight[id].pc = "fetched" /\ Land(id, TRUE)
  /\ cache' = [cache EXCEPT ![id] = [c \in Closes |->
       IF c \in flight[id].points THEN [symbol |-> flight[id].symbol, at |-> flight[id].at] ELSE @[c]]]
  /\ UNCHANGED <<clock, specs, saved, editor, edits, stops, mixed, stained>>

\* No key is set, no token of the rate limit in time, a notice instead of a series, or the
\* transaction fails.
FlightFails(id) ==
  /\ flight[id].pc # "none" /\ Land(id, FALSE)
  /\ UNCHANGED <<clock, specs, saved, cache, editor, edits, stops, mixed, stained>>

-----------------------------------------------------------------------------
(* Requests that add and remove series; stops. *)

Active(id) == \/ flight[id].pc # "none" \/ behind[id] # None
              \/ \E r \in Readers : reader[r].id = id /\ reader[r].pc \notin {"idle", "served"}
              \/ warm.id = id \/ warm.todo[id] # None
Others(e) == \E f \in Editors \ {e} : editor[f].pc # "idle"

Begin(e, id, symbol) ==
  /\ editor[e].pc = "idle" /\ edits < MaxEdits
  /\ edits' = edits + 1 /\ mixed' = (mixed \/ Others(e))
  /\ editor' = [editor EXCEPT ![e] = [pc |-> "persist", id |-> id, next |-> [specs EXCEPT ![id] = symbol]]]
  /\ UNCHANGED <<clock, specs, saved, cache, flight, behind, reader, warm, stops, stained>>

AddSeries(e, id, symbol) == specs[id] = None /\ Begin(e, id, symbol)
RemoveSeries(e, id) == specs[id] # None /\ Begin(e, id, None)

PersistSpecs(e) ==
  /\ editor[e].pc = "persist"
  /\ saved' = editor[e].next /\ editor' = [editor EXCEPT ![e].pc = "set"]
  /\ UNCHANGED <<clock, specs, cache, flight, behind, reader, warm, edits, stops, mixed, stained>>
\* The list is applied although it was not saved.
PersistFailsUnseen(e) ==
  /\ editor[e].pc = "persist" /\ editor' = [editor EXCEPT ![e].pc = "set"]
  /\ UNCHANGED <<clock, specs, saved, cache, flight, behind, reader, warm, edits, stops, mixed, stained>>
PersistFails(e) ==
  /\ editor[e].pc = "persist" /\ editor' = [editor EXCEPT ![e] = NoEdit]
  /\ UNCHANGED <<clock, specs, saved, cache, flight, behind, reader, warm, edits, stops, mixed, stained>>

SetSpecs(e) ==
  /\ editor[e].pc = "set" /\ specs' = editor[e].next
  /\ LET id == editor[e].id IN
       IF editor[e].next[id] = None
       THEN /\ editor' = [editor EXCEPT ![e].pc = "clear"]
            /\ stained' = IF Active(id) THEN stained \cup {id} ELSE stained
       ELSE editor' = [editor EXCEPT ![e] = NoEdit] /\ stained' = stained
  /\ UNCHANGED <<clock, saved, cache, flight, behind, reader, warm, edits, stops, mixed>>

\* The row of the series goes and its points stay.
EmptiedSeries(id) == cache
Emptied(id) == [cache EXCEPT ![id] = [c \in Closes |-> NoPoint]]

Disturb(ids) == reader' = [r \in Readers |-> IF reader[r].id \in ids THEN [reader[r] EXCEPT !.undisturbed = FALSE] ELSE reader[r]]

DeleteCached(e) ==
  /\ editor[e].pc = "clear" /\ editor' = [editor EXCEPT ![e] = NoEdit]
  /\ cache' = Emptied(editor[e].id) /\ Disturb({editor[e].id})
  /\ UNCHANGED <<clock, specs, saved, flight, behind, warm, edits, stops, mixed, stained>>
\* Logged only.
DeleteFails(e) ==
  /\ editor[e].pc = "clear" /\ editor' = [editor EXCEPT ![e] = NoEdit]
  /\ stained' = stained \cup {editor[e].id}
  /\ UNCHANGED <<clock, specs, saved, cache, flight, behind, reader, warm, edits, stops, mixed>>

\* "kasas market reset", a process of its own.
Reset ==
  /\ \E id \in Ids : ~Cold(id)
  /\ cache' = [id \in Ids |-> [c \in Closes |-> NoPoint]] /\ Disturb(Ids)
  /\ UNCHANGED <<clock, specs, saved, flight, behind, warm, editor, edits, stops, mixed, stained>>

Restart ==
  /\ stops < MaxStops /\ stops' = stops + 1
  /\ specs' = saved /\ mixed' = FALSE
  /\ flight' = [id \in Ids |-> NoFlight] /\ behind' = [id \in Ids |-> None]
  /\ reader' = [r \in Readers |-> NoRead] /\ warm' = NoWarm /\ editor' = [e \in Editors |-> NoEdit]
  /\ stained' = stained \cup {id \in Ids : ~Cold(id) /\ (mixed \/ saved[id] = None)}
  /\ UNCHANGED <<clock, saved, cache, edits>>

\* A flight ends within its timeout (20 s), which is shorter than any sensible TTL.
Tick == /\ clock < MaxClock /\ clock' = clock + 1
        /\ \A id \in Ids : flight[id].pc = "fetched" => clock < flight[id].at + TTL
        /\ UNCHANGED <<specs, saved, cache, flight, behind, reader, warm, editor, edits, stops, mixed, stained>>

Init ==
  /\ clock = 0 /\ edits = 0 /\ stops = 0 /\ mixed = FALSE /\ stained = {}
  /\ saved \in [Ids -> Symbols \cup {None}] /\ specs = saved
  /\ cache = [id \in Ids |-> [c \in Closes |-> NoPoint]]
  /\ flight = [id \in Ids |-> NoFlight] /\ behind = [id \in Ids |-> None]
  /\ reader = [r \in Readers |-> NoRead] /\ warm = NoWarm /\ editor = [e \in Editors |-> NoEdit]

Next ==
  \/ \E r \in Readers : Look(r) \/ ReadPoints(r) \/ Tell(r) \/ ReadFails(r) \/ \E id \in Ids : Ask(r, id)
  \/ \E id \in Ids : Background(id) \/ Fetched(id) \/ Recorded(id) \/ FlightFails(id) \/ WarmNext(id)
  \/ Warm \/ WarmEnds \/ Reset \/ Restart \/ Tick
  \/ \E e \in Editors : \/ PersistSpecs(e) \/ PersistFails(e) \/ SetSpecs(e) \/ DeleteCached(e) \/ DeleteFails(e)
                        \/ \E id \in Ids : RemoveSeries(e, id) \/ \E s \in Symbols : AddSeries(e, id, s)

-----------------------------------------------------------------------------
(* Properties. *)

TypeOK ==
  /\ clock \in Closes
  /\ specs \in [Ids -> Symbols \cup {None}] /\ saved \in [Ids -> Symbols \cup {None}]
  /\ \A id \in Ids : flight[id].pc \in {"none", "begun", "fetched"} /\ behind[id] \in Symbols \cup {None, "joined"}

\* Unless edits overlap, the series in use are those that a restart finds.
SeriesSaved == ~mixed /\ (\A e \in Editors : editor[e].pc # "set") => specs = saved

\* A series that was never removed under a read or a refresh has cached points of its own
\* symbol only, and none once it is removed.
CacheIsOfSeries ==
  \A id \in Ids \ stained : ~mixed /\ ~(\E e \in Editors : editor[e].id = id) =>
    \A c \in Cached(id) : cache[id][c].symbol = specs[id]

\* What is served as fresh was fetched within the TTL of the read, its newest close at
\* least, and a cold series is not served without one, unless the cache is emptied meanwhile.
FreshIsFresh ==
  \A r \in Readers : reader[r].pc = "served" /\ reader[r].undisturbed =>
    /\ reader[r].points # {}
    /\ reader[r].fresh => \E p \in reader[r].points :
         p.point.at >= reader[r].cutoff /\ \A q \in reader[r].points : q.close <= p.close

Spec == Init /\ [][Next]_vars

-----------------------------------------------------------------------------
(***************************************************************************)
(* The three hold for any series, readers, editors, TTL and window.  What  *)
(* the cache may be given is decided when a read or a refresh begins, so   *)
(* the invariant says of everything under way that it is for the symbol    *)
(* its series has (Fits), as long as the series was not removed under it;  *)
(* and of a read what it will find, from the moment it looked (ReadOf).    *)
(***************************************************************************)
\* The names are apart; a series is served some closes.
Sane ==
  /\ None \notin Symbols /\ "joined" \notin Symbols /\ None \notin Ids
  /\ TTL \in Nat /\ Window \in Nat \ {0} /\ MaxClock \in Nat

Symbol == Symbols \cup {None}
Point == [symbol : Symbols, at : Nat] \cup {NoPoint}
Served == [close : Closes, point : Point]
Flights == [pc : {"none", "begun", "fetched"}, symbol : Symbol, points : SUBSET Closes, at : Nat]
Reads == [pc : {"idle", "look", "wait", "read", "tell", "served"}, id : Ids \cup {None}, symbol : Symbol, stale : BOOLEAN,
          cutoff : Nat, points : SUBSET Served, fresh : BOOLEAN, undisturbed : BOOLEAN]
Warms == [pc : {"idle", "next", "wait"}, id : Ids \cup {None}, todo : [Ids -> Symbol]]
Edits == [pc : {"idle", "persist", "set", "clear"}, id : Ids \cup {None}, next : [Ids -> Symbol]]

Typed ==
  /\ clock \in Closes /\ mixed \in BOOLEAN /\ stained \subseteq Ids
  /\ specs \in [Ids -> Symbol] /\ saved \in [Ids -> Symbol]
  /\ cache \in [Ids -> [Closes -> Point]]
  /\ flight \in [Ids -> Flights] /\ behind \in [Ids -> Symbol \cup {"joined"}]
  /\ reader \in [Readers -> Reads] /\ warm \in Warms /\ editor \in [Editors -> Edits]
  /\ \A r \in Readers : reader[r].pc # "idle" => reader[r].id \in Ids /\ reader[r].symbol \in Symbols
  /\ \A e \in Editors : editor[e].pc # "idle" => editor[e].id \in Ids
  /\ \A id \in Ids : flight[id].pc # "none" => flight[id].symbol \in Symbols

\* What an edit under way changes is its own series.
EditOf(e) ==
  LET id == editor[e].id  next == editor[e].next
  IN  /\ editor[e].pc = "idle" => id = None
      /\ editor[e].pc \in {"persist", "set"} =>
           (next[id] = None \/ specs[id] = None) /\ \A i \in Ids \ {id} : next[i] = specs[i]
      /\ editor[e].pc = "set" => saved = next
      /\ editor[e].pc = "clear" => specs[id] = None

EditInv ==
  ~mixed => /\ \A e, f \in Editors : editor[e].pc # "idle" /\ editor[f].pc # "idle" => e = f
            /\ \A e \in Editors : EditOf(e)
            /\ (\A e \in Editors : editor[e].pc # "set") => specs = saved

\* What is fetched, refreshed, read, warmed and cached of a series is of the symbol it has.
Fits(id, symbol) == symbol = specs[id] /\ symbol # None
Busy(r) == reader[r].pc \notin {"idle", "served"}
FlightFits(id) == flight[id].pc # "none" => Fits(id, flight[id].symbol)
BehindFits(id) == behind[id] # None => specs[id] # None /\ behind[id] \in {specs[id], "joined"}
ReadersFit(id) == \A r \in Readers : Busy(r) /\ reader[r].id = id => Fits(id, reader[r].symbol)
WarmFits(id) == warm.todo[id] \in {None, specs[id]} /\ (warm.id = id => specs[id] # None)
Clearing(id) == \E e \in Editors : editor[e].pc = "clear" /\ editor[e].id = id
CacheFits(id) == ~Clearing(id) => \A c \in Cached(id) : cache[id][c].symbol = specs[id]
SeriesOf(id) == FlightFits(id) /\ BehindFits(id) /\ ReadersFit(id) /\ WarmFits(id) /\ CacheFits(id)
SeriesInv == ~mixed => \A id \in Ids \ stained : SeriesOf(id)

\* A flight that has fetched brings closes, from within the TTL.
FlightOf(id) ==
  flight[id].pc = "fetched" => flight[id].points # {} /\ Cutoff <= flight[id].at

Points(id) == {[close |-> c, point |-> cache[id][c]] : c \in Cached(id)}
\* The newest of the points ps is from k or after.
Since(ps, k) == \E p \in ps : p.point.at >= k /\ \A q \in ps : q.close <= p.close

ReadOf(r) ==
  LET id == reader[r].id
  IN  /\ reader[r].cutoff <= Cutoff
      /\ reader[r].pc = "wait" => flight[id].pc # "none" /\ Cold(id) /\ ~reader[r].stale
      /\ reader[r].pc = "read" /\ reader[r].undisturbed =>
           ~Cold(id) /\ (~reader[r].stale => Since(Points(id), reader[r].cutoff))
      /\ reader[r].pc \in {"tell", "served"} /\ reader[r].undisturbed =>
           reader[r].points # {} /\ (~reader[r].stale => Since(reader[r].points, reader[r].cutoff))
      /\ reader[r].pc = "served" => (reader[r].fresh => ~reader[r].stale)

FreshInv == (\A id \in Ids : FlightOf(id)) /\ \A r \in Readers : ReadOf(r)

MarketInv == Typed /\ EditInv /\ SeriesInv /\ FreshInv

\* The steps of one editor.
EditStepOf(e) ==
  \/ PersistSpecs(e) \/ PersistFails(e) \/ SetSpecs(e) \/ DeleteCached(e) \/ DeleteFails(e)
  \/ \E id \in Ids : RemoveSeries(e, id) \/ \E s \in Symbols : AddSeries(e, id, s)
-----------------------------------------------------------------------------
\* Some closes have a latest one.
LEMMA LatestExists ==
  ASSUME Sane, NEW S, S \subseteq Closes, S # {}
  PROVE  \E m \in S : \A d \in S : d <= m
<1> DEFINE U == {MaxClock - c : c \in S}
<1>1. S \subseteq 0 .. MaxClock /\ MaxClock \in Nat
  BY DEF Closes, Sane
<1>2. \A c \in S : c \in Nat /\ MaxClock - c \in Nat
  BY <1>1
<1>3. U \subseteq Nat /\ U # {}
  BY <1>2
<1>4. PICK u \in U : \A v \in U : ~(<<v, u>> \in OpToRel(<, Nat))
  BY <1>3, NatLessThanWellFounded, WFMin
<1>5. PICK g \in S : u = MaxClock - g
  OBVIOUS
<1>6. ASSUME NEW d \in S PROVE d <= g
  <2>1. MaxClock - d \in U /\ MaxClock - d \in Nat /\ MaxClock - g \in Nat /\ d \in Nat /\ g \in Nat
    BY <1>2
  <2>2. ~(MaxClock - d < MaxClock - g)
    BY <1>4, <1>5, <2>1 DEF OpToRel
  <2>3. QED
    BY <1>1, <2>1, <2>2
<1>7. QED
  BY <1>6

LEMMA NewestIs ==
  ASSUME Sane, NEW id, ~Cold(id)
  PROVE  Newest(id) \in Cached(id) /\ \A d \in Cached(id) : d <= Newest(id)
BY LatestExists DEF Newest, Cold, Cached

LEMMA CutoffIs ==
  ASSUME Sane, Typed
  PROVE  Cutoff \in Nat /\ clock \in Nat /\ Cutoff <= clock
BY DEF Sane, Typed, Cutoff, Closes

LEMMA NothingIs ==
  NoPoint \in Point /\ NoFlight \in Flights /\ NoRead \in Reads /\ NoEdit \in Edits /\ NoWarm \in Warms
BY DEF NoPoint, Point, NoFlight, Flights, NoRead, Reads, NoEdit, Edits, NoWarm, Warms, Symbol, Served

LEMMA JoinIs ==
  ASSUME Typed, NEW id \in Ids, NEW s \in Symbols
  PROVE  /\ Join(id, s) \in [Ids -> Flights]
         /\ \A i \in Ids \ {id} : Join(id, s)[i] = flight[i]
         /\ Join(id, s)[id].pc # "none"
         /\ flight[id].pc # "none" => Join(id, s)[id] = flight[id]
         /\ flight[id].pc = "none" => Join(id, s)[id].pc = "begun" /\ Join(id, s)[id].symbol = s
         /\ \A i \in Ids : Join(id, s)[i].pc # "none" => Join(id, s)[i].symbol \in Symbols
<1> DEFINE new == [NoFlight EXCEPT !.pc = "begun", !.symbol = s]
<1>1. flight \in [Ids -> Flights] /\ \A i \in Ids : flight[i].pc # "none" => flight[i].symbol \in Symbols
  BY DEF Typed
<1>2. new.pc = "begun" /\ new.symbol = s
  BY NothingIs DEF Flights
<1>3. new \in Flights
  BY NothingIs DEF Flights, Symbol
<1> HIDE DEF new
<1>4. Join(id, s) = (IF flight[id].pc # "none" THEN flight ELSE [flight EXCEPT ![id] = new])
  BY DEF Join, new
<1>5. QED
  BY <1>1, <1>2, <1>3, <1>4

\* A step that leaves of a component all but one function keeps the types of the others.
LEMMA LandIs ==
  ASSUME Typed, NEW id \in Ids, NEW ok, Land(id, ok)
  PROVE  /\ flight' \in [Ids -> Flights] /\ behind' \in [Ids -> Symbol \cup {"joined"}]
         /\ reader' \in [Readers -> Reads] /\ warm' \in Warms
         /\ \A i \in Ids : flight'[i].pc # "none" => flight'[i].symbol \in Symbols
         /\ \A r \in Readers : reader'[r].pc # "idle" => reader'[r].id \in Ids /\ reader'[r].symbol \in Symbols
<1>1. /\ flight' \in [Ids -> Flights]
      /\ \A i \in Ids : flight'[i].pc # "none" => flight'[i].symbol \in Symbols
  BY NothingIs DEF Typed, Land, NoFlight
<1>2. behind' \in [Ids -> Symbol \cup {"joined"}]
  BY DEF Typed, Land, Symbol
<1>3. warm' \in Warms
  BY DEF Typed, Land, Warms
<1>4. ASSUME NEW r \in Readers
      PROVE  /\ reader'[r] \in Reads
             /\ reader'[r].pc # "idle" => reader'[r].id \in Ids /\ reader'[r].symbol \in Symbols
  <2>1. /\ reader[r] \in Reads
        /\ reader[r].pc # "idle" => reader[r].id \in Ids /\ reader[r].symbol \in Symbols
    BY DEF Typed
  <2>2. reader'[r] \in {reader[r], NoRead} \/ (reader[r].pc = "wait" /\ reader'[r] = [reader[r] EXCEPT !.pc = "read"])
    BY DEF Land
  <2>3. QED
    BY <2>1, <2>2, NothingIs DEF Reads, NoRead
<1>5. reader' \in [Readers -> Reads]
  BY <1>4 DEF Land
<1>6. QED
  BY <1>1, <1>2, <1>3, <1>4, <1>5

\* A step of one reader.
LEMMA ReaderIs ==
  ASSUME Typed, NEW r \in Readers, NEW x \in Reads, reader' = [reader EXCEPT ![r] = x],
         x.pc # "idle" => x.id \in Ids /\ x.symbol \in Symbols
  PROVE  /\ reader' \in [Readers -> Reads] /\ reader'[r] = x /\ \A q \in Readers \ {r} : reader'[q] = reader[q]
         /\ \A q \in Readers : reader'[q].pc # "idle" => reader'[q].id \in Ids /\ reader'[q].symbol \in Symbols
BY DEF Typed

LEMMA DisturbIs ==
  ASSUME Typed, NEW ids, Disturb(ids)
  PROVE  /\ reader' \in [Readers -> Reads]
         /\ \A r \in Readers : reader[r].id \notin ids => reader'[r] = reader[r]
         /\ \A r \in Readers : reader[r].id \in ids => reader'[r].undisturbed = FALSE
         /\ \A r \in Readers :
              /\ reader'[r].pc = reader[r].pc /\ reader'[r].id = reader[r].id /\ reader'[r].symbol = reader[r].symbol
              /\ reader'[r].cutoff = reader[r].cutoff /\ reader'[r].stale = reader[r].stale
              /\ reader'[r].fresh = reader[r].fresh /\ reader'[r].points = reader[r].points
<1>1. \A r \in Readers : reader[r] \in Reads
  BY DEF Typed
<1>2. \A r \in Readers : [reader[r] EXCEPT !.undisturbed = FALSE] \in Reads
  BY <1>1 DEF Reads
<1>3. /\ \A r \in Readers : reader[r].id \notin ids => reader'[r] = reader[r]
      /\ \A r \in Readers : reader[r].id \in ids => reader'[r] = [reader[r] EXCEPT !.undisturbed = FALSE]
      /\ reader' \in [Readers -> Reads]
  BY <1>1, <1>2 DEF Disturb
<1>4. ASSUME NEW r \in Readers
      PROVE  /\ reader[r].id \in ids => reader'[r].undisturbed = FALSE
             /\ reader'[r].pc = reader[r].pc /\ reader'[r].id = reader[r].id /\ reader'[r].symbol = reader[r].symbol
             /\ reader'[r].cutoff = reader[r].cutoff /\ reader'[r].stale = reader[r].stale
             /\ reader'[r].fresh = reader[r].fresh /\ reader'[r].points = reader[r].points
  BY <1>1, <1>3 DEF Reads
<1>5. QED
  BY <1>3, <1>4

\* What a step of a request's read, of the background and of the source's sync does to a reader.
LEMMA LookIs ==
  ASSUME Sane, Typed, NEW r \in Readers, Look(r)
  PROVE  \E x \in Reads :
           /\ reader' = [reader EXCEPT ![r] = x]
           /\ x.id = reader[r].id /\ x.symbol = reader[r].symbol /\ x.undisturbed = reader[r].undisturbed
           /\ x.pc = (IF Cold(x.id) THEN "wait" ELSE "read") /\ x.cutoff = Cutoff
           /\ x.stale = (~Cold(x.id) /\ ~Fresh(x.id, Cutoff))
<1> DEFINE x == [reader[r] EXCEPT !.pc = IF Cold(reader[r].id) THEN "wait" ELSE "read",
                                  !.stale = ~Cold(reader[r].id) /\ ~Fresh(reader[r].id, Cutoff), !.cutoff = Cutoff]
<1>1. reader[r] \in Reads /\ reader \in [Readers -> Reads] /\ Cutoff \in Nat
  BY CutoffIs DEF Typed
<1>2. x \in Reads
  BY <1>1 DEF Reads
<1>3. /\ x.id = reader[r].id /\ x.symbol = reader[r].symbol /\ x.undisturbed = reader[r].undisturbed
      /\ x.pc = (IF Cold(x.id) THEN "wait" ELSE "read") /\ x.cutoff = Cutoff
      /\ x.stale = (~Cold(x.id) /\ ~Fresh(x.id, Cutoff))
  BY <1>1 DEF Reads
<1>4. reader' = [reader EXCEPT ![r] = x]
  BY <1>1 DEF Look
<1> HIDE DEF x
<1>5. QED
  BY <1>2, <1>3, <1>4

LEMMA ReadTyped ==
  ASSUME Sane, Typed, NEW r \in Readers,
         Look(r) \/ ReadPoints(r) \/ Tell(r) \/ ReadFails(r) \/ \E id \in Ids : Ask(r, id)
  PROVE  Typed'
<1>1. /\ reader[r] \in Reads /\ reader \in [Readers -> Reads]
      /\ reader[r].pc # "idle" => reader[r].id \in Ids /\ reader[r].symbol \in Symbols
  BY DEF Typed
<1>2. CASE Look(r)
  <2>1. reader[r].id \in Ids /\ reader[r].symbol \in Symbols
    BY <1>1, <1>2 DEF Look
  <2>2. PICK x \in Reads : /\ reader' = [reader EXCEPT ![r] = x]
                           /\ x.id = reader[r].id /\ x.symbol = reader[r].symbol
    BY <1>2, LookIs
  <2>3. /\ reader' \in [Readers -> Reads]
        /\ \A q \in Readers : reader'[q].pc # "idle" => reader'[q].id \in Ids /\ reader'[q].symbol \in Symbols
    BY <2>1, <2>2, ReaderIs
  <2>4. /\ flight' \in [Ids -> Flights]
        /\ \A id \in Ids : flight'[id].pc # "none" => flight'[id].symbol \in Symbols
    <3>1. flight' = flight \/ flight' = Join(reader[r].id, reader[r].symbol)
      BY <1>2 DEF Look
    <3>2. QED
      BY <2>1, <3>1, JoinIs DEF Typed
  <2>5. behind' \in [Ids -> Symbol \cup {"joined"}]
    BY <1>2, <2>1 DEF Look, Typed, Symbol
  <2>6. QED
    BY <1>2, <2>3, <2>4, <2>5 DEF Look, Typed
<1>3. CASE ReadPoints(r)
  <2> DEFINE ps == {[close |-> c, point |-> cache[reader[r].id][c]] : c \in Cached(reader[r].id)}
             x == [reader[r] EXCEPT !.pc = "tell", !.points = ps]
  <2>1. \A c \in Closes : cache[reader[r].id][c] \in Point
    BY <1>1, <1>3 DEF ReadPoints, Typed
  <2>2. ps \in SUBSET Served
    BY <2>1 DEF Cached, Served
  <2> HIDE DEF ps
  <2>3. x \in Reads /\ x.id = reader[r].id /\ x.symbol = reader[r].symbol
    BY <1>1, <2>2 DEF Reads
  <2>4. reader' = [reader EXCEPT ![r] = x]
    BY <1>1, <1>3 DEF ReadPoints, ps
  <2> HIDE DEF x
  <2>5. reader[r].pc # "idle"
    BY <1>3 DEF ReadPoints
  <2>6. /\ reader' \in [Readers -> Reads]
        /\ \A q \in Readers : reader'[q].pc # "idle" => reader'[q].id \in Ids /\ reader'[q].symbol \in Symbols
    BY <1>1, <2>3, <2>4, <2>5, ReaderIs
  <2>7. QED
    BY <1>3, <2>6 DEF ReadPoints, Typed
<1>4. CASE Tell(r)
  <2> DEFINE x == [reader[r] EXCEPT !.pc = "served", !.fresh = IsFresh(r)]
  <2>1. IsFresh(r) \in BOOLEAN
    BY DEF IsFresh, Fresh
  <2>2. x \in Reads /\ x.id = reader[r].id /\ x.symbol = reader[r].symbol
    BY <1>1, <2>1 DEF Reads
  <2>3. reader' = [reader EXCEPT ![r] = x] /\ reader[r].pc # "idle"
    BY <1>1, <1>4 DEF Tell
  <2> HIDE DEF x
  <2>4. /\ reader' \in [Readers -> Reads]
        /\ \A q \in Readers : reader'[q].pc # "idle" => reader'[q].id \in Ids /\ reader'[q].symbol \in Symbols
    BY <1>1, <2>2, <2>3, ReaderIs
  <2>5. QED
    BY <1>4, <2>4 DEF Tell, Typed
<1>5. CASE ReadFails(r)
  <2>1. NoRead.pc = "idle"
    BY DEF NoRead
  <2>2. /\ reader' \in [Readers -> Reads]
        /\ \A q \in Readers : reader'[q].pc # "idle" => reader'[q].id \in Ids /\ reader'[q].symbol \in Symbols
    BY <1>5, <2>1, NothingIs, ReaderIs DEF ReadFails
  <2>3. QED
    BY <1>5, <2>2 DEF ReadFails, Typed
<1>6. CASE \E id \in Ids : Ask(r, id)
  <2>1. PICK id \in Ids : Ask(r, id)
    BY <1>6
  <2> DEFINE x == [NoRead EXCEPT !.pc = "look", !.id = id, !.symbol = specs[id]]
  <2>2. specs[id] \in Symbols /\ specs[id] \in Symbol
    BY <2>1 DEF Ask, Typed, Symbol
  <2>3. x \in Reads /\ x.id = id /\ x.symbol = specs[id]
    BY <2>2, NothingIs DEF Reads
  <2> HIDE DEF x
  <2>4. reader' = [reader EXCEPT ![r] = x]
    BY <2>1 DEF Ask, x
  <2>5. /\ reader' \in [Readers -> Reads]
        /\ \A q \in Readers : reader'[q].pc # "idle" => reader'[q].id \in Ids /\ reader'[q].symbol \in Symbols
    BY <2>2, <2>3, <2>4, ReaderIs
  <2>6. QED
    BY <2>1, <2>5 DEF Ask, Typed
<1>7. QED
  BY <1>2, <1>3, <1>4, <1>5, <1>6

LEMMA FlightTyped ==
  ASSUME Sane, Typed, NEW id \in Ids,
         Background(id) \/ Fetched(id) \/ Recorded(id) \/ FlightFails(id) \/ WarmNext(id)
  PROVE  Typed'
<1>1. CASE Background(id)
  BY <1>1, JoinIs DEF Background, Typed
<1>2. CASE Fetched(id)
  <2> DEFINE x == [flight[id] EXCEPT !.pc = "fetched", !.points = Answer, !.at = clock]
  <2>1. Answer \in SUBSET Closes /\ clock \in Nat
    BY CutoffIs DEF Answer, Closes, Sane, Typed
  <2>2. flight[id] \in Flights /\ flight \in [Ids -> Flights]
    BY DEF Typed
  <2>3. x \in Flights /\ x.symbol = flight[id].symbol
    BY <2>1, <2>2 DEF Flights
  <2>4. flight' = [flight EXCEPT ![id] = x]
    BY <1>2, <2>2 DEF Fetched
  <2> HIDE DEF x
  <2>5. flight[id].symbol \in Symbols
    BY <1>2 DEF Fetched, Typed
  <2>6. /\ flight' \in [Ids -> Flights]
        /\ \A i \in Ids : flight'[i].pc # "none" => flight'[i].symbol \in Symbols
    BY <2>2, <2>3, <2>4, <2>5 DEF Typed
  <2>7. QED
    BY <1>2, <2>6 DEF Fetched, Typed
<1>3. CASE Recorded(id)
  <2>1. flight[id].symbol \in Symbols /\ flight[id].at \in Nat
    BY <1>3 DEF Recorded, Typed, Flights
  <2>2. \A c \in Closes :
          (IF c \in flight[id].points THEN [symbol |-> flight[id].symbol, at |-> flight[id].at] ELSE cache[id][c]) \in Point
    BY <2>1 DEF Typed, Point
  <2>3. cache' \in [Ids -> [Closes -> Point]]
    BY <1>3, <2>2 DEF Recorded, Typed
  <2>4. QED
    BY <1>3, <2>3, LandIs DEF Recorded, Typed
<1>4. CASE FlightFails(id)
  BY <1>4, LandIs DEF FlightFails, Typed
<1>5. CASE WarmNext(id)
  <2>1. warm.todo[id] \in Symbols /\ warm \in Warms
    BY <1>5 DEF WarmNext, Typed, Warms, Symbol
  <2>2. [warm.todo EXCEPT ![id] = None] \in [Ids -> Symbol]
    BY <2>1 DEF Warms, Symbol
  <2>3. warm' = [warm EXCEPT !.todo = [warm.todo EXCEPT ![id] = None]]
        \/ warm' = [warm EXCEPT !.pc = "wait", !.id = id, !.todo = [warm.todo EXCEPT ![id] = None]]
    BY <1>5, <2>1 DEF WarmNext, Warms
  <2>4. warm' \in Warms
    BY <2>1, <2>2, <2>3 DEF Warms
  <2>5. /\ flight' \in [Ids -> Flights]
        /\ \A i \in Ids : flight'[i].pc # "none" => flight'[i].symbol \in Symbols
    <3>1. flight' = flight \/ flight' = Join(id, warm.todo[id])
      BY <1>5 DEF WarmNext
    <3>2. QED
      BY <2>1, <3>1, JoinIs DEF Typed
  <2>6. QED
    BY <1>5, <2>4, <2>5 DEF WarmNext, Typed
<1>6. QED
  BY <1>1, <1>2, <1>3, <1>4, <1>5

\* A step of one editor.
LEMMA EditorIs ==
  ASSUME Typed, NEW e \in Editors, NEW x \in Edits, editor' = [editor EXCEPT ![e] = x], x.pc # "idle" => x.id \in Ids
  PROVE  /\ editor' \in [Editors -> Edits] /\ editor'[e] = x /\ \A f \in Editors \ {e} : editor'[f] = editor[f]
         /\ \A f \in Editors : editor'[f].pc # "idle" => editor'[f].id \in Ids
BY DEF Typed

\* The editor's own state after each of its steps.
LEMMA EditStepIs ==
  ASSUME Sane, Typed, NEW e \in Editors, EditStepOf(e)
  PROVE  /\ editor' \in [Editors -> Edits] /\ \A f \in Editors \ {e} : editor'[f] = editor[f]
         /\ \A f \in Editors : editor'[f].pc # "idle" => editor'[f].id \in Ids
         /\ PersistSpecs(e) => editor'[e].pc = "set" /\ editor'[e].id = editor[e].id /\ editor'[e].next = editor[e].next
         /\ PersistFails(e) \/ DeleteCached(e) \/ DeleteFails(e) => editor'[e] = NoEdit
         /\ SetSpecs(e) => IF editor[e].next[editor[e].id] = None
                           THEN editor'[e].pc = "clear" /\ editor'[e].id = editor[e].id
                           ELSE editor'[e] = NoEdit
         /\ \A id \in Ids, s \in Symbol : Begin(e, id, s) =>
              editor'[e].pc = "persist" /\ editor'[e].id = id /\ editor'[e].next = [specs EXCEPT ![id] = s]
<1>1. editor[e] \in Edits /\ editor \in [Editors -> Edits] /\ (editor[e].pc # "idle" => editor[e].id \in Ids)
  BY DEF Typed
<1>2. NoEdit \in Edits /\ NoEdit.pc = "idle"
  BY NothingIs DEF NoEdit
<1>3. \A pc \in {"set", "clear"} :
        /\ [editor[e] EXCEPT !.pc = pc] \in Edits /\ [editor[e] EXCEPT !.pc = pc].pc = pc
        /\ [editor[e] EXCEPT !.pc = pc].id = editor[e].id /\ [editor[e] EXCEPT !.pc = pc].next = editor[e].next
  BY <1>1 DEF Edits
<1>4. CASE PersistSpecs(e)
  <2>1. editor' = [editor EXCEPT ![e] = [editor[e] EXCEPT !.pc = "set"]] /\ editor[e].pc = "persist"
    BY <1>1, <1>4 DEF PersistSpecs
  <2>2. QED
    BY <1>1, <1>3, <2>1, EditorIs
      DEF PersistFails, DeleteCached, DeleteFails, SetSpecs, Begin
<1>5. CASE PersistFails(e) \/ DeleteCached(e) \/ DeleteFails(e)
  <2>1. editor' = [editor EXCEPT ![e] = NoEdit] /\ editor[e].pc \in {"persist", "clear"}
    BY <1>5 DEF PersistFails, DeleteCached, DeleteFails
  <2>2. editor'[e].pc = "idle"
    BY <1>1, <1>2, <2>1
  <2>3. ~SetSpecs(e)
    BY <2>1 DEF SetSpecs
  <2>4. ~PersistSpecs(e)
    <3>1. PersistSpecs(e) => editor'[e] = [editor[e] EXCEPT !.pc = "set"]
      BY <1>1 DEF PersistSpecs
    <3>2. QED
      BY <1>3, <2>2, <3>1
  <2>5. QED
    BY <1>2, <2>1, <2>3, <2>4, EditorIs DEF Begin
<1>6. CASE SetSpecs(e)
  <2>1. editor[e].pc = "set" /\ editor' = [editor EXCEPT ![e] =
          IF editor[e].next[editor[e].id] = None THEN [editor[e] EXCEPT !.pc = "clear"] ELSE NoEdit]
    BY <1>1, <1>6 DEF SetSpecs
  <2>2. QED
    BY <1>1, <1>2, <1>3, <2>1, EditorIs DEF PersistSpecs, PersistFails, DeleteCached, DeleteFails, Begin
<1>7. ASSUME NEW id \in Ids, NEW s \in Symbol, Begin(e, id, s)
      PROVE  /\ editor' \in [Editors -> Edits] /\ \A f \in Editors \ {e} : editor'[f] = editor[f]
             /\ \A f \in Editors : editor'[f].pc # "idle" => editor'[f].id \in Ids
             /\ editor[e].pc = "idle"
  <2>1. [pc |-> "persist", id |-> id, next |-> [specs EXCEPT ![id] = s]] \in Edits
    BY DEF Edits, Typed
  <2>2. QED
    BY <1>7, <2>1, EditorIs DEF Begin
<1>8. \A id \in Ids, s \in Symbol : Begin(e, id, s) =>
        editor'[e].pc = "persist" /\ editor'[e].id = id /\ editor'[e].next = [specs EXCEPT ![id] = s]
  BY <1>1 DEF Begin
<1>9. CASE \E id \in Ids, s \in Symbol : Begin(e, id, s)
  BY <1>7, <1>8, <1>9 DEF PersistSpecs, PersistFails, DeleteCached, DeleteFails, SetSpecs
<1>10. QED
  BY <1>4, <1>5, <1>6, <1>9 DEF EditStepOf, AddSeries, RemoveSeries, Symbol

LEMMA EditTyped ==
  ASSUME Sane, Typed, NEW e \in Editors, EditStepOf(e)
  PROVE  Typed'
<1>1. /\ editor[e] \in Edits /\ (editor[e].pc # "idle" => editor[e].id \in Ids)
      /\ editor' \in [Editors -> Edits] /\ \A f \in Editors : editor'[f].pc # "idle" => editor'[f].id \in Ids
  BY EditStepIs DEF Typed
<1>2. CASE PersistSpecs(e) \/ PersistFails(e)
  BY <1>1, <1>2 DEF PersistSpecs, PersistFails, Typed, Edits
<1>3. CASE SetSpecs(e)
  <2>1. specs' \in [Ids -> Symbol] /\ stained' \subseteq Ids
    BY <1>1, <1>3 DEF SetSpecs, Edits, Typed
  <2>2. QED
    BY <1>1, <1>3, <2>1 DEF SetSpecs, Typed
<1>4. CASE DeleteCached(e)
  <2>1. cache' \in [Ids -> [Closes -> Point]]
    BY <1>4, NothingIs DEF DeleteCached, Emptied, Typed
  <2>2. /\ reader' \in [Readers -> Reads]
        /\ \A r \in Readers : reader'[r].pc # "idle" => reader'[r].id \in Ids /\ reader'[r].symbol \in Symbols
    BY <1>4, DisturbIs DEF DeleteCached, Typed
  <2>3. QED
    BY <1>1, <1>4, <2>1, <2>2 DEF DeleteCached, Typed
<1>5. CASE DeleteFails(e)
  BY <1>1, <1>5 DEF DeleteFails, Typed
<1>6. CASE \E id \in Ids, s \in Symbol : Begin(e, id, s)
  BY <1>1, <1>6 DEF Begin, Typed
<1>7. QED
  BY <1>2, <1>3, <1>4, <1>5, <1>6 DEF EditStepOf, AddSeries, RemoveSeries, Symbol

LEMMA RestTyped ==
  ASSUME Sane, Typed, Reset \/ Restart \/ Tick \/ Warm \/ WarmEnds \/ UNCHANGED vars
  PROVE  Typed'
<1>1. CASE Reset
  <2>1. cache' \in [Ids -> [Closes -> Point]]
    BY <1>1, NothingIs DEF Reset
  <2>2. /\ reader' \in [Readers -> Reads]
        /\ \A r \in Readers : reader'[r].pc # "idle" => reader'[r].id \in Ids /\ reader'[r].symbol \in Symbols
    BY <1>1, DisturbIs DEF Reset, Typed
  <2>3. QED
    BY <1>1, <2>1, <2>2 DEF Reset, Typed
<1>2. CASE Restart
  <2>1. [id \in Ids |-> None] \in [Ids -> Symbol \cup {"joined"}]
    BY DEF Symbol
  <2>2. NoFlight.pc = "none" /\ NoRead.pc = "idle" /\ NoEdit.pc = "idle"
    BY DEF NoFlight, NoRead, NoEdit
  <2>3. QED
    BY <1>2, <2>1, <2>2, NothingIs DEF Restart, Typed
<1>3. CASE Tick
  BY <1>3 DEF Tick, Typed, Closes, Sane
<1>4. CASE UNCHANGED vars
  BY <1>4 DEF vars, Typed
<1>5. CASE Warm
  <2>1. [NoWarm EXCEPT !.pc = "next", !.todo = specs] \in Warms
    BY NothingIs DEF Warms, Typed
  <2>2. QED
    BY <1>5, <2>1 DEF Warm, Typed
<1>6. CASE WarmEnds
  BY <1>6, NothingIs DEF WarmEnds, Typed
<1>7. QED
  BY <1>1, <1>2, <1>3, <1>4, <1>5, <1>6

-----------------------------------------------------------------------------
\* While edits do not overlap there is one editor at most, and it changes one series.
LEMMA EditKept ==
  ASSUME EditInv, UNCHANGED <<editor, specs, saved>>, mixed' = mixed
  PROVE  EditInv'
BY DEF EditInv, EditOf

LEMMA EditStep ==
  ASSUME Sane, Typed, EditInv, NEW e \in Editors, EditStepOf(e)
  PROVE  EditInv'
<1> SUFFICES ASSUME ~mixed' PROVE EditInv'
  BY DEF EditInv
<1>1. ~mixed /\ (editor[e].pc = "idle" => ~Others(e))
  <2>1. CASE PersistSpecs(e) \/ PersistFails(e) \/ SetSpecs(e) \/ DeleteCached(e) \/ DeleteFails(e)
    BY <2>1 DEF PersistSpecs, PersistFails, SetSpecs, DeleteCached, DeleteFails
  <2>2. CASE \E id \in Ids, s \in Symbol : Begin(e, id, s)
    <3>1. mixed' = (mixed \/ Others(e)) /\ mixed \in BOOLEAN
      BY <2>2 DEF Begin, Typed
    <3>2. QED
      BY <3>1
  <2>3. QED
    BY <2>1, <2>2 DEF EditStepOf, AddSeries, RemoveSeries, Symbol
<1>2. \A f \in Editors \ {e} : editor[f].pc = "idle" /\ editor[f].id = None /\ editor'[f] = editor[f]
  <2>1. \A f \in Editors \ {e} : editor[f].pc = "idle"
    BY <1>1 DEF EditInv, Others
  <2>2. QED
    BY <1>1, <2>1, EditStepIs DEF EditInv, EditOf
<1>3. EditOf(e) /\ editor[e] \in Edits /\ (editor[e].pc # "idle" => editor[e].id \in Ids)
      /\ ((\A f \in Editors : editor[f].pc # "set") => specs = saved)
  BY <1>1 DEF EditInv, Typed
<1>4. specs \in [Ids -> Symbol] /\ saved \in [Ids -> Symbol] /\ editor[e].next \in [Ids -> Symbol]
  BY <1>3 DEF Typed, Edits
<1>5. (editor[e].pc # "set" => specs = saved) /\ NoEdit.pc = "idle" /\ NoEdit.id = None
  BY <1>2, <1>3 DEF NoEdit
<1>6. /\ EditOf(e)'
      /\ editor'[e].pc # "set" => specs' = saved'
  <2>1. CASE PersistSpecs(e)
    BY <1>3, <2>1, EditStepIs DEF PersistSpecs, EditOf
  <2>2. CASE PersistFails(e) \/ DeleteCached(e) \/ DeleteFails(e)
    <3>1. editor'[e] = NoEdit /\ specs' = specs /\ saved' = saved /\ editor[e].pc # "set"
      BY <2>2, EditStepIs DEF PersistFails, DeleteCached, DeleteFails
    <3>2. QED
      BY <1>5, <3>1 DEF EditOf
  <2>3. CASE SetSpecs(e)
    <3>1. editor[e].pc = "set" /\ specs' = editor[e].next /\ saved' = saved /\ saved = editor[e].next
      BY <1>3, <2>3 DEF SetSpecs, EditOf
    <3>2. \/ editor'[e].pc = "clear" /\ editor'[e].id = editor[e].id /\ specs'[editor[e].id] = None
          \/ editor'[e] = NoEdit
      BY <2>3, <3>1, EditStepIs
    <3>3. QED
      BY <1>5, <3>1, <3>2 DEF EditOf
  <2>4. ASSUME NEW id \in Ids, NEW s \in Symbol, Begin(e, id, s), s = None \/ specs[id] = None
        PROVE  EditOf(e)' /\ (editor'[e].pc # "set" => specs' = saved')
    <3>1. /\ editor'[e].pc = "persist" /\ editor'[e].id = id /\ editor'[e].next = [specs EXCEPT ![id] = s]
          /\ specs' = specs /\ saved' = saved /\ editor[e].pc = "idle"
      BY <2>4, EditStepIs DEF Begin
    <3>2. editor'[e].next[id] = s /\ \A i \in Ids \ {id} : editor'[e].next[i] = specs[i]
      BY <1>4, <3>1
    <3>3. QED
      BY <1>5, <2>4, <3>1, <3>2 DEF EditOf
  <2>5. QED
    BY <2>1, <2>2, <2>3, <2>4 DEF EditStepOf, AddSeries, RemoveSeries, Symbol
<1>7. \A f \in Editors \ {e} : EditOf(f)'
  BY <1>2 DEF EditOf
<1>8. \A f, g \in Editors : editor'[f].pc # "idle" /\ editor'[g].pc # "idle" => f = g
  BY <1>2
<1>9. QED
  BY <1>6, <1>7, <1>8 DEF EditInv

LEMMA RestartEdit ==
  ASSUME Restart
  PROVE  EditInv'
<1>1. \A e \in Editors : editor'[e] = NoEdit
  BY DEF Restart
<1>2. specs' = saved'
  BY DEF Restart
<1>3. \A e \in Editors : EditOf(e)' /\ editor'[e].pc = "idle"
  BY <1>1 DEF EditOf, NoEdit
<1>4. QED
  BY <1>2, <1>3 DEF EditInv

-----------------------------------------------------------------------------
\* What is under way for a series stays for the symbol the series has.
LEMMA JoinFits ==
  ASSUME Typed, NEW i \in Ids, NEW s \in Symbols, NEW id \in Ids, FlightFits(id), specs' = specs,
         flight' = Join(i, s), i = id => Fits(id, s)
  PROVE  FlightFits(id)'
<1>1. CASE i = id
  BY <1>1, JoinIs DEF FlightFits, Fits
<1>2. CASE i # id
  BY <1>2, JoinIs DEF FlightFits, Fits
<1>3. QED
  BY <1>1, <1>2

LEMMA ReadersKept ==
  ASSUME Typed, NEW r \in Readers, NEW x \in Reads, reader' = [reader EXCEPT ![r] = x], specs' = specs,
         NEW id \in Ids, ReadersFit(id), x.pc \notin {"idle", "served"} /\ x.id = id => Fits(id, x.symbol)
  PROVE  ReadersFit(id)'
<1>1. reader'[r] = x /\ \A q \in Readers \ {r} : reader'[q] = reader[q]
  BY DEF Typed
<1>2. ASSUME NEW q \in Readers, Busy(q)', reader'[q].id = id
      PROVE  Fits(id, reader[q].symbol)' /\ reader'[q].symbol = specs[id] /\ specs[id] # None
  <2>1. CASE q = r
    BY <1>1, <1>2, <2>1 DEF Busy, Fits
  <2>2. CASE q # r
    BY <1>1, <1>2, <2>2 DEF Busy, Fits, ReadersFit
  <2>3. QED
    BY <2>1, <2>2
<1>3. QED
  BY <1>2 DEF ReadersFit, Fits

LEMMA ReadFits ==
  ASSUME Sane, Typed, NEW r \in Readers,
         Look(r) \/ ReadPoints(r) \/ Tell(r) \/ ReadFails(r) \/ \E id \in Ids : Ask(r, id),
         NEW id \in Ids, SeriesOf(id)
  PROVE  SeriesOf(id)'
<1>1. /\ specs' = specs /\ warm' = warm /\ cache' = cache /\ editor' = editor
      /\ FlightFits(id) /\ BehindFits(id) /\ ReadersFit(id) /\ WarmFits(id) /\ CacheFits(id)
  BY DEF Look, ReadPoints, Tell, ReadFails, Ask, SeriesOf
<1>2. WarmFits(id)' /\ CacheFits(id)'
  BY <1>1 DEF WarmFits, CacheFits, Clearing, Cached
<1>3. /\ reader[r] \in Reads /\ reader \in [Readers -> Reads]
      /\ reader[r].pc # "idle" => reader[r].id \in Ids /\ reader[r].symbol \in Symbols
  BY DEF Typed
<1>4. flight' = flight => FlightFits(id)'
  BY <1>1 DEF FlightFits, Fits
<1>5. behind' = behind => BehindFits(id)'
  BY <1>1 DEF BehindFits
<1>6. CASE Look(r)
  <2>1. PICK x \in Reads : /\ reader' = [reader EXCEPT ![r] = x]
                           /\ x.id = reader[r].id /\ x.symbol = reader[r].symbol
    BY <1>6, LookIs
  <2>2. reader[r].id = id => Fits(id, reader[r].symbol)
    BY <1>1, <1>6 DEF Look, ReadersFit, Busy
  <2>3. ReadersFit(id)'
    BY <1>1, <2>1, <2>2, ReadersKept
  <2>4. FlightFits(id)'
    <3>1. flight' = flight \/ flight' = Join(reader[r].id, reader[r].symbol)
      BY <1>6 DEF Look
    <3>2. reader[r].id \in Ids /\ reader[r].symbol \in Symbols
      BY <1>3, <1>6 DEF Look
    <3>3. QED
      BY <1>1, <1>4, <2>2, <3>1, <3>2, JoinFits
  <2>5. BehindFits(id)'
    <3>1. behind' = behind \/ behind' = [behind EXCEPT ![reader[r].id] = reader[r].symbol]
      BY <1>6 DEF Look
    <3>2. QED
      BY <1>1, <1>5, <2>2, <3>1 DEF BehindFits, Fits, Typed
  <2>6. QED
    BY <1>2, <2>3, <2>4, <2>5 DEF SeriesOf
<1>7. CASE ReadPoints(r) \/ Tell(r)
  <2>1. /\ flight' = flight /\ behind' = behind /\ reader' \in [Readers -> Reads]
        /\ reader[r].pc \notin {"idle", "served"}
    BY <1>7, ReadTyped DEF ReadPoints, Tell, Typed
  <2>2. reader'[r].id = reader[r].id /\ reader'[r].symbol = reader[r].symbol /\ \A q \in Readers \ {r} : reader'[q] = reader[q]
    <3>1. CASE ReadPoints(r)
      BY <1>3, <3>1 DEF ReadPoints, Reads
    <3>2. CASE Tell(r)
      BY <1>3, <3>2 DEF Tell, Reads
    <3>3. QED
      BY <1>7, <3>1, <3>2
  <2>3. reader' = [reader EXCEPT ![r] = reader'[r]] /\ reader'[r] \in Reads
    BY <1>3, <2>1, <2>2
  <2>4. reader'[r].id = id => Fits(id, reader'[r].symbol)
    BY <1>1, <2>1, <2>2 DEF ReadersFit, Busy
  <2>5. ReadersFit(id)'
    <3> DEFINE x == reader'[r]
    <3>1. x \in Reads /\ reader' = [reader EXCEPT ![r] = x] /\ (x.id = id => Fits(id, x.symbol))
      BY <2>3, <2>4
    <3> HIDE DEF x
    <3>2. QED
      BY <1>1, <3>1, ReadersKept
  <2>6. QED
    BY <1>2, <1>4, <1>5, <2>1, <2>5 DEF SeriesOf
<1>8. CASE ReadFails(r)
  <2>1. ReadersFit(id)'
    BY <1>1, <1>8, NothingIs, ReadersKept DEF ReadFails, NoRead
  <2>2. QED
    BY <1>2, <1>4, <1>5, <1>8, <2>1 DEF SeriesOf, ReadFails
<1>9. CASE \E i \in Ids : Ask(r, i)
  <2>1. PICK i \in Ids : Ask(r, i)
    BY <1>9
  <2> DEFINE x == [NoRead EXCEPT !.pc = "look", !.id = i, !.symbol = specs[i]]
  <2>2. specs[i] \in Symbols /\ specs[i] \in Symbol /\ specs[i] # None
    BY <2>1 DEF Ask, Typed, Symbol
  <2>3. x \in Reads /\ x.id = i /\ x.symbol = specs[i]
    BY <2>2, NothingIs DEF Reads
  <2>4. reader' = [reader EXCEPT ![r] = x]
    BY <2>1 DEF Ask
  <2> HIDE DEF x
  <2>5. ReadersFit(id)'
    BY <1>1, <2>2, <2>3, <2>4, ReadersKept DEF Fits
  <2>6. QED
    BY <1>2, <1>4, <1>5, <2>1, <2>5 DEF SeriesOf, Ask
<1>10. QED
  BY <1>6, <1>7, <1>8, <1>9

LEMMA LandFits ==
  ASSUME Sane, Typed, NEW i \in Ids, NEW ok, Land(i, ok), specs' = specs, NEW id \in Ids,
         FlightFits(id), BehindFits(id), ReadersFit(id), WarmFits(id)
  PROVE  FlightFits(id)' /\ BehindFits(id)' /\ ReadersFit(id)' /\ WarmFits(id)'
<1>1. FlightFits(id)'
  BY DEF Land, FlightFits, Fits, NoFlight, Typed
<1>2. BehindFits(id)'
  BY DEF Land, BehindFits, Typed
<1>3. \A r \in Readers : Busy(r)' => Busy(r) /\ reader'[r].id = reader[r].id /\ reader'[r].symbol = reader[r].symbol
  <2>1. ASSUME NEW r \in Readers, Busy(r)'
        PROVE  Busy(r) /\ reader'[r].id = reader[r].id /\ reader'[r].symbol = reader[r].symbol
    <3>1. reader'[r] = reader[r] \/ reader'[r] = NoRead \/ (reader[r].pc = "wait" /\ reader'[r] = [reader[r] EXCEPT !.pc = "read"])
      BY DEF Land
    <3>2. reader[r] \in Reads
      BY DEF Typed
    <3>3. QED
      BY <2>1, <3>1, <3>2 DEF Busy, NoRead, Reads
  <2>2. QED
    BY <2>1
<1>4. ReadersFit(id)'
  BY <1>3 DEF ReadersFit, Fits
<1>5. warm'.todo = warm.todo /\ (warm'.id = id => warm.id = id)
  BY DEF Land, Typed, Warms, Sane
<1>6. WarmFits(id)'
  BY <1>5 DEF WarmFits
<1>7. QED
  BY <1>1, <1>2, <1>4, <1>6

LEMMA UnderWayFits ==
  ASSUME Sane, Typed, NEW i \in Ids,
         Background(i) \/ Fetched(i) \/ Recorded(i) \/ FlightFails(i) \/ WarmNext(i) \/ Warm \/ WarmEnds,
         NEW id \in Ids, SeriesOf(id)
  PROVE  SeriesOf(id)'
<1>1. /\ specs' = specs /\ editor' = editor
      /\ FlightFits(id) /\ BehindFits(id) /\ ReadersFit(id) /\ WarmFits(id) /\ CacheFits(id)
  BY DEF Background, Fetched, Recorded, FlightFails, WarmNext, Warm, WarmEnds, SeriesOf
<1>2. /\ reader' = reader => ReadersFit(id)'
      /\ flight' = flight => FlightFits(id)'
      /\ behind' = behind => BehindFits(id)'
      /\ warm' = warm => WarmFits(id)'
      /\ cache' = cache => CacheFits(id)'
  BY <1>1 DEF ReadersFit, Busy, Fits, FlightFits, BehindFits, WarmFits, CacheFits, Clearing, Cached
<1>3. CASE Background(i)
  <2>1. behind[i] \in Symbols /\ (i = id => Fits(i, behind[i]))
    BY <1>1, <1>3 DEF Background, BehindFits, Fits, Sane
  <2>2. FlightFits(id)'
    BY <1>1, <1>3, <2>1, JoinFits DEF Background
  <2>3. BehindFits(id)'
    BY <1>1, <1>3, <2>1 DEF Background, BehindFits, Fits, Typed
  <2>4. QED
    BY <1>2, <1>3, <2>2, <2>3 DEF Background, SeriesOf
<1>4. CASE Fetched(i)
  <2>1. flight[i].pc # "none" /\ flight'[i].symbol = flight[i].symbol /\ \A j \in Ids \ {i} : flight'[j] = flight[j]
    BY <1>4 DEF Fetched, Typed, Flights
  <2>2. FlightFits(id)'
    BY <1>1, <2>1 DEF FlightFits, Fits
  <2>3. QED
    BY <1>2, <1>4, <2>2 DEF Fetched, SeriesOf
<1>5. CASE Recorded(i)
  <2>1. FlightFits(id)' /\ BehindFits(id)' /\ ReadersFit(id)' /\ WarmFits(id)'
    BY <1>1, <1>5, LandFits DEF Recorded
  <2>2. CacheFits(id)'
    <3>1. \A c \in Closes : i = id => cache'[id][c] = cache[id][c] \/ cache'[id][c].symbol = specs[id]
      BY <1>1, <1>5 DEF Recorded, Typed, FlightFits, Fits
    <3>2. i # id => cache'[id] = cache[id]
      BY <1>5 DEF Recorded, Typed
    <3>3. QED
      BY <1>1, <3>1, <3>2 DEF CacheFits, Clearing, Cached
  <2>3. QED
    BY <2>1, <2>2 DEF SeriesOf
<1>6. CASE FlightFails(i)
  BY <1>1, <1>2, <1>6, LandFits DEF FlightFails, SeriesOf
<1>7. CASE WarmNext(i)
  <2>1. warm.todo[i] \in Symbols /\ warm \in Warms /\ (i = id => Fits(i, warm.todo[i]))
    BY <1>1, <1>7 DEF WarmNext, Typed, Warms, Symbol, WarmFits, Fits
  <2>2. FlightFits(id)'
    <3>1. flight' = flight \/ flight' = Join(i, warm.todo[i])
      BY <1>7 DEF WarmNext
    <3>2. QED
      BY <1>1, <1>2, <2>1, <3>1, JoinFits
  <2>3. WarmFits(id)'
    <3> DEFINE left == [warm.todo EXCEPT ![i] = None]
    <3>1. warm' = [warm EXCEPT !.todo = left] \/ warm' = [warm EXCEPT !.pc = "wait", !.id = i, !.todo = left]
      BY <1>7, <2>1 DEF WarmNext, Warms
    <3>2. left[id] \in {None, warm.todo[id]}
      BY <2>1 DEF Warms
    <3> HIDE DEF left
    <3>3. warm'.todo = left /\ warm'.id \in {warm.id, i}
      BY <2>1, <3>1 DEF Warms
    <3>4. QED
      BY <1>1, <2>1, <3>2, <3>3 DEF WarmFits, Fits
  <2>4. QED
    BY <1>2, <1>7, <2>2, <2>3 DEF WarmNext, SeriesOf
<1>8. CASE Warm
  <2>1. warm'.todo = specs /\ warm'.id = None
    BY <1>8, NothingIs DEF Warm, NoWarm
  <2>2. WarmFits(id)'
    BY <1>1, <2>1 DEF WarmFits, Sane
  <2>3. QED
    BY <1>2, <1>8, <2>2 DEF Warm, SeriesOf
<1>9. CASE WarmEnds
  <2>1. WarmFits(id)'
    BY <1>1, <1>9 DEF WarmEnds, NoWarm, WarmFits, Sane
  <2>2. QED
    BY <1>2, <1>9, <2>1 DEF WarmEnds, SeriesOf
<1>10. QED
  BY <1>3, <1>4, <1>5, <1>6, <1>7, <1>8, <1>9

LEMMA RestFits ==
  ASSUME Typed, Reset \/ Tick \/ UNCHANGED vars, NEW id \in Ids, SeriesOf(id)
  PROVE  SeriesOf(id)'
<1>1. /\ specs' = specs /\ editor' = editor /\ flight' = flight /\ behind' = behind /\ warm' = warm
      /\ FlightFits(id) /\ BehindFits(id) /\ ReadersFit(id) /\ WarmFits(id) /\ CacheFits(id)
  BY DEF Reset, Tick, vars, SeriesOf
<1>2. FlightFits(id)' /\ BehindFits(id)' /\ WarmFits(id)'
  BY <1>1 DEF Fits, FlightFits, BehindFits, WarmFits
<1>3. cache' = cache \/ Cached(id)' = {}
  BY DEF Reset, Tick, vars, Cached
<1>4. CacheFits(id)'
  BY <1>1, <1>3 DEF CacheFits, Clearing, Cached
<1>5. \A r \in Readers : reader'[r].pc = reader[r].pc /\ reader'[r].id = reader[r].id /\ reader'[r].symbol = reader[r].symbol
  <2>1. CASE Reset
    BY <2>1, DisturbIs DEF Reset
  <2>2. CASE Tick \/ UNCHANGED vars
    BY <2>2 DEF Tick, vars
  <2>3. QED
    BY <2>1, <2>2
<1>6. ReadersFit(id)'
  BY <1>1, <1>5 DEF ReadersFit, Busy, Fits
<1>7. QED
  BY <1>2, <1>4, <1>6 DEF SeriesOf

\* An edit of one series leaves the others; a series that is removed under something is stained, and
\* one that is added has nothing under way and nothing cached.
LEMMA EditFits ==
  ASSUME Sane, Typed, EditInv, SeriesInv, NEW e \in Editors, EditStepOf(e), ~mixed,
         NEW id \in Ids \ stained'
  PROVE  SeriesOf(id)'
<1>1. id \notin stained
  BY DEF EditStepOf, PersistSpecs, PersistFails, SetSpecs, DeleteCached, DeleteFails, AddSeries, RemoveSeries, Begin
<1>2. FlightFits(id) /\ BehindFits(id) /\ ReadersFit(id) /\ WarmFits(id) /\ CacheFits(id)
  BY <1>1 DEF SeriesInv, SeriesOf
<1>3. /\ flight' = flight /\ behind' = behind /\ warm' = warm
      /\ \A r \in Readers : reader'[r].pc = reader[r].pc /\ reader'[r].id = reader[r].id /\ reader'[r].symbol = reader[r].symbol
  <2>1. CASE DeleteCached(e)
    BY <2>1, DisturbIs DEF DeleteCached
  <2>2. CASE ~DeleteCached(e)
    BY <2>2 DEF EditStepOf, PersistSpecs, PersistFails, SetSpecs, DeleteFails, AddSeries, RemoveSeries, Begin
  <2>3. QED
    BY <2>1, <2>2
<1>4. specs'[id] = specs[id] => FlightFits(id)' /\ BehindFits(id)' /\ ReadersFit(id)' /\ WarmFits(id)'
  BY <1>2, <1>3 DEF Fits, FlightFits, BehindFits, ReadersFit, Busy, WarmFits
<1>5. /\ \A f \in Editors \ {e} : editor'[f] = editor[f]
      /\ editor \in [Editors -> Edits] /\ editor[e].next \in [Ids -> Symbol] /\ NoEdit.pc = "idle"
  BY EditStepIs DEF Typed, Edits, NoEdit
<1>6. CASE PersistSpecs(e) \/ PersistFails(e) \/ \E i \in Ids, s \in Symbol : Begin(e, i, s)
  <2>1. /\ specs' = specs /\ cache' = cache /\ editor[e].pc # "clear"
    BY <1>6 DEF PersistSpecs, PersistFails, Begin
  <2>2. Clearing(id) => Clearing(id)'
    BY <1>5, <2>1 DEF Clearing
  <2>3. CacheFits(id)'
    BY <1>2, <2>1, <2>2 DEF CacheFits, Cached
  <2>4. QED
    BY <1>4, <2>1, <2>3 DEF SeriesOf
<1>7. CASE SetSpecs(e)
  <2>1. /\ specs' = editor[e].next /\ cache' = cache /\ editor[e].pc = "set" /\ EditOf(e) /\ editor[e].id \in Ids
    BY <1>7 DEF SetSpecs, EditInv, Typed
  <2>2. CASE id # editor[e].id
    <3>1. specs'[id] = specs[id]
      BY <2>1, <2>2 DEF EditOf
    <3>2. Clearing(id) => Clearing(id)'
      BY <1>5, <2>1 DEF Clearing
    <3>3. CacheFits(id)'
      BY <1>2, <2>1, <3>1, <3>2 DEF CacheFits, Cached
    <3>4. QED
      BY <1>4, <3>1, <3>3 DEF SeriesOf
  <2>3. CASE id = editor[e].id /\ specs'[id] = None
    <3>1. ~Active(id)
      BY <1>7, <2>1, <2>3 DEF SetSpecs
    <3>2. flight[id].pc = "none" /\ behind[id] = None /\ warm.id # id /\ warm.todo[id] = None
          /\ \A r \in Readers : reader[r].id = id => reader[r].pc \in {"idle", "served"}
      BY <3>1 DEF Active
    <3>3. Clearing(id)'
      BY <1>7, <2>1, <2>3, EditStepIs DEF Clearing
    <3>4. QED
      BY <1>3, <3>2, <3>3 DEF SeriesOf, FlightFits, BehindFits, ReadersFit, Busy, WarmFits, CacheFits
  <2>4. CASE id = editor[e].id /\ specs'[id] # None
    <3>1. specs[id] = None
      BY <2>1, <2>4 DEF EditOf
    <3>2. flight[id].pc = "none" /\ behind[id] = None /\ warm.id # id /\ warm.todo[id] = None
          /\ \A r \in Readers : reader[r].id = id => reader[r].pc \in {"idle", "served"}
      BY <1>2, <3>1 DEF Fits, FlightFits, BehindFits, ReadersFit, Busy, WarmFits
    <3>3. ~Clearing(id)
      BY <2>1 DEF Clearing, EditInv
    <3>4. Cached(id) = {}
      <4>1. \A c \in Closes : cache[id][c] \in Point
        BY DEF Typed
      <4>2. \A c \in Cached(id) : cache[id][c].symbol \in Symbols
        BY <4>1 DEF Cached, Point
      <4>3. QED
        BY <1>2, <3>1, <3>3, <4>2 DEF CacheFits, Sane
    <3>5. CacheFits(id)'
      BY <2>1, <3>4 DEF CacheFits, Cached
    <3>6. QED
      BY <1>3, <3>2, <3>5 DEF SeriesOf, FlightFits, BehindFits, ReadersFit, Busy, WarmFits
  <2>5. QED
    BY <2>2, <2>3, <2>4
<1>8. CASE DeleteCached(e)
  <2>1. specs' = specs /\ cache' = Emptied(editor[e].id) /\ editor[e].pc = "clear" /\ editor[e].id \in Ids
    BY <1>8 DEF DeleteCached, Typed
  <2>2. CASE id = editor[e].id
    <3>1. Cached(id)' = {}
      BY <2>1, <2>2 DEF Emptied, Cached, Typed
    <3>2. QED
      BY <1>4, <2>1, <3>1 DEF SeriesOf, CacheFits
  <2>3. CASE id # editor[e].id
    <3>1. cache'[id] = cache[id] /\ (Clearing(id) => Clearing(id)')
      BY <1>5, <2>1, <2>3 DEF Emptied, Clearing, Typed
    <3>2. QED
      BY <1>2, <1>4, <2>1, <3>1 DEF SeriesOf, CacheFits, Cached
  <2>4. QED
    BY <2>2, <2>3
<1>9. CASE DeleteFails(e)
  <2>1. specs' = specs /\ cache' = cache /\ id # editor[e].id
    BY <1>9 DEF DeleteFails
  <2>2. Clearing(id) => Clearing(id)'
    BY <1>5, <2>1 DEF Clearing
  <2>3. QED
    BY <1>2, <1>4, <2>1, <2>2 DEF SeriesOf, CacheFits, Cached
<1>10. QED
  BY <1>6, <1>7, <1>8, <1>9 DEF EditStepOf, AddSeries, RemoveSeries, Symbol

\* A restart forgets that edits overlapped, so it stains what such a process left cached.
LEMMA RestartFits ==
  ASSUME Sane, Typed, EditInv, SeriesInv, Restart, NEW id \in Ids \ stained'
  PROVE  SeriesOf(id)'
<1>1. /\ flight'[id].pc = "none" /\ behind'[id] = None /\ warm'.id # id /\ warm'.todo[id] = None
      /\ \A r \in Readers : reader'[r].pc = "idle"
  BY DEF Restart, NoFlight, NoRead, NoWarm, Sane
<1>2. cache' = cache /\ specs' = saved /\ id \notin stained /\ (Cold(id) \/ (~mixed /\ saved[id] # None))
  BY DEF Restart
<1>3. Cached(id) = {} \/ \A c \in Cached(id) : cache[id][c].symbol = saved[id]
  <2> SUFFICES ASSUME ~mixed, saved[id] # None, Cached(id) # {}
               PROVE  \A c \in Cached(id) : cache[id][c].symbol = saved[id]
    BY <1>2 DEF Cold
  <2>1. CacheFits(id)
    BY <1>2 DEF SeriesInv, SeriesOf
  <2>2. \A c \in Cached(id) : cache[id][c].symbol \in Symbols
    <3>1. \A c \in Closes : cache[id][c] \in Point
      BY DEF Typed
    <3>2. QED
      BY <3>1 DEF Cached, Point
  <2>3. CASE \E e \in Editors : editor[e].pc = "set"
    <3>1. PICK e \in Editors : editor[e].pc = "set"
      BY <2>3
    <3>2. EditOf(e) /\ ~Clearing(id)
      BY <3>1 DEF EditInv, Clearing
    <3>3. saved[id] = specs[id] \/ specs[id] = None
      BY <3>1, <3>2 DEF EditOf
    <3>4. QED
      BY <2>1, <2>2, <3>2, <3>3 DEF CacheFits, Sane
  <2>4. CASE \A e \in Editors : editor[e].pc # "set"
    <3>1. specs = saved
      BY <2>4 DEF EditInv
    <3>2. ~Clearing(id)
      BY <3>1 DEF EditInv, EditOf, Clearing
    <3>3. QED
      BY <2>1, <3>1, <3>2 DEF CacheFits
  <2>5. QED
    BY <2>3, <2>4
<1>4. CacheFits(id)'
  BY <1>2, <1>3 DEF CacheFits, Cached
<1>5. QED
  BY <1>1, <1>4 DEF SeriesOf, FlightFits, BehindFits, ReadersFit, Busy, WarmFits

-----------------------------------------------------------------------------
\* A fresh series has points of which the newest is fresh.
LEMMA FreshSince ==
  ASSUME Sane, NEW id, NEW k, Fresh(id, k)
  PROVE  Since(Points(id), k)
<1> DEFINE p == [close |-> Newest(id), point |-> cache[id][Newest(id)]]
<1>1. p \in Points(id) /\ p.point.at >= k
  BY NewestIs DEF Fresh, Points
<1>2. \A q \in Points(id) : q.close <= p.close
  BY NewestIs DEF Fresh, Points
<1> HIDE DEF p
<1>3. QED
  BY <1>1, <1>2 DEF Since

\* What a flight records is as new as what is asked of it.
LEMMA RecordedSince ==
  ASSUME Sane, Typed, NEW i \in Ids, Recorded(i), FlightOf(i), NEW k \in Nat, k <= Cutoff,
         Cold(i) \/ Since(Points(i), k)
  PROVE  Since(Points(i), k)'
<1> DEFINE ps == flight[i].points
<1>1. ps # {} /\ ps \subseteq Closes /\ flight[i].at \in Nat /\ flight[i].at >= k /\ flight[i].symbol \in Symbols
  <2>1. flight[i].pc = "fetched" /\ flight[i] \in Flights /\ Cutoff \in Nat
    BY CutoffIs DEF Recorded, Typed
  <2>2. QED
    BY <2>1 DEF FlightOf, Flights, Typed
<1>2. \A c \in Closes : cache'[i][c] = IF c \in ps THEN [symbol |-> flight[i].symbol, at |-> flight[i].at] ELSE cache[i][c]
  BY DEF Recorded, Typed
<1> HIDE DEF ps
<1>3. \A c \in ps : cache'[i][c] # NoPoint /\ cache'[i][c].at = flight[i].at
  BY <1>1, <1>2 DEF NoPoint, Sane
<1>4. Cached(i)' = Cached(i) \cup ps
  BY <1>1, <1>2, <1>3 DEF Cached, Closes
<1>5. Cached(i)' \subseteq Closes
  BY <1>1, <1>4 DEF Cached
<1>6. PICK m \in Cached(i)' : \A d \in Cached(i)' : d <= m
  BY <1>1, <1>4, <1>5, LatestExists
<1>7. cache'[i][m].at >= k
  <2>1. CASE m \in ps
    BY <1>1, <1>3, <2>1
  <2>2. CASE m \notin ps
    <3>1. m \in Cached(i) /\ cache'[i][m] = cache[i][m]
      BY <1>2, <1>4, <1>5, <1>6, <2>2
    <3>2. PICK p \in Points(i) : p.point.at >= k /\ \A q \in Points(i) : q.close <= p.close
      BY <3>1 DEF Since, Cold
    <3>3. PICK c \in Cached(i) : p = [close |-> c, point |-> cache[i][c]]
      BY <3>2 DEF Points
    <3>4. [close |-> m, point |-> cache[i][m]] \in Points(i)
      BY <3>1 DEF Points
    <3>5. m <= c /\ c <= m /\ m \in Nat /\ c \in Nat
      BY <1>4, <1>6, <3>1, <3>2, <3>3, <3>4 DEF Cached, Closes
    <3>6. m = c
      BY <3>5
    <3>7. QED
      BY <3>1, <3>2, <3>3, <3>6
  <2>3. QED
    BY <2>1, <2>2
<1> DEFINE p == [close |-> m, point |-> cache'[i][m]]
<1>8. p \in Points(i)' /\ p.point.at >= k /\ \A q \in Points(i)' : q.close <= p.close
  BY <1>6, <1>7 DEF Points
<1> HIDE DEF p
<1>9. QED
  BY <1>8 DEF Since

LEMMA RecordedKeeps ==
  ASSUME Typed, NEW i \in Ids, Recorded(i), ~Cold(i), Sane
  PROVE  ~Cold(i)'
<1>1. flight[i].symbol \in Symbols
  BY DEF Recorded, Typed
<1>2. \A c \in Closes : cache'[i][c] \in {[symbol |-> flight[i].symbol, at |-> flight[i].at], cache[i][c]}
  BY DEF Recorded, Typed
<1>3. \A c \in Closes : cache[i][c] # NoPoint => cache'[i][c] # NoPoint
  BY <1>1, <1>2 DEF NoPoint, Sane
<1>4. QED
  BY <1>3 DEF Cold, Cached

\* A reader whose step it is not.
LEMMA ReadKept ==
  ASSUME NEW q \in Readers, ReadOf(q), reader'[q] = reader[q], reader[q].cutoff \in Nat,
         Cutoff \in Nat, Cutoff' \in Nat, Cutoff <= Cutoff',
         reader[q].pc = "wait" => flight'[reader[q].id].pc # "none" /\ Cold(reader[q].id)',
         reader[q].pc = "read" => cache'[reader[q].id] = cache[reader[q].id]
  PROVE  ReadOf(q)'
<1>1. reader[q].pc = "read" => Points(reader[q].id)' = Points(reader[q].id) /\ Cold(reader[q].id)' = Cold(reader[q].id)
  BY DEF Points, Cold, Cached
<1>2. reader[q].cutoff <= Cutoff'
  BY DEF ReadOf
<1>3. reader[q].pc = "read" /\ reader[q].undisturbed =>
        ~Cold(reader[q].id)' /\ (~reader[q].stale => Since(Points(reader[q].id)', reader[q].cutoff))
  <2>1. CASE reader[q].pc = "read" /\ reader[q].undisturbed
    <3>1. ~Cold(reader[q].id) /\ (~reader[q].stale => Since(Points(reader[q].id), reader[q].cutoff))
      BY <2>1 DEF ReadOf
    <3>2. QED
      BY <1>1, <2>1, <3>1
  <2>2. QED
    BY <2>1
<1>4. /\ reader[q].pc = "wait" => ~reader[q].stale
      /\ reader[q].pc \in {"tell", "served"} /\ reader[q].undisturbed =>
           reader[q].points # {} /\ (~reader[q].stale => Since(reader[q].points, reader[q].cutoff))
      /\ reader[q].pc = "served" => (reader[q].fresh => ~reader[q].stale)
  BY DEF ReadOf
<1>5. QED
  BY <1>2, <1>3, <1>4 DEF ReadOf

LEMMA ReadersAreTyped ==
  ASSUME Typed, NEW r \in Readers
  PROVE  /\ reader[r] \in Reads /\ reader[r].cutoff \in Nat /\ reader[r].stale \in BOOLEAN /\ reader[r].undisturbed \in BOOLEAN
         /\ reader[r].pc \notin {"idle"} => reader[r].id \in Ids
BY DEF Typed, Reads

LEMMA ReadFresh ==
  ASSUME Sane, Typed, Typed', FreshInv, NEW r \in Readers,
         Look(r) \/ ReadPoints(r) \/ Tell(r) \/ ReadFails(r) \/ \E id \in Ids : Ask(r, id)
  PROVE  FreshInv'
<1>1. /\ reader[r] \in Reads /\ reader \in [Readers -> Reads] /\ ReadOf(r) /\ reader[r].cutoff \in Nat
      /\ reader[r].pc # "idle" => reader[r].id \in Ids /\ reader[r].symbol \in Symbols
      /\ reader[r].stale \in BOOLEAN
  BY ReadersAreTyped DEF Typed, FreshInv
<1>2. cache' = cache /\ clock' = clock /\ \A q \in Readers \ {r} : reader'[q] = reader[q]
  BY <1>1 DEF Look, ReadPoints, Tell, ReadFails, Ask
<1>3. /\ Cutoff \in Nat /\ Cutoff' = Cutoff /\ \A id : Cold(id)' = Cold(id) /\ Points(id)' = Points(id)
  BY <1>2, CutoffIs DEF Cutoff, Cold, Cached, Points
<1>4. \A id \in Ids : /\ flight[id].pc # "none" => flight'[id] = flight[id]
                      /\ flight'[id].pc = "fetched" => flight'[id] = flight[id]
  <2>1. CASE flight' = flight
    BY <2>1
  <2>2. CASE flight' = Join(reader[r].id, reader[r].symbol) /\ Look(r)
    <3>1. reader[r].id \in Ids /\ reader[r].symbol \in Symbols
      BY <1>1, <2>2 DEF Look
    <3>2. ASSUME NEW id \in Ids
          PROVE  /\ flight[id].pc # "none" => flight'[id] = flight[id]
                 /\ flight'[id].pc = "fetched" => flight'[id] = flight[id]
      <4>1. CASE id = reader[r].id
        BY <2>2, <3>1, <4>1, JoinIs
      <4>2. CASE id # reader[r].id
        BY <2>2, <3>1, <4>2, JoinIs
      <4>3. QED
        BY <4>1, <4>2
    <3>3. QED
      BY <3>2
  <2>3. QED
    BY <2>1, <2>2 DEF Look, ReadPoints, Tell, ReadFails, Ask
<1>5. \A id \in Ids : FlightOf(id)'
  BY <1>3, <1>4 DEF FreshInv, FlightOf
<1>6. ASSUME NEW q \in Readers \ {r} PROVE ReadOf(q)'
  <2>1. ReadOf(q) /\ reader'[q] = reader[q] /\ reader[q].cutoff \in Nat /\ (reader[q].pc # "idle" => reader[q].id \in Ids)
    BY <1>2, ReadersAreTyped DEF FreshInv
  <2>2. reader[q].pc = "wait" => flight'[reader[q].id].pc # "none" /\ Cold(reader[q].id)'
    BY <1>3, <1>4, <2>1 DEF ReadOf
  <2>3. QED
    BY <1>2, <1>3, <2>1, <2>2, ReadKept
<1>7. ReadOf(r)'
  <2>1. CASE Look(r)
    <3>1. PICK x \in Reads : /\ reader' = [reader EXCEPT ![r] = x] /\ x.id = reader[r].id /\ x.symbol = reader[r].symbol
                             /\ x.pc = (IF Cold(x.id) THEN "wait" ELSE "read") /\ x.cutoff = Cutoff
                             /\ x.stale = (~Cold(x.id) /\ ~Fresh(x.id, Cutoff))
      BY <2>1, LookIs
    <3>2. reader'[r] = x /\ x.id \in Ids
      BY <1>1, <2>1, <3>1 DEF Look
    <3>3. CASE Cold(x.id)
      <4>1. flight' = Join(x.id, x.symbol) /\ x.symbol \in Symbols
        BY <1>1, <2>1, <3>1, <3>3 DEF Look
      <4>2. flight'[x.id].pc # "none"
        BY <3>2, <4>1, JoinIs
      <4>3. x.pc = "wait" /\ ~x.stale
        BY <3>1, <3>3
      <4>4. x.cutoff <= Cutoff'
        BY <1>3, <3>1
      <4>5. Cold(reader[r].id)'
        BY <1>2, <3>2, <3>3 DEF Cold, Cached
      <4>6. QED
        BY <3>2, <4>2, <4>3, <4>4, <4>5 DEF ReadOf
    <3>4. CASE ~Cold(x.id)
      <4>1. ~x.stale => Since(Points(x.id), Cutoff)
        BY <3>1, <3>4, FreshSince
      <4>2. ~x.stale => Since(Points(x.id), Cutoff)'
        BY <1>3, <4>1
      <4>3. QED
        BY <1>3, <3>1, <3>2, <3>4, <4>2 DEF ReadOf
    <3>5. QED
      BY <3>3, <3>4
  <2>2. CASE ReadPoints(r)
    <3>1. /\ reader'[r].pc = "tell" /\ reader'[r].points = Points(reader[r].id) /\ reader[r].pc = "read"
          /\ reader'[r].stale = reader[r].stale /\ reader'[r].cutoff = reader[r].cutoff
          /\ reader'[r].undisturbed = reader[r].undisturbed
      BY <1>1, <2>2 DEF ReadPoints, Points, Reads
    <3>2. ~Cold(reader[r].id) => Points(reader[r].id) # {}
      BY DEF Cold, Points
    <3>3. QED
      BY <1>1, <1>3, <3>1, <3>2 DEF ReadOf
  <2>3. CASE Tell(r)
    <3>1. /\ reader'[r].pc = "served" /\ reader'[r].points = reader[r].points /\ reader[r].pc = "tell"
          /\ reader'[r].stale = reader[r].stale /\ reader'[r].cutoff = reader[r].cutoff
          /\ reader'[r].undisturbed = reader[r].undisturbed /\ reader'[r].fresh = IsFresh(r)
      BY <1>1, <2>3 DEF Tell, Reads
    <3>2. reader'[r].fresh => ~reader'[r].stale
      BY <3>1 DEF IsFresh
    <3>3. QED
      BY <1>1, <1>3, <3>1, <3>2 DEF ReadOf
  <2>4. CASE ReadFails(r)
    BY <1>1, <1>3, <2>4 DEF ReadFails, ReadOf, NoRead
  <2>5. CASE \E id \in Ids : Ask(r, id)
    <3>1. reader'[r].pc = "look" /\ reader'[r].cutoff = 0
      <4>1. \A i, t : /\ [NoRead EXCEPT !.pc = "look", !.id = i, !.symbol = t].pc = "look"
                      /\ [NoRead EXCEPT !.pc = "look", !.id = i, !.symbol = t].cutoff = 0
        BY DEF NoRead
      <4>2. PICK i \in Ids : Ask(r, i)
        BY <2>5
      <4>3. reader'[r] = [NoRead EXCEPT !.pc = "look", !.id = i, !.symbol = specs[i]]
        BY <1>1, <4>2 DEF Ask
      <4>4. QED
        BY <4>1, <4>3
    <3>2. QED
      BY <1>3, <3>1 DEF ReadOf
  <2>6. QED
    BY <2>1, <2>2, <2>3, <2>4, <2>5
<1>8. QED
  BY <1>5, <1>6, <1>7 DEF FreshInv

LEMMA UnderWayFresh ==
  ASSUME Sane, Typed, Typed', FreshInv, NEW i \in Ids,
         Background(i) \/ Fetched(i) \/ FlightFails(i) \/ Recorded(i) \/ WarmNext(i)
  PROVE  FreshInv'
<1>1. clock' = clock /\ Cutoff' = Cutoff /\ Cutoff \in Nat /\ clock \in Nat /\ Cutoff <= clock /\ TTL \in Nat /\ Window \in Nat \ {0}
  <2>1. clock' = clock
    BY DEF Background, Fetched, FlightFails, Recorded, WarmNext
  <2>2. QED
    BY <2>1, CutoffIs DEF Cutoff, Sane
<1>2. \A q \in Readers : ReadOf(q) /\ reader[q] \in Reads /\ reader[q].cutoff \in Nat /\ (reader[q].pc # "idle" => reader[q].id \in Ids)
  BY ReadersAreTyped DEF FreshInv
<1>3. CASE Recorded(i) \/ FlightFails(i)
  <2>1. /\ flight'[i].pc = "none" /\ \A j \in Ids \ {i} : flight'[j] = flight[j] /\ cache'[j] = cache[j]
        /\ FlightFails(i) => cache' = cache
    BY <1>3 DEF Recorded, FlightFails, Land, NoFlight, Typed
  <2>2. \A j \in Ids : FlightOf(j)'
    BY <1>1, <2>1 DEF FreshInv, FlightOf
  <2>3. ASSUME NEW q \in Readers PROVE ReadOf(q)'
    <3>1. CASE reader[q].pc = "wait" /\ reader[q].id = i
      <4>1. CASE FlightFails(i)
        <5>1. reader'[q] = NoRead
          BY <3>1, <4>1 DEF FlightFails, Land
        <5>2. QED
          BY <1>1, <5>1 DEF ReadOf, NoRead
      <4>2. CASE Recorded(i)
        <5>1. reader'[q] = [reader[q] EXCEPT !.pc = "read"] /\ reader[q].pc = "wait"
          BY <3>1, <4>2 DEF Recorded, Land
        <5>2. /\ reader'[q].pc = "read" /\ reader'[q].id = i /\ reader'[q].cutoff = reader[q].cutoff
          BY <1>2, <3>1, <5>1 DEF Reads
        <5>3. reader[q].cutoff <= Cutoff /\ Cold(i)
          BY <1>2, <3>1 DEF ReadOf
        <5>4. Since(Points(i), reader[q].cutoff)'
          <6>1. ASSUME NEW k \in Nat, k <= Cutoff PROVE Since(Points(i), k)'
            BY <4>2, <5>3, <6>1, RecordedSince DEF FreshInv
          <6>2. Since(Points(i)', reader[q].cutoff)
            BY <1>2, <5>3, <6>1
          <6>3. QED
            BY <5>2, <6>2
        <5>5. ~Cold(i)'
          BY <5>4 DEF Since, Points, Cold
        <5>6. QED
          BY <1>1, <5>2, <5>3, <5>4, <5>5 DEF ReadOf
      <4>3. QED
        BY <1>3, <4>1, <4>2
    <3>2. CASE ~(reader[q].pc = "wait" /\ reader[q].id = i)
      <4>1. reader'[q] = reader[q]
        BY <1>3, <3>2 DEF Recorded, FlightFails, Land
      <4>2. reader[q].pc = "wait" => flight'[reader[q].id].pc # "none" /\ Cold(reader[q].id)'
        <5>1. SUFFICES ASSUME reader[q].pc = "wait"
                       PROVE  flight'[reader[q].id].pc # "none" /\ Cold(reader[q].id)'
          OBVIOUS
        <5>2. reader[q].id \in Ids \ {i} /\ flight[reader[q].id].pc # "none" /\ Cold(reader[q].id)
          BY <1>2, <3>2, <5>1 DEF ReadOf
        <5>3. QED
          BY <2>1, <4>1, <5>2 DEF Cold, Cached
      <4>3. CASE reader[q].pc = "read" /\ reader[q].id = i /\ Recorded(i)
        <5>1. reader[q].cutoff <= Cutoff /\
                (reader[q].undisturbed => ~Cold(i) /\ (~reader[q].stale => Since(Points(i), reader[q].cutoff)))
          BY <1>2, <4>3 DEF ReadOf
        <5>2. ASSUME NEW k \in Nat, k <= Cutoff, Since(Points(i), k)
              PROVE  Since(Points(i)', k)
          <6>1. Since(Points(i), k)'
            BY <4>3, <5>2, RecordedSince DEF FreshInv
          <6>2. QED
            BY <6>1
        <5>3. ~Cold(i) => ~Cold(i)'
          BY <4>3, RecordedKeeps
        <5>4. (reader[q].undisturbed => ~Cold(reader[q].id)' /\ (~reader[q].stale => Since(Points(reader[q].id)', reader[q].cutoff)))
          BY <1>2, <4>1, <4>3, <5>1, <5>2, <5>3
        <5>5. QED
          BY <1>1, <4>1, <4>3, <5>1, <5>4 DEF ReadOf
      <4>4. CASE ~(reader[q].pc = "read" /\ reader[q].id = i /\ Recorded(i))
        <5>1. reader[q].pc = "read" => cache'[reader[q].id] = cache[reader[q].id]
          BY <1>2, <1>3, <2>1, <4>4
        <5>2. QED
          BY <1>1, <1>2, <4>1, <4>2, <5>1, ReadKept
      <4>5. QED
        BY <4>3, <4>4
    <3>3. QED
      BY <3>1, <3>2
  <2>4. QED
    BY <2>2, <2>3 DEF FreshInv
<1>4. CASE ~(Recorded(i) \/ FlightFails(i))
  <2>1. reader' = reader /\ cache' = cache
    BY <1>4 DEF Background, Fetched, WarmNext
  <2>2. ASSUME NEW j \in Ids
        PROVE  FlightOf(j)' /\ (flight[j].pc # "none" => flight'[j].pc # "none")
    <3>1. FlightOf(j)
      BY DEF FreshInv
    <3>2. CASE Fetched(i)
      <4>1. /\ flight[i] \in Flights /\ flight \in [Ids -> Flights]
        BY DEF Typed
      <4>2. /\ flight'[i].pc = "fetched" /\ flight'[i].points = Answer /\ flight'[i].at = clock
            /\ j # i => flight'[j] = flight[j]
        BY <3>2, <4>1 DEF Fetched, Flights
      <4>3. Answer # {}
        <5>1. clock \in Answer
          BY <1>1 DEF Answer
        <5>2. QED
          BY <5>1
      <4>4. QED
        BY <1>1, <3>1, <4>2, <4>3 DEF FlightOf
    <3>3. CASE ~Fetched(i)
      <4>1. flight' = flight \/ \E s \in Symbols : flight' = Join(i, s)
        <5>1. WarmNext(i) => warm.todo[i] \in Symbols
          BY DEF WarmNext, Typed, Warms, Symbol
        <5>2. QED
          BY <1>4, <3>3, <5>1 DEF Background, WarmNext
      <4>2. /\ flight'[j] = flight[j] \/ flight'[j].pc = "begun"
        <5>1. CASE \E s \in Symbols : flight' = Join(i, s)
          <6>1. PICK s \in Symbols : flight' = Join(i, s)
            BY <5>1
          <6>2. CASE j = i
            BY <6>1, <6>2, JoinIs
          <6>3. CASE j # i
            BY <6>1, <6>3, JoinIs
          <6>4. QED
            BY <6>2, <6>3
        <5>2. QED
          BY <4>1, <5>1
      <4>3. QED
        BY <1>1, <3>1, <4>2 DEF FlightOf
    <3>4. QED
      BY <3>2, <3>3
  <2>3. ASSUME NEW q \in Readers PROVE ReadOf(q)'
    <3>1. reader[q].pc = "wait" => flight'[reader[q].id].pc # "none" /\ Cold(reader[q].id)'
      <4>1. SUFFICES ASSUME reader[q].pc = "wait"
                     PROVE  flight'[reader[q].id].pc # "none" /\ Cold(reader[q].id)'
        OBVIOUS
      <4>2. reader[q].id \in Ids /\ flight[reader[q].id].pc # "none" /\ Cold(reader[q].id)
        BY <1>2, <4>1 DEF ReadOf
      <4>3. QED
        BY <2>1, <2>2, <4>2 DEF Cold, Cached
    <3>2. QED
      BY <1>1, <1>2, <2>1, <3>1, ReadKept
  <2>4. QED
    BY <2>2, <2>3 DEF FreshInv
<1>5. QED
  BY <1>3, <1>4

\* What empties a series' cache disturbs its readers.
LEMMA EmptyingFresh ==
  ASSUME Sane, Typed, Typed', FreshInv, NEW ids, Disturb(ids), UNCHANGED <<clock, flight>>,
         \A id \in Ids : IF id \in ids THEN Cached(id)' = {} ELSE cache'[id] = cache[id]
  PROVE  FreshInv'
<1>1. Cutoff' = Cutoff /\ Cutoff \in Nat
  BY CutoffIs DEF Cutoff
<1>2. \A j \in Ids : FlightOf(j)'
  BY <1>1 DEF FreshInv, FlightOf
<1>3. ASSUME NEW q \in Readers PROVE ReadOf(q)'
  <2>1. ReadOf(q) /\ reader[q] \in Reads /\ reader[q].cutoff \in Nat /\ (reader[q].pc # "idle" => reader[q].id \in Ids)
    BY ReadersAreTyped DEF FreshInv
  <2>2. reader[q].pc = "wait" => flight'[reader[q].id].pc # "none" /\ Cold(reader[q].id)'
    <3>1. SUFFICES ASSUME reader[q].pc = "wait"
                   PROVE  flight'[reader[q].id].pc # "none" /\ Cold(reader[q].id)'
      OBVIOUS
    <3>2. reader[q].id \in Ids /\ flight[reader[q].id].pc # "none" /\ Cold(reader[q].id)
      BY <2>1, <3>1 DEF ReadOf
    <3>3. QED
      <4>1. reader'[q].id = reader[q].id
        BY DisturbIs
      <4>2. CASE reader[q].id \in ids
        BY <3>2, <4>1, <4>2 DEF Cold
      <4>3. CASE reader[q].id \notin ids
        BY <3>2, <4>1, <4>3 DEF Cold, Cached
      <4>4. QED
        BY <4>2, <4>3
  <2>3. CASE reader[q].id \notin ids
    <3>1. reader'[q] = reader[q]
      BY <2>3, DisturbIs
    <3>2. QED
      BY <1>1, <2>1, <2>2, <2>3, <3>1, ReadKept
  <2>4. CASE reader[q].id \in ids
    <3>1. /\ reader'[q].undisturbed = FALSE /\ reader'[q].pc = reader[q].pc /\ reader'[q].id = reader[q].id
          /\ reader'[q].cutoff = reader[q].cutoff /\ reader'[q].stale = reader[q].stale /\ reader'[q].fresh = reader[q].fresh
      BY <2>4, DisturbIs
    <3>2. QED
      BY <1>1, <2>1, <2>2, <3>1 DEF ReadOf
  <2>5. QED
    BY <2>3, <2>4
<1>4. QED
  BY <1>2, <1>3 DEF FreshInv

LEMMA StillFresh ==
  ASSUME Sane, Typed, FreshInv, UNCHANGED <<clock, cache, flight, reader>>
  PROVE  FreshInv'
<1>1. Cutoff' = Cutoff /\ Cutoff \in Nat
  BY CutoffIs DEF Cutoff
<1>2. \A j \in Ids : FlightOf(j)'
  BY <1>1 DEF FreshInv, FlightOf
<1>3. ASSUME NEW q \in Readers PROVE ReadOf(q)'
  <2>1. ReadOf(q) /\ reader[q].cutoff \in Nat
    BY ReadersAreTyped DEF FreshInv
  <2>2. reader[q].pc = "wait" => flight'[reader[q].id].pc # "none" /\ Cold(reader[q].id)'
    BY <2>1 DEF ReadOf, Cold, Cached
  <2>3. QED
    BY <1>1, <2>1, <2>2, ReadKept
<1>4. QED
  BY <1>2, <1>3 DEF FreshInv

LEMMA EditFresh ==
  ASSUME Sane, Typed, Typed', FreshInv, NEW e \in Editors, EditStepOf(e)
  PROVE  FreshInv'
<1>1. CASE DeleteCached(e)
  <2>1. /\ cache' = Emptied(editor[e].id) /\ Disturb({editor[e].id}) /\ clock' = clock /\ flight' = flight
    BY <1>1 DEF DeleteCached
  <2>2. \A id \in Ids : IF id \in {editor[e].id} THEN Cached(id)' = {} ELSE cache'[id] = cache[id]
    BY <2>1 DEF Emptied, Cached, Typed
  <2>3. QED
    BY <2>1, <2>2, EmptyingFresh
<1>2. CASE ~DeleteCached(e)
  <2>1. clock' = clock /\ cache' = cache /\ flight' = flight /\ reader' = reader
    BY <1>2 DEF EditStepOf, PersistSpecs, PersistFails, SetSpecs, DeleteFails, AddSeries, RemoveSeries, Begin
  <2>2. QED
    BY <2>1, StillFresh
<1>3. QED
  BY <1>1, <1>2

LEMMA RestFresh ==
  ASSUME Sane, Typed, Typed', FreshInv, Reset \/ Restart \/ Tick \/ Warm \/ WarmEnds \/ UNCHANGED vars
  PROVE  FreshInv'
<1>1. CASE Reset
  <2>1. \A id \in Ids : Cached(id)' = {}
    BY <1>1 DEF Reset, Cached
  <2>2. QED
    BY <1>1, <2>1, EmptyingFresh DEF Reset
<1>2. CASE Restart
  <2>1. Cutoff' = Cutoff /\ Cutoff \in Nat
    BY <1>2, CutoffIs DEF Cutoff, Restart
  <2>2. QED
    BY <1>2, <2>1 DEF Restart, FreshInv, FlightOf, ReadOf, NoFlight, NoRead
<1>3. CASE Tick
  <2>1. /\ Cutoff \in Nat /\ Cutoff' \in Nat /\ Cutoff <= Cutoff' /\ flight' = flight /\ reader' = reader /\ cache' = cache
        /\ \A id \in Ids : flight[id].pc = "fetched" => Cutoff' <= flight[id].at
    <3>1. clock \in Nat /\ clock' = clock + 1 /\ TTL \in Nat
      BY <1>3, CutoffIs DEF Tick, Sane
    <3>2. \A id \in Ids : flight[id].at \in Nat
      BY DEF Typed, Flights
    <3>3. QED
      BY <1>3, <3>1, <3>2 DEF Tick, Cutoff
  <2>2. \A id \in Ids : FlightOf(id)'
    BY <2>1 DEF FreshInv, FlightOf
  <2>3. ASSUME NEW q \in Readers PROVE ReadOf(q)'
    <3>1. ReadOf(q) /\ reader[q].cutoff \in Nat
      BY ReadersAreTyped DEF FreshInv
    <3>2. reader[q].pc = "wait" => flight'[reader[q].id].pc # "none" /\ Cold(reader[q].id)'
      BY <2>1, <3>1 DEF ReadOf, Cold, Cached
    <3>3. QED
      BY <2>1, <3>1, <3>2, ReadKept
  <2>4. QED
    BY <2>2, <2>3 DEF FreshInv
<1>4. CASE Warm \/ WarmEnds \/ UNCHANGED vars
  BY <1>4, StillFresh DEF Warm, WarmEnds, vars
<1>5. QED
  BY <1>1, <1>2, <1>3, <1>4

-----------------------------------------------------------------------------
LEMMA MarketStart ==
  ASSUME Sane, Init
  PROVE  MarketInv
<1>1. /\ \A id \in Ids : flight[id] = NoFlight /\ behind[id] = None /\ Cached(id) = {}
      /\ \A r \in Readers : reader[r] = NoRead
      /\ \A e \in Editors : editor[e] = NoEdit
      /\ warm = NoWarm /\ specs = saved /\ clock = 0
  BY DEF Init, Cached
<1>2. NoFlight.pc = "none" /\ NoRead.pc = "idle" /\ NoRead.cutoff = 0 /\ NoEdit.pc = "idle" /\ NoEdit.id = None
      /\ NoWarm.id = None /\ \A id \in Ids : NoWarm.todo[id] = None
  BY DEF NoFlight, NoRead, NoEdit, NoWarm
<1>3. Typed
  <2>1. saved \in [Ids -> Symbol] /\ specs \in [Ids -> Symbol] /\ behind \in [Ids -> Symbol \cup {"joined"}]
    BY DEF Init, Symbol
  <2>2. clock \in Closes /\ mixed \in BOOLEAN /\ stained \subseteq Ids
    <3>1. clock = 0 /\ mixed = FALSE /\ stained = {}
      BY DEF Init
    <3>2. 0 \in Closes
      BY DEF Closes, Sane
    <3>3. FALSE \in BOOLEAN /\ {} \subseteq Ids
      OBVIOUS
    <3>4. QED
      BY <3>1, <3>2, <3>3
  <2>3. cache \in [Ids -> [Closes -> Point]] /\ flight \in [Ids -> Flights] /\ reader \in [Readers -> Reads]
    BY NothingIs DEF Init
  <2>4. warm \in Warms /\ editor \in [Editors -> Edits]
    BY NothingIs DEF Init
  <2>5. QED
    BY <1>1, <1>2, <2>1, <2>2, <2>3, <2>4 DEF Typed
<1>4. EditInv
  BY <1>1, <1>2 DEF EditInv, EditOf
<1>5. SeriesInv
  BY <1>1, <1>2 DEF SeriesInv, SeriesOf, FlightFits, BehindFits, ReadersFit, Busy, WarmFits, CacheFits, Sane
<1>6. Cutoff \in Nat
  BY <1>3, CutoffIs
<1>7. FreshInv
  BY <1>1, <1>2, <1>6 DEF FreshInv, FlightOf, ReadOf
<1>8. QED
  BY <1>3, <1>4, <1>5, <1>7 DEF MarketInv

LEMMA MarketStep ==
  ASSUME Sane, MarketInv, [Next]_vars
  PROVE  MarketInv'
<1>1. Typed /\ EditInv /\ SeriesInv /\ FreshInv
  BY DEF MarketInv
<1>2. CASE \E e \in Editors : EditStepOf(e)
  <2>1. PICK e \in Editors : EditStepOf(e)
    BY <1>2
  <2>2. Typed' /\ EditInv'
    BY <1>1, <2>1, EditTyped, EditStep
  <2>3. mixed => mixed'
    <3>1. CASE PersistSpecs(e) \/ PersistFails(e) \/ SetSpecs(e) \/ DeleteCached(e) \/ DeleteFails(e)
      BY <3>1 DEF PersistSpecs, PersistFails, SetSpecs, DeleteCached, DeleteFails
    <3>2. CASE \E id \in Ids, s \in Symbol : Begin(e, id, s)
      <4>1. mixed' = (mixed \/ Others(e)) /\ mixed \in BOOLEAN
        BY <1>1, <3>2 DEF Begin, Typed
      <4>2. QED
        BY <4>1
    <3>3. QED
      BY <2>1, <3>1, <3>2 DEF EditStepOf, AddSeries, RemoveSeries, Symbol
  <2>4. SeriesInv'
    BY <1>1, <2>1, <2>3, EditFits DEF SeriesInv
  <2>5. QED
    BY <1>1, <2>1, <2>2, <2>4, EditFresh DEF MarketInv
<1>3. CASE Restart
  <2>1. Typed' /\ EditInv' /\ FreshInv'
    BY <1>1, <1>3, RestTyped, RestartEdit, RestFresh
  <2>2. SeriesInv'
    BY <1>1, <1>3, RestartFits DEF SeriesInv
  <2>3. QED
    BY <2>1, <2>2 DEF MarketInv
<1>4. CASE \E r \in Readers : Look(r) \/ ReadPoints(r) \/ Tell(r) \/ ReadFails(r) \/ \E id \in Ids : Ask(r, id)
  <2>1. PICK r \in Readers : Look(r) \/ ReadPoints(r) \/ Tell(r) \/ ReadFails(r) \/ \E id \in Ids : Ask(r, id)
    BY <1>4
  <2>2. UNCHANGED <<editor, specs, saved, mixed, stained>>
    BY <2>1 DEF Look, ReadPoints, Tell, ReadFails, Ask
  <2>3. SeriesInv'
    BY <1>1, <2>1, <2>2, ReadFits DEF SeriesInv
  <2>4. QED
    BY <1>1, <2>1, <2>2, <2>3, ReadTyped, ReadFresh, EditKept DEF MarketInv
<1>5. CASE \E i \in Ids : Background(i) \/ Fetched(i) \/ Recorded(i) \/ FlightFails(i) \/ WarmNext(i)
  <2>1. PICK i \in Ids : Background(i) \/ Fetched(i) \/ Recorded(i) \/ FlightFails(i) \/ WarmNext(i)
    BY <1>5
  <2>2. UNCHANGED <<editor, specs, saved, mixed, stained>>
    BY <2>1 DEF Background, Fetched, Recorded, FlightFails, WarmNext
  <2>3. SeriesInv'
    BY <1>1, <2>1, <2>2, UnderWayFits DEF SeriesInv
  <2>4. Typed'
    BY <1>1, <2>1, FlightTyped
  <2>5. FreshInv'
    BY <1>1, <2>1, <2>4, UnderWayFresh
  <2>6. QED
    BY <1>1, <2>2, <2>3, <2>4, <2>5, EditKept DEF MarketInv
<1>6. CASE Warm \/ WarmEnds \/ Reset \/ Tick \/ UNCHANGED vars
  <2>1. UNCHANGED <<editor, specs, saved, mixed, stained>>
    BY <1>6 DEF Warm, WarmEnds, Reset, Tick, vars
  <2>2. SeriesInv'
    BY <1>1, <1>6, <2>1, UnderWayFits, RestFits DEF SeriesInv
  <2>3. Typed'
    BY <1>1, <1>6, RestTyped
  <2>4. FreshInv'
    BY <1>1, <1>6, <2>3, RestFresh
  <2>5. QED
    BY <1>1, <2>1, <2>2, <2>3, <2>4, EditKept DEF MarketInv
<1>7. QED
  BY <1>2, <1>3, <1>4, <1>5, <1>6 DEF Next, EditStepOf

LEMMA MarketAlways == ASSUME Sane PROVE Spec => []MarketInv
<1>1. Init => MarketInv
  BY MarketStart
<1>2. MarketInv /\ [Next]_vars => MarketInv'
  BY MarketStep
<1>3. QED
  BY <1>1, <1>2, PTL DEF Spec

-----------------------------------------------------------------------------
\* The series in use are those in the settings, for all editors that do not overlap.
THEOREM SeriesAreSaved == ASSUME Sane PROVE Spec => [](TypeOK /\ SeriesSaved)
<1>1. MarketInv => TypeOK
  <2>1. SUFFICES ASSUME Typed PROVE TypeOK
    BY DEF MarketInv
  <2>2. ASSUME NEW id \in Ids
        PROVE  flight[id].pc \in {"none", "begun", "fetched"} /\ behind[id] \in Symbols \cup {None, "joined"}
    <3>1. flight[id] \in Flights /\ behind[id] \in Symbol \cup {"joined"}
      BY <2>1 DEF Typed
    <3>2. QED
      BY <3>1 DEF Flights, Symbol
  <2>3. QED
    BY <2>1, <2>2 DEF Typed, TypeOK, Symbol
<1>2. MarketInv => SeriesSaved
  BY DEF MarketInv, EditInv, SeriesSaved
<1>3. QED
  BY <1>1, <1>2, MarketAlways, PTL

\* A series that was never removed under a read or a refresh has points of its own symbol only.
THEOREM CachesAreOfTheirSeries == ASSUME Sane PROVE Spec => []CacheIsOfSeries
<1>1. MarketInv => CacheIsOfSeries
  BY DEF MarketInv, CacheIsOfSeries, SeriesInv, SeriesOf, CacheFits, Clearing
<1>2. QED
  BY <1>1, MarketAlways, PTL

\* What is served as fresh was fetched within the TTL of the read.
THEOREM ServedFreshIsFresh == ASSUME Sane PROVE Spec => []FreshIsFresh
<1>1. MarketInv => FreshIsFresh
  <2>1. SUFFICES ASSUME MarketInv, NEW r \in Readers, reader[r].pc = "served", reader[r].undisturbed
                 PROVE  reader[r].points # {} /\ (reader[r].fresh => Since(reader[r].points, reader[r].cutoff))
    BY DEF FreshIsFresh, Since
  <2>2. ReadOf(r)
    BY <2>1 DEF MarketInv, FreshInv
  <2>3. QED
    BY <2>1, <2>2 DEF ReadOf
<1>2. QED
  BY <1>1, MarketAlways, PTL

=============================================================================
