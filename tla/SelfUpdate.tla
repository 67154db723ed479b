----------------------------- MODULE SelfUpdate -----------------------------
(* The update of the binary: the checker and its cache, a request that applies the latest
   release, the self-update command beside the server, and the restart that follows.  The
   releases of the repository come and are withdrawn, and their assets are replaced. *)
EXTENDS Integers, FiniteSets

CONSTANTS
  Versions,   \* 1 .. n; 0 is a build that is no release
  Callers, TTL,
  MaxClock, MaxPublishes, MaxAsks, MaxStops   \* bounds

VARIABLES
  clock,
  hub,      \* the version listed as the latest, and of each the build of its tarball and of its checksum
  disk,     \* the binary: its version and build; it is extracted beside it and renamed, so always whole
  proc,     \* the server: [up, version]
  cache,    \* the checker's: [checked, latest, at]; its release is the latest it was told
  release,
  caller,   \* each request or command
  counts,   \* [publishes, asks, stops]
  crossed   \* an update was put in place while another was under way
vars == <<clock, hub, disk, proc, cache, release, caller, counts, crossed>>

NoCaller == [pc |-> "idle", kind |-> "none", self |-> 0, rel |-> 0, build |-> 0, fresh |-> TRUE, seen |-> {}, raced |-> FALSE]
NoCache == [checked |-> FALSE, latest |-> 0, at |-> 0]

TypeOK ==
  /\ clock \in 0 .. MaxClock /\ hub.latest \in Versions /\ hub.bin \in [Versions -> {0, 1}] /\ hub.sum \in [Versions -> {0, 1}]
  /\ disk.version \in {0} \cup Versions /\ proc.version \in {0} \cup Versions /\ release \in {0} \cup Versions
  /\ \A c \in Callers : caller[c].pc \in {"idle", "refresh", "set", "take", "tarball", "checksum", "extract", "replace", "restart"}

IsRelease(v) == v # 0
NewerOrOther(latest, current) == IsRelease(current) /\ latest # current
IsNewer(latest, current) == IsRelease(current) /\ latest > current

At(c, pc) == caller[c].pc = pc
Become(c, r) == caller' = [caller EXCEPT ![c] = r]
End(c) == Become(c, NoCaller)
Fetching == {"tarball", "checksum", "extract", "replace"}

-----------------------------------------------------------------------------
(* The check. *)

\* A status is answered from the cache up to the TTL; an apply always asks.
Cached == cache.checked /\ clock - cache.at < TTL
AskFirst(kind) == kind = "status" => ~Cached
AskUnlessCached(kind) == kind \in {"status", "apply"} => ~Cached
NeedsRefresh(kind) == AskFirst(kind)
Ask(c, kind, self) ==
  /\ At(c, "idle") /\ counts.asks < MaxAsks /\ counts' = [counts EXCEPT !.asks = @ + 1]
  /\ LET new == [NoCaller EXCEPT !.kind = kind, !.self = self, !.seen = {hub.latest}]
     IN IF NeedsRefresh(kind) THEN Become(c, [new EXCEPT !.pc = "refresh"])
        ELSE IF kind = "apply" THEN Become(c, [new EXCEPT !.pc = "take"])
        ELSE UNCHANGED caller
  /\ UNCHANGED <<clock, hub, disk, proc, cache, release, crossed>>
UpdateStatus(c) == proc.up /\ Ask(c, "status", proc.version)
ApplyUpdate(c) == proc.up /\ Ask(c, "apply", proc.version)
\* The server asks now and then; it never installs on its own.
Run(c) == proc.up /\ IsRelease(proc.version) /\ Ask(c, "poll", proc.version)
\* The command runs the binary on disk, and installs only over a release.
Command(c) == Ask(c, "command", disk.version)

\* A build that is no release does not ask, except on the command's behalf.
CheckLatest(c) ==
  /\ At(c, "refresh")
  /\ LET r == caller[c]
     IN CASE r.kind = "command" -> IF IsNewer(hub.latest, r.self) THEN Become(c, [r EXCEPT !.pc = "tarball", !.rel = hub.latest]) ELSE End(c)
          [] r.kind # "command" /\ IsRelease(r.self) -> Become(c, [r EXCEPT !.pc = "set", !.rel = hub.latest])
          [] OTHER -> Become(c, [r EXCEPT !.pc = "set", !.rel = 0])
  /\ UNCHANGED <<clock, hub, disk, proc, cache, release, counts, crossed>>
CheckFails(c) ==
  /\ At(c, "refresh") /\ (caller[c].kind # "command" => IsRelease(caller[c].self)) /\ End(c)
  /\ UNCHANGED <<clock, hub, disk, proc, cache, release, counts, crossed>>
\* A release that was known is kept by an answer that names none.
SetCache(c) ==
  /\ At(c, "set") /\ cache' = [checked |-> TRUE, latest |-> caller[c].rel, at |-> clock]
  /\ release' = IF caller[c].rel = 0 THEN release ELSE caller[c].rel
  /\ caller' = [d \in Callers |-> IF d = c THEN IF caller[c].kind = "apply" THEN [caller[c] EXCEPT !.pc = "take"] ELSE NoCaller
                                  ELSE [caller[d] EXCEPT !.raced = @ \/ caller[d].pc = "take"]]
  /\ UNCHANGED <<clock, hub, disk, proc, counts, crossed>>
LatestRelease(c) ==
  /\ At(c, "take")
  /\ IF release # 0 /\ IsNewer(release, caller[c].self) THEN Become(c, [caller[c] EXCEPT !.pc = "tarball", !.rel = release]) ELSE End(c)
  /\ UNCHANGED <<clock, hub, disk, proc, cache, release, counts, crossed>>

-----------------------------------------------------------------------------
(* Apply. *)

Download(c) ==
  /\ At(c, "tarball") /\ Become(c, [caller[c] EXCEPT !.pc = "checksum", !.build = hub.bin[caller[c].rel]])
  /\ UNCHANGED <<clock, hub, disk, proc, cache, release, counts, crossed>>
\* The checksum is read after the tarball; what does not match is not installed.
Trusts(r) == TRUE
Verifies(r) == r.build = hub.sum[r.rel]
FetchChecksum(c) ==
  /\ At(c, "checksum") /\ Verifies(caller[c]) /\ Become(c, [caller[c] EXCEPT !.pc = "extract"])
  /\ UNCHANGED <<clock, hub, disk, proc, cache, release, counts, crossed>>
\* No asset for the platform, a download or an extraction that fails, a checksum that differs.
ApplyFails(c) ==
  /\ caller[c].pc \in Fetching /\ End(c)
  /\ UNCHANGED <<clock, hub, disk, proc, cache, release, counts, crossed>>
\* The binary is extracted beside the old one, under a name of its own, then takes its place.
Extract(c) ==
  /\ At(c, "extract") /\ Become(c, [caller[c] EXCEPT !.pc = "replace"])
  /\ UNCHANGED <<clock, hub, disk, proc, cache, release, counts, crossed>>
Replace(c) ==
  /\ At(c, "replace")
  /\ disk' = [version |-> caller[c].rel, build |-> caller[c].build]
  /\ IF caller[c].kind = "command" THEN End(c) ELSE Become(c, [caller[c] EXCEPT !.pc = "restart"])
  /\ crossed' = (crossed \/ \E d \in Callers \ {c} : caller[d].pc # "idle")
  /\ UNCHANGED <<clock, hub, proc, cache, release, counts>>

-----------------------------------------------------------------------------
(* The server ends and starts; the command is a process of its own. *)

Requests == {c \in Callers : caller[c].kind # "command"}
Forget == /\ caller' = [c \in Callers |-> IF c \in Requests THEN NoCaller ELSE caller[c]]
          /\ cache' = NoCache /\ release' = 0
\* The process is replaced by the binary on disk, its requests end with it.
Restart(c) ==
  /\ At(c, "restart") /\ proc' = [proc EXCEPT !.version = disk.version] /\ Forget
  /\ UNCHANGED <<clock, hub, disk, counts, crossed>>
RestartFails(c) ==
  /\ At(c, "restart") /\ End(c) /\ UNCHANGED <<clock, hub, disk, proc, cache, release, counts, crossed>>
Stop ==
  /\ proc.up /\ counts.stops < MaxStops /\ counts' = [counts EXCEPT !.stops = @ + 1]
  /\ proc' = [proc EXCEPT !.up = FALSE] /\ Forget /\ UNCHANGED <<clock, hub, disk, crossed>>
Start ==
  /\ ~proc.up /\ proc' = [up |-> TRUE, version |-> disk.version]
  /\ UNCHANGED <<clock, hub, disk, cache, release, caller, counts, crossed>>

Tick == clock < MaxClock /\ clock' = clock + 1 /\ UNCHANGED <<hub, disk, proc, cache, release, caller, counts, crossed>>
Change(h) ==
  /\ counts.publishes < MaxPublishes /\ counts' = [counts EXCEPT !.publishes = @ + 1] /\ hub' = h
  /\ caller' = [c \in Callers |-> IF At(c, "idle") THEN caller[c] ELSE [caller[c] EXCEPT !.seen = @ \cup {h.latest}]]
  /\ UNCHANGED <<clock, disk, proc, cache, release, crossed>>
Publish(v) == v # hub.latest /\ Change([hub EXCEPT !.latest = v])
Upload(v) == hub.bin[v] = 0 /\ Change([hub EXCEPT !.bin[v] = 1])
UploadSum(v) == hub.bin[v] = 1 /\ hub.sum[v] = 0 /\ Change([hub EXCEPT !.sum[v] = 1])

Init ==
  /\ clock = 0 /\ hub = [latest |-> 1, bin |-> [v \in Versions |-> 0], sum |-> [v \in Versions |-> 0]]
  /\ \E v \in {0, 1} : disk = [version |-> v, build |-> 0] /\ proc = [up |-> TRUE, version |-> v]
  /\ cache = NoCache /\ release = 0 /\ caller = [c \in Callers |-> NoCaller]
  /\ counts = [publishes |-> 0, asks |-> 0, stops |-> 0] /\ crossed = FALSE

Next ==
  \/ \E c \in Callers : \/ UpdateStatus(c) \/ ApplyUpdate(c) \/ Run(c) \/ Command(c)
                        \/ CheckLatest(c) \/ CheckFails(c) \/ SetCache(c) \/ LatestRelease(c) \/ Download(c) \/ FetchChecksum(c) \/ Extract(c)
                        \/ ApplyFails(c) \/ Replace(c) \/ Restart(c) \/ RestartFails(c)
  \/ \E v \in Versions : Publish(v) \/ Upload(v) \/ UploadSum(v)
  \/ Stop \/ Start \/ Tick

Spec == Init /\ [][Next]_vars

-----------------------------------------------------------------------------
(* Properties. *)

\* The binary on disk is one that the checksum of its release vouched for, and, unless two updates
\* crossed, never older than the server that runs: a release that is withdrawn takes nobody back.
NeverOlder ==
  /\ disk.version # 0 => disk.build <= hub.sum[disk.version]
  /\ proc.up /\ ~crossed => disk.version >= proc.version

\* What is being installed was the latest release at some time since it was asked for, unless another
\* answer, which may be an older one, came between this one and its use.
CurrentRelease ==
  \A c \in Callers : caller[c].pc \in Fetching /\ ~caller[c].raced => caller[c].rel \in caller[c].seen
=============================================================================
