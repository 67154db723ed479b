----------------------------- MODULE PluginFiles -----------------------------
(* What a plugin leaves on disk and in its row: installs and updates from the registry,
   discovery, the file of its configuration, and uninstalls, with failures and stops
   between their steps.  One request at a time: what requests do to each other's
   instances is in PluginLifecycle. *)
EXTENDS Integers, FiniteSets

CONSTANTS
  Versions,             \* 1 .. n, in the order of their release
  Files,                \* of each version; a manifest and an entrypoint among them
  Keys,                 \* version |-> the configurable keys of its manifest
  Sound,                \* the versions whose manifest is valid and names the plugin
  AllKeys,
  MaxStops, MaxEdits, MaxRequests   \* bounds

VARIABLES
  index,    \* the version the registry lists
  served,   \* file |-> the version of it that the repository serves
  op,       \* the request under way
  staging,  \* file |-> version, of what is downloaded
  dir,      \* file |-> version, of the plugin's directory
  config,   \* the file of overrides: whether it parses, and its keys; a missing file has none
  row,      \* the plugin's row
  inst,     \* the instance: its files and the overrides it knows
  up, stops, edits, requests,
  manual,   \* the configuration was edited by hand, or for another manifest
  spoilt    \* a step failed, or a load, since the plugin was last enabled or the program started
vars == <<index, served, op, staging, dir, config, row, inst, up, stops, edits, requests, manual, spoilt>>

Nothing == [f \in {} |-> 0]
NoRow == [there |-> FALSE, enabled |-> FALSE, version |-> 0]
NoInst == [on |-> FALSE, files |-> Nothing, overrides |-> {}]
NoOp == [pc |-> "idle", version |-> 0, wasLoaded |-> FALSE]

Partial(d) == DOMAIN d \subseteq Files /\ \A f \in DOMAIN d : d[f] \in Versions
TypeOK ==
  /\ index \in Versions /\ Partial(staging) /\ Partial(dir) /\ Partial(inst.files)
  /\ config \in [parses : BOOLEAN, keys : SUBSET AllKeys] /\ row.version \in {0} \cup Versions

-----------------------------------------------------------------------------
(* Discovery, and the configuration. *)

\* A directory is a plugin if its manifest parses and names it and its entrypoint is there.
Valid == DOMAIN dir = Files /\ \A f \in Files : dir[f] \in Sound
Manifest == dir["manifest"]
Overrides == config.keys
\* The overrides over the defaults: every key must have one.
Effective(version) == config.parses /\ Overrides \subseteq Keys[version]

Loads == Valid /\ Effective(Manifest)
Load == inst' = [on |-> TRUE, files |-> dir, overrides |-> Overrides]
\* register: a new plugin is disabled, the row of a known one follows its manifest.
Registered(r) == IF ~Valid THEN r ELSE IF r.there THEN [r EXCEPT !.version = Manifest]
                 ELSE [there |-> TRUE, enabled |-> FALSE, version |-> Manifest]

Asked == op.pc = "idle" /\ up /\ requests < MaxRequests /\ requests' = requests + 1
SetEnabled(on) ==
  /\ Asked /\ row.there /\ (on => Valid) /\ row' = [row EXCEPT !.enabled = on]
  /\ IF ~on THEN inst' = NoInst ELSE IF Loads THEN Load ELSE inst' = inst
  /\ spoilt' = (on /\ ~Loads)
  /\ UNCHANGED <<index, served, op, staging, dir, config, up, stops, edits, manual>>

\* SetConfig: what is saved is what was read, changed by keys of the manifest, or nothing.
SaveUnchecked(k) == k \in Keys[inst.files["manifest"]]
SaveAllowed(k) == k \in Keys[inst.files["manifest"]] /\ Overrides \cup {k} \subseteq Keys[inst.files["manifest"]]
SetConfig(k) ==
  /\ up /\ op.pc \in {"idle", "download"} /\ inst.on /\ edits < MaxEdits /\ edits' = edits + 1
  /\ config.parses /\ SaveAllowed(k)
  /\ config' = [config EXCEPT !.keys = @ \cup {k}] /\ inst' = [inst EXCEPT !.overrides = config'.keys] /\ manual' = FALSE
  /\ UNCHANGED <<index, served, op, staging, dir, row, up, stops, requests, spoilt>>
HandEdit(keys, parses) ==
  /\ edits < MaxEdits /\ edits' = edits + 1 /\ config' = [parses |-> parses, keys |-> keys] /\ manual' = TRUE
  /\ UNCHANGED <<index, served, op, staging, dir, row, inst, up, stops, requests, spoilt>>

-----------------------------------------------------------------------------
(* An install: the index, the files, each checked against it, the swap. *)

Catalog ==
  /\ Asked /\ op' = [NoOp EXCEPT !.pc = "download", !.version = index] /\ staging' = Nothing
  /\ UNCHANGED <<index, served, dir, config, row, inst, up, stops, edits, manual, spoilt>>
Matches(f) == served[f] = op.version
AnyBytes(f) == served[f] <= op.version
Fetched(f) == Matches(f)
Download(f) ==
  /\ op.pc = "download" /\ f \in Files \ DOMAIN staging /\ Fetched(f)
  /\ staging' = [g \in DOMAIN staging \cup {f} |-> IF g = f THEN served[f] ELSE staging[g]]
  /\ UNCHANGED <<index, served, op, dir, config, row, inst, up, stops, edits, requests, manual, spoilt>>
\* A file that does not match, a read that fails, a manifest that is not the plugin's.
InstallFails ==
  /\ op.pc = "download" /\ op' = NoOp /\ staging' = Nothing
  /\ UNCHANGED <<index, served, dir, config, row, inst, up, stops, edits, requests, manual, spoilt>>
Staged ==
  /\ op.pc = "download" /\ DOMAIN staging = Files /\ staging["manifest"] \in Sound
  /\ op' = [op EXCEPT !.pc = "remove", !.wasLoaded = inst.on] /\ inst' = NoInst
  /\ UNCHANGED <<index, served, staging, dir, config, row, up, stops, edits, requests, manual, spoilt>>
RemoveTarget ==
  /\ op.pc = "remove" /\ dir' = Nothing /\ op' = [op EXCEPT !.pc = "rename"]
  /\ UNCHANGED <<index, served, staging, config, row, inst, up, stops, edits, requests, manual, spoilt>>
\* A removal that fails half way, or a rename that fails: the plugin is gone, or part of it.
SwapFails(left) ==
  /\ \/ op.pc = "remove" /\ left \subseteq DOMAIN dir
     \/ op.pc = "rename" /\ left = {}
  /\ dir' = [f \in left |-> dir[f]] /\ op' = NoOp /\ staging' = Nothing
  /\ spoilt' = TRUE
  /\ UNCHANGED <<index, served, config, row, inst, up, stops, edits, requests, manual>>
Rename ==
  /\ op.pc = "rename" /\ dir' = staging /\ staging' = Nothing /\ op' = [op EXCEPT !.pc = "register"]
  /\ manual' = (manual \/ op.version # row.version)
  /\ UNCHANGED <<index, served, config, row, inst, up, stops, edits, requests, spoilt>>
Register ==
  /\ op.pc = "register" /\ row' = Registered(row) /\ op' = NoOp
  /\ IF op.wasLoaded /\ Loads THEN Load ELSE inst' = NoInst
  /\ spoilt' = (spoilt \/ (row'.enabled /\ ~Loads))
  /\ UNCHANGED <<index, served, staging, dir, config, up, stops, edits, requests, manual>>
RegisterFails ==
  /\ op.pc = "register" /\ op' = NoOp /\ spoilt' = TRUE
  /\ UNCHANGED <<index, served, staging, dir, config, row, inst, up, stops, edits, requests, manual>>

-----------------------------------------------------------------------------
(* An uninstall: the instance, the hook, the files, the configuration, the row. *)

Uninstall ==
  /\ Asked /\ row.there /\ inst' = NoInst /\ op' = [NoOp EXCEPT !.pc = "files"]
  /\ UNCHANGED <<index, served, staging, dir, config, row, up, stops, edits, manual, spoilt>>
RemoveFiles ==
  /\ op.pc = "files" /\ dir' = Nothing /\ op' = [op EXCEPT !.pc = "config"]
  /\ UNCHANGED <<index, served, staging, config, row, inst, up, stops, edits, requests, manual, spoilt>>
RemoveConfig ==
  /\ op.pc = "config" /\ config' = [parses |-> TRUE, keys |-> {}] /\ op' = [op EXCEPT !.pc = "row"] /\ manual' = FALSE
  /\ UNCHANGED <<index, served, staging, dir, row, inst, up, stops, edits, requests, spoilt>>
DeleteRow ==
  /\ op.pc = "row" /\ row' = NoRow /\ op' = NoOp
  /\ UNCHANGED <<index, served, staging, dir, config, inst, up, stops, edits, requests, manual, spoilt>>
UninstallFails ==
  /\ op.pc \in {"files", "config", "row"} /\ op' = NoOp
  /\ spoilt' = TRUE
  /\ UNCHANGED <<index, served, staging, dir, config, row, inst, up, stops, edits, requests, manual>>

-----------------------------------------------------------------------------
\* The registry lists a release, and its repository serves each file of it.
Publish ==
  /\ index + 1 \in Versions /\ index' = index + 1
  /\ UNCHANGED <<served, op, staging, dir, config, row, inst, up, stops, edits, requests, manual, spoilt>>
Push(f) ==
  /\ served[f] + 1 \in Versions /\ served' = [served EXCEPT ![f] = @ + 1]
  /\ UNCHANGED <<index, op, staging, dir, config, row, inst, up, stops, edits, requests, manual, spoilt>>
\* A stop in the middle of a removal leaves some of the files.
Stop(left) ==
  /\ up /\ stops < MaxStops /\ stops' = stops + 1 /\ up' = FALSE /\ inst' = NoInst /\ op' = NoOp
  /\ left \subseteq DOMAIN dir /\ (op.pc \notin {"remove", "files"} => left = DOMAIN dir) /\ dir' = [f \in left |-> dir[f]]
  /\ UNCHANGED <<index, served, staging, config, row, edits, requests, manual, spoilt>>
\* reconcile: what is enabled is loaded.
Start ==
  /\ ~up /\ up' = TRUE /\ row' = Registered(row)
  /\ IF row'.enabled /\ Loads THEN Load ELSE inst' = NoInst
  /\ spoilt' = (row'.enabled /\ ~Loads)
  /\ UNCHANGED <<index, served, op, staging, dir, config, stops, edits, requests, manual>>

Init ==
  /\ index = 1 /\ served = [f \in Files |-> 1] /\ op = NoOp /\ staging = Nothing /\ dir = Nothing /\ config = [parses |-> TRUE, keys |-> {}]
  /\ row = NoRow /\ inst = NoInst /\ up = TRUE /\ stops = 0 /\ edits = 0 /\ requests = 0 /\ manual = FALSE /\ spoilt = FALSE

Next ==
  \/ SetEnabled(TRUE) \/ SetEnabled(FALSE) \/ \E k \in AllKeys : SetConfig(k)
  \/ \E keys \in SUBSET AllKeys : HandEdit(keys, TRUE) \/ HandEdit(keys, FALSE)
  \/ Catalog \/ InstallFails \/ Staged \/ RemoveTarget \/ Rename \/ Register \/ RegisterFails
  \/ Uninstall \/ RemoveFiles \/ RemoveConfig \/ DeleteRow \/ UninstallFails
  \/ Publish \/ \E f \in Files : Push(f) \/ Download(f)
  \/ \E left \in SUBSET Files : SwapFails(left) \/ Stop(left)
  \/ Start

Spec == Init /\ [][Next]_vars

-----------------------------------------------------------------------------
(* Properties. *)

\* What runs is one release, whole, that the registry has listed, under a manifest that allows its
\* overrides, and it was enabled; what is staged is never run.
RunsWhole ==
  inst.on => /\ up /\ row.there /\ row.enabled
             /\ DOMAIN inst.files = Files /\ \A f \in Files : inst.files[f] = inst.files["manifest"] /\ inst.files[f] <= index
             /\ inst.files["manifest"] \in Sound /\ inst.overrides \subseteq Keys[inst.files["manifest"]]

\* A directory holds files of one release, through updates that fail or are cut off.
OneRelease == \A f, g \in DOMAIN dir : dir[f] = dir[g]

\* What a plugin saves is what it then runs with, and what its next load accepts.
SavedLoads ==
  /\ inst.on /\ ~manual => inst.overrides = Overrides
  /\ Valid /\ ~manual => Effective(Manifest)

\* A plugin that is enabled and would load is running, unless a step of an install or an uninstall
\* or a load failed since it was enabled: an update starts again what it stopped.
RunsAgain == up /\ op.pc = "idle" /\ row.enabled /\ Loads /\ ~manual /\ ~spoilt => inst.on
=============================================================================
