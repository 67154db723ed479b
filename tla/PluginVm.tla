------------------------------ MODULE PluginVm ------------------------------
(* One loaded plugin under each of the three runtimes of internal/plugins: its hooks are
   run one after the other by its worker, each under a deadline of its own, and call the
   host back.  A call is its number; a buffer or an answer is the call it belongs to, 0 if
   it is empty.  The script's own work is data: it runs until it returns, fails, calls the
   host, or is stopped. *)
EXTENDS Integers, FiniteSets, Sequences

CONSTANTS
  Runtime,   \* "js", "lua" or "wasm"
  Hooks,     \* the hooks there are
  Declared,  \* those of the manifest
  MaxCalls   \* bound

VARIABLES
  vm,       \* its state, the calls its memory holds traces of, and the context of the host's closures
  call,     \* the call under way
  expired,  \* the calls whose context is over: the deadline, or the worker's cancel
  armed,    \* js: the calls whose watcher still waits
  scratch,  \* wasm: the buffers of the ABI
  ops,      \* each call of the host, by which call and under whose context
  results   \* of each call: what it came to, whose result it gave and whose answers it read
vars == <<vm, call, expired, armed, scratch, ops, results>>

NoCall == [pc |-> "idle", id |-> 0, outcome |-> "none", asked |-> FALSE, heard |-> {}]
Empty == [in |-> 0, out |-> 0, resp |-> 0]

TypeOK ==
  /\ vm \in [pc : {"unloaded", "ready", "failed", "closed"}, live : BOOLEAN, memory : SUBSET (1 .. MaxCalls),
             interrupt : BOOLEAN, ctx : 0 .. MaxCalls]
  /\ call.pc \in {"idle", "running", "stopping"} /\ call.id \in 0 .. MaxCalls
  /\ expired \cup armed \subseteq 1 .. MaxCalls /\ ops \subseteq (1 .. MaxCalls) \X (0 .. MaxCalls)
  /\ scratch \in [in : 0 .. MaxCalls, out : 0 .. MaxCalls, resp : 0 .. MaxCalls] /\ Len(results) <= MaxCalls

-----------------------------------------------------------------------------
(* Load: every declared hook must be there. *)

LoadWith(registered) ==
  /\ vm.pc = "unloaded"
  /\ vm' = [vm EXCEPT !.pc = IF Declared \subseteq registered THEN "ready" ELSE "failed", !.live = Declared \subseteq registered]
  /\ UNCHANGED <<call, expired, armed, scratch, ops, results>>
JsLoad(registered) == Runtime = "js" /\ LoadWith(registered)
LuaLoad(registered) == Runtime = "lua" /\ LoadWith(registered)
\* The handshake reads the registered hooks; a module that spins, or exports none, fails the load.
WasmLoad(registered) == Runtime = "wasm" /\ LoadWith(registered)
Close ==
  /\ vm.pc = "ready" /\ call.pc = "idle" /\ vm' = [vm EXCEPT !.pc = "closed", !.live = FALSE, !.memory = {}]
  /\ UNCHANGED <<call, expired, armed, scratch, ops, results>>

-----------------------------------------------------------------------------
(* A call. *)

NextId == Len(results) + 1
Started == [NoCall EXCEPT !.pc = "running", !.id = NextId]
Ended(outcome, out) ==
  /\ results' = Append(results, [outcome |-> outcome, out |-> out, heard |-> call.heard, late |-> call.id \in expired])
  /\ call' = NoCall
CanCall == vm.pc = "ready" /\ call.pc = "idle" /\ NextId <= MaxCalls
Expire(id) ==
  /\ id \in 1 .. NextId /\ (id = NextId => call.pc # "idle") /\ id \notin expired /\ expired' = expired \cup {id}
  /\ UNCHANGED <<vm, call, armed, scratch, ops, results>>

Running == call.pc = "running"
\* js: the context is published and a watcher started, which interrupts the VM.
JsCall ==
  /\ Runtime = "js" /\ CanCall /\ call' = Started /\ armed' = armed \cup {NextId}
  /\ vm' = [vm EXCEPT !.ctx = NextId, !.memory = @ \cup {NextId}]
  /\ UNCHANGED <<expired, scratch, ops, results>>
Watch(id) ==
  /\ id \in armed \cap expired /\ armed' = armed \ {id} /\ vm' = [vm EXCEPT !.interrupt = TRUE]
  /\ UNCHANGED <<call, expired, scratch, ops, results>>
WatcherStops(id) ==
  /\ id \in armed /\ (call.id # id \/ call.pc = "stopping") /\ armed' = armed \ {id}
  /\ UNCHANGED <<vm, call, expired, scratch, ops, results>>
JsStops(outcome) ==
  /\ Runtime = "js" /\ Running /\ (outcome = "interrupted" => vm.interrupt)
  /\ call' = [call EXCEPT !.pc = "stopping", !.outcome = outcome]
  /\ UNCHANGED <<vm, expired, armed, scratch, ops, results>>
\* The interrupt is cleared as soon as the function returns.
ClearAtOnce ==
  /\ Runtime = "js" /\ call.pc = "stopping"
  /\ vm' = [vm EXCEPT !.interrupt = FALSE, !.ctx = 0] /\ Ended(call.outcome, call.id)
  /\ UNCHANGED <<expired, armed, scratch, ops>>
\* The interrupt is cleared once the watcher is done.
JsClear ==
  /\ Runtime = "js" /\ call.pc = "stopping" /\ call.id \notin armed
  /\ vm' = [vm EXCEPT !.interrupt = FALSE, !.ctx = 0] /\ Ended(call.outcome, call.id)
  /\ UNCHANGED <<expired, armed, scratch, ops>>

\* lua: the context is the VM's own.
LuaCall ==
  /\ Runtime = "lua" /\ CanCall /\ call' = Started
  /\ vm' = [vm EXCEPT !.ctx = NextId, !.memory = @ \cup {NextId}]
  /\ UNCHANGED <<expired, armed, scratch, ops, results>>
LuaEnds(outcome) ==
  /\ Runtime = "lua" /\ Running /\ (outcome = "interrupted" => vm.ctx \in expired)
  /\ vm' = [vm EXCEPT !.ctx = 0] /\ Ended(outcome, call.id)
  /\ UNCHANGED <<expired, armed, scratch, ops>>

\* wasm: a module that a failed call has left is made anew, and the buffers are set.
ArmKeeping(id) == [scratch EXCEPT !.in = id, !.resp = 0]
Arm(id) == [in |-> id, out |-> 0, resp |-> 0]
Memory == IF vm.live THEN vm.memory ELSE {}
WasmCall ==
  /\ Runtime = "wasm" /\ CanCall /\ call' = Started /\ scratch' = Arm(NextId)
  /\ vm' = [vm EXCEPT !.live = TRUE, !.ctx = NextId, !.memory = Memory \cup {NextId}]
  /\ UNCHANGED <<expired, armed, ops, results>>
\* It cannot be made.
WasmCallFails ==
  /\ Runtime = "wasm" /\ CanCall /\ ~vm.live
  /\ results' = Append(results, [outcome |-> "error", out |-> 0, heard |-> {}, late |-> FALSE])
  /\ UNCHANGED <<vm, call, expired, armed, scratch, ops>>
\* The export returns; without a result that is an error, and the module stays.
Teardown == [vm EXCEPT !.live = FALSE, !.ctx = 0, !.memory = {}]
WasmReturns ==
  /\ Runtime = "wasm" /\ Running
  /\ vm' = [vm EXCEPT !.ctx = 0] /\ scratch' = [scratch EXCEPT !.in = 0, !.resp = 0]
  /\ Ended(IF scratch.out = 0 THEN "error" ELSE "ok", scratch.out)
  /\ UNCHANGED <<expired, armed, ops>>
\* The deadline closes the module; a trap or an exit leaves it unknown.
WasmFails(outcome) ==
  /\ Runtime = "wasm" /\ Running /\ outcome \in {"interrupted", "trap"} /\ (outcome = "interrupted" => call.id \in expired)
  /\ vm' = Teardown /\ scratch' = [scratch EXCEPT !.in = 0, !.resp = 0] /\ Ended(outcome, 0)
  /\ UNCHANGED <<expired, armed, ops>>

-----------------------------------------------------------------------------
(* The host's side of a call back, and the guest's. *)

Does == ops' = ops \cup {<<call.id, vm.ctx>>} /\ UNCHANGED <<vm, expired, armed, results>>
ScriptHears == call' = [call EXCEPT !.heard = @ \cup {call.id}] /\ UNCHANGED scratch
JsHostCall == Runtime = "js" /\ Running /\ ~vm.interrupt /\ Does /\ ScriptHears
LuaHostCall == Runtime = "lua" /\ Running /\ Does /\ ScriptHears
\* host_call leaves its answer for read_response, which takes it once.
HostAnswers == [scratch EXCEPT !.resp = call.id]
AnswerTaken == [scratch EXCEPT !.resp = 0]
HostCall ==
  /\ Runtime = "wasm" /\ Running /\ Does
  /\ scratch' = HostAnswers /\ call' = [call EXCEPT !.asked = TRUE]
ReadResponse ==
  /\ Runtime = "wasm" /\ Running
  /\ call' = [call EXCEPT !.heard = @ \cup ({scratch.resp} \ {0})] /\ scratch' = AnswerTaken
  /\ UNCHANGED <<vm, expired, armed, ops, results>>
\* output: what the hook came to, or, of a handler that panicked, its error.
Output ==
  /\ Runtime = "wasm" /\ Running /\ scratch' = [scratch EXCEPT !.out = scratch.in]
  /\ UNCHANGED <<vm, call, expired, armed, ops, results>>

Init ==
  /\ vm = [pc |-> "unloaded", live |-> FALSE, memory |-> {}, interrupt |-> FALSE, ctx |-> 0] /\ call = NoCall
  /\ expired = {} /\ armed = {} /\ scratch = Empty /\ ops = {} /\ results = << >>

Next ==
  \/ \E r \in SUBSET Hooks : JsLoad(r) \/ LuaLoad(r) \/ WasmLoad(r)
  \/ JsCall \/ LuaCall \/ WasmCall \/ WasmCallFails
  \/ \E id \in 1 .. MaxCalls : Expire(id) \/ Watch(id) \/ WatcherStops(id)
  \/ JsHostCall \/ LuaHostCall \/ HostCall \/ ReadResponse \/ Output
  \/ \E o \in {"ok", "error", "interrupted"} : JsStops(o) \/ LuaEnds(o)
  \/ JsClear \/ WasmReturns \/ WasmFails("interrupted") \/ WasmFails("trap")
  \/ Close

Spec == Init /\ [][Next]_vars

-----------------------------------------------------------------------------
(* Properties. *)

\* A call is interrupted only by its own deadline, and the VM that waits for a call has no
\* interrupt or context left in it.
OwnDeadline ==
  /\ \A i \in DOMAIN results : results[i].outcome = "interrupted" => results[i].late
  /\ call.pc = "idle" => ~vm.interrupt /\ vm.ctx = 0

\* A call gives its own result, reads its own answers, and the host acts under its context.
OwnResult ==
  /\ \A i \in DOMAIN results : /\ results[i].out \in {0, i} /\ results[i].heard \subseteq {i}
                               /\ results[i].outcome = "ok" => results[i].out = i
  /\ \A o \in ops : o[1] = o[2]

\* What a wasm call that failed left in memory is gone; other memory is kept.
MemoryReset ==
  LET failed == {i \in DOMAIN results : results[i].outcome \in {"interrupted", "trap"}}
      whole == {i \in DOMAIN results : results[i].outcome \in {"ok", "error"} /\ \A j \in failed : j < i}
  IN vm.pc = "ready" => IF Runtime = "wasm" THEN /\ vm.memory \cap failed = {}
                                                 /\ vm.live => vm.memory \subseteq whole \cup {call.id}
                        ELSE vm.memory = DOMAIN results \cup ({call.id} \ {0})
=============================================================================
