------------------------------ MODULE MCProgress ------------------------------
(* What a plugin's life keeps, and what must come about: the syncs of the engine end
   and tell, and a plugin's requests, clients and unload return.  A behaviour is one
   of the engine or one of the plugin manager, as `part` says; the other keeps its
   initial state. *)
EXTENDS PluginLifecycle, Integers, TLC

VARIABLE part

-----------------------------------------------------------------------------
(* The plugin manager: requests and the reconcile of Run, a page call, one event, a queue
   of one, two instances. *)

PluginInit == Init /\ (part # "plugin" => row = "absent")
PluginNext == part = "plugin" /\ Next

\* The fairness that PluginLifecycle states.
Running == part = "plugin" /\ panic = "none"
PluginFairness == /\ WF_vars(Running /\ RunStep)
                  /\ \A c \in Callers : WF_vars(Running /\ CallerStep(c))
                  /\ \A i \in Instances : WF_vars(Running /\ WorkerStep(i))
                  /\ \A k \in Clients : WF_vars(Running /\ ClientStep(k))

-----------------------------------------------------------------------------
(* The engine: a webhook source, a read-through cache and a bank built in, a plugin's
   source, over the registry main starts. *)
CONSTANTS bank, market, hook, plug, t1, t2, m1

VARIABLES typeOf, order, field, live, main, mgr, cred, lock, runner, rows, stored, told, lost, crossed

Kinds == (bank :> "pull") @@ (market :> "warm") @@ (hook :> "push") @@ (plug :> "pull")
E == INSTANCE Engine WITH
  Types <- {bank, market, hook, plug}, KindOf <- Kinds, Timed <- {bank, plug}, Credentialed <- {bank},
  Builtin <- <<hook, market, bank>>, Runners <- {t1, t2}, Plugins <- {m1}, MaxPollers <- 5, MaxLogs <- 2,
  raced <- crossed

engineVars == <<typeOf, order, field, live, main, mgr, cred, lock, runner, rows, stored, told, lost, crossed>>

EngineInit == E!Init /\ main.pc = "fresh" /\ (part # "engine" => cred[bank] = "unset")
EngineNext == /\ part = "engine" /\ E!Next
              /\ mgr' = mgr /\ main'.pc # "stopping" /\ lost' = lost
              /\ main.pc # "up" => UNCHANGED <<runner, cred>>

\* The fairness that Engine states.
Syncing == part = "engine"
EngineFairness == \A t \in {t1, t2} : /\ WF_engineVars(Syncing /\ E!Work(t))
                                      /\ SF_engineVars(Syncing /\ E!Sync(t))

\* A sync that was asked for ends, whoever else syncs the same source and whatever fails.
SyncsReturn == E!SyncsReturn

-----------------------------------------------------------------------------
EitherInit == part \in {"engine", "plugin"} /\ EngineInit /\ PluginInit
EitherNext == UNCHANGED part /\ ((EngineNext /\ UNCHANGED vars) \/ (PluginNext /\ UNCHANGED engineVars))

EitherSpec == EitherInit /\ [][EitherNext]_<<part, engineVars, vars>> /\ EngineFairness /\ PluginFairness
=============================================================================
