------------------------------ MODULE MCLedger ------------------------------
(* A ledger with one manual account, one account of a plugin source, a synced
   and a manual transaction, one label key and one rule for it. *)
EXTENDS Ledger, TLC

CONSTANTS hand, synced, m1, s1, plug, c1, c2, user, auto, EnabledChoices

MCSourceOf == (synced :> plug) @@ (s1 :> plug)

MCVals == [labels |-> {user, auto}, extensions |-> {auto}]

\* A rule that sets the label and the extension of the transactions that are c1.
MCRuleBodies == {[enabled |-> e, query |-> {c1}, sets |-> [s \in Seams |-> [k \in Keys |-> auto]]] : e \in EnabledChoices}
=============================================================================
