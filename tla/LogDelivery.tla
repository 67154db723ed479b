----------------------------- MODULE LogDelivery -----------------------------
(***************************************************************************)
(* What a consumer of the event log is promised: it is handed the events   *)
(* committed after it started, each once, in sequence order, and it never  *)
(* passes over an event that is still in the log, unless the process is    *)
(* shutting down.                                                          *)
(***************************************************************************)
EXTENDS Integers, Sequences

VARIABLES
    committed,  \* every sequence ever committed
    log,        \* those retention has kept
    cursor,     \* the consumer has dealt with everything up to here
    out,        \* what it was handed since it started, oldest first
    closing     \* the process was told to stop

vars == <<committed, log, cursor, out, closing>>

Init == committed = {} /\ log = {} /\ cursor = 0 /\ out = <<>> /\ closing = FALSE

\* A transaction adds rows above every earlier one.
Append_(new) ==
    /\ \A n \in new, s \in committed : n > s
    /\ committed' = committed \union new
    /\ log' = log \union new
    /\ UNCHANGED <<cursor, out, closing>>

Prune ==
    /\ log' \subseteq log
    /\ UNCHANGED <<committed, cursor, out, closing>>

\* The next event: nothing still in the log lies between the cursor and it.
Deliver(s) ==
    /\ s \in committed /\ s > cursor
    /\ closing \/ \A t \in log : ~(cursor < t /\ t < s)
    /\ cursor' = s
    /\ out' = Append(out, s)
    /\ UNCHANGED <<committed, log, closing>>

\* The process stops, losing the consumer's position.
Stop ==
    /\ cursor' = 0 /\ out' = <<>> /\ closing' = FALSE
    /\ UNCHANGED <<committed, log>>

Close ==
    /\ closing' = TRUE
    /\ UNCHANGED <<committed, log, cursor, out>>

\* The consumer (re)starts at the head of the log, skipping the backlog.
Start ==
    /\ out = <<>>
    /\ \A s \in log : s <= cursor'
    /\ cursor' \in log \union {0}
    /\ UNCHANGED <<committed, log, out, closing>>

Next ==
    \/ Append_(committed' \ committed)
    \/ Prune
    \/ \E s \in committed : Deliver(s)
    \/ Stop
    \/ Close
    \/ Start

Spec == Init /\ [][Next]_vars

=============================================================================
