------------------------------- MODULE EventLog --------------------------------
(***************************************************************************)
(* What the transactions of the master promise to the readers of the       *)
(* events table: a number is drawn from global_version_seq when a           *)
(* transaction starts to write, and the event that carries it becomes       *)
(* visible, with its NOTIFY, when that transaction commits -- in any order, *)
(* or never.  PageStore implements this; EventStream reads from it.         *)
(***************************************************************************)
EXTENDS Naturals, Sequences

CONSTANTS Label \* what an event tells its readers beside its number

VARIABLES
    drawn, \* the last number handed out
    open,  \* numbers drawn by transactions that have not ended
    log    \* the committed events, in commit order

logVars == <<drawn, open, log>>

LogInit ==
    /\ drawn = 0
    /\ open = {}
    /\ log = <<>>

\* nextval('global_version_seq'); it is not undone by a rollback.
Draw ==
    /\ drawn' = drawn + 1
    /\ open' = open \cup {drawn + 1}
    /\ UNCHANGED log

\* COMMIT of a transaction that inserted an event.
Publish(g, l) ==
    /\ g \in open
    /\ open' = open \ {g}
    /\ log' = Append(log, [gv |-> g, label |-> l])
    /\ UNCHANGED drawn

\* COMMIT without an event, or ROLLBACK.
Discard(g) ==
    /\ g \in open
    /\ open' = open \ {g}
    /\ UNCHANGED <<drawn, log>>

LogNext ==
    \/ Draw
    \/ \E g \in open : Discard(g)
    \/ \E g \in open, l \in Label : Publish(g, l)

LogSpec == LogInit /\ [][LogNext]_logVars
=============================================================================
