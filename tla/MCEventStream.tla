---------------------------- MODULE MCEventStream -----------------------------
(* EventStream for TLC.  *)
EXTENDS EventStream

CONSTANTS readme, LogAppended

MCLabel == {readme, LogAppended}

\* One agent whose prefix lets everything through, as the agents subscribe.
MCWants == [s \in Subscriber |-> Label]
=============================================================================
