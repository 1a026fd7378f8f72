------------------------------ MODULE EventStream ------------------------------
(***************************************************************************)
(* How a committed event reaches an agent: the NOTIFY, the one LISTEN       *)
(* connection and the fan-out of src/vaultmcp/master/sse.py, the catch-up   *)
(* query events_since of db.py, the HTTP stream, and the cursor with which  *)
(* the sync engine of src/vaultmcp/agent/sync.py asks for what it missed.   *)
(*                                                                         *)
(* The events come from EventLog, which PageStore implements.  A label in   *)
(* Path is a PageChanged of that page; the other labels are the events the  *)
(* agent only counts (LogAppended, extension events).  The content of a     *)
(* page is named by the global version of its last PageChanged.             *)
(***************************************************************************)
EXTENDS EventLog, FiniteSets

CONSTANTS
    Path,       \* the labels that are PageChanged of a page
    Subscriber, \* agents, one stream each
    Wants,      \* the labels the prefix of each subscriber lets through
    Failing,    \* pages a wiki.read of the agent may fail for
    Limit,      \* LIMIT of events_since (1000)
    QueueSize,  \* maxsize of a subscriber's queue (256)
    WireSize,   \* what the HTTP stream buffers
    MaxDrawn,   \* bound: numbers drawn
    MaxOpen,    \* bound: transactions open at the same time
    MayDie      \* whether the LISTEN connection can be lost

ASSUME StreamAssumption ==
    /\ Path \subseteq Label
    /\ Wants \in [Subscriber -> SUBSET Label]
    /\ Failing \subseteq Path
    /\ {Limit, QueueSize, WireSize} \subseteq Nat \ {0}
    /\ MayDie \in BOOLEAN

VARIABLES
    listener, \* the LISTEN loop: starting, on or dead
    notif,    \* notifications the fan-out has not handled, in commit order
    stage,    \* of each subscriber: off, replay or live
    replay,   \* the rows of its catch-up query that are not yielded yet
    queue,    \* its in-memory queue
    wire,     \* what was yielded to its HTTP stream and not yet received
    cursor,   \* last_global_version of the agent's cache, kept over restarts
    mirror,   \* the content of each page in the agent's vault directory
    seen,     \* history: the numbers of the events the agent applied
    missed    \* history: those the stream passed over, see LossIsAccountedFor

sessionVars == <<stage, replay, queue, wire>>
agentVars == <<cursor, mirror, seen>>
streamVars == <<logVars, listener, notif, sessionVars, agentVars, missed>>

EventRec == [gv : Nat, label : Label]

Heartbeat == [gv |-> 0, label |-> "Heartbeat"]

Committed == {log[i] : i \in DOMAIN log}

InSeq(q) == {q[i] : i \in DOMAIN q}

\* Replaying, queued or on the wire: a subscriber will get it if its stream lasts.
Carried(s) == replay[s] \cup InSeq(queue[s]) \cup InSeq(wire[s])

\* What wiki.read returns now: the page as its last PageChanged left it.
Current(p) ==
    LET is == {i \in DOMAIN log : log[i].label = p}
    IN  IF is = {} THEN 0 ELSE log[CHOOSE i \in is : \A j \in is : j <= i].gv

StreamTypeOK ==
    /\ drawn \in Nat /\ open \subseteq 1..drawn
    /\ log \in Seq(EventRec)
    /\ listener \in {"starting", "on", "dead"}
    /\ notif \in Seq(EventRec)
    /\ stage \in [Subscriber -> {"off", "replay", "live"}]
    /\ replay \in [Subscriber -> SUBSET EventRec]
    /\ \A s \in Subscriber :
          /\ queue[s] \in Seq(EventRec \cup {Heartbeat}) /\ Len(queue[s]) <= QueueSize
          /\ wire[s] \in Seq(EventRec \cup {Heartbeat}) /\ Len(wire[s]) <= WireSize
          /\ stage[s] # "live" => queue[s] = <<>>
          /\ stage[s] # "replay" => replay[s] = {}
    /\ cursor \in [Subscriber -> Nat]
    /\ mirror \in [Subscriber -> [Path -> Nat]]
    /\ seen \in [Subscriber -> SUBSET Nat]
    /\ missed \in [Subscriber -> SUBSET Nat]

StreamInit ==
    /\ LogInit
    /\ listener = "starting"
    /\ notif = <<>>
    /\ stage = [s \in Subscriber |-> "off"]
    /\ replay = [s \in Subscriber |-> {}]
    /\ queue = [s \in Subscriber |-> <<>>]
    /\ wire = [s \in Subscriber |-> <<>>]
    /\ cursor = [s \in Subscriber |-> 0]
    /\ mirror = [s \in Subscriber |-> [p \in Path |-> 0]]
    /\ seen = [s \in Subscriber |-> {}]
    /\ missed = [s \in Subscriber |-> {}]

-----------------------------------------------------------------------------
(* The database: EventLog, whose commits notify whoever LISTENs.            *)

StreamDraw ==
    /\ drawn < MaxDrawn /\ Cardinality(open) < MaxOpen
    /\ Draw
    /\ UNCHANGED <<listener, notif, sessionVars, agentVars, missed>>

StreamDiscard ==
    /\ \E g \in open : Discard(g)
    /\ UNCHANGED <<listener, notif, sessionVars, agentVars, missed>>

(***************************************************************************)
(* The trigger's pg_notify is delivered at the commit, to the connections   *)
(* that LISTEN then.  start() does not wait for the loop that LISTENs: a    *)
(* stream may be open before it does, and is not told of this event.        *)
(***************************************************************************)
Commit(g, l) ==
    /\ Publish(g, l)
    /\ notif' = IF listener = "on" THEN Append(notif, [gv |-> g, label |-> l]) ELSE notif
    /\ missed' = [s \in Subscriber |->
                     IF listener = "starting" /\ stage[s] # "off" THEN missed[s] \cup {g}
                     ELSE missed[s]]
    /\ UNCHANGED <<listener, sessionVars, agentVars>>

-----------------------------------------------------------------------------
(* The broadcaster.                                                         *)

Attach ==
    /\ listener = "starting"
    /\ listener' = "on"
    /\ UNCHANGED <<logVars, notif, sessionVars, agentVars, missed>>

\* The connection is lost, or LISTEN fails.  Nothing starts the loop again.
ListenerLost ==
    /\ MayDie /\ listener # "dead"
    /\ listener' = "dead"
    /\ UNCHANGED <<logVars, notif, sessionVars, agentVars, missed>>

Receives(s, e) == stage[s] = "live" /\ e.label \in Wants[s]

(***************************************************************************)
(* _fanout: put_nowait into the queue of every registered subscriber whose  *)
(* prefix matches, and a full queue drops the event.  A subscriber between  *)
(* its query and its registration gets it neither way.                      *)
(***************************************************************************)
Fanout ==
    LET e == Head(notif)
        fits(s) == Receives(s, e) /\ Len(queue[s]) < QueueSize
        passes(s) ==
            \/ Receives(s, e) /\ ~fits(s)
            \/ stage[s] = "replay" /\ e \notin Carried(s)
    IN  /\ notif # <<>>
        /\ notif' = Tail(notif)
        /\ queue' = [s \in Subscriber |-> IF fits(s) THEN Append(queue[s], e) ELSE queue[s]]
        /\ missed' = [s \in Subscriber |->
                         IF passes(s) THEN missed[s] \cup {e.gv} ELSE missed[s]]
        /\ UNCHANGED <<logVars, listener, stage, replay, wire, agentVars>>

\* Mutant: heartbeats are queued without a limit.
BeatUnbounded ==
    /\ \E s \in Subscriber : stage[s] = "live" /\ Len(queue[s]) <= QueueSize
    /\ queue' = [s \in Subscriber |->
                    IF stage[s] = "live" THEN Append(queue[s], Heartbeat) ELSE queue[s]]
    /\ UNCHANGED <<logVars, listener, notif, stage, replay, wire, agentVars, missed>>

\* _heartbeat_loop: to every registered subscriber, whatever its prefix.
Beat ==
    /\ \E s \in Subscriber : stage[s] = "live" /\ Len(queue[s]) < QueueSize
    /\ queue' = [s \in Subscriber |->
                    IF stage[s] = "live" /\ Len(queue[s]) < QueueSize
                    THEN Append(queue[s], Heartbeat) ELSE queue[s]]
    /\ UNCHANGED <<logVars, listener, notif, stage, replay, wire, agentVars, missed>>

\* The master stops and starts again: its memory is gone, the transactions that
\* were open end by themselves.
Restart ==
    /\ listener' = "starting"
    /\ notif' = <<>>
    /\ stage' = [s \in Subscriber |-> "off"]
    /\ replay' = [s \in Subscriber |-> {}]
    /\ queue' = [s \in Subscriber |-> <<>>]
    /\ wire' = [s \in Subscriber |-> <<>>]
    /\ UNCHANGED <<logVars, agentVars, missed>>

-----------------------------------------------------------------------------
(* One subscription: events_since, the replay, the registration, the live   *)
(* loop.                                                                    *)

\* Mutant: the query skips the event right above the cursor.
EventsSinceNext(n) ==
    LET later == {e \in Committed : e.gv > n + 1}
    IN  {e \in later : Cardinality({f \in later : f.gv < e.gv}) < Limit}

\* The events above number n, lowest first, as far as LIMIT goes.
EventsSince(n) ==
    LET later == {e \in Committed : e.gv > n}
    IN  {e \in later : Cardinality({f \in later : f.gv < e.gv}) < Limit}

\* GET /mcp/subscribe with the cursor of the cache.  LIMIT cuts before the
\* prefix filters; what it cuts off is passed over.
Connect(s) ==
    LET rows == EventsSince(cursor[s])
        later == {e \in Committed : e.gv > cursor[s]}
        cut == {e \in later : Cardinality({f \in later : f.gv < e.gv}) >= Limit}
    IN  /\ stage[s] = "off"
        /\ stage' = [stage EXCEPT ![s] = "replay"]
        /\ replay' = [replay EXCEPT ![s] = {e \in rows : e.label \in Wants[s]}]
        /\ missed' = [missed EXCEPT ![s] = @ \cup {e.gv : e \in cut}]
        /\ UNCHANGED <<logVars, listener, notif, queue, wire, agentVars>>

\* Mutant: the replay comes newest first.
NextRowNewest(rows) == CHOOSE e \in rows : \A f \in rows : e.gv >= f.gv

\* The row of the replay that is yielded next: ORDER BY global_version.
NextRow(rows) == CHOOSE e \in rows : \A f \in rows : e.gv <= f.gv

YieldReplay(s) ==
    /\ replay[s] # {} /\ Len(wire[s]) < WireSize
    /\ replay' = [replay EXCEPT ![s] = @ \ {NextRow(@)}]
    /\ wire' = [wire EXCEPT ![s] = Append(@, NextRow(replay[s]))]
    /\ UNCHANGED <<logVars, listener, notif, stage, queue, agentVars, missed>>

\* Only now is the subscriber known to _fanout, with an empty queue.
Register(s) ==
    /\ stage[s] = "replay" /\ replay[s] = {}
    /\ stage' = [stage EXCEPT ![s] = "live"]
    /\ UNCHANGED <<logVars, listener, notif, replay, queue, wire, agentVars, missed>>

\* Mutant: the poll times out with the event already taken from the queue.
YieldLiveLossy(s) ==
    /\ queue[s] # <<>> /\ Len(wire[s]) < WireSize
    /\ queue' = [queue EXCEPT ![s] = Tail(@)]
    /\ wire' \in {wire, [wire EXCEPT ![s] = Append(@, Head(queue[s]))]}
    /\ UNCHANGED <<logVars, listener, notif, stage, replay, agentVars, missed>>

YieldLive(s) ==
    /\ queue[s] # <<>> /\ Len(wire[s]) < WireSize
    /\ queue' = [queue EXCEPT ![s] = Tail(@)]
    /\ wire' = [wire EXCEPT ![s] = Append(@, Head(queue[s]))]
    /\ UNCHANGED <<logVars, listener, notif, stage, replay, agentVars, missed>>

\* The stream breaks: what it carried is gone with it.
Disconnect(s) ==
    /\ stage[s] # "off"
    /\ stage' = [stage EXCEPT ![s] = "off"]
    /\ replay' = [replay EXCEPT ![s] = {}]
    /\ queue' = [queue EXCEPT ![s] = <<>>]
    /\ wire' = [wire EXCEPT ![s] = <<>>]
    /\ UNCHANGED <<logVars, listener, notif, agentVars, missed>>

-----------------------------------------------------------------------------
(* The agent: _apply_event.                                                 *)

\* The cursor only moves up: live events come in commit order, and twice.
Advanced(c, g) == IF g > c THEN g ELSE c

\* Mutant: the page as it was when the event was committed.
ContentOfEvent(e) == e.gv

\* The page is read from the master now, not taken from the event.
Content(e) == Current(e.label)

Apply(s) ==
    LET e == Head(wire[s]) IN
    /\ wire[s] # <<>>
    /\ wire' = [wire EXCEPT ![s] = Tail(@)]
    /\ mirror' = IF e.label \in Path THEN [mirror EXCEPT ![s][e.label] = Content(e)] ELSE mirror
    /\ cursor' = [cursor EXCEPT ![s] = Advanced(@, e.gv)]
    /\ seen' = [seen EXCEPT ![s] = IF e = Heartbeat THEN @ ELSE @ \cup {e.gv}]
    /\ UNCHANGED <<logVars, listener, notif, stage, replay, queue, missed>>

\* wiki.read fails: the event is given up and the cursor stays where it is, but
\* the next event moves it past.
ReadFails(s) ==
    /\ wire[s] # <<>> /\ Head(wire[s]).label \in Failing
    /\ wire' = [wire EXCEPT ![s] = Tail(@)]
    /\ missed' = [missed EXCEPT ![s] = @ \cup {Head(wire[s]).gv}]
    /\ UNCHANGED <<logVars, listener, notif, stage, replay, queue, agentVars>>

\* The agent dies between os.replace and set_cursor; the stream goes with it.
ApplyAndCrash(s) ==
    LET e == Head(wire[s]) IN
    /\ wire[s] # <<>> /\ e.label \in Path
    /\ mirror' = [mirror EXCEPT ![s][e.label] = Content(e)]
    /\ stage' = [stage EXCEPT ![s] = "off"]
    /\ replay' = [replay EXCEPT ![s] = {}]
    /\ queue' = [queue EXCEPT ![s] = <<>>]
    /\ wire' = [wire EXCEPT ![s] = <<>>]
    /\ UNCHANGED <<logVars, listener, notif, cursor, seen, missed>>

-----------------------------------------------------------------------------
Yield(s) == YieldReplay(s) \/ YieldLive(s)

Receive(s) == Apply(s) \/ ReadFails(s)

Session(s) ==
    \/ Connect(s)
    \/ Yield(s)
    \/ Register(s)
    \/ Disconnect(s)
    \/ Receive(s)
    \/ ApplyAndCrash(s)

StreamNext ==
    \/ StreamDraw
    \/ StreamDiscard
    \/ \E g \in open, l \in Label : Commit(g, l)
    \/ Attach
    \/ ListenerLost
    \/ Fanout
    \/ Beat
    \/ Restart
    \/ \E s \in Subscriber : Session(s)

StreamSpec == StreamInit /\ [][StreamNext]_streamVars

\* The event loop runs every task that is ready, and a connected agent reads
\* its stream; nothing has to commit, to connect, to fail or to restart.
FairStreamSpec ==
    /\ StreamSpec
    /\ WF_streamVars(Attach)
    /\ WF_streamVars(Fanout)
    /\ \A s \in Subscriber :
          /\ WF_streamVars(Yield(s))
          /\ WF_streamVars(Register(s))
          /\ WF_streamVars(Receive(s))

-----------------------------------------------------------------------------
(* Properties.                                                              *)

Wanted(s) == {e \in Committed : e.label \in Wants[s]}

\* Committed after an event with a higher number.
OutOfOrder(e) ==
    \E i, j \in DOMAIN log : i < j /\ log[j] = e /\ log[i].gv > e.gv

\* Not applied, not on its way, and at or below the cursor: no later catch-up
\* will ask for it.
Lost(s, e) ==
    /\ e.gv \notin seen[s]
    /\ e \notin Carried(s) \cup InSeq(notif)
    /\ e.gv <= cursor[s]

\* An event is lost to an agent only in one of these ways: it was committed
\* after an event with a higher number; or the stream passed over it, because
\* the LISTEN had not started, the subscriber was between its query and its
\* registration, its queue was full, LIMIT cut the catch-up off, or the read
\* failed.  Broken streams, restarts and duplicates alone lose nothing.
LossIsAccountedFor ==
    \A s \in Subscriber : \A e \in Wanted(s) :
        Lost(s, e) => OutOfOrder(e) \/ e.gv \in missed[s]

\* Until a subscriber goes live, everything its stream still carries lies above
\* the agent's cursor: a stream that breaks during the replay costs nothing.
ReplayAhead ==
    \A s \in Subscriber : stage[s] = "replay" =>
        \A e \in Carried(s) : e.gv > cursor[s]

\* An agent that applied the last change of a page has its current content,
\* in whatever order, and however often, the events came.
MirrorIsCurrent ==
    \A s \in Subscriber, p \in Path :
        Current(p) \in seen[s] => mirror[s][p] = Current(p)

\* A committed event reaches an agent whose stream stays open, unless the
\* stream passed it over or the LISTEN is gone.
LiveDelivery ==
    \A s \in Subscriber, g \in 1..MaxDrawn :
        LET settled == g \in seen[s] \cup missed[s] \/ stage[s] # "live" \/ listener = "dead"
        IN  (stage[s] = "live" /\ \E e \in Wanted(s) : e.gv = g /\ g > cursor[s]) ~> settled

\* sse.py: replaying from the database first prevents races between the query
\* and the live stream, so an agent is not left without an event that was
\* committed in order while it was connecting.
NothingLost == \A s \in Subscriber : \A e \in Wanted(s) : ~Lost(s, e)
=============================================================================
