--------------------------- MODULE EventStreamProofs ---------------------------
(***************************************************************************)
(* Theorems about EventStream for any number of agents, events and open    *)
(* transactions, and for queues of every size.                             *)
(***************************************************************************)
EXTENDS EventStream, FiniteSetTheorems, TLAPS

\* What a stream can carry.
Message == Committed \cup {Heartbeat}

Numbers == {e.gv : e \in Committed}

\* The numbers of the log were drawn, are closed, and no two are the same.
LogOK ==
    /\ drawn \in Nat /\ open \subseteq 1 .. drawn
    /\ log \in Seq(EventRec)
    /\ \A i \in 1 .. Len(log) : log[i].gv \in 1 .. drawn /\ log[i].gv \notin open
    /\ \A i, j \in 1 .. Len(log) : log[i].gv = log[j].gv => i = j

ServerOK ==
    /\ listener \in {"starting", "on", "dead"}
    /\ notif \in Seq(Committed)

SessionsType ==
    /\ stage \in [Subscriber -> {"off", "replay", "live"}]
    /\ replay \in [Subscriber -> SUBSET Committed]
    /\ queue \in [Subscriber -> Seq(Message)]
    /\ wire \in [Subscriber -> Seq(Message)]

SessionOK(s) ==
    /\ Len(queue[s]) <= QueueSize /\ Len(wire[s]) <= WireSize
    /\ stage[s] # "live" => queue[s] = <<>>
    /\ stage[s] # "replay" => replay[s] = {}
    /\ stage[s] = "off" => wire[s] = <<>>

SessionsOK == SessionsType /\ \A s \in Subscriber : SessionOK(s)

AgentsOK ==
    /\ cursor \in [Subscriber -> {0} \cup Numbers]
    /\ mirror \in [Subscriber -> [Path -> Nat]]
    /\ seen \in [Subscriber -> SUBSET Numbers]
    /\ missed \in [Subscriber -> SUBSET Nat]

StreamInv == LogOK /\ ServerOK /\ SessionsOK /\ AgentsOK

-----------------------------------------------------------------------------
(* Sequences and events.                                                    *)

\* A sequence over a smaller set.
LEMMA SeqIn == ASSUME NEW S, NEW T, S \subseteq T, NEW q \in Seq(S) PROVE q \in Seq(T)
OBVIOUS

\* A sequence with one more element.
LEMMA AppendIn ==
    ASSUME NEW S, NEW q \in Seq(S), NEW e \in S
    PROVE  /\ Append(q, e) \in Seq(S) /\ Len(Append(q, e)) = Len(q) + 1 /\ Len(q) \in Nat
           /\ \A i \in 1 .. Len(q) : Append(q, e)[i] = q[i]
           /\ Append(q, e)[Len(q) + 1] = e
           /\ InSeq(Append(q, e)) = InSeq(q) \cup {e}
BY DEF InSeq

\* A sequence without its head.
LEMMA TailIn ==
    ASSUME NEW S, NEW q \in Seq(S), q # <<>>
    PROVE  /\ Head(q) \in S /\ Head(q) = q[1] /\ Tail(q) \in Seq(S) /\ Len(Tail(q)) = Len(q) - 1 /\ Len(q) \in Nat \ {0}
           /\ \A i \in 1 .. Len(Tail(q)) : Tail(q)[i] = q[i + 1]
           /\ InSeq(q) = InSeq(Tail(q)) \cup {Head(q)}
<1>1. /\ Head(q) \in S /\ Head(q) = q[1] /\ Tail(q) \in Seq(S) /\ Len(Tail(q)) = Len(q) - 1 /\ Len(q) \in Nat \ {0}
      /\ \A i \in 1 .. Len(Tail(q)) : Tail(q)[i] = q[i + 1]
    OBVIOUS
<1>2. ASSUME NEW x \in InSeq(q) PROVE x \in InSeq(Tail(q)) \cup {Head(q)}
    <2>1. PICK i \in 1 .. Len(q) : x = q[i]
        BY <1>2 DEF InSeq
    <2>2. CASE i # 1
        <3>1. i - 1 \in DOMAIN Tail(q) /\ Tail(q)[i - 1] = x
            BY <1>1, <2>1, <2>2
        <3>2. QED
            BY <1>1, <3>1 DEF InSeq
    <2>3. QED
        BY <1>1, <2>1, <2>2
<1>3. InSeq(Tail(q)) \cup {Head(q)} \subseteq InSeq(q)
    BY <1>1 DEF InSeq
<1>4. QED
    BY <1>1, <1>2, <1>3

\* Committed events are told apart by their numbers, and none is a heartbeat.
LEMMA Distinct ==
    ASSUME LogOK
    PROVE  /\ \A e \in Committed : e \in EventRec /\ e.gv \in 1 .. drawn /\ e.gv \notin open /\ e # Heartbeat
           /\ \A e, f \in Committed : e.gv = f.gv => e = f
           /\ Heartbeat.gv = 0
           /\ Numbers \subseteq Nat \ {0}
<1>1. Heartbeat.gv = 0
    BY DEF Heartbeat
<1>2. DOMAIN log = 1 .. Len(log)
    BY DEF LogOK
<1>3. \A e \in Committed : e \in EventRec /\ e.gv \in 1 .. drawn /\ e.gv \notin open
    BY <1>2 DEF LogOK, Committed
<1>4. \A e, f \in Committed : e.gv = f.gv => e = f
    BY <1>2 DEF LogOK, Committed
<1>5. drawn \in Nat
    BY DEF LogOK
<1>6. QED
    BY <1>1, <1>3, <1>4, <1>5 DEF Numbers

\* The log is finite, hence so is what it holds.
LEMMA CommittedFinite == ASSUME LogOK PROVE IsFiniteSet(Committed)
<1> DEFINE L == 1 .. Len(log)
           f == [i \in L |-> log[i]]
<1>1. IsFiniteSet(L)
    BY FS_Interval DEF LogOK
<1>2. f \in Surjection(L, Committed)
    BY DEF Committed, LogOK, Surjection
<1>3. QED
    BY <1>1, <1>2, FS_Surjection

\* Something has the smallest number.
LEMMA Least ==
    ASSUME NEW S, S # {}, NEW f \in [S -> Nat]
    PROVE  \E x \in S : \A y \in S : f[x] <= f[y]
<1> DEFINE T == {f[x] : x \in S}
<1>1. T \subseteq Nat /\ T # {}
    OBVIOUS
<1>2. \E m \in T : \A n \in T : <<n, m>> \notin OpToRel(<, Nat)
    <2> HIDE DEF T
    <2>1. QED
        BY <1>1, WFMin, NatLessThanWellFounded, Zenon
<1>3. \E x \in S : \A y \in S : ~(f[y] < f[x])
    BY <1>2 DEF OpToRel
<1>4. QED
    BY <1>3

\* The place of the last event of a page.
PlacesOf(q, p) == {i \in DOMAIN q : q[i].label = p}

LastOf(q, p) == CHOOSE i \in PlacesOf(q, p) : \A j \in PlacesOf(q, p) : j <= i

\* A page with events has a last one.
LEMMA LastIndex ==
    ASSUME NEW q \in Seq(EventRec), NEW p, PlacesOf(q, p) # {}
    PROVE  LastOf(q, p) \in PlacesOf(q, p) /\ \A j \in PlacesOf(q, p) : j <= LastOf(q, p)
<1> DEFINE is == PlacesOf(q, p)
           f == [i \in is |-> Len(q) - i]
<1>1. is \subseteq 1 .. Len(q) /\ Len(q) \in Nat
    BY DEF PlacesOf
<1>2. f \in [is -> Nat] /\ \A y \in is : y \in Nat /\ f[y] = Len(q) - y
    BY <1>1
<1>3. PICK x \in is : \A y \in is : f[x] <= f[y]
    <2> HIDE DEF f
    <2>1. QED
        BY <1>2, Least
<1>4. \A y \in is : y <= x
    <2>1. \A y \in is : Len(q) - x <= Len(q) - y
        BY <1>2, <1>3
    <2>2. QED
        BY <1>2, <2>1
<1>5. QED
    BY <1>4 DEF LastOf

\* The current version of a page, by whether it has events.
LEMMA CurrentIs ==
    /\ \A p : PlacesOf(log, p) = {} => Current(p) = 0
    /\ \A p : PlacesOf(log, p) # {} => Current(p) = log[LastOf(log, p)].gv
BY DEF Current, PlacesOf, LastOf

\* It is the number of an event, or 0.
LEMMA CurrentType == ASSUME LogOK, NEW p PROVE Current(p) \in {0} \cup Numbers
<1>1. CASE PlacesOf(log, p) = {}
    BY <1>1, CurrentIs
<1>2. CASE PlacesOf(log, p) # {}
    <2>1. LastOf(log, p) \in PlacesOf(log, p)
        BY <1>2, LastIndex DEF LogOK
    <2>2. LastOf(log, p) \in DOMAIN log
        BY <2>1 DEF PlacesOf
    <2>3. Current(p) = log[LastOf(log, p)].gv
        BY <1>2, CurrentIs
    <2>4. QED
        BY <2>2, <2>3 DEF Numbers, Committed
<1>3. QED
    BY <1>1, <1>2

-----------------------------------------------------------------------------
(* Types.                                                                   *)

\* An empty log and agents that are not connected.
LEMMA InitStream == StreamInit => StreamInv
<1> SUFFICES ASSUME StreamInit PROVE StreamInv
    OBVIOUS
<1>1. LogOK
    BY DEF StreamInit, LogInit, LogOK
<1>2. ServerOK
    BY DEF StreamInit, ServerOK
<1>3. SessionsOK
    <2>1. QueueSize \in Nat /\ WireSize \in Nat /\ Len(<<>>) = 0
        BY StreamAssumption
    <2>2. SessionsType
        BY DEF StreamInit, SessionsType
    <2>3. QED
        BY <2>1, <2>2 DEF StreamInit, SessionsOK, SessionOK
<1>4. AgentsOK
    BY DEF StreamInit, AgentsOK
<1>5. QED
    BY <1>1, <1>2, <1>3, <1>4 DEF StreamInv

\* The log only grows.
LEMMA LogGrows ==
    ASSUME LogOK, UNCHANGED log \/ \E g, l : log' = Append(log, [gv |-> g, label |-> l]) /\ g \in Nat /\ l \in Label
    PROVE  Committed \subseteq Committed' /\ Numbers \subseteq Numbers' /\ Message \subseteq Message'
<1>1. Committed \subseteq Committed'
    <2>1. CASE UNCHANGED log
        BY <2>1 DEF Committed
    <2>2. ASSUME NEW g \in Nat, NEW l \in Label, log' = Append(log, [gv |-> g, label |-> l])
          PROVE  Committed \subseteq Committed'
        <3> DEFINE e == [gv |-> g, label |-> l]
        <3>1. e \in EventRec
            BY DEF EventRec
        <3> HIDE DEF e
        <3>2. InSeq(log') = InSeq(log) \cup {e}
            BY <2>2, <3>1, AppendIn DEF LogOK, e
        <3>3. QED
            BY <3>2 DEF InSeq, Committed
    <2>3. QED
        BY <2>1, <2>2
<1>2. QED
    BY <1>1 DEF Numbers, Message

\* What the streams and the agents hold stays of the right type while it stays.
LEMMA HeldStays ==
    ASSUME StreamInv, Committed \subseteq Committed', Numbers \subseteq Numbers', Message \subseteq Message'
    PROVE  /\ UNCHANGED sessionVars => SessionsOK'
           /\ UNCHANGED agentVars /\ missed' \in [Subscriber -> SUBSET Nat] => AgentsOK'
           /\ notif' = notif => notif' \in Seq(Committed')
<1>1. \A q \in Seq(Message) : q \in Seq(Message')
    BY SeqIn
<1>2. \A q \in Seq(Committed) : q \in Seq(Committed')
    BY SeqIn
<1>3. UNCHANGED sessionVars => SessionsOK'
    <2> SUFFICES ASSUME UNCHANGED sessionVars PROVE SessionsOK'
        OBVIOUS
    <2>1. SessionsType'
        <3>1. queue \in [Subscriber -> Seq(Message')] /\ wire \in [Subscriber -> Seq(Message')]
            BY <1>1 DEF StreamInv, SessionsOK, SessionsType
        <3>2. replay \in [Subscriber -> SUBSET Committed']
            BY DEF StreamInv, SessionsOK, SessionsType
        <3>3. QED
            BY <3>1, <3>2 DEF StreamInv, SessionsOK, SessionsType, sessionVars
    <2>2. QED
        BY <2>1 DEF StreamInv, SessionsOK, SessionOK, sessionVars
<1>4. UNCHANGED agentVars /\ missed' \in [Subscriber -> SUBSET Nat] => AgentsOK'
    BY DEF StreamInv, AgentsOK, agentVars
<1>5. QED
    BY <1>2, <1>3, <1>4 DEF StreamInv, ServerOK

\* A step that leaves the log alone.
LEMMA SameLog ==
    ASSUME UNCHANGED logVars
    PROVE  Committed' = Committed /\ Numbers' = Numbers /\ Message' = Message /\ (LogOK => LogOK')
BY DEF logVars, Committed, Numbers, Message, LogOK

\* The database's part of a step.
LEMMA LogSteps ==
    ASSUME LogOK, \/ Draw \/ (\E g \in open : Discard(g)) \/ \E g \in open, l \in Label : Publish(g, l)
    PROVE  LogOK' /\ Committed \subseteq Committed' /\ Numbers \subseteq Numbers' /\ Message \subseteq Message'
<1>1. CASE Draw
    <2>1. log' = log /\ drawn' = drawn + 1 /\ open' = open \cup {drawn + 1}
        BY <1>1 DEF Draw
    <2>2. drawn + 1 \in Nat /\ drawn < drawn + 1 /\ drawn \in Nat
        BY DEF LogOK
    <2>3. \A n \in 1 .. drawn : n \in 1 .. drawn + 1 /\ n # drawn + 1
        BY <2>2
    <2>4. open' \subseteq 1 .. drawn'
        BY <2>1, <2>2, <2>3 DEF LogOK
    <2>5. \A i \in 1 .. Len(log) : log[i].gv \in 1 .. drawn' /\ log[i].gv \notin open'
        BY <2>1, <2>3 DEF LogOK
    <2>6. LogOK'
        BY <2>1, <2>2, <2>4, <2>5 DEF LogOK
    <2>7. QED
        BY <2>1, <2>6, LogGrows
<1>2. ASSUME NEW g \in open, Discard(g)
      PROVE  LogOK' /\ Committed \subseteq Committed' /\ Numbers \subseteq Numbers' /\ Message \subseteq Message'
    <2>1. LogOK' /\ log' = log
        BY <1>2 DEF LogOK, Discard
    <2>2. QED
        BY <2>1, LogGrows
<1>3. ASSUME NEW g \in open, NEW l \in Label, Publish(g, l)
      PROVE  LogOK' /\ Committed \subseteq Committed' /\ Numbers \subseteq Numbers' /\ Message \subseteq Message'
    <2> DEFINE e == [gv |-> g, label |-> l]
    <2>1. g \in Nat /\ g \in 1 .. drawn
        BY DEF LogOK
    <2>2. e \in EventRec /\ e.gv = g
        BY <2>1 DEF EventRec
    <2>3. log' = Append(log, e) /\ open' = open \ {g} /\ drawn' = drawn
        BY <1>3 DEF Publish
    <2>4. Committed \subseteq Committed' /\ Numbers \subseteq Numbers' /\ Message \subseteq Message'
        BY <2>1, <2>3, LogGrows
    <2> HIDE DEF e
    <2>5. /\ log' \in Seq(EventRec) /\ Len(log') = Len(log) + 1 /\ Len(log) \in Nat /\ log'[Len(log) + 1] = e
          /\ \A i \in 1 .. Len(log) : log'[i] = log[i]
        BY <2>2, <2>3, AppendIn DEF LogOK
    <2>6. \A i \in 1 .. Len(log') : i \in 1 .. Len(log) \/ i = Len(log) + 1
        BY <2>5
    <2>7. \A i \in 1 .. Len(log') : log'[i].gv \in 1 .. drawn /\ log'[i].gv \notin open'
        BY <2>1, <2>2, <2>3, <2>5, <2>6 DEF LogOK
    <2>8. \A i \in 1 .. Len(log) : log[i].gv # g
        BY DEF LogOK
    <2>9. \A i, j \in 1 .. Len(log') : log'[i].gv = log'[j].gv => i = j
        BY <2>2, <2>5, <2>6, <2>8 DEF LogOK
    <2>10. LogOK'
        BY <2>3, <2>5, <2>7, <2>9 DEF LogOK
    <2>11. QED
        BY <2>4, <2>10
<1>4. QED
    BY <1>1, <1>2, <1>3

\* A stream the step leaves alone.
LEMMA SameSession ==
    ASSUME NEW s, SessionOK(s), stage'[s] = stage[s], replay'[s] = replay[s],
           queue'[s] = queue[s], wire'[s] = wire[s]
    PROVE  SessionOK(s)'
BY DEF SessionOK

\* A stream that ends.
LEMMA EndedSession ==
    ASSUME NEW s, stage'[s] = "off", replay'[s] = {}, queue'[s] = <<>>, wire'[s] = <<>>
    PROVE  SessionOK(s)'
<1>1. Len(<<>>) = 0 /\ QueueSize \in Nat /\ WireSize \in Nat
    BY StreamAssumption
<1>2. QED
    BY <1>1 DEF SessionOK

\* Passing over more numbers keeps the type of missed.
LEMMA Misses ==
    ASSUME StreamInv, NEW s \in Subscriber, NEW G \in SUBSET Nat
    PROVE  [missed EXCEPT ![s] = @ \cup G] \in [Subscriber -> SUBSET Nat]
BY DEF StreamInv, AgentsOK

\* The master's part of a step.
LEMMA ServerSteps ==
    ASSUME StreamInv,
           \/ StreamDraw
           \/ StreamDiscard
           \/ \E g \in open, l \in Label : Commit(g, l)
           \/ Attach
           \/ ListenerLost
           \/ Fanout
           \/ Beat
           \/ Restart
    PROVE  StreamInv'
<1>1. CASE StreamDraw \/ StreamDiscard
    <2>1. LogOK' /\ Committed \subseteq Committed' /\ Numbers \subseteq Numbers' /\ Message \subseteq Message'
        BY <1>1, LogSteps DEF StreamInv, StreamDraw, StreamDiscard
    <2>2. UNCHANGED <<listener, notif, sessionVars, agentVars, missed>>
        BY <1>1 DEF StreamDraw, StreamDiscard
    <2>3. SessionsOK' /\ AgentsOK' /\ notif' \in Seq(Committed')
        BY <2>1, <2>2, HeldStays DEF StreamInv, AgentsOK
    <2>4. QED
        BY <2>1, <2>2, <2>3 DEF StreamInv, ServerOK
<1>2. ASSUME NEW g \in open, NEW l \in Label, Commit(g, l) PROVE StreamInv'
    <2> DEFINE e == [gv |-> g, label |-> l]
    <2>1. LogOK' /\ Committed \subseteq Committed' /\ Numbers \subseteq Numbers' /\ Message \subseteq Message'
        BY <1>2, LogSteps DEF StreamInv, Commit
    <2>2. g \in Nat
        BY DEF StreamInv, LogOK
    <2>3. missed' \in [Subscriber -> SUBSET Nat]
        BY <1>2, <2>2 DEF Commit, StreamInv, AgentsOK
    <2>4. SessionsOK' /\ AgentsOK'
        BY <1>2, <2>1, <2>3, HeldStays DEF Commit
    <2>5. e \in EventRec /\ log \in Seq(EventRec) /\ log' = Append(log, e)
        BY <1>2, <2>2 DEF EventRec, Commit, Publish, StreamInv, LogOK
    <2>6. notif' = IF listener = "on" THEN Append(notif, e) ELSE notif
        BY <1>2 DEF Commit
    <2> HIDE DEF e
    <2>7. e \in Committed'
        <3>1. e \in InSeq(log')
            BY <2>5, AppendIn
        <3>2. QED
            BY <3>1 DEF InSeq, Committed
    <2>8. notif \in Seq(Committed')
        BY <2>1, SeqIn DEF StreamInv, ServerOK
    <2>9. notif' \in Seq(Committed')
        BY <2>6, <2>7, <2>8, AppendIn
    <2>10. QED
        BY <1>2, <2>1, <2>4, <2>9 DEF StreamInv, ServerOK, Commit
<1>3. CASE Attach \/ ListenerLost
    <2>1. UNCHANGED <<logVars, notif, sessionVars, agentVars, missed>> /\ listener' \in {"on", "dead"}
        BY <1>3 DEF Attach, ListenerLost
    <2>2. UNCHANGED logVars
        BY <2>1
    <2>3. Committed' = Committed /\ Numbers' = Numbers /\ Message' = Message /\ LogOK'
        BY <2>2, SameLog DEF StreamInv
    <2>4. SessionsOK' /\ AgentsOK' /\ notif' \in Seq(Committed')
        BY <2>1, <2>3, HeldStays DEF StreamInv, AgentsOK
    <2>5. QED
        BY <2>1, <2>3, <2>4 DEF StreamInv, ServerOK
<1>4. CASE Fanout
    <2>1. UNCHANGED logVars /\ UNCHANGED <<listener, stage, replay, wire, agentVars>>
        BY <1>4 DEF Fanout
    <2>2. Committed' = Committed /\ Numbers' = Numbers /\ Message' = Message /\ LogOK'
        BY <2>1, SameLog DEF StreamInv
    <2> DEFINE e == Head(notif)
    <2>3. e \in Committed /\ Tail(notif) \in Seq(Committed) /\ e \in Message /\ e.gv \in Nat
        <3>1. e \in Committed /\ Tail(notif) \in Seq(Committed)
            BY <1>4, TailIn DEF Fanout, StreamInv, ServerOK
        <3>2. e.gv \in 1 .. drawn /\ drawn \in Nat
            BY <3>1, Distinct DEF StreamInv, LogOK
        <3>3. QED
            BY <3>1, <3>2 DEF Message
    <2> HIDE DEF e
    <2>4. missed' \in [Subscriber -> SUBSET Nat]
        BY <1>4, <2>3 DEF Fanout, StreamInv, AgentsOK, e
    <2>5. queue' = [s \in Subscriber |-> IF Receives(s, e) /\ Len(queue[s]) < QueueSize
                                        THEN Append(queue[s], e) ELSE queue[s]]
        BY <1>4 DEF Fanout, e
    <2>6. SessionsOK'
        <3>1. SessionsType'
            <4>1. queue' \in [Subscriber -> Seq(Message)]
                BY <2>3, <2>5 DEF StreamInv, SessionsOK, SessionsType
            <4>2. QED
                BY <2>1, <2>2, <4>1 DEF StreamInv, SessionsOK, SessionsType
        <3>2. ASSUME NEW s \in Subscriber PROVE SessionOK(s)'
            <4>1. queue[s] \in Seq(Message) /\ SessionOK(s)
                BY DEF StreamInv, SessionsOK, SessionsType
            <4>2. CASE Receives(s, e) /\ Len(queue[s]) < QueueSize
                <5>1. queue'[s] = Append(queue[s], e) /\ Len(queue'[s]) = Len(queue[s]) + 1 /\ Len(queue[s]) \in Nat
                    BY <2>3, <2>5, <4>1, <4>2
                <5>2. stage[s] = "live" /\ QueueSize \in Nat
                    BY <4>2, StreamAssumption DEF Receives
                <5>3. QED
                    BY <2>1, <4>1, <4>2, <5>1, <5>2 DEF SessionOK
            <4>3. CASE ~(Receives(s, e) /\ Len(queue[s]) < QueueSize)
                <5>1. queue'[s] = queue[s]
                    BY <2>5, <4>3
                <5>2. QED
                    BY <2>1, <4>1, <5>1, SameSession
            <4>4. QED
                BY <4>2, <4>3
        <3>3. QED
            BY <3>1, <3>2 DEF SessionsOK
    <2>7. AgentsOK'
        BY <2>1, <2>2, <2>4 DEF StreamInv, AgentsOK, agentVars
    <2>8. notif' \in Seq(Committed')
        BY <1>4, <2>2, <2>3 DEF Fanout
    <2>9. QED
        BY <2>1, <2>2, <2>6, <2>7, <2>8 DEF StreamInv, ServerOK
<1>5. CASE Beat
    <2>1. UNCHANGED logVars /\ UNCHANGED <<listener, notif, stage, replay, wire, agentVars, missed>>
        BY <1>5 DEF Beat
    <2>2. Committed' = Committed /\ Numbers' = Numbers /\ Message' = Message /\ LogOK'
        BY <2>1, SameLog DEF StreamInv
    <2>3. Heartbeat \in Message
        BY DEF Message
    <2>4. queue' = [s \in Subscriber |-> IF stage[s] = "live" /\ Len(queue[s]) < QueueSize
                                        THEN Append(queue[s], Heartbeat) ELSE queue[s]]
        BY <1>5 DEF Beat
    <2>5. SessionsType'
        <3>1. queue' \in [Subscriber -> Seq(Message)]
            BY <2>3, <2>4 DEF StreamInv, SessionsOK, SessionsType
        <3>2. QED
            BY <2>1, <2>2, <3>1 DEF StreamInv, SessionsOK, SessionsType
    <2>6. ASSUME NEW s \in Subscriber PROVE SessionOK(s)'
        <3>1. queue[s] \in Seq(Message) /\ SessionOK(s)
            BY DEF StreamInv, SessionsOK, SessionsType
        <3>2. CASE stage[s] = "live" /\ Len(queue[s]) < QueueSize
            <4>1. Len(queue'[s]) = Len(queue[s]) + 1 /\ Len(queue[s]) \in Nat /\ QueueSize \in Nat
                BY <2>3, <2>4, <3>1, <3>2, StreamAssumption
            <4>2. QED
                BY <2>1, <3>1, <3>2, <4>1 DEF SessionOK
        <3>3. CASE ~(stage[s] = "live" /\ Len(queue[s]) < QueueSize)
            <4>1. queue'[s] = queue[s]
                BY <2>4, <3>3
            <4>2. QED
                BY <2>1, <3>1, <4>1, SameSession
        <3>4. QED
            BY <3>2, <3>3
    <2>7. AgentsOK'
        BY <2>1, <2>2 DEF StreamInv, AgentsOK, agentVars
    <2>8. QED
        BY <2>1, <2>2, <2>5, <2>6, <2>7 DEF StreamInv, ServerOK, SessionsOK
<1>6. CASE Restart
    <2>1. UNCHANGED logVars /\ UNCHANGED <<agentVars, missed>>
        BY <1>6 DEF Restart
    <2>2. Committed' = Committed /\ Numbers' = Numbers /\ Message' = Message /\ LogOK'
        BY <2>1, SameLog DEF StreamInv
    <2>3. SessionsType' /\ ServerOK'
        BY <1>6 DEF Restart, SessionsType, ServerOK
    <2>4. ASSUME NEW s \in Subscriber PROVE SessionOK(s)'
        <3>1. stage'[s] = "off" /\ replay'[s] = {} /\ queue'[s] = <<>> /\ wire'[s] = <<>>
            BY <1>6 DEF Restart
        <3>2. QED
            BY <3>1, EndedSession
    <2>5. AgentsOK'
        BY <2>1, <2>2 DEF StreamInv, AgentsOK, agentVars
    <2>6. QED
        BY <2>2, <2>3, <2>4, <2>5 DEF StreamInv, SessionsOK
<1>7. QED
    BY <1>1, <1>2, <1>3, <1>4, <1>5, <1>6

\* The row a catch-up sends next has the least number of those left.
LEMMA NextRowIs ==
    ASSUME LogOK, NEW R \in SUBSET Committed, R # {}
    PROVE  NextRow(R) \in R /\ \A f \in R : NextRow(R).gv <= f.gv
<1> DEFINE g == [e \in R |-> e.gv]
<1>1. \A e \in R : e.gv \in Nat
    <2>1. \A e \in R : e.gv \in 1 .. drawn /\ drawn \in Nat
        BY Distinct DEF LogOK
    <2>2. QED
        BY <2>1
<1>2. g \in [R -> Nat] /\ \A e \in R : g[e] = e.gv
    BY <1>1
<1>3. PICK x \in R : \A y \in R : g[x] <= g[y]
    <2> HIDE DEF g
    <2>1. QED
        BY <1>2, Least
<1>4. \A y \in R : x.gv <= y.gv
    BY <1>2, <1>3
<1>5. QED
    BY <1>4 DEF NextRow

\* A step of one stream, and of its agent.
LEMMA OneSession ==
    ASSUME StreamInv, NEW s \in Subscriber,
           UNCHANGED <<logVars, listener, notif>>,
           SessionsType', SessionOK(s)',
           \A t \in Subscriber \ {s} :
               /\ stage'[t] = stage[t] /\ replay'[t] = replay[t]
               /\ queue'[t] = queue[t] /\ wire'[t] = wire[t],
           AgentsOK'
    PROVE  StreamInv'
<1>1. UNCHANGED logVars /\ UNCHANGED <<listener, notif>>
    OBVIOUS
<1>2. Committed' = Committed /\ LogOK'
    BY <1>1, SameLog DEF StreamInv
<1>3. ServerOK'
    BY <1>1, <1>2 DEF StreamInv, ServerOK
<1>4. ASSUME NEW t \in Subscriber \ {s} PROVE SessionOK(t)'
    BY SameSession DEF StreamInv, SessionsOK
<1>5. SessionsOK'
    BY <1>4 DEF SessionsOK
<1>6. QED
    BY <1>2, <1>3, <1>5 DEF StreamInv

\* What a broken stream leaves behind.
LEMMA Broken ==
    ASSUME StreamInv, NEW s \in Subscriber,
           UNCHANGED <<logVars, listener, notif>>,
           stage' = [stage EXCEPT ![s] = "off"], replay' = [replay EXCEPT ![s] = {}],
           queue' = [queue EXCEPT ![s] = <<>>], wire' = [wire EXCEPT ![s] = <<>>],
           AgentsOK'
    PROVE  StreamInv'
<1>1. UNCHANGED logVars
    OBVIOUS
<1>2. Committed' = Committed /\ Message' = Message
    BY <1>1, SameLog
<1>3. /\ stage \in [Subscriber -> {"off", "replay", "live"}] /\ replay \in [Subscriber -> SUBSET Committed]
      /\ queue \in [Subscriber -> Seq(Message)] /\ wire \in [Subscriber -> Seq(Message)]
    BY DEF StreamInv, SessionsOK, SessionsType
<1>4. SessionsType'
    BY <1>2, <1>3 DEF SessionsType
<1>5. stage'[s] = "off" /\ replay'[s] = {} /\ queue'[s] = <<>> /\ wire'[s] = <<>>
    BY <1>3
<1>6. SessionOK(s)'
    BY <1>5, EndedSession
<1>7. QED
    BY <1>3, <1>4, <1>6, OneSession

\* A step of one stream.
LEMMA SessionSteps == ASSUME StreamInv, NEW s \in Subscriber, Session(s) PROVE StreamInv'
<1> USE DEF StreamInv
<1>1. /\ stage \in [Subscriber -> {"off", "replay", "live"}] /\ replay \in [Subscriber -> SUBSET Committed]
      /\ queue \in [Subscriber -> Seq(Message)] /\ wire \in [Subscriber -> Seq(Message)]
    BY DEF SessionsOK, SessionsType
<1>2. /\ Len(queue[s]) <= QueueSize /\ Len(wire[s]) <= WireSize
      /\ stage[s] # "live" => queue[s] = <<>>
      /\ stage[s] # "replay" => replay[s] = {}
      /\ stage[s] = "off" => wire[s] = <<>>
    BY DEF SessionsOK, SessionOK
<1>3. QueueSize \in Nat /\ WireSize \in Nat
    BY StreamAssumption
<1>4. /\ cursor \in [Subscriber -> {0} \cup Numbers] /\ mirror \in [Subscriber -> [Path -> Nat]]
      /\ seen \in [Subscriber -> SUBSET Numbers] /\ missed \in [Subscriber -> SUBSET Nat]
    BY DEF AgentsOK
<1>5. \A e \in Message : e.gv \in Nat /\ (e # Heartbeat => e \in Committed /\ e.gv \in Numbers)
    <2>1. drawn \in Nat
        BY DEF LogOK
    <2>2. QED
        BY <2>1, Distinct DEF Message, Numbers
<1>6. \A p : Current(p) \in Nat
    BY CurrentType, Distinct
<1>7. UNCHANGED logVars => Committed' = Committed /\ Numbers' = Numbers /\ Message' = Message
    BY SameLog
<1> USE DEF SessionsType
<1>8. CASE Connect(s)
    <2>1. /\ UNCHANGED logVars /\ UNCHANGED <<listener, notif, queue, wire, agentVars>>
          /\ stage[s] = "off" /\ stage' = [stage EXCEPT ![s] = "replay"]
        BY <1>8 DEF Connect
    <2>2. PICK R : R \subseteq Committed /\ replay' = [replay EXCEPT ![s] = R]
        BY <1>8 DEF Connect, EventsSince
    <2>3. PICK C : C \subseteq Committed /\ missed' = [missed EXCEPT ![s] = @ \cup {e.gv : e \in C}]
        BY <1>8 DEF Connect
    <2>4. {e.gv : e \in C} \subseteq Nat
        BY <2>3, <1>5 DEF Message
    <2>5. missed' \in [Subscriber -> SUBSET Nat]
        BY <2>3, <2>4, Misses
    <2>6. SessionsType'
        BY <1>1, <1>7, <2>1, <2>2
    <2>7. SessionOK(s)'
        BY <1>1, <1>2, <2>1 DEF SessionOK
    <2>8. AgentsOK'
        BY <1>4, <1>7, <2>1, <2>5 DEF AgentsOK, agentVars
    <2>9. QED
        BY <1>1, <2>1, <2>2, <2>6, <2>7, <2>8, OneSession
<1>9. CASE YieldReplay(s)
    <2> DEFINE e == NextRow(replay[s])
    <2>1. /\ UNCHANGED logVars /\ UNCHANGED <<listener, notif, stage, queue, agentVars, missed>>
          /\ replay' = [replay EXCEPT ![s] = @ \ {NextRow(@)}] /\ wire' = [wire EXCEPT ![s] = Append(@, e)]
          /\ replay[s] # {} /\ Len(wire[s]) < WireSize
        BY <1>9 DEF YieldReplay
    <2>2. e \in replay[s] /\ e \in Message
        BY <1>1, <2>1, NextRowIs DEF Message
    <2>3. replay'[s] \subseteq replay[s] /\ replay' = [replay EXCEPT ![s] = replay'[s]]
        BY <1>1, <2>1
    <2> HIDE DEF e
    <2>4. /\ Append(wire[s], e) \in Seq(Message) /\ Len(Append(wire[s], e)) = Len(wire[s]) + 1 /\ Len(wire[s]) \in Nat
        BY <1>1, <2>2, AppendIn
    <2>5. SessionsType'
        BY <1>1, <1>7, <2>1, <2>3, <2>4
    <2>6. wire'[s] = Append(wire[s], e)
        BY <1>1, <2>1
    <2>7. SessionOK(s)'
        BY <1>2, <1>3, <2>1, <2>3, <2>4, <2>6 DEF SessionOK
    <2>8. AgentsOK'
        BY <1>4, <1>7, <2>1 DEF AgentsOK, agentVars
    <2>9. QED
        BY <1>1, <2>1, <2>3, <2>5, <2>7, <2>8, OneSession
<1>10. CASE YieldLive(s)
    <2> DEFINE e == Head(queue[s])
    <2>1. /\ UNCHANGED logVars /\ UNCHANGED <<listener, notif, stage, replay, agentVars, missed>>
          /\ queue' = [queue EXCEPT ![s] = Tail(@)] /\ wire' = [wire EXCEPT ![s] = Append(@, e)]
          /\ queue[s] # <<>> /\ Len(wire[s]) < WireSize
        BY <1>10 DEF YieldLive
    <2>2. e \in Message /\ Tail(queue[s]) \in Seq(Message) /\ Len(Tail(queue[s])) = Len(queue[s]) - 1 /\ Len(queue[s]) \in Nat
        BY <1>1, <2>1, TailIn
    <2> HIDE DEF e
    <2>3. /\ Append(wire[s], e) \in Seq(Message) /\ Len(Append(wire[s], e)) = Len(wire[s]) + 1 /\ Len(wire[s]) \in Nat
        BY <1>1, <2>2, AppendIn
    <2>4. SessionsType'
        BY <1>1, <1>7, <2>1, <2>2, <2>3
    <2>5. wire'[s] = Append(wire[s], e) /\ queue'[s] = Tail(queue[s])
        BY <1>1, <2>1
    <2>6. SessionOK(s)'
        BY <1>2, <1>3, <2>1, <2>2, <2>3, <2>5 DEF SessionOK
    <2>7. AgentsOK'
        BY <1>4, <1>7, <2>1 DEF AgentsOK, agentVars
    <2>8. QED
        BY <1>1, <2>1, <2>4, <2>6, <2>7, OneSession
<1>11. CASE Register(s)
    <2>1. /\ UNCHANGED logVars /\ UNCHANGED <<listener, notif, replay, queue, wire, agentVars, missed>>
          /\ stage' = [stage EXCEPT ![s] = "live"] /\ stage[s] = "replay" /\ replay[s] = {}
        BY <1>11 DEF Register
    <2>2. SessionsType'
        BY <1>1, <1>7, <2>1
    <2>3. SessionOK(s)'
        BY <1>1, <1>2, <2>1 DEF SessionOK
    <2>4. AgentsOK'
        BY <1>4, <1>7, <2>1 DEF AgentsOK, agentVars
    <2>5. QED
        BY <1>1, <2>1, <2>2, <2>3, <2>4, OneSession
<1>12. CASE Disconnect(s)
    <2>1. UNCHANGED logVars /\ UNCHANGED <<listener, notif, agentVars, missed>>
        BY <1>12 DEF Disconnect
    <2>2. AgentsOK'
        BY <1>4, <1>7, <2>1 DEF AgentsOK, agentVars
    <2>3. QED
        BY <1>12, <2>2, Broken DEF Disconnect
<1>13. CASE Apply(s)
    <2> DEFINE e == Head(wire[s])
    <2>1. /\ UNCHANGED logVars /\ UNCHANGED <<listener, notif, stage, replay, queue, missed>>
          /\ wire' = [wire EXCEPT ![s] = Tail(@)] /\ wire[s] # <<>>
          /\ mirror' = IF e.label \in Path THEN [mirror EXCEPT ![s][e.label] = Content(e)] ELSE mirror
          /\ cursor' = [cursor EXCEPT ![s] = Advanced(@, e.gv)]
          /\ seen' = [seen EXCEPT ![s] = IF e = Heartbeat THEN @ ELSE @ \cup {e.gv}]
        BY <1>13 DEF Apply
    <2>2. e \in Message /\ Tail(wire[s]) \in Seq(Message) /\ Len(Tail(wire[s])) = Len(wire[s]) - 1 /\ Len(wire[s]) \in Nat
        BY <1>1, <2>1, TailIn
    <2>3. Content(e) \in Nat
        BY <1>6 DEF Content
    <2> HIDE DEF e
    <2>4. mirror' \in [Subscriber -> [Path -> Nat]]
        <3>1. [mirror[s] EXCEPT ![e.label] = Content(e)] \in [Path -> Nat]
            BY <1>4, <2>3
        <3>2. QED
            BY <1>4, <2>1, <3>1
    <2>5. Heartbeat.gv = 0
        BY Distinct
    <2>6. cursor' \in [Subscriber -> {0} \cup Numbers] /\ seen' \in [Subscriber -> SUBSET Numbers]
        BY <1>4, <1>5, <2>1, <2>2, <2>5 DEF Advanced
    <2>7. AgentsOK'
        BY <1>4, <1>7, <2>1, <2>4, <2>6 DEF AgentsOK
    <2>8. SessionsType'
        BY <1>1, <1>7, <2>1, <2>2
    <2>9. wire'[s] = Tail(wire[s])
        BY <1>1, <2>1
    <2>10. SessionOK(s)'
        BY <1>2, <1>3, <2>1, <2>2, <2>9 DEF SessionOK
    <2>11. QED
        BY <1>1, <2>1, <2>7, <2>8, <2>10, OneSession
<1>14. CASE ReadFails(s)
    <2> DEFINE e == Head(wire[s])
    <2>1. /\ UNCHANGED logVars /\ UNCHANGED <<listener, notif, stage, replay, queue, agentVars>>
          /\ wire' = [wire EXCEPT ![s] = Tail(@)] /\ wire[s] # <<>>
          /\ missed' = [missed EXCEPT ![s] = @ \cup {e.gv}]
        BY <1>14 DEF ReadFails
    <2>2. e \in Message /\ Tail(wire[s]) \in Seq(Message) /\ Len(Tail(wire[s])) = Len(wire[s]) - 1 /\ Len(wire[s]) \in Nat
        BY <1>1, <2>1, TailIn
    <2> HIDE DEF e
    <2>3. missed' \in [Subscriber -> SUBSET Nat]
        <3>1. {e.gv} \in SUBSET Nat
            BY <1>5, <2>2
        <3>2. QED
            BY <2>1, <3>1, Misses
    <2>4. AgentsOK'
        BY <1>4, <1>7, <2>1, <2>3 DEF AgentsOK, agentVars
    <2>5. SessionsType'
        BY <1>1, <1>7, <2>1, <2>2
    <2>6. wire'[s] = Tail(wire[s])
        BY <1>1, <2>1
    <2>7. SessionOK(s)'
        BY <1>2, <1>3, <2>1, <2>2, <2>6 DEF SessionOK
    <2>8. QED
        BY <1>1, <2>1, <2>4, <2>5, <2>7, OneSession
<1>15. CASE ApplyAndCrash(s)
    <2> DEFINE e == Head(wire[s])
    <2>1. /\ UNCHANGED logVars /\ UNCHANGED <<listener, notif, cursor, seen, missed>>
          /\ mirror' = [mirror EXCEPT ![s][e.label] = Content(e)]
        BY <1>15 DEF ApplyAndCrash
    <2>2. Content(e) \in Nat
        BY <1>6 DEF Content
    <2> HIDE DEF e
    <2>3. mirror' \in [Subscriber -> [Path -> Nat]]
        <3>1. [mirror[s] EXCEPT ![e.label] = Content(e)] \in [Path -> Nat]
            BY <1>4, <2>2
        <3>2. QED
            BY <1>4, <2>1, <3>1
    <2>4. AgentsOK'
        BY <1>4, <1>7, <2>1, <2>3 DEF AgentsOK
    <2>5. QED
        BY <1>15, <2>4, Broken DEF ApplyAndCrash
<1>16. QED
    BY <1>8, <1>9, <1>10, <1>11, <1>12, <1>13, <1>14, <1>15 DEF Session, Yield, Receive

\* Every step keeps StreamInv.
LEMMA NextStream == StreamInv /\ [StreamNext]_streamVars => StreamInv'
<1> SUFFICES ASSUME StreamInv, [StreamNext]_streamVars PROVE StreamInv'
    OBVIOUS
<1>1. CASE UNCHANGED streamVars
    <2>1. /\ UNCHANGED logVars /\ UNCHANGED <<listener, notif>>
          /\ UNCHANGED sessionVars /\ UNCHANGED <<agentVars, missed>>
        BY <1>1 DEF streamVars
    <2>2. Committed' = Committed /\ Numbers' = Numbers /\ Message' = Message /\ LogOK'
        BY <2>1, SameLog DEF StreamInv
    <2>3. QED
        BY <2>1, <2>2, HeldStays DEF StreamInv, ServerOK, AgentsOK
<1>2. ASSUME NEW s \in Subscriber, Session(s) PROVE StreamInv'
    BY <1>2, SessionSteps
<1>3. QED
    BY <1>1, <1>2, ServerSteps DEF StreamNext

\* The inductive invariant the other theorems start from: the numbers of events
\* are distinct and were drawn, what is in transit was committed, queues are within
\* their sizes, and a stage of a stream holds only what belongs to it.
THEOREM StreamIsSound == StreamSpec => []StreamInv
<1>1. QED
    BY InitStream, NextStream, PTL DEF StreamSpec

\* The types of the module, of which StreamInv says more: what a stream carries
\* was committed, and what a cursor names was too.
LEMMA InvImpliesTypes == StreamInv => StreamTypeOK
<1> SUFFICES ASSUME StreamInv PROVE StreamTypeOK
    OBVIOUS
<1>1. Committed \subseteq EventRec /\ Numbers \subseteq Nat
    BY Distinct DEF StreamInv
<1>2. Message \subseteq EventRec \cup {Heartbeat}
    BY <1>1 DEF Message
<1>3. notif \in Seq(EventRec)
    BY <1>1, SeqIn DEF StreamInv, ServerOK
<1>4. ASSUME NEW s \in Subscriber
      PROVE  /\ queue[s] \in Seq(EventRec \cup {Heartbeat}) /\ Len(queue[s]) <= QueueSize
             /\ wire[s] \in Seq(EventRec \cup {Heartbeat}) /\ Len(wire[s]) <= WireSize
             /\ stage[s] # "live" => queue[s] = <<>>
             /\ stage[s] # "replay" => replay[s] = {}
    <2>1. queue[s] \in Seq(Message) /\ wire[s] \in Seq(Message)
        BY DEF StreamInv, SessionsOK, SessionsType
    <2>2. queue[s] \in Seq(EventRec \cup {Heartbeat}) /\ wire[s] \in Seq(EventRec \cup {Heartbeat})
        BY <1>2, <2>1, SeqIn
    <2>3. QED
        BY <2>2 DEF StreamInv, SessionsOK, SessionOK
<1>5. /\ stage \in [Subscriber -> {"off", "replay", "live"}]
      /\ replay \in [Subscriber -> SUBSET EventRec]
    BY <1>1 DEF StreamInv, SessionsOK, SessionsType
<1>6. /\ cursor \in [Subscriber -> Nat] /\ mirror \in [Subscriber -> [Path -> Nat]]
      /\ seen \in [Subscriber -> SUBSET Nat] /\ missed \in [Subscriber -> SUBSET Nat]
    <2>1. {0} \cup Numbers \subseteq Nat
        BY <1>1
    <2>2. SUBSET Numbers \subseteq SUBSET Nat
        BY <1>1
    <2>3. QED
        BY <2>1, <2>2 DEF StreamInv, AgentsOK
<1>7. QED
    BY <1>3, <1>4, <1>5, <1>6 DEF StreamTypeOK, StreamInv, LogOK, ServerOK

\* No step leaves the types of the stream's variables: queues and wires stay
\* within their sizes, and a stream holds rows or queued events only in the
\* stage that allows it.
THEOREM StreamTypeCorrect == StreamSpec => []StreamTypeOK
<1>1. QED
    BY StreamIsSound, InvImpliesTypes, PTL

-----------------------------------------------------------------------------
(* MirrorIsCurrent.                                                         *)

\* What a commit does to the last event of a page.
LEMMA CurrentSteps ==
    ASSUME LogOK, NEW g \in Nat, NEW l, [gv |-> g, label |-> l] \in EventRec,
           log' = Append(log, [gv |-> g, label |-> l]), NEW p
    PROVE  Current(p)' = IF p = l THEN g ELSE Current(p)
<1> DEFINE e == [gv |-> g, label |-> l]
           n == Len(log)
<1>1. e \in EventRec /\ e.gv = g /\ e.label = l
    OBVIOUS
<1>2. log' = Append(log, e)
    OBVIOUS
<1> HIDE DEF e
<1>3. log \in Seq(EventRec)
    BY DEF LogOK
<1>4. /\ log' \in Seq(EventRec) /\ Len(log') = n + 1 /\ n \in Nat /\ log'[n + 1] = e
      /\ \A i \in 1 .. n : log'[i] = log[i]
    BY <1>1, <1>2, <1>3, AppendIn
<1>5. DOMAIN log = 1 .. n /\ DOMAIN log' = 1 .. n + 1
    BY <1>3, <1>4
<1>6. /\ PlacesOf(log', p) = {} => Current(p)' = 0
      /\ PlacesOf(log', p) # {} => Current(p)' = log'[LastOf(log', p)].gv
    BY DEF Current, PlacesOf, LastOf
<1>7. CASE p = l
    <2>1. n + 1 \in PlacesOf(log', p)
        BY <1>1, <1>4, <1>5, <1>7 DEF PlacesOf
    <2>2. LastOf(log', p) \in PlacesOf(log', p) /\ n + 1 <= LastOf(log', p)
        BY <1>4, <2>1, LastIndex
    <2>3. LastOf(log', p) \in 1 .. n + 1
        BY <1>5, <2>2 DEF PlacesOf
    <2>4. LastOf(log', p) = n + 1
        BY <1>4, <2>2, <2>3
    <2>5. QED
        BY <1>1, <1>4, <1>6, <1>7, <2>1, <2>4
<1>8. CASE p # l
    <2>1. PlacesOf(log', p) = PlacesOf(log, p)
        BY <1>1, <1>4, <1>5, <1>8 DEF PlacesOf
    <2>2. LastOf(log', p) = LastOf(log, p)
        BY <2>1 DEF LastOf
    <2>3. CASE PlacesOf(log, p) = {}
        BY <1>6, <1>8, <2>1, <2>3, CurrentIs
    <2>4. CASE PlacesOf(log, p) # {}
        <3>1. LastOf(log, p) \in 1 .. n
            BY <1>3, <1>5, <2>4, LastIndex DEF PlacesOf
        <3>2. QED
            BY <1>4, <1>6, <1>8, <2>1, <2>2, <2>4, <3>1, CurrentIs
    <2>5. QED
        BY <2>3, <2>4
<1>9. QED
    BY <1>7, <1>8

\* The number of the last event of a page belongs to no other label.
LEMMA CurrentOwn ==
    ASSUME LogOK, NEW e \in Committed, NEW p, Current(p) = e.gv
    PROVE  e.label = p
<1>1. e.gv \in Nat \ {0}
    BY Distinct DEF Numbers
<1>2. PlacesOf(log, p) # {} /\ Current(p) = log[LastOf(log, p)].gv
    BY <1>1, CurrentIs
<1>3. LastOf(log, p) \in DOMAIN log /\ log[LastOf(log, p)].label = p
    BY <1>2, LastIndex DEF PlacesOf, LogOK
<1>4. log[LastOf(log, p)] \in Committed
    BY <1>3 DEF Committed
<1>5. log[LastOf(log, p)] = e
    BY <1>2, <1>4, Distinct
<1>6. QED
    BY <1>3, <1>5

\* Every step keeps MirrorIsCurrent.
LEMMA MirrorSteps ==
    ASSUME StreamInv, MirrorIsCurrent, [StreamNext]_streamVars PROVE MirrorIsCurrent'
<1> SUFFICES ASSUME NEW s \in Subscriber, NEW p \in Path, Current(p)' \in seen'[s]
             PROVE  mirror'[s][p] = Current(p)'
    BY DEF MirrorIsCurrent
<1>1. /\ mirror \in [Subscriber -> [Path -> Nat]] /\ seen \in [Subscriber -> SUBSET Numbers]
      /\ LogOK
    BY DEF StreamInv, AgentsOK
<1>2. UNCHANGED log => Current(p)' = Current(p)
    BY DEF Current
<1>3. Current(p) \in seen[s] => mirror[s][p] = Current(p)
    BY DEF MirrorIsCurrent
<1>4. ASSUME UNCHANGED <<log, mirror, seen>> PROVE mirror'[s][p] = Current(p)'
    BY <1>2, <1>3, <1>4
<1>5. ASSUME NEW g \in open, NEW l \in Label, Commit(g, l) PROVE mirror'[s][p] = Current(p)'
    <2>1. g \in Nat /\ g \notin Numbers
        BY <1>1, Distinct DEF LogOK, Numbers
    <2>2. Current(p)' = IF p = l THEN g ELSE Current(p)
        <3>1. [gv |-> g, label |-> l] \in EventRec
            BY <2>1 DEF EventRec
        <3>2. log' = Append(log, [gv |-> g, label |-> l])
            BY <1>5 DEF Commit, Publish
        <3>3. QED
            BY <1>1, <2>1, <3>1, <3>2, CurrentSteps
    <2>3. UNCHANGED <<mirror, seen>>
        BY <1>5 DEF Commit, agentVars
    <2>4. QED
        BY <1>1, <1>3, <2>1, <2>2, <2>3
<1>6. ASSUME NEW t \in Subscriber, Apply(t) PROVE mirror'[s][p] = Current(p)'
    <2> DEFINE e == Head(wire[t])
    <2>1. /\ UNCHANGED logVars /\ wire[t] # <<>>
          /\ mirror' = IF e.label \in Path THEN [mirror EXCEPT ![t][e.label] = Current(e.label)] ELSE mirror
          /\ seen' = [seen EXCEPT ![t] = IF e = Heartbeat THEN @ ELSE @ \cup {e.gv}]
        BY <1>6 DEF Apply, Content
    <2>2. e \in Message
        BY <2>1, TailIn DEF StreamInv, SessionsOK, SessionsType
    <2> HIDE DEF e
    <2>3. Current(p)' = Current(p)
        BY <1>2, <2>1 DEF logVars
    <2>4. CASE s = t /\ e.label = p
        BY <1>1, <2>1, <2>3, <2>4
    <2>5. CASE s = t /\ e.label # p
        <3>1. mirror'[s][p] = mirror[s][p]
            BY <1>1, <2>1, <2>5
        <3>2. e \in Committed => Current(p) # e.gv
            BY <1>1, <2>5, CurrentOwn
        <3>3. Current(p) \in seen[s]
            BY <1>1, <2>1, <2>2, <2>3, <3>2 DEF Message
        <3>4. QED
            BY <1>3, <2>3, <3>1, <3>3
    <2>6. CASE s # t
        <3>1. mirror'[s] = mirror[s] /\ seen'[s] = seen[s]
            BY <1>1, <2>1, <2>6
        <3>2. QED
            BY <1>3, <2>3, <3>1
    <2>7. QED
        BY <2>4, <2>5, <2>6
<1>7. ASSUME NEW t \in Subscriber, ApplyAndCrash(t) PROVE mirror'[s][p] = Current(p)'
    <2> DEFINE e == Head(wire[t])
    <2>1. UNCHANGED logVars /\ UNCHANGED seen /\ mirror' = [mirror EXCEPT ![t][e.label] = Current(e.label)]
        BY <1>7 DEF ApplyAndCrash, Content
    <2> HIDE DEF e
    <2>2. Current(p)' = Current(p)
        BY <1>2, <2>1 DEF logVars
    <2>3. CASE s = t /\ e.label = p
        BY <1>1, <2>1, <2>2, <2>3
    <2>4. CASE ~(s = t /\ e.label = p)
        <3>1. mirror'[s][p] = mirror[s][p]
            BY <1>1, <2>1, <2>4
        <3>2. QED
            BY <1>3, <2>1, <2>2, <3>1
    <2>5. QED
        BY <2>3, <2>4
<1>8. CASE UNCHANGED streamVars
    BY <1>4, <1>8 DEF streamVars, agentVars, logVars
<1>9. CASE StreamDraw \/ StreamDiscard \/ Attach \/ ListenerLost \/ Fanout \/ Beat \/ Restart
    <2>1. UNCHANGED <<log, mirror, seen>>
        BY <1>9 DEF StreamDraw, StreamDiscard, Draw, Discard, Attach, ListenerLost, Fanout, Beat, Restart, agentVars, logVars
    <2>2. QED
        BY <1>4, <2>1
<1>10. ASSUME NEW t \in Subscriber,
              Connect(t) \/ Yield(t) \/ Register(t) \/ Disconnect(t) \/ ReadFails(t)
       PROVE  mirror'[s][p] = Current(p)'
    <2>1. UNCHANGED <<log, mirror, seen>>
        BY <1>10 DEF Connect, Yield, YieldReplay, YieldLive, Register, Disconnect, ReadFails, agentVars, logVars
    <2>2. QED
        BY <1>4, <2>1
<1>11. QED
    BY <1>5, <1>6, <1>7, <1>8, <1>9, <1>10 DEF StreamNext, Session, Receive

\* An agent that applied the last change of a page holds its current content,
\* however late, however often and in whatever order the events came, and
\* whatever died in between.
THEOREM MirrorsAreCurrent == StreamSpec => []MirrorIsCurrent
<1>1. StreamInit => MirrorIsCurrent
    BY DEF StreamInit, MirrorIsCurrent
<1>2. StreamInv /\ MirrorIsCurrent /\ [StreamNext]_streamVars => MirrorIsCurrent'
    BY MirrorSteps
<1>3. QED
    BY <1>1, <1>2, StreamIsSound, PTL DEF StreamSpec

-----------------------------------------------------------------------------
(* ReplayAhead: what a replaying stream carries is in the order of the      *)
(* numbers, and all of it above the cursor.                                 *)

Rising(q) == \A k, l \in 1 .. Len(q) : k < l => q[k].gv < q[l].gv

Above(q, n) == \A k \in 1 .. Len(q) : q[k].gv > n

Below(q, n) == \A k \in 1 .. Len(q) : q[k].gv < n

AheadOK(s) ==
    stage[s] = "replay" =>
        /\ Rising(wire[s]) /\ Above(wire[s], cursor[s])
        /\ \A f \in replay[s] : f.gv > cursor[s] /\ Below(wire[s], f.gv)

AheadInv == \A s \in Subscriber : AheadOK(s)

\* Appending a higher number keeps a sequence rising.
LEMMA AppendRises ==
    ASSUME NEW S, NEW q \in Seq(S), NEW e \in S, Rising(q), Below(q, e.gv)
    PROVE  /\ Rising(Append(q, e))
           /\ \A n : Above(q, n) /\ e.gv > n => Above(Append(q, e), n)
           /\ \A n : Below(q, n) /\ e.gv < n => Below(Append(q, e), n)
<1>1. /\ Len(Append(q, e)) = Len(q) + 1 /\ Len(q) \in Nat
      /\ \A i \in 1 .. Len(q) : Append(q, e)[i] = q[i]
      /\ Append(q, e)[Len(q) + 1] = e
    BY AppendIn
<1>2. \A k \in 1 .. Len(Append(q, e)) : k \in 1 .. Len(q) \/ k = Len(q) + 1
    BY <1>1
<1>3. Rising(Append(q, e))
    BY <1>1, <1>2 DEF Rising, Below
<1>4. \A n : Above(q, n) /\ e.gv > n => Above(Append(q, e), n)
    BY <1>1, <1>2 DEF Above
<1>5. \A n : Below(q, n) /\ e.gv < n => Below(Append(q, e), n)
    BY <1>1, <1>2 DEF Below
<1>6. QED
    BY <1>3, <1>4, <1>5

\* Removing the head keeps it rising, above the head.
LEMMA TailRises ==
    ASSUME NEW S, NEW q \in Seq(S), q # <<>>, Rising(q)
    PROVE  /\ Rising(Tail(q)) /\ Above(Tail(q), Head(q).gv)
           /\ \A n : Above(q, n) => Head(q).gv > n
           /\ \A n : Below(q, n) => Head(q).gv < n /\ Below(Tail(q), n)
<1>1. /\ Head(q) = q[1] /\ Len(Tail(q)) = Len(q) - 1 /\ Len(q) \in Nat \ {0}
      /\ \A i \in 1 .. Len(Tail(q)) : Tail(q)[i] = q[i + 1]
    BY TailIn
<1>2. \A i \in 1 .. Len(Tail(q)) : i \in Nat \ {0} /\ i + 1 \in 1 .. Len(q) /\ 1 < i + 1
    BY <1>1
<1>3. 1 \in 1 .. Len(q)
    BY <1>1
<1>4. Rising(Tail(q))
    <2> SUFFICES ASSUME NEW k \in 1 .. Len(Tail(q)), NEW l \in 1 .. Len(Tail(q)), k < l
                 PROVE  Tail(q)[k].gv < Tail(q)[l].gv
        BY DEF Rising
    <2>1. k + 1 \in 1 .. Len(q) /\ l + 1 \in 1 .. Len(q) /\ k + 1 < l + 1
        BY <1>2
    <2>2. QED
        BY <1>1, <2>1 DEF Rising
<1>5. Above(Tail(q), Head(q).gv)
    <2> SUFFICES ASSUME NEW k \in 1 .. Len(Tail(q)) PROVE Tail(q)[k].gv > Head(q).gv
        BY DEF Above
    <2>1. q[1].gv < q[k + 1].gv
        BY <1>2, <1>3 DEF Rising
    <2>2. QED
        BY <1>1, <2>1
<1>6. \A n : Above(q, n) => Head(q).gv > n
    BY <1>1, <1>3 DEF Above
<1>7. \A n : Below(q, n) => Head(q).gv < n /\ Below(Tail(q), n)
    BY <1>1, <1>2, <1>3 DEF Below
<1>8. QED
    BY <1>4, <1>5, <1>6, <1>7

\* Every step keeps AheadInv.
LEMMA AheadSteps ==
    ASSUME StreamInv, AheadInv, [StreamNext]_streamVars PROVE AheadInv'
<1> SUFFICES ASSUME NEW s \in Subscriber PROVE AheadOK(s)'
    BY DEF AheadInv
<1>1. /\ stage \in [Subscriber -> {"off", "replay", "live"}] /\ replay \in [Subscriber -> SUBSET Committed]
      /\ queue \in [Subscriber -> Seq(Message)] /\ wire \in [Subscriber -> Seq(Message)]
    BY DEF StreamInv, SessionsOK, SessionsType
<1>2. cursor \in [Subscriber -> {0} \cup Numbers]
    BY DEF StreamInv, AgentsOK
<1>3. /\ stage[s] # "live" => queue[s] = <<>>
      /\ stage[s] = "off" => wire[s] = <<>>
    BY DEF StreamInv, SessionsOK, SessionOK
<1>4. \A e \in Message : e.gv \in Nat
    <2>1. drawn \in Nat
        BY DEF StreamInv, LogOK
    <2>2. QED
        BY <2>1, Distinct DEF Message, StreamInv
<1>5. AheadOK(s)
    BY DEF AheadInv
<1>6. ASSUME stage'[s] = stage[s], replay'[s] = replay[s], wire'[s] = wire[s], cursor'[s] = cursor[s]
      PROVE  AheadOK(s)'
    BY <1>5, <1>6 DEF AheadOK
<1>7. ASSUME stage'[s] # "replay" PROVE AheadOK(s)'
    BY <1>7 DEF AheadOK
<1>8. ASSUME UNCHANGED <<stage, replay, wire, cursor>> PROVE AheadOK(s)'
    BY <1>6, <1>8
<1>9. CASE UNCHANGED streamVars
    BY <1>8, <1>9 DEF streamVars, agentVars, sessionVars
<1>10. CASE \/ StreamDraw
            \/ StreamDiscard
            \/ \E g \in open, l \in Label : Commit(g, l)
            \/ Attach
            \/ ListenerLost
            \/ Fanout
            \/ Beat
    <2>1. UNCHANGED <<stage, replay, wire, cursor>>
        BY <1>10 DEF StreamDraw, StreamDiscard, Commit, Attach, ListenerLost, Fanout, Beat, agentVars, sessionVars
    <2>2. QED
        BY <1>8, <2>1
<1>11. CASE Restart
    BY <1>7, <1>11 DEF Restart
<1>12. ASSUME NEW t \in Subscriber, Session(t), s # t PROVE AheadOK(s)'
    <2>1. CASE Connect(t) \/ Register(t) \/ Disconnect(t) \/ ApplyAndCrash(t)
        BY <1>1, <1>2, <1>6, <1>12, <2>1 DEF Connect, Register, Disconnect, ApplyAndCrash, agentVars
    <2>2. CASE Yield(t) \/ Receive(t)
        <3>1. stage'[s] = stage[s] /\ replay'[s] = replay[s] /\ wire'[s] = wire[s] /\ cursor'[s] = cursor[s]
            BY <1>1, <1>2, <1>12, <2>2 DEF Yield, YieldReplay, YieldLive, Receive, Apply, ReadFails, agentVars
        <3>2. QED
            BY <1>6, <3>1
    <2>3. QED
        BY <1>12, <2>1, <2>2 DEF Session
<1>13. CASE Connect(s)
    <2>1. /\ stage[s] = "off" /\ UNCHANGED <<wire, cursor>>
          /\ replay' = [replay EXCEPT ![s] = {e \in EventsSince(cursor[s]) : e.label \in Wants[s]}]
        BY <1>13 DEF Connect, agentVars
    <2>2. wire'[s] = <<>> /\ \A f \in replay'[s] : f.gv > cursor[s]
        BY <1>1, <1>3, <2>1 DEF EventsSince
    <2>3. Len(<<>>) = 0
        OBVIOUS
    <2>4. QED
        BY <2>1, <2>2, <2>3 DEF AheadOK, Rising, Above, Below
<1>14. CASE YieldReplay(s)
    <2> DEFINE e == NextRow(replay[s])
    <2>1. /\ UNCHANGED <<stage, cursor>> /\ replay[s] # {}
          /\ replay' = [replay EXCEPT ![s] = @ \ {NextRow(@)}] /\ wire' = [wire EXCEPT ![s] = Append(@, e)]
        BY <1>14 DEF YieldReplay, agentVars
    <2>2. stage[s] = "replay"
        BY <2>1 DEF StreamInv, SessionsOK, SessionOK
    <2>3. e \in replay[s] /\ e \in Message /\ \A f \in replay[s] : e.gv <= f.gv
        BY <1>1, <2>1, NextRowIs DEF Message, StreamInv
    <2>4. replay'[s] = replay[s] \ {e} /\ wire'[s] = Append(wire[s], e)
        BY <1>1, <2>1
    <2> HIDE DEF e
    <2>5. /\ Rising(wire[s]) /\ Above(wire[s], cursor[s])
          /\ \A f \in replay[s] : f.gv > cursor[s] /\ Below(wire[s], f.gv)
        BY <1>5, <2>2 DEF AheadOK
    <2>6. \A f \in replay[s] \ {e} : e.gv < f.gv
        <3> SUFFICES ASSUME NEW f \in replay[s] \ {e} PROVE e.gv < f.gv
            OBVIOUS
        <3>1. e \in Committed /\ f \in Committed
            BY <1>1, <2>3
        <3>2. e.gv # f.gv
            BY <3>1, Distinct DEF StreamInv
        <3>3. e.gv \in Nat /\ f.gv \in Nat
            BY <1>4, <3>1 DEF Message
        <3>4. QED
            BY <2>3, <3>2, <3>3
    <2>7. wire[s] \in Seq(Message)
        BY <1>1
    <2>8. /\ Rising(Append(wire[s], e)) /\ Above(Append(wire[s], e), cursor[s])
          /\ \A f \in replay[s] \ {e} : Below(Append(wire[s], e), f.gv)
        BY <2>3, <2>5, <2>6, <2>7, AppendRises
    <2>9. QED
        BY <2>1, <2>4, <2>5, <2>8 DEF AheadOK
<1>15. CASE YieldLive(s)
    <2>1. queue[s] # <<>> /\ UNCHANGED stage
        BY <1>15 DEF YieldLive
    <2>2. QED
        BY <1>3, <1>7, <2>1
<1>16. CASE Register(s) \/ Disconnect(s) \/ ApplyAndCrash(s)
    <2>1. stage'[s] \in {"live", "off"}
        BY <1>1, <1>16 DEF Register, Disconnect, ApplyAndCrash
    <2>2. QED
        BY <1>7, <2>1
<1>17. CASE Apply(s) \/ ReadFails(s)
    <2> DEFINE e == Head(wire[s])
    <2>1. /\ UNCHANGED <<stage, replay>> /\ wire[s] # <<>> /\ wire' = [wire EXCEPT ![s] = Tail(@)]
          /\ \/ cursor' = [cursor EXCEPT ![s] = Advanced(@, e.gv)]
             \/ UNCHANGED cursor
        BY <1>17 DEF Apply, ReadFails, agentVars
    <2> SUFFICES ASSUME stage[s] = "replay" PROVE AheadOK(s)'
        BY <2>1 DEF AheadOK
    <2>2. /\ Rising(wire[s]) /\ Above(wire[s], cursor[s])
          /\ \A f \in replay[s] : f.gv > cursor[s] /\ Below(wire[s], f.gv)
        BY <1>5 DEF AheadOK
    <2>3. wire[s] \in Seq(Message) /\ e \in Message
        BY <1>1, <2>1, TailIn
    <2>4. /\ Rising(Tail(wire[s])) /\ Above(Tail(wire[s]), e.gv)
          /\ e.gv > cursor[s]
          /\ \A f \in replay[s] : e.gv < f.gv /\ Below(Tail(wire[s]), f.gv)
        BY <2>1, <2>2, <2>3, TailRises
    <2> HIDE DEF e
    <2>5. wire'[s] = Tail(wire[s]) /\ cursor'[s] \in {cursor[s], e.gv}
        BY <1>1, <1>2, <2>1 DEF Advanced
    <2>6. e.gv \in Nat /\ cursor[s] \in Nat
        BY <1>2, <1>4, <2>3, Distinct DEF StreamInv
    <2>7. Above(Tail(wire[s]), cursor[s])
        <3>1. Tail(wire[s]) \in Seq(Message)
            BY <2>1, <2>3, TailIn
        <3>2. \A k \in 1 .. Len(Tail(wire[s])) : Tail(wire[s])[k].gv \in Nat
            BY <1>4, <3>1
        <3>3. QED
            BY <2>4, <2>6, <3>2 DEF Above
    <2>8. \A f \in replay[s] : f.gv > e.gv
        <3>1. \A f \in replay[s] : f.gv \in Nat
            BY <1>1, <1>4 DEF Message
        <3>2. QED
            BY <2>4, <2>6, <3>1
    <2>9. QED
        BY <2>1, <2>2, <2>4, <2>5, <2>7, <2>8 DEF AheadOK
<1>18. QED
    BY <1>9, <1>10, <1>11, <1>12, <1>13, <1>14, <1>15, <1>16, <1>17 DEF StreamNext, Session, Yield, Receive

\* A stream that breaks during its replay costs nothing: what it still carried
\* lies above the cursor the agent comes back with.
THEOREM ReplayKeepsAhead == StreamSpec => []ReplayAhead
<1>1. StreamInit => AheadInv
    BY DEF StreamInit, AheadInv, AheadOK
<1>2. StreamInv /\ AheadInv /\ [StreamNext]_streamVars => AheadInv'
    BY AheadSteps
<1>3. StreamInv /\ AheadInv => ReplayAhead
    <2> SUFFICES ASSUME StreamInv, AheadInv, NEW s \in Subscriber, stage[s] = "replay", NEW e \in Carried(s)
                 PROVE  e.gv > cursor[s]
        BY DEF ReplayAhead
    <2>1. queue[s] = <<>> /\ wire[s] \in Seq(Message)
        BY DEF StreamInv, SessionsOK, SessionOK, SessionsType
    <2>2. e \in replay[s] \/ e \in InSeq(wire[s])
        BY <2>1 DEF Carried, InSeq
    <2>3. QED
        BY <2>1, <2>2 DEF AheadInv, AheadOK, Above, InSeq
<1>4. QED
    BY <1>1, <1>2, <1>3, StreamIsSound, PTL DEF StreamSpec

-----------------------------------------------------------------------------
(* LossIsAccountedFor: an event that nothing excuses is on its way to every *)
(* open stream, and everything numbered above it comes later on that way,   *)
(* so the cursor cannot pass it.                                            *)

\* Nothing excuses that the agent did not get it yet.
Eligible(s) == {e \in Wanted(s) : ~OutOfOrder(e) /\ e.gv \notin missed[s] \cup seen[s]}

Before(q, k, e) == \E i \in 1 .. Len(q) : i < k /\ q[i] = e

\* In q, whatever has a higher number than e comes after e, unless e is ahead.
Ordered(q, e, ahead) == \A k \in 1 .. Len(q) : q[k].gv > e.gv => e \in ahead \/ Before(q, k, e)

OnItsWay(s, e) ==
    listener # "dead" /\ stage[s] # "off" => e \in Carried(s) \cup InSeq(notif)

InItsPlace(s, e) ==
    stage[s] # "off" =>
        /\ Ordered(wire[s], e, {})
        /\ \A f \in replay[s] : f.gv > e.gv => e \in replay[s] \cup InSeq(wire[s])
        /\ Ordered(queue[s], e, InSeq(wire[s]))
        /\ Ordered(notif, e, Carried(s))

Tracked(s, e) == OnItsWay(s, e) /\ InItsPlace(s, e) /\ e.gv > cursor[s]

TrackInv == \A s \in Subscriber : \A e \in Eligible(s) : Tracked(s, e)

\* Nothing is out of order in an empty sequence.
LEMMA OrderedEmpty == ASSUME NEW e, NEW D PROVE Ordered(<<>>, e, D)
BY DEF Ordered

\* The order does not suffer when the event is waited for elsewhere.
LEMMA OrderedMore ==
    ASSUME NEW q, NEW e, NEW D, NEW D2, Ordered(q, e, D), e \in D => e \in D2
    PROVE  Ordered(q, e, D2)
BY DEF Ordered

\* A sequence of lower numbers is in order.
LEMMA OrderedLow ==
    ASSUME NEW q, NEW e, NEW D, \A x \in InSeq(q) : ~(x.gv > e.gv), NEW S, q \in Seq(S)
    PROVE  Ordered(q, e, D)
BY DEF Ordered, InSeq

\* An event behind a sequence in order.
LEMMA OrderedAppend ==
    ASSUME NEW S, NEW q \in Seq(S), NEW x \in S, NEW e, NEW D, Ordered(q, e, D),
           x.gv > e.gv => e \in D \/ e \in InSeq(q)
    PROVE  Ordered(Append(q, x), e, D)
<1> DEFINE r == Append(q, x)
<1>1. /\ Len(r) = Len(q) + 1 /\ Len(q) \in Nat
      /\ \A i \in 1 .. Len(q) : r[i] = q[i]
      /\ r[Len(q) + 1] = x
    BY AppendIn
<1> HIDE DEF r
<1> SUFFICES ASSUME NEW k \in 1 .. Len(r), r[k].gv > e.gv, e \notin D PROVE Before(r, k, e)
    BY DEF Ordered, r
<1>2. CASE k \in 1 .. Len(q)
    <2>1. Before(q, k, e)
        BY <1>1, <1>2 DEF Ordered
    <2>2. PICK i \in 1 .. Len(q) : i < k /\ q[i] = e
        BY <2>1 DEF Before
    <2>3. i \in 1 .. Len(r) /\ r[i] = e
        BY <1>1, <2>2
    <2>4. QED
        BY <2>2, <2>3 DEF Before
<1>3. CASE k = Len(q) + 1
    <2>1. PICK i \in 1 .. Len(q) : q[i] = e
        BY <1>1, <1>3 DEF InSeq
    <2>2. i \in 1 .. Len(r) /\ r[i] = e /\ i < k
        BY <1>1, <1>3, <2>1
    <2>3. QED
        BY <2>2 DEF Before
<1>4. QED
    BY <1>1, <1>2, <1>3

\* A sequence in order without its head.
LEMMA OrderedTail ==
    ASSUME NEW S, NEW q \in Seq(S), q # <<>>, NEW e, NEW D, NEW D2, Ordered(q, e, D),
           e \in D => e \in D2, Head(q) = e => e \in D2
    PROVE  Ordered(Tail(q), e, D2)
<1> DEFINE r == Tail(q)
<1>1. /\ Head(q) = q[1] /\ Len(r) = Len(q) - 1 /\ Len(q) \in Nat \ {0}
      /\ \A i \in 1 .. Len(r) : r[i] = q[i + 1]
    BY TailIn
<1> HIDE DEF r
<1> SUFFICES ASSUME NEW k \in 1 .. Len(r), r[k].gv > e.gv, e \notin D2 PROVE Before(r, k, e)
    BY DEF Ordered, r
<1>2. k + 1 \in 1 .. Len(q) /\ r[k] = q[k + 1]
    BY <1>1
<1>3. Before(q, k + 1, e)
    BY <1>2 DEF Ordered
<1>4. PICK i \in 1 .. Len(q) : i < k + 1 /\ q[i] = e
    BY <1>3 DEF Before
<1>5. i # 1
    BY <1>1, <1>4
<1>6. i - 1 \in 1 .. Len(r) /\ i - 1 < k /\ r[i - 1] = e
    <2>1. i - 1 \in 1 .. Len(r) /\ i - 1 < k
        BY <1>1, <1>4, <1>5
    <2>2. (i - 1) + 1 = i
        OBVIOUS
    <2>3. QED
        BY <1>1, <1>4, <2>1, <2>2
<1>7. QED
    BY <1>6 DEF Before

\* At the head of the way stands nothing that is numbered above e, unless e is
\* ahead.
LEMMA OrderedHead ==
    ASSUME NEW S, NEW q \in Seq(S), q # <<>>, NEW e, NEW D, Ordered(q, e, D), Head(q).gv > e.gv
    PROVE  e \in D
<1>1. Head(q) = q[1] /\ Len(q) \in Nat \ {0} /\ 1 \in 1 .. Len(q)
    BY TailIn
<1>2. e \in D \/ Before(q, 1, e)
    BY <1>1 DEF Ordered
<1>3. ~Before(q, 1, e)
    BY <1>1 DEF Before
<1>4. QED
    BY <1>2, <1>3

\* What nothing excuses after a step was not excused before it.
LEMMA EligibleSame ==
    ASSUME UNCHANGED log, NEW s, missed[s] \subseteq missed'[s], seen[s] \subseteq seen'[s]
    PROVE  Eligible(s)' \subseteq Eligible(s)
BY DEF Eligible, Wanted, OutOfOrder, Committed

\* What a commit makes eligible is the event itself.
LEMMA EligibleGrows ==
    ASSUME LogOK, NEW x \in EventRec, log' = Append(log, x), NEW s,
           missed[s] \subseteq missed'[s], seen[s] \subseteq seen'[s], NEW e \in Eligible(s)'
    PROVE  \/ e \in Eligible(s)
           \/ e = x /\ \A f \in Committed : ~(f.gv > x.gv)
<1> DEFINE n == Len(log)
<1>1. /\ log \in Seq(EventRec) /\ log' \in Seq(EventRec) /\ Len(log') = n + 1 /\ n \in Nat /\ log'[n + 1] = x
      /\ \A i \in 1 .. n : log'[i] = log[i]
    BY AppendIn DEF LogOK
<1>2. DOMAIN log = 1 .. n /\ DOMAIN log' = 1 .. n + 1
    BY <1>1
<1>3. /\ e.label \in Wants[s] /\ e.gv \notin missed[s] \cup seen[s]
      /\ ~\E i, j \in DOMAIN log' : i < j /\ log'[j] = e /\ log'[i].gv > e.gv
    BY DEF Eligible, Wanted, OutOfOrder
<1>4. e \in Committed'
    BY DEF Eligible, Wanted
<1>5. PICK j \in DOMAIN log' : log'[j] = e
    BY <1>4 DEF Committed
<1>6. CASE j = n + 1
    <2>1. ASSUME NEW i \in DOMAIN log PROVE ~(log[i].gv > x.gv)
        <3>1. i \in DOMAIN log' /\ i < j /\ log'[i] = log[i]
            BY <1>1, <1>2, <1>6
        <3>2. QED
            BY <1>1, <1>3, <1>5, <1>6, <3>1
    <2>2. QED
        BY <1>1, <1>5, <1>6, <2>1 DEF Committed
<1>7. CASE j # n + 1
    <2>1. j \in DOMAIN log /\ log[j] = e
        BY <1>1, <1>2, <1>5, <1>7
    <2>2. e \in Wanted(s)
        BY <1>3, <2>1 DEF Wanted, Committed
    <2>3. ~OutOfOrder(e)
        <3> SUFFICES ASSUME NEW k \in DOMAIN log, NEW l \in DOMAIN log, k < l, log[l] = e, log[k].gv > e.gv
                     PROVE  FALSE
            BY DEF OutOfOrder
        <3>1. k \in DOMAIN log' /\ l \in DOMAIN log' /\ log'[l] = e /\ log'[k].gv > e.gv
            BY <1>1, <1>2
        <3>2. QED
            BY <1>3, <3>1
    <2>4. QED
        BY <1>3, <2>2, <2>3 DEF Eligible
<1>8. QED
    BY <1>6, <1>7

\* The parts of a step that Tracked reads.
LEMMA TrackedSame ==
    ASSUME NEW s, NEW e, Tracked(s, e), UNCHANGED <<listener, notif>>,
           stage'[s] = stage[s], replay'[s] = replay[s], queue'[s] = queue[s],
           wire'[s] = wire[s], cursor'[s] = cursor[s]
    PROVE  Tracked(s, e)'
BY DEF Tracked, OnItsWay, InItsPlace, Carried, InSeq, Ordered, Before

\* While no stream is open there is nothing to keep in order.
LEMMA TrackedOff ==
    ASSUME NEW s, NEW e, Tracked(s, e), stage'[s] = "off", cursor'[s] = cursor[s]
    PROVE  Tracked(s, e)'
BY DEF Tracked, OnItsWay, InItsPlace

\* A commit.
LEMMA TrackCommit ==
    ASSUME StreamInv, TrackInv, NEW g \in open, NEW l \in Label, Commit(g, l),
           NEW s \in Subscriber, NEW e \in Eligible(s)'
    PROVE  Tracked(s, e)'
<1> DEFINE x == [gv |-> g, label |-> l]
<1>1. g \in Nat /\ LogOK
    <2>1. LogOK
        BY DEF StreamInv
    <2>2. open \subseteq 1 .. drawn /\ drawn \in Nat
        BY <2>1 DEF LogOK
    <2>3. QED
        BY <2>1, <2>2
<1>2. x \in EventRec /\ x.gv = g /\ log' = Append(log, x)
    BY <1>1 DEF EventRec, Commit, Publish
<1>3. /\ notif' = IF listener = "on" THEN Append(notif, x) ELSE notif
      /\ missed' = [t \in Subscriber |-> IF listener = "starting" /\ stage[t] # "off" THEN missed[t] \cup {g}
                                         ELSE missed[t]]
      /\ UNCHANGED <<listener, sessionVars, agentVars>>
    BY DEF Commit
<1> HIDE DEF x
<1>4. missed[s] \subseteq missed'[s] /\ seen'[s] = seen[s] /\ UNCHANGED <<listener, stage, replay, queue, wire, cursor>>
    BY <1>3 DEF agentVars, sessionVars
<1>5. \/ e \in Eligible(s)
      \/ e = x /\ \A f \in Committed : ~(f.gv > x.gv)
    BY <1>1, <1>2, <1>4, EligibleGrows
<1>6. notif \in Seq(Committed)
    BY DEF StreamInv, ServerOK
<1>7. notif \in Seq(Committed \cup {x})
    BY <1>6, SeqIn
<1>8. /\ listener = "on" => InSeq(notif') = InSeq(notif) \cup {x}
      /\ listener # "on" => notif' = notif
    BY <1>3, <1>7, AppendIn
<1>9. CASE e \in Eligible(s)
    <2>1. Tracked(s, e)
        BY <1>9 DEF TrackInv
    <2>2. OnItsWay(s, e)'
        BY <1>4, <1>8, <2>1 DEF Tracked, OnItsWay, Carried, InSeq
    <2>3. InItsPlace(s, e)'
        <3> SUFFICES ASSUME stage[s] # "off" PROVE InItsPlace(s, e)'
            BY <1>4 DEF InItsPlace
        <3>1. Ordered(notif, e, Carried(s))
            BY <2>1 DEF Tracked, InItsPlace
        <3>2. listener = "on" => e \in Carried(s) \/ e \in InSeq(notif)
            BY <2>1 DEF Tracked, OnItsWay
        <3>3. listener = "on" => Ordered(Append(notif, x), e, Carried(s))
            BY <1>7, <3>1, <3>2, OrderedAppend
        <3>4. Ordered(notif', e, Carried(s))
            BY <1>3, <3>1, <3>3
        <3>5. Carried(s)' = Carried(s)
            BY <1>4 DEF Carried, InSeq
        <3>6. Ordered(notif, e, Carried(s))'
            BY <3>4, <3>5 DEF Ordered, Before
        <3>7. QED
            BY <1>4, <2>1, <3>6 DEF Tracked, InItsPlace, Ordered, Before, InSeq
    <2>4. QED
        BY <1>4, <2>1, <2>2, <2>3 DEF Tracked
<1>10. CASE e = x /\ \A f \in Committed : ~(f.gv > x.gv)
    <2>1. x \notin Committed /\ g \notin {0} \cup Numbers
        BY <1>1, <1>2, Distinct DEF LogOK, Numbers
    <2>2. g \notin missed'[s]
        BY <1>2, <1>10 DEF Eligible
    <2>3. ~(listener = "starting" /\ stage[s] # "off")
        BY <1>3, <2>2
    <2>4. OnItsWay(s, e)'
        <3>1. listener \in {"starting", "on", "dead"}
            BY DEF StreamInv, ServerOK
        <3>2. QED
            BY <1>4, <1>8, <1>10, <2>3, <3>1 DEF OnItsWay, InSeq
    <2>5. \A f \in Message : ~(f.gv > e.gv)
        <3>1. ~(Heartbeat.gv > g)
            BY <1>1, Distinct
        <3>2. QED
            BY <1>2, <1>10, <3>1 DEF Message
    <2>6. /\ replay[s] \subseteq Committed /\ queue[s] \in Seq(Message) /\ wire[s] \in Seq(Message)
        BY DEF StreamInv, SessionsOK, SessionsType
    <2>7. \A y \in InSeq(queue[s]) \cup InSeq(wire[s]) : ~(y.gv > e.gv)
        BY <2>5, <2>6 DEF InSeq
    <2>8. Ordered(wire[s], e, {}) /\ Ordered(queue[s], e, InSeq(wire[s]))
        BY <2>6, <2>7, OrderedLow
    <2>9. \A f \in replay[s] : ~(f.gv > e.gv)
        BY <2>5, <2>6 DEF Message
    <2>10. notif' \in Seq(Committed \cup {x})
        BY <1>3, <1>7, AppendIn
    <2>11. \A y \in InSeq(notif') : ~(y.gv > e.gv)
        BY <1>1, <1>2, <1>10, <2>10 DEF InSeq
    <2>12. \A D : Ordered(notif', e, D)
        BY <2>10, <2>11, OrderedLow
    <2>13. InItsPlace(s, e)'
        BY <1>4, <2>8, <2>9, <2>12 DEF InItsPlace, Ordered, Before, InSeq
    <2>14. cursor[s] \in {0} \cup Numbers
        BY DEF StreamInv, AgentsOK
    <2>15. e.gv > cursor'[s]
        <3>1. cursor[s] \in Nat /\ cursor[s] # g
            BY <1>1, <2>1, <2>14, Distinct
        <3>2. ~(cursor[s] > g)
            BY <1>1, <1>2, <1>10, <2>14 DEF Numbers
        <3>3. QED
            BY <1>1, <1>2, <1>4, <1>10, <3>1, <3>2
    <2>16. QED
        BY <2>4, <2>13, <2>15 DEF Tracked
<1>11. QED
    BY <1>5, <1>9, <1>10

\* The fan-out of one notification.
LEMMA TrackFanout ==
    ASSUME StreamInv, Fanout, NEW s \in Subscriber, NEW e \in Eligible(s)',
           e \in Eligible(s), Tracked(s, e)
    PROVE  Tracked(s, e)'
<1> DEFINE x == Head(notif)
           fits == Receives(s, x) /\ Len(queue[s]) < QueueSize
<1>1. /\ notif # <<>> /\ notif' = Tail(notif)
      /\ UNCHANGED <<logVars, listener, stage, replay, wire, agentVars>>
    BY DEF Fanout
<1>2. queue'[s] = IF fits THEN Append(queue[s], x) ELSE queue[s]
    BY DEF Fanout
<1>3. /\ Receives(s, x) /\ ~fits => x.gv \in missed'[s]
      /\ stage[s] = "replay" /\ x \notin Carried(s) => x.gv \in missed'[s]
    BY DEF Fanout
<1>4. notif \in Seq(Committed) /\ queue[s] \in Seq(Message) /\ Tail(notif) \in Seq(Committed) /\ x \in Committed
    BY <1>1, TailIn DEF StreamInv, ServerOK, SessionsOK, SessionsType
<1>5. e.gv \notin missed'[s] /\ e.label \in Wants[s]
    BY DEF Eligible, Wanted
<1>6. InSeq(notif) = InSeq(notif') \cup {x}
    BY <1>1, <1>4, TailIn
<1> HIDE DEF x, fits
<1>7. fits => InSeq(queue'[s]) = InSeq(queue[s]) \cup {x}
    <2>1. x \in Message
        BY <1>4 DEF Message
    <2>2. QED
        BY <1>2, <1>4, <2>1, AppendIn
<1>8. Carried(s)' = IF fits THEN Carried(s) \cup {x} ELSE Carried(s)
    BY <1>1, <1>2, <1>7 DEF Carried, InSeq
<1>9. CASE stage[s] = "off"
    BY <1>1, <1>9, TrackedOff DEF agentVars
<1>10. CASE stage[s] # "off"
    <2>1. stage[s] \in {"replay", "live"}
        BY <1>10 DEF StreamInv, SessionsOK, SessionsType
    <2>2. e = x => e \in Carried(s)'
        BY <1>3, <1>5, <1>8, <2>1 DEF Receives, fits
    <2>3. OnItsWay(s, e)'
        BY <1>1, <1>6, <1>8, <2>2 DEF Tracked, OnItsWay
    <2>4. /\ Ordered(wire[s], e, {}) /\ Ordered(queue[s], e, InSeq(wire[s])) /\ Ordered(notif, e, Carried(s))
          /\ \A f \in replay[s] : f.gv > e.gv => e \in replay[s] \cup InSeq(wire[s])
        BY <1>10 DEF Tracked, InItsPlace
    <2>5. Ordered(Tail(notif), e, Carried(s)')
        BY <1>1, <1>4, <1>8, <2>2, <2>4, OrderedTail DEF x
    <2>6. Ordered(queue'[s], e, InSeq(wire[s]))
        <3>1. CASE ~fits
            BY <1>2, <2>4, <3>1
        <3>2. CASE fits
            <4>1. stage[s] = "live"
                BY <3>2 DEF fits, Receives
            <4>2. replay[s] = {}
                BY <4>1 DEF StreamInv, SessionsOK, SessionOK
            <4>3. x.gv > e.gv => e \in Carried(s)
                BY <1>1, <1>4, <2>4, OrderedHead DEF x
            <4>4. x.gv > e.gv => e \in InSeq(wire[s]) \/ e \in InSeq(queue[s])
                BY <4>2, <4>3 DEF Carried
            <4>5. x \in Message
                BY <1>4 DEF Message
            <4>6. Ordered(Append(queue[s], x), e, InSeq(wire[s]))
                BY <1>4, <2>4, <4>4, <4>5, OrderedAppend
            <4>7. QED
                BY <1>2, <3>2, <4>6
        <3>3. QED
            BY <3>1, <3>2
    <2>7. InItsPlace(s, e)'
        <3>1. Ordered(notif, e, Carried(s))'
            BY <1>1, <2>5 DEF Ordered, Before
        <3>2. Ordered(queue[s], e, InSeq(wire[s]))'
            BY <1>1, <2>6 DEF Ordered, Before, InSeq
        <3>3. Ordered(wire[s], e, {})'
            BY <1>1, <2>4 DEF Ordered, Before
        <3>4. (\A f \in replay[s] : f.gv > e.gv => e \in replay[s] \cup InSeq(wire[s]))'
            BY <1>1, <2>4 DEF InSeq
        <3>5. QED
            BY <3>1, <3>2, <3>3, <3>4 DEF InItsPlace
    <2>8. QED
        BY <1>1, <2>3, <2>7 DEF Tracked, agentVars
<1>11. QED
    BY <1>9, <1>10

\* A step of the stream or of the agent of s.
LEMMA TrackSession ==
    ASSUME StreamInv, NEW s \in Subscriber, Session(s), NEW e \in Eligible(s)',
           e \in Eligible(s), Tracked(s, e)
    PROVE  Tracked(s, e)'
<1>1. /\ stage \in [Subscriber -> {"off", "replay", "live"}] /\ replay \in [Subscriber -> SUBSET Committed]
      /\ queue \in [Subscriber -> Seq(Message)] /\ wire \in [Subscriber -> Seq(Message)]
    BY DEF StreamInv, SessionsOK, SessionsType
<1>2. /\ cursor \in [Subscriber -> {0} \cup Numbers] /\ seen \in [Subscriber -> SUBSET Numbers]
      /\ missed \in [Subscriber -> SUBSET Nat]
    BY DEF StreamInv, AgentsOK
<1>3. /\ stage[s] # "live" => queue[s] = <<>>
      /\ stage[s] # "replay" => replay[s] = {}
      /\ stage[s] = "off" => wire[s] = <<>>
    BY DEF StreamInv, SessionsOK, SessionOK
<1>4. \A x \in Message : x.gv \in Nat /\ (x = Heartbeat => x.gv = 0) /\ (x # Heartbeat => x \in Committed)
    <2>1. drawn \in Nat
        BY DEF StreamInv, LogOK
    <2>2. QED
        BY <2>1, Distinct DEF Message, StreamInv
<1>5. /\ e \in Committed /\ e \in Message /\ e.gv \in Nat /\ e # Heartbeat
      /\ e.label \in Wants[s] /\ e.gv \notin missed'[s] \cup seen'[s]
    BY <1>4, Distinct DEF Eligible, Wanted, Message, StreamInv
<1>6. /\ OnItsWay(s, e) /\ e.gv > cursor[s]
      /\ stage[s] # "off" => /\ Ordered(wire[s], e, {}) /\ Ordered(queue[s], e, InSeq(wire[s]))
                             /\ Ordered(notif, e, Carried(s))
                             /\ \A f \in replay[s] : f.gv > e.gv => e \in replay[s] \cup InSeq(wire[s])
    BY DEF Tracked, InItsPlace
<1>7. notif \in Seq(Committed)
    BY DEF StreamInv, ServerOK
<1>8. CASE Connect(s)
    <2> DEFINE later == {f \in Committed : f.gv > cursor[s]}
               lower == {f \in later : f.gv < e.gv}
    <2>1. /\ UNCHANGED <<logVars, listener, notif, queue, wire, agentVars>> /\ stage[s] = "off"
          /\ replay' = [replay EXCEPT ![s] = {f \in EventsSince(cursor[s]) : f.label \in Wants[s]}]
          /\ missed' = [missed EXCEPT ![s] = @ \cup
                {f.gv : f \in {f \in later : Cardinality({h \in later : h.gv < f.gv}) >= Limit}}]
        BY <1>8 DEF Connect
    <2>2. e \in later
        BY <1>5, <1>6
    <2>3. ~(Cardinality(lower) >= Limit)
        BY <1>2, <1>5, <2>1, <2>2
    <2>4. Cardinality(lower) \in Nat /\ Limit \in Nat
        <3>1. IsFiniteSet(lower)
            BY CommittedFinite, FS_Subset DEF StreamInv
        <3>2. QED
            BY <3>1, FS_CardinalityType, StreamAssumption
    <2>5. e \in EventsSince(cursor[s])
        BY <2>2, <2>3, <2>4 DEF EventsSince
    <2>6. e \in replay'[s]
        BY <1>1, <1>5, <2>1, <2>5
    <2>7. wire'[s] = <<>> /\ queue'[s] = <<>>
        BY <1>3, <2>1
    <2>8. e \in Carried(s)'
        BY <2>6 DEF Carried
    <2>9. Ordered(notif, e, Carried(s))'
        BY <2>8 DEF Ordered
    <2>10. Ordered(wire[s], e, {})' /\ Ordered(queue[s], e, InSeq(wire[s]))'
        <3>1. \A D : Ordered(<<>>, e, D)
            BY OrderedEmpty
        <3>2. QED
            BY <2>7, <3>1 DEF Ordered, Before
    <2>11. QED
        BY <1>6, <2>1, <2>6, <2>8, <2>9, <2>10 DEF Tracked, OnItsWay, InItsPlace, agentVars
<1>9. CASE YieldReplay(s)
    <2> DEFINE x == NextRow(replay[s])
    <2>1. /\ UNCHANGED <<logVars, listener, notif, stage, queue, agentVars, missed>>
          /\ replay' = [replay EXCEPT ![s] = @ \ {NextRow(@)}] /\ wire' = [wire EXCEPT ![s] = Append(@, x)]
          /\ replay[s] # {}
        BY <1>9 DEF YieldReplay
    <2>2. x \in replay[s] /\ x \in Message /\ \A f \in replay[s] : x.gv <= f.gv
        BY <1>1, <2>1, NextRowIs DEF Message, StreamInv
    <2>3. replay'[s] = replay[s] \ {x} /\ wire'[s] = Append(wire[s], x) /\ stage[s] = "replay"
        BY <1>1, <1>3, <2>1
    <2> HIDE DEF x
    <2>4. wire[s] \in Seq(Message)
        BY <1>1
    <2>5. InSeq(wire'[s]) = InSeq(wire[s]) \cup {x}
        BY <2>2, <2>3, <2>4, AppendIn
    <2>6. x.gv > e.gv => e \in InSeq(wire[s])
        <3>1. x.gv \in Nat
            BY <1>4, <2>2
        <3>2. e \in replay[s] => ~(x.gv > e.gv)
            BY <1>5, <2>2, <3>1
        <3>3. QED
            BY <1>6, <2>2, <2>3, <3>2
    <2>7. Ordered(wire'[s], e, {})
        BY <1>6, <2>2, <2>3, <2>4, <2>6, OrderedAppend
    <2>8. Carried(s)' = Carried(s)
        <3>1. Carried(s)' = replay'[s] \cup InSeq(queue[s]) \cup InSeq(wire'[s])
            BY <2>1 DEF Carried, InSeq
        <3>2. QED
            BY <2>2, <2>3, <2>5, <3>1 DEF Carried
    <2>9. Ordered(queue[s], e, InSeq(wire'[s]))
        BY <1>3, <2>3, OrderedEmpty
    <2>10. \A f \in replay'[s] : f.gv > e.gv => e \in replay'[s] \cup InSeq(wire'[s])
        BY <1>6, <2>3, <2>5
    <2>11. InItsPlace(s, e)'
        <3>1. Ordered(notif, e, Carried(s))'
            BY <1>6, <2>1, <2>3, <2>8 DEF Ordered, Before
        <3>2. Ordered(queue[s], e, InSeq(wire[s]))'
            BY <2>1, <2>9 DEF Ordered, Before, InSeq
        <3>3. Ordered(wire[s], e, {})'
            BY <2>7 DEF Ordered, Before
        <3>4. (\A f \in replay[s] : f.gv > e.gv => e \in replay[s] \cup InSeq(wire[s]))'
            BY <2>10 DEF InSeq
        <3>5. QED
            BY <3>1, <3>2, <3>3, <3>4 DEF InItsPlace
    <2>12. QED
        BY <1>6, <2>1, <2>8, <2>11 DEF Tracked, OnItsWay, agentVars, InSeq
<1>10. CASE YieldLive(s)
    <2> DEFINE x == Head(queue[s])
    <2>1. /\ UNCHANGED <<logVars, listener, notif, stage, replay, agentVars, missed>>
          /\ queue' = [queue EXCEPT ![s] = Tail(@)] /\ wire' = [wire EXCEPT ![s] = Append(@, x)]
          /\ queue[s] # <<>>
        BY <1>10 DEF YieldLive
    <2>2. queue'[s] = Tail(queue[s]) /\ wire'[s] = Append(wire[s], x)
        BY <1>1, <2>1
    <2>3. stage[s] = "live" /\ replay[s] = {}
        BY <1>3, <2>1
    <2>4. /\ wire[s] \in Seq(Message) /\ queue[s] \in Seq(Message) /\ x \in Message
          /\ InSeq(queue[s]) = InSeq(Tail(queue[s])) \cup {x}
        BY <1>1, <2>1, TailIn
    <2>5. Ordered(queue[s], e, InSeq(wire[s])) /\ Ordered(wire[s], e, {}) /\ Ordered(notif, e, Carried(s))
        BY <1>6, <2>3
    <2>6. x.gv > e.gv => e \in InSeq(wire[s])
        BY <2>1, <2>4, <2>5, OrderedHead
    <2>7. InSeq(Append(wire[s], x)) = InSeq(wire[s]) \cup {x}
        BY <2>4, AppendIn
    <2>8. Ordered(Tail(queue[s]), e, InSeq(Append(wire[s], x)))
        BY <2>1, <2>4, <2>5, <2>7, OrderedTail
    <2> HIDE DEF x
    <2>9. Ordered(Append(wire[s], x), e, {})
        BY <2>4, <2>5, <2>6, OrderedAppend
    <2>10. Carried(s)' = Carried(s)
        <3>1. Carried(s)' = replay[s] \cup InSeq(queue'[s]) \cup InSeq(wire'[s])
            BY <2>1 DEF Carried, InSeq
        <3>2. QED
            BY <2>2, <2>4, <2>7, <3>1 DEF Carried
    <2>11. InItsPlace(s, e)'
        <3>1. Ordered(notif, e, Carried(s))'
            BY <2>1, <2>5, <2>10 DEF Ordered, Before
        <3>2. Ordered(queue[s], e, InSeq(wire[s]))'
            BY <2>2, <2>8 DEF Ordered, Before, InSeq
        <3>3. Ordered(wire[s], e, {})'
            BY <2>2, <2>9 DEF Ordered, Before
        <3>4. replay'[s] = {}
            BY <2>1, <2>3
        <3>5. QED
            BY <3>1, <3>2, <3>3, <3>4 DEF InItsPlace
    <2>12. QED
        BY <1>6, <2>1, <2>10, <2>11 DEF Tracked, OnItsWay, agentVars, InSeq
<1>11. CASE Register(s)
    <2>1. /\ UNCHANGED <<logVars, listener, notif, replay, queue, wire, agentVars, missed>>
          /\ stage[s] = "replay" /\ UNCHANGED <<replay, queue, wire, notif, cursor>>
        BY <1>11 DEF Register, agentVars
    <2>2. Carried(s)' = Carried(s) /\ InSeq(notif)' = InSeq(notif)
        BY <2>1 DEF Carried, InSeq
    <2>3. InItsPlace(s, e)'
        BY <1>6, <2>1, <2>2 DEF InItsPlace, Ordered, Before, InSeq
    <2>4. QED
        BY <1>6, <2>1, <2>2, <2>3 DEF Tracked, OnItsWay
<1>12. CASE Disconnect(s) \/ ApplyAndCrash(s)
    <2>1. stage'[s] = "off" /\ cursor'[s] = cursor[s]
        BY <1>1, <1>12 DEF Disconnect, ApplyAndCrash, agentVars
    <2>2. QED
        BY <2>1, TrackedOff
<1>13. CASE Receive(s)
    <2> DEFINE x == Head(wire[s])
               rest == Tail(wire[s])
    <2>1. /\ UNCHANGED <<logVars, listener, notif, stage, replay, queue>>
          /\ wire' = [wire EXCEPT ![s] = Tail(@)] /\ wire[s] # <<>>
          /\ \/ /\ cursor' = [cursor EXCEPT ![s] = Advanced(@, x.gv)]
                /\ seen' = [seen EXCEPT ![s] = IF x = Heartbeat THEN @ ELSE @ \cup {x.gv}]
             \/ /\ UNCHANGED cursor
                /\ missed' = [missed EXCEPT ![s] = @ \cup {x.gv}]
        BY <1>13 DEF Receive, Apply, ReadFails, agentVars
    <2>2. x \in Message /\ wire[s] \in Seq(Message) /\ InSeq(wire[s]) = InSeq(rest) \cup {x}
        BY <1>1, <2>1, TailIn
    <2>3. stage[s] # "off"
        BY <1>3, <2>1
    <2>4. /\ Ordered(queue[s], e, InSeq(wire[s])) /\ Ordered(wire[s], e, {}) /\ Ordered(notif, e, Carried(s))
          /\ \A f \in replay[s] : f.gv > e.gv => e \in replay[s] \cup InSeq(wire[s])
        BY <1>6, <2>3
    <2>5. ~(x.gv > e.gv)
        BY <2>1, <2>2, <2>4, OrderedHead
    <2>6. e # x
        BY <1>2, <1>5, <2>1, <2>2
    <2>7. x.gv # e.gv
        <3>1. x = Heartbeat => e.gv # 0
            BY <1>5, Distinct DEF StreamInv, Numbers
        <3>2. QED
            BY <1>4, <1>5, <2>2, <2>6, <3>1, Distinct DEF StreamInv
    <2>8. x.gv \in Nat
        BY <1>4, <2>2
    <2>9. Ordered(rest, e, {})
        BY <2>1, <2>2, <2>4, <2>6, OrderedTail
    <2> HIDE DEF x, rest
    <2>10. wire'[s] = rest
        BY <1>1, <2>1 DEF rest
    <2>11. e.gv > cursor'[s]
        <3>1. cursor'[s] \in {cursor[s], x.gv}
            BY <1>2, <2>1 DEF Advanced
        <3>2. e.gv > x.gv
            BY <1>5, <2>5, <2>7, <2>8
        <3>3. QED
            BY <1>6, <3>1, <3>2
    <2>12. /\ e \in Carried(s) => e \in Carried(s)'
           /\ e \in InSeq(wire[s]) => e \in InSeq(rest)
        <3>1. Carried(s)' = replay[s] \cup InSeq(queue[s]) \cup InSeq(rest)
            BY <2>1, <2>10 DEF Carried, InSeq
        <3>2. QED
            BY <2>2, <2>6, <3>1 DEF Carried
    <2>13. InItsPlace(s, e)'
        <3>1. Ordered(notif, e, Carried(s)')
            BY <2>4, <2>12, OrderedMore
        <3>2. Ordered(notif, e, Carried(s))'
            BY <2>1, <3>1 DEF Ordered, Before
        <3>3. Ordered(queue[s], e, InSeq(rest))
            BY <2>4, <2>12, OrderedMore
        <3>4. Ordered(queue[s], e, InSeq(wire[s]))'
            BY <2>1, <2>10, <3>3 DEF Ordered, Before, InSeq
        <3>5. Ordered(wire[s], e, {})'
            BY <2>9, <2>10 DEF Ordered, Before
        <3>6. \A f \in replay[s] : f.gv > e.gv => e \in replay[s] \cup InSeq(rest)
            BY <2>4, <2>12
        <3>7. (\A f \in replay[s] : f.gv > e.gv => e \in replay[s] \cup InSeq(wire[s]))'
            BY <2>1, <2>10, <3>6 DEF InSeq
        <3>8. QED
            BY <3>2, <3>4, <3>5, <3>7 DEF InItsPlace
    <2>14. QED
        BY <1>6, <2>1, <2>11, <2>12, <2>13 DEF Tracked, OnItsWay, InSeq
<1>14. QED
    BY <1>8, <1>9, <1>10, <1>11, <1>12, <1>13 DEF Session, Yield

\* Every step keeps TrackInv.
LEMMA TrackSteps ==
    ASSUME StreamInv, TrackInv, [StreamNext]_streamVars PROVE TrackInv'
<1> SUFFICES ASSUME NEW s \in Subscriber, NEW e \in Eligible(s)' PROVE Tracked(s, e)'
    BY DEF TrackInv
<1>1. /\ stage \in [Subscriber -> {"off", "replay", "live"}] /\ replay \in [Subscriber -> SUBSET Committed]
      /\ queue \in [Subscriber -> Seq(Message)] /\ wire \in [Subscriber -> Seq(Message)]
    BY DEF StreamInv, SessionsOK, SessionsType
<1>2. /\ cursor \in [Subscriber -> {0} \cup Numbers] /\ seen \in [Subscriber -> SUBSET Numbers]
      /\ missed \in [Subscriber -> SUBSET Nat]
    BY DEF StreamInv, AgentsOK
<1>3. ASSUME UNCHANGED log, missed[s] \subseteq missed'[s], seen[s] \subseteq seen'[s]
      PROVE  e \in Eligible(s) /\ Tracked(s, e)
    BY <1>3, EligibleSame DEF TrackInv
<1>4. ASSUME NEW g \in open, NEW l \in Label, Commit(g, l) PROVE Tracked(s, e)'
    BY <1>4, TrackCommit
<1>5. CASE UNCHANGED streamVars
    <2>1. UNCHANGED <<log, listener, notif, stage, replay, queue, wire, cursor, seen, missed>>
        BY <1>5 DEF streamVars, logVars, sessionVars, agentVars
    <2>2. QED
        BY <1>3, <2>1, TrackedSame
<1>6. CASE StreamDraw \/ StreamDiscard
    <2>1. UNCHANGED <<log, listener, notif, stage, replay, queue, wire, cursor, seen, missed>>
        BY <1>6 DEF StreamDraw, StreamDiscard, Draw, Discard, sessionVars, agentVars
    <2>2. QED
        BY <1>3, <2>1, TrackedSame
<1>7. CASE Attach \/ ListenerLost
    <2>1. /\ UNCHANGED <<log, notif, stage, replay, queue, wire, cursor, seen, missed>>
          /\ listener' # "dead" => listener # "dead"
        BY <1>7 DEF Attach, ListenerLost, logVars, sessionVars, agentVars
    <2>2. Tracked(s, e)
        BY <1>3, <2>1
    <2>3. QED
        BY <2>1, <2>2 DEF Tracked, OnItsWay, InItsPlace, Carried, InSeq, Ordered, Before
<1>8. CASE Fanout
    <2>1. missed[s] \subseteq missed'[s] /\ UNCHANGED <<log, seen>>
        BY <1>2, <1>8 DEF Fanout, logVars, agentVars
    <2>2. QED
        BY <1>3, <1>8, <2>1, TrackFanout
<1>9. CASE Beat
    <2>1. /\ UNCHANGED <<log, listener, notif, stage, replay, wire, cursor, seen, missed>>
          /\ queue'[s] \in {queue[s], Append(queue[s], Heartbeat)}
        BY <1>9 DEF Beat, logVars, agentVars
    <2>2. e \in Eligible(s) /\ Tracked(s, e)
        BY <1>3, <2>1
    <2>3. CASE queue'[s] = queue[s]
        BY <2>1, <2>2, <2>3, TrackedSame
    <2>4. CASE queue'[s] = Append(queue[s], Heartbeat)
        <3>1. Heartbeat \in Message /\ queue[s] \in Seq(Message)
            BY <1>1 DEF Message
        <3>2. ~(Heartbeat.gv > e.gv)
            <4>1. e \in Committed /\ drawn \in Nat
                BY <2>2 DEF Eligible, Wanted, StreamInv, LogOK
            <4>2. e.gv \in Nat
                BY <4>1, Distinct DEF StreamInv
            <4>3. QED
                BY <4>2, Distinct DEF StreamInv
        <3>3. InSeq(queue'[s]) = InSeq(queue[s]) \cup {Heartbeat}
            BY <2>4, <3>1, AppendIn
        <3>4. Carried(s)' = Carried(s) \cup {Heartbeat}
            BY <2>1, <3>3 DEF Carried, InSeq
        <3>5. ASSUME stage[s] # "off" PROVE InItsPlace(s, e)'
            <4>1. /\ Ordered(wire[s], e, {}) /\ Ordered(queue[s], e, InSeq(wire[s]))
                  /\ Ordered(notif, e, Carried(s))
                  /\ \A f \in replay[s] : f.gv > e.gv => e \in replay[s] \cup InSeq(wire[s])
                BY <2>2, <3>5 DEF Tracked, InItsPlace
            <4>2. Ordered(queue'[s], e, InSeq(wire[s]))
                BY <2>4, <3>1, <3>2, <4>1, OrderedAppend
            <4>3. Ordered(notif, e, Carried(s)')
                BY <3>4, <4>1, OrderedMore
            <4>4. Ordered(notif, e, Carried(s))'
                BY <2>1, <4>3 DEF Ordered, Before
            <4>5. Ordered(queue[s], e, InSeq(wire[s]))'
                BY <2>1, <4>2 DEF Ordered, Before, InSeq
            <4>6. Ordered(wire[s], e, {})'
                BY <2>1, <4>1 DEF Ordered, Before
            <4>7. (\A f \in replay[s] : f.gv > e.gv => e \in replay[s] \cup InSeq(wire[s]))'
                BY <2>1, <4>1 DEF InSeq
            <4>8. QED
                BY <4>4, <4>5, <4>6, <4>7 DEF InItsPlace
        <3>6. stage[s] = "off" => InItsPlace(s, e)'
            BY <2>1 DEF InItsPlace
        <3>7. QED
            BY <2>1, <2>2, <3>4, <3>5, <3>6 DEF Tracked, OnItsWay, InSeq
    <2>5. QED
        BY <2>1, <2>3, <2>4
<1>10. CASE Restart
    <2>1. UNCHANGED <<log, cursor, seen, missed>> /\ stage'[s] = "off"
        BY <1>10 DEF Restart, logVars, agentVars
    <2>2. QED
        BY <1>3, <2>1, TrackedOff
<1>11. ASSUME NEW t \in Subscriber, Session(t) PROVE Tracked(s, e)'
    <2>1. UNCHANGED <<log, listener, notif>>
        BY <1>11 DEF Session, Connect, Yield, YieldReplay, YieldLive, Register, Disconnect, Receive, Apply, ReadFails,
                     ApplyAndCrash, logVars
    <2>2. missed[s] \subseteq missed'[s] /\ seen[s] \subseteq seen'[s]
        <3>1. CASE Connect(t)
            BY <1>2, <3>1 DEF Connect, agentVars
        <3>2. CASE Apply(t)
            BY <1>2, <3>2 DEF Apply
        <3>3. CASE ReadFails(t)
            BY <1>2, <3>3 DEF ReadFails, agentVars
        <3>4. CASE Yield(t) \/ Register(t) \/ Disconnect(t) \/ ApplyAndCrash(t)
            BY <3>4 DEF Yield, YieldReplay, YieldLive, Register, Disconnect, ApplyAndCrash, agentVars
        <3>5. QED
            BY <1>11, <3>1, <3>2, <3>3, <3>4 DEF Session, Receive
    <2>3. e \in Eligible(s) /\ Tracked(s, e)
        BY <1>3, <2>1, <2>2
    <2>4. CASE s = t
        BY <1>11, <2>3, <2>4, TrackSession
    <2>5. CASE s # t
        <3>1. /\ stage'[s] = stage[s] /\ replay'[s] = replay[s] /\ queue'[s] = queue[s]
              /\ wire'[s] = wire[s] /\ cursor'[s] = cursor[s]
            <4>1. CASE Connect(t) \/ Register(t) \/ Disconnect(t) \/ ApplyAndCrash(t)
                BY <1>1, <1>2, <2>5, <4>1 DEF Connect, Register, Disconnect, ApplyAndCrash, agentVars
            <4>2. CASE Yield(t)
                BY <1>1, <1>2, <2>5, <4>2 DEF Yield, YieldReplay, YieldLive, agentVars
            <4>3. CASE Receive(t)
                BY <1>1, <1>2, <2>5, <4>3 DEF Receive, Apply, ReadFails, agentVars
            <4>4. QED
                BY <1>11, <4>1, <4>2, <4>3 DEF Session
        <3>2. QED
            BY <2>1, <2>3, <3>1, TrackedSame
    <2>6. QED
        BY <2>4, <2>5
<1>12. QED
    BY <1>4, <1>5, <1>6, <1>7, <1>8, <1>9, <1>10, <1>11 DEF StreamNext

\* However streams break and the master restarts, an event is lost to an agent
\* only if it was committed after an event with a higher number, or if the
\* stream passed it over in one of the ways `missed` records.
THEOREM LossesAreExplained == StreamSpec => []LossIsAccountedFor
<1>1. StreamInit => TrackInv
    BY DEF StreamInit, LogInit, TrackInv, Eligible, Wanted, Committed
<1>2. StreamInv /\ TrackInv /\ [StreamNext]_streamVars => TrackInv'
    BY TrackSteps
<1>3. StreamInv /\ TrackInv => LossIsAccountedFor
    <2> SUFFICES ASSUME StreamInv, TrackInv, NEW s \in Subscriber, NEW e \in Wanted(s), Lost(s, e),
                        ~OutOfOrder(e), e.gv \notin missed[s]
                 PROVE  FALSE
        BY DEF LossIsAccountedFor
    <2>1. e \in Eligible(s)
        BY DEF Eligible, Lost
    <2>2. e.gv > cursor[s] /\ e.gv <= cursor[s]
        BY <2>1 DEF TrackInv, Tracked, Lost
    <2>3. e.gv \in Nat /\ cursor[s] \in Nat
        <3>1. drawn \in Nat /\ cursor[s] \in {0} \cup Numbers
            BY DEF StreamInv, LogOK, AgentsOK
        <3>2. QED
            BY <3>1, Distinct DEF StreamInv, Wanted
    <2>4. QED
        BY <2>2, <2>3
<1>4. QED
    BY <1>1, <1>2, <1>3, StreamIsSound, PTL DEF StreamSpec

-----------------------------------------------------------------------------
(* The feed keeps to EventLog.                                              *)

\* What EventStream does to the log is what EventLog allows, so that the feed
\* runs on every implementation of EventLog, PageStore among them.
THEOREM FeedKeepsToTheLog == StreamSpec => LogSpec
<1>1. StreamInit => LogInit
    BY DEF StreamInit
<1>2. [StreamNext]_streamVars => [LogNext]_logVars
    <2> SUFFICES ASSUME [StreamNext]_streamVars PROVE [LogNext]_logVars
        OBVIOUS
    <2>1. CASE StreamDraw \/ StreamDiscard \/ \E g \in open, l \in Label : Commit(g, l)
        BY <2>1 DEF StreamDraw, StreamDiscard, Commit, LogNext
    <2>2. CASE Attach \/ ListenerLost \/ Fanout \/ Beat \/ Restart \/ UNCHANGED streamVars
        BY <2>2 DEF Attach, ListenerLost, Fanout, Beat, Restart, streamVars
    <2>3. ASSUME NEW s \in Subscriber, Session(s) PROVE UNCHANGED logVars
        BY <2>3 DEF Session, Connect, Yield, YieldReplay, YieldLive, Register, Disconnect, Receive, Apply, ReadFails,
                    ApplyAndCrash
    <2>4. QED
        BY <2>1, <2>2, <2>3 DEF StreamNext
<1>3. QED
    BY <1>1, <1>2, PTL DEF StreamSpec, LogSpec

-----------------------------------------------------------------------------
(* What an agent has when nothing is on its way, and when writers take      *)
(* turns.                                                                   *)

\* The stream of s is open and idle, and so is the fan-out.
Quiet(s) ==
    /\ stage[s] = "live" /\ listener # "dead"
    /\ notif = <<>> /\ queue[s] = <<>> /\ wire[s] = <<>>

\* Neither committed after a higher number nor passed over by the stream of s.
Deliverable(s) == {e \in Wanted(s) : ~OutOfOrder(e) /\ e.gv \notin missed[s]}

\* Where nothing is on its way there is nothing left to come.
LEMMA QuietIsServed ==
    ASSUME StreamInv, TrackInv, NEW s \in Subscriber, Quiet(s), NEW e \in Deliverable(s) PROVE e.gv \in seen[s]
<1> SUFFICES ASSUME e.gv \notin seen[s] PROVE FALSE
    OBVIOUS
<1>1. e \in Eligible(s)
    BY DEF Deliverable, Eligible
<1>2. OnItsWay(s, e)
    BY <1>1 DEF TrackInv, Tracked
<1>3. replay[s] = {}
    BY DEF Quiet, StreamInv, SessionsOK, SessionOK
<1>4. Carried(s) = {} /\ InSeq(notif) = {}
    BY <1>3 DEF Carried, InSeq, Quiet
<1>5. QED
    BY <1>2, <1>4 DEF OnItsWay, Quiet

\* An agent with an idle stream has applied every event of its prefix that was
\* committed in order and that no named loss covers; where that event is the
\* last change of a page, the agent's file is the page as the master has it.
\* This is what LiveDelivery leads to, and the point of the catch-up query.
THEOREM QuietMeansDelivered ==
    StreamSpec => [](\A s \in Subscriber : Quiet(s) => \A e \in Deliverable(s) :
                        /\ e.gv \in seen[s]
                        /\ e.label \in Path /\ Current(e.label) = e.gv => mirror[s][e.label] = Current(e.label))
<1>1. StreamInit => TrackInv
    BY DEF StreamInit, LogInit, TrackInv, Eligible, Wanted, Committed
<1>2. StreamInv /\ TrackInv /\ [StreamNext]_streamVars => TrackInv'
    BY TrackSteps
<1>3. StreamInv /\ TrackInv /\ MirrorIsCurrent =>
        \A s \in Subscriber : Quiet(s) => \A e \in Deliverable(s) :
            /\ e.gv \in seen[s]
            /\ e.label \in Path /\ Current(e.label) = e.gv => mirror[s][e.label] = Current(e.label)
    BY QuietIsServed DEF MirrorIsCurrent
<1>4. QED
    BY <1>1, <1>2, <1>3, StreamIsSound, MirrorsAreCurrent, PTL DEF StreamSpec

\* The numbers of the log rise, and whoever still has one open will add above.
InTurn ==
    /\ \A i, j \in DOMAIN log : i < j => log[i].gv < log[j].gv
    /\ \A g \in open : \A i \in DOMAIN log : log[i].gv < g
    /\ \A g, h \in open : g = h

\* One transaction at a time keeps InTurn.
LEMMA TurnSteps == ASSUME MaxOpen = 1, LogOK, InTurn, [LogNext]_logVars, Draw => Cardinality(open) < MaxOpen PROVE InTurn'
<1>1. drawn \in Nat /\ open \subseteq 1 .. drawn /\ log \in Seq(EventRec) /\ DOMAIN log = 1 .. Len(log)
      /\ \A i \in 1 .. Len(log) : log[i].gv \in 1 .. drawn
    BY DEF LogOK
<1>2. CASE Draw
    <2>1. IsFiniteSet(open)
        <3>1. IsFiniteSet(1 .. drawn)
            BY <1>1, FS_Interval
        <3>2. QED
            BY <1>1, <3>1, FS_Subset
    <2>2. Cardinality(open) \in Nat /\ Cardinality(open) < 1
        BY <1>2, <2>1, FS_CardinalityType
    <2>3. open = {}
        BY <2>1, <2>2, FS_EmptySet
    <2>4. open' = {drawn + 1} /\ log' = log
        BY <1>2, <2>3 DEF Draw
    <2>5. QED
        BY <1>1, <2>4 DEF InTurn
<1>3. ASSUME NEW g \in open, Discard(g) PROVE InTurn'
    BY <1>3 DEF Discard, InTurn
<1>4. ASSUME NEW g \in open, NEW l \in Label, Publish(g, l) PROVE InTurn'
    <2>1. open' = {} /\ log' = Append(log, [gv |-> g, label |-> l])
        BY <1>4 DEF Publish, InTurn
    <2>2. DOMAIN log' = 1 .. Len(log) + 1 /\ Len(log) \in Nat /\ log'[Len(log) + 1].gv = g
          /\ \A i \in 1 .. Len(log) : log'[i] = log[i]
        BY <1>1, <2>1
    <2>3. \A i \in 1 .. Len(log) : log[i].gv < g
        BY <1>1 DEF InTurn
    <2>4. \A i, j \in DOMAIN log' : i < j => log'[i].gv < log'[j].gv
        BY <1>1, <2>2, <2>3 DEF InTurn
    <2>5. QED
        BY <2>1, <2>4 DEF InTurn
<1>5. CASE UNCHANGED logVars
    BY <1>5 DEF logVars, InTurn
<1>6. QED
    BY <1>2, <1>3, <1>4, <1>5 DEF LogNext

\* Were there one writing transaction at a time, no event would be committed
\* after a higher number, and every loss would be one the stream caused: the
\* overlap of transactions is the one loss no cursor can notice.
THEOREM TurnsKeepOrder ==
    ASSUME MaxOpen = 1
    PROVE  StreamSpec => [](\A s \in Subscriber : \A e \in Wanted(s) : Lost(s, e) => e.gv \in missed[s])
<1>1. StreamInit => InTurn
    BY DEF StreamInit, LogInit, InTurn
<1>2. StreamInv /\ InTurn /\ [StreamNext]_streamVars => InTurn'
    <2> SUFFICES ASSUME StreamInv, InTurn, [StreamNext]_streamVars PROVE InTurn'
        OBVIOUS
    <2>1. CASE StreamDraw
        <3>1. [LogNext]_logVars /\ Cardinality(open) < MaxOpen
            BY <2>1 DEF StreamDraw, LogNext
        <3>2. QED
            BY <3>1, TurnSteps DEF StreamInv
    <2>2. CASE StreamDiscard \/ \E g \in open, l \in Label : Commit(g, l)
        <3>1. LogNext /\ ~Draw
            <4>1. drawn' = drawn /\ LogNext
                BY <2>2 DEF StreamDiscard, Discard, Commit, Publish, LogNext
            <4>2. QED
                BY <4>1 DEF Draw, StreamInv, LogOK
        <3>2. QED
            BY <3>1, TurnSteps DEF StreamInv
    <2>3. CASE Attach \/ ListenerLost \/ Fanout \/ Beat \/ Restart \/ UNCHANGED streamVars
        BY <2>3 DEF Attach, ListenerLost, Fanout, Beat, Restart, streamVars, logVars, InTurn
    <2>4. ASSUME NEW s \in Subscriber, Session(s) PROVE InTurn'
        BY <2>4 DEF Session, Connect, Yield, YieldReplay, YieldLive, Register, Disconnect, Receive, Apply, ReadFails,
                    ApplyAndCrash, logVars, InTurn
    <2>5. QED
        BY <2>1, <2>2, <2>3, <2>4 DEF StreamNext
<1>3. StreamInv /\ InTurn /\ LossIsAccountedFor =>
        \A s \in Subscriber : \A e \in Wanted(s) : Lost(s, e) => e.gv \in missed[s]
    <2> SUFFICES ASSUME StreamInv, InTurn, LossIsAccountedFor, NEW s \in Subscriber, NEW e \in Wanted(s), Lost(s, e),
                        OutOfOrder(e)
                 PROVE  FALSE
        BY DEF LossIsAccountedFor
    <2>1. PICK i, j \in DOMAIN log : i < j /\ log[j] = e /\ log[i].gv > e.gv
        BY DEF OutOfOrder
    <2>2. log[i].gv < log[j].gv
        BY <2>1 DEF InTurn
    <2>3. log[i].gv \in Nat /\ log[j].gv \in Nat
        BY <2>1 DEF StreamInv, LogOK
    <2>4. QED
        BY <2>1, <2>2, <2>3
<1>4. QED
    BY <1>1, <1>2, <1>3, StreamIsSound, LossesAreExplained, PTL DEF StreamSpec

================================================================================
