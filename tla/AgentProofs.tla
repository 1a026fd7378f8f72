------------------------------ MODULE AgentProofs ------------------------------
(***************************************************************************)
(* Theorems about Agent for any number of edits, servers, flushes and      *)
(* crashes.                                                                *)
(***************************************************************************)
EXTENDS Agent, FiniteSetTheorems, TLAPS

Item == [content : Content, base : Nat]

Push == [state : {"none", "sent", "accepted", "conflict"}, content : Content, base : Nat, answer : Page]

\* What is durable, and what an agent that is down has not.
RestOK ==
    /\ page \in Page /\ made \subseteq Local \cup Remote /\ news \in Nat
    /\ file \in Content \cup {Nil} /\ cache \in 0 .. page.version
    /\ failed \subseteq Content /\ crashes \in 0 .. MaxCrashes
    /\ up \in BOOLEAN /\ notice \in BOOLEAN /\ suppressed \in BOOLEAN /\ timer \in BOOLEAN
    /\ notice \/ timer => file \in Content
    /\ reading \in Page \cup {Nil} /\ (reading # Nil => reading.version <= page.version)
    /\ sent \subseteq Local /\ settled \subseteq Local
    /\ origin \in {"edited", "written", "raced"}
    /\ ~up => ~notice /\ ~timer /\ reading = Nil /\ replay = <<>>

\* A call in flight is of an agent that runs.  An answer shows a page of the past
\* or present, and what was accepted is settled.
SlotOK(s) ==
    /\ push[s] \in Push
    /\ push[s].answer.version <= page.version
    /\ push[s].state = "accepted" => push[s].content \cap Local \subseteq settled
    /\ push[s].state = "none" => push[s] = NoPush
    /\ push[s].state # "none" => up

SlotsOK == push \in [Slot -> Push] /\ \A s \in Slot : SlotOK(s)

\* The replay works through the queue from its start.
ReplayOK ==
    /\ queue \in Seq(Item) /\ replay \in Seq(Item)
    /\ Len(replay) <= Len(queue) /\ \A i \in 1 .. Len(replay) : replay[i] = queue[i]
    /\ push["replay"].state # "none" =>
          replay # <<>> /\ push["replay"].content = replay[1].content /\ push["replay"].base = replay[1].base

AgentInv == RestOK /\ SlotsOK /\ ReplayOK

-----------------------------------------------------------------------------
(* Records.                                                                 *)

\* No call, as a call.
LEMMA NoPushType ==
    /\ NoPush \in Push /\ NoPush.state = "none" /\ NoPush.content = {}
    /\ NoPush.answer = NoPage /\ NoPage \in Page /\ NoPage.version = 0
BY DEF NoPush, NoPage, Push, Page, Content

\* A call that was just sent.
LEMMA CallType ==
    ASSUME NEW content \in Content, NEW base \in Nat
    PROVE  /\ Call(content, base) \in Push /\ Call(content, base).state = "sent"
           /\ Call(content, base).content = content /\ Call(content, base).base = base
           /\ Call(content, base).answer = NoPage
BY DEF NoPush, NoPage, Push, Page, Content, Call

\* The invariant implies the types the runs check.
LEMMA InvImpliesType == AgentInv => AgentTypeOK
<1> SUFFICES ASSUME AgentInv PROVE AgentTypeOK
    OBVIOUS
<1>1. IsPrefix(replay, queue)
    BY DEF AgentInv, ReplayOK, IsPrefix
<1>2. ~up => push = [s \in Slot |-> NoPush]
    BY DEF AgentInv, SlotsOK, SlotOK
<1>3. QED
    BY <1>1, <1>2 DEF AgentInv, RestOK, SlotsOK, ReplayOK, AgentTypeOK, Push, Item

-----------------------------------------------------------------------------
(* Types.                                                                   *)

\* A step that leaves the calls and what they answer alone.
LEMMA SlotsKept == ASSUME SlotsOK, UNCHANGED <<page, push, settled, up>> PROVE SlotsOK'
BY DEF SlotsOK, SlotOK

\* A step that leaves the queue and the replay alone.
LEMMA ReplayKept == ASSUME ReplayOK, UNCHANGED <<push, queue, replay>> PROVE ReplayOK'
BY DEF ReplayOK

\* A step that changes one call.
LEMMA SlotChanged ==
    ASSUME SlotsOK, NEW s \in Slot, NEW q \in Push, push' = [push EXCEPT ![s] = q], UNCHANGED up,
           page.version \in Nat, page'.version \in Nat, page.version <= page'.version, settled \subseteq settled',
           q.answer.version <= page'.version, q.state = "accepted" => q.content \cap Local \subseteq settled',
           q.state = "none" => q = NoPush, q.state # "none" => up
    PROVE  SlotsOK'
<1>1. push'[s] = q /\ \A r \in Slot \ {s} : push'[r] = push[r]
    BY DEF SlotsOK
<1>2. \A r \in Slot : push[r].answer.version \in Nat
    BY DEF SlotsOK, Push, Page
<1>3. SlotOK(s)'
    BY <1>1 DEF SlotOK
<1>4. ASSUME NEW r \in Slot \ {s} PROVE SlotOK(r)'
    BY <1>1, <1>2 DEF SlotOK, SlotsOK
<1>5. QED
    BY <1>1, <1>3, <1>4 DEF SlotsOK

\* Writing to the vault.
LEMMA OverwriteType ==
    ASSUME NEW content \in Content, Overwrite(content), RestOK
    PROVE  /\ file' \in Content \cup {Nil} /\ suppressed' \in BOOLEAN /\ notice' \in BOOLEAN
           /\ notice' \/ timer => file' \in Content
           /\ notice' => notice \/ file' # file
           /\ origin' \in {"edited", "written", "raced"}
BY DEF Overwrite, RestOK

\* An agent that has done nothing.
LEMMA InitInv == AgentInit => AgentInv
<1> SUFFICES ASSUME AgentInit PROVE AgentInv
    OBVIOUS
<1>1. RestOK
    <2>1. page \in Page /\ page.version = 0 /\ cache \in 0 .. page.version /\ crashes \in 0 .. MaxCrashes
        BY AgentAssumption, NoPushType DEF AgentInit
    <2>2. QED
        BY <2>1 DEF AgentInit, RestOK
<1>2. SlotsOK
    BY NoPushType DEF AgentInit, SlotsOK, SlotOK
<1>3. ReplayOK
    BY NoPushType DEF AgentInit, ReplayOK, Slot
<1>4. QED
    BY <1>1, <1>2, <1>3 DEF AgentInv

\* Every step keeps the invariant.
LEMMA NextInv == AgentInv /\ [AgentNext]_agentVars => AgentInv'
<1> SUFFICES ASSUME AgentInv, [AgentNext]_agentVars PROVE AgentInv'
    OBVIOUS
<1> USE DEF AgentInv
<1>1. ASSUME NEW e \in Local, LocalEdit(e) PROVE AgentInv'
    <2>1. RestOK'
        BY <1>1 DEF LocalEdit, RestOK, Content
    <2>2. QED
        BY <1>1, <2>1, SlotsKept, ReplayKept DEF LocalEdit
<1>2. ASSUME NEW r \in Remote, RemoteEdit(r) PROVE AgentInv'
    <2>1. page' \in Page /\ page'.version = page.version + 1 /\ page.version \in Nat
        BY <1>2 DEF RemoteEdit, RestOK, Page, Content
    <2>2. RestOK'
        <3>1. reading # Nil => reading.version \in Nat
            BY DEF RestOK, Page
        <3>2. QED
            BY <1>2, <2>1, <3>1 DEF RemoteEdit, RestOK, durable, volatile, history
    <2>3. SlotsOK'
        <3>1. \A s \in Slot : push[s].answer.version \in Nat
            BY DEF SlotsOK, Push, Page
        <3>2. QED
            BY <1>2, <2>1, <3>1 DEF RemoteEdit, SlotsOK, SlotOK, volatile, history
    <2>4. QED
        BY <1>2, <2>2, <2>3, ReplayKept DEF RemoteEdit, durable, volatile
<1>3. CASE Expire \/ OnChange
    <2>1. RestOK'
        <3>1. CASE Expire
            BY <3>1 DEF Expire, RestOK, durable, history
        <3>2. CASE OnChange
            <4>1. notice' = FALSE /\ timer' \in BOOLEAN /\ file \in Content /\ up
                BY <3>2 DEF OnChange, RestOK
            <4>2. UNCHANGED <<page, made, news, durable, crashes, up, suppressed, reading, replay, sent, settled, origin>>
                BY <3>2 DEF OnChange
            <4>3. QED
                BY <4>1, <4>2 DEF RestOK, durable
        <3>3. QED
            BY <1>3, <3>1, <3>2
    <2>2. QED
        BY <1>3, <2>1, SlotsKept, ReplayKept DEF Expire, OnChange, durable, history
<1>4. ASSUME NEW f \in Flushes, Flush(f) PROVE AgentInv'
    <2>1. file \in Content /\ cache \in Nat /\ up /\ page.version \in Nat
        BY <1>4 DEF Flush, RestOK, Page
    <2>2. RestOK'
        BY <1>4, <2>1 DEF Flush, Past, RestOK, durable
    <2> DEFINE q == Call(file, cache)
    <2>3. q \in Push /\ q.state = "sent" /\ q.answer.version = 0
        BY <2>1, CallType, NoPushType
    <2>4. push' = [push EXCEPT ![f] = q] /\ UNCHANGED <<page, up, settled, queue, replay>>
        BY <1>4 DEF Flush, durable
    <2> HIDE DEF q
    <2>5. SlotsOK'
        <3>1. f \in Slot /\ page'.version = page.version /\ settled \subseteq settled'
            BY <2>4 DEF Slot
        <3>2. /\ q.answer.version <= page'.version /\ page'.version \in Nat /\ page.version <= page'.version
              /\ q.state # "accepted" /\ q.state # "none"
            BY <2>1, <2>3, <3>1
        <3>3. QED
            BY <2>1, <2>3, <2>4, <3>1, <3>2, SlotChanged
    <2>6. push'["replay"] = push["replay"]
        BY <2>4, AgentAssumption DEF SlotsOK, Slot
    <2>7. ReplayOK'
        BY <2>4, <2>6 DEF ReplayOK
    <2>8. QED
        BY <2>2, <2>5, <2>7
<1>5. ASSUME NEW s \in Slot, Serve(s) PROVE AgentInv'
    <2> DEFINE state == IF push[s].base = page.version THEN "accepted" ELSE "conflict"
               q == [push[s] EXCEPT !.state = state, !.answer = page']
    <2>1. push[s] \in Push /\ push[s].state = "sent" /\ up /\ page.version \in Nat /\ page \in Page
        BY <1>5 DEF Serve, SlotsOK, SlotOK, RestOK, Page
    <2>2. push[s].base = page.version =>
              /\ page' = [version |-> page.version + 1, content |-> push[s].content, by |-> "agent"]
              /\ settled' = settled \cup (push[s].content \cap Local)
              /\ news' = news + 1
        BY <1>5 DEF Serve
    <2>3. push[s].base # page.version => UNCHANGED <<page, news, settled>>
        BY <1>5 DEF Serve
    <2>4. push' = [push EXCEPT ![s] = q]
        BY <1>5 DEF Serve
    <2>5. UNCHANGED <<made, durable, crashes, up, notice, suppressed, timer, replay, reading, sent, dropped, origin>>
        BY <1>5 DEF Serve
    <2>6. page' \in Page /\ page'.version \in Nat /\ page.version <= page'.version /\ news' \in Nat
        BY <2>1, <2>2, <2>3 DEF Page, Push, RestOK
    <2>7. /\ q \in Push /\ q.state = state /\ q.answer = page'
          /\ q.content = push[s].content /\ q.base = push[s].base
        <3>1. state \in {"accepted", "conflict"} /\ q = [push[s] EXCEPT !.state = state, !.answer = page']
            OBVIOUS
        <3> HIDE DEF state, q
        <3>2. q \in Push
            BY <2>1, <2>6, <3>1 DEF Push
        <3>3. q.state = state /\ q.answer = page' /\ q.content = push[s].content /\ q.base = push[s].base
            BY <2>1, <3>1 DEF Push
        <3>4. QED
            BY <3>2, <3>3
    <2>8. settled \subseteq settled' /\ settled' \subseteq Local /\ (state = "accepted" => q.content \cap Local \subseteq settled')
        BY <2>2, <2>3, <2>7 DEF RestOK
    <2>9. q.state # "none"
        BY <2>7
    <2> HIDE DEF q, state
    <2>10. RestOK'
        <3>1. reading # Nil => reading.version \in Nat
            BY DEF RestOK, Page
        <3>2. cache' \in 0 .. page'.version
            BY <2>1, <2>5, <2>6 DEF RestOK, durable
        <3>3. reading' # Nil => reading'.version <= page'.version
            BY <2>1, <2>5, <2>6, <3>1 DEF RestOK
        <3>4. QED
            BY <2>5, <2>6, <2>8, <3>2, <3>3 DEF RestOK, durable
    <2>11. SlotsOK'
        <3>1. /\ q.answer.version <= page'.version /\ up' = up /\ push[s] \in Push
              /\ (q.state = "accepted" => q.content \cap Local \subseteq settled')
            BY <2>1, <2>5, <2>6, <2>7, <2>8
        <3>2. QED
            BY <2>1, <2>4, <2>6, <2>7, <2>8, <2>9, <3>1, SlotChanged
    <2>12. ReplayOK'
        <3>1. \A r \in Slot : r # s => push'[r] = push[r]
            BY <2>4 DEF SlotsOK
        <3>2. push'[s].content = push[s].content /\ push'[s].base = push[s].base /\ push[s].state # "none"
            BY <2>1, <2>4, <2>7 DEF SlotsOK
        <3>3. push'["replay"].state # "none" => push["replay"].state # "none"
            BY <3>1, <3>2 DEF Slot
        <3>4. push'["replay"].content = push["replay"].content /\ push'["replay"].base = push["replay"].base
            BY <3>1, <3>2 DEF Slot
        <3>5. QED
            BY <2>5, <3>3, <3>4 DEF ReplayOK, durable
    <2>13. QED
        BY <2>10, <2>11, <2>12
<1>6. ASSUME NEW f \in Flushes, Accepted(f) \/ Refused(f) \/ Unanswered(f) PROVE AgentInv'
    <2>1. push' = [push EXCEPT ![f] = NoPush] /\ UNCHANGED <<page, up, replay, made, news, failed, crashes, timer, reading, sent>>
        BY <1>6 DEF Accepted, Refused, Unanswered, history
    <2>2. /\ f \in Slot /\ f # "replay" /\ push[f] \in Push /\ push[f].state # "none" /\ up
          /\ page.version \in Nat /\ push[f].answer \in Page /\ push[f].answer.version \in 0 .. page.version
        BY <1>6, AgentAssumption, NoPushType
        DEF Accepted, Refused, Unanswered, Slot, SlotsOK, SlotOK, RestOK, Page, Push
    <2>3. settled \subseteq settled' /\ settled' \subseteq Local
        BY <1>6 DEF Accepted, Refused, Unanswered, history, RestOK
    <2>4. SlotsOK'
        <3>1. /\ NoPush.answer.version <= page'.version /\ page'.version \in Nat /\ page.version <= page'.version
              /\ NoPush.state # "accepted" /\ NoPush.state = "none"
            BY <2>1, <2>2, NoPushType
        <3>2. QED
            BY <2>1, <2>2, <2>3, <3>1, NoPushType, SlotChanged
    <2>5. cache' \in 0 .. page.version
        BY <1>6, <2>2 DEF Accepted, Refused, Unanswered, RestOK
    <2>6. /\ file' \in Content \cup {Nil} /\ suppressed' \in BOOLEAN /\ notice' \in BOOLEAN
          /\ notice' \/ timer => file' \in Content
          /\ origin' \in {"edited", "written", "raced"}
        <3>1. CASE Refused(f)
            <4>1. push[f].answer.content \in Content
                BY <2>2 DEF Page
            <4>2. QED
                BY <3>1, <4>1, OverwriteType DEF Refused
        <3>2. CASE Accepted(f) \/ Unanswered(f)
            BY <3>2 DEF Accepted, Unanswered, history, RestOK
        <3>3. QED
            BY <1>6, <3>1, <3>2
    <2>7. RestOK'
        BY <2>1, <2>2, <2>3, <2>5, <2>6 DEF RestOK
    <2>8. ReplayOK'
        <3>1. push'["replay"] = push["replay"]
            BY <2>1, <2>2 DEF SlotsOK, Slot
        <3>2. CASE UNCHANGED queue
            BY <2>1, <3>1, <3>2 DEF ReplayOK
        <3>3. CASE queue' = Enqueue(push[f])
            <4> DEFINE item == [content |-> push[f].content, base |-> push[f].base]
            <4>1. item \in Item
                BY <2>2 DEF Item, Push
            <4>2. queue' = Append(queue, item)
                BY <3>3 DEF Enqueue
            <4> HIDE DEF item
            <4>3. /\ queue' \in Seq(Item) /\ Len(queue) <= Len(queue')
                  /\ \A i \in 1 .. Len(queue) : queue'[i] = queue[i]
                BY <4>1, <4>2 DEF ReplayOK
            <4>4. Len(replay) <= Len(queue') /\ \A i \in 1 .. Len(replay) : replay[i] = queue'[i]
                <5>1. Len(replay) \in Nat /\ Len(queue) \in Nat /\ Len(queue') \in Nat
                    BY <4>3 DEF ReplayOK
                <5>2. QED
                    BY <4>3, <5>1 DEF ReplayOK
            <4>5. replay' = replay
                BY <2>1
            <4>6. QED
                BY <3>1, <4>3, <4>4, <4>5 DEF ReplayOK
        <3>4. QED
            BY <1>6, <3>2, <3>3 DEF Accepted, Refused, Unanswered
    <2>9. QED
        BY <2>4, <2>7, <2>8
<1>7. CASE ReplaySend
    <2> DEFINE q == Call(Head(replay).content, Head(replay).base)
    <2>1. replay \in Seq(Item) /\ replay # <<>> /\ Head(replay) \in Item /\ Head(replay) = replay[1] /\ up
        BY <1>7 DEF ReplaySend, ReplayOK, RestOK
    <2>2. /\ q \in Push /\ q.state = "sent" /\ q.answer.version = 0
          /\ q.content = replay[1].content /\ q.base = replay[1].base
        <3>1. Head(replay).content \in Content /\ Head(replay).base \in Nat
            BY <2>1 DEF Item
        <3>2. QED
            BY <2>1, <3>1, CallType, NoPushType
    <2>3. push' = [push EXCEPT !["replay"] = q] /\ UNCHANGED <<page, up, settled, queue, replay>>
        BY <1>7 DEF ReplaySend, durable, history
    <2> HIDE DEF q
    <2>4. RestOK'
        BY <1>7 DEF ReplaySend, durable, history, RestOK
    <2>5. SlotsOK'
        <3>1. "replay" \in Slot /\ page.version \in Nat /\ page'.version = page.version /\ settled \subseteq settled'
            BY <2>3 DEF Slot, RestOK, Page
        <3>2. /\ q.answer.version <= page'.version /\ page'.version \in Nat /\ page.version <= page'.version
              /\ q.state # "accepted" /\ q.state # "none"
            BY <2>2, <3>1
        <3>3. QED
            BY <2>1, <2>2, <2>3, <3>1, <3>2, SlotChanged
    <2>6. ReplayOK'
        <3>1. push'["replay"] = q
            BY <2>3 DEF SlotsOK, Slot
        <3>2. QED
            BY <2>1, <2>2, <2>3, <3>1 DEF ReplayOK
    <2>7. QED
        BY <2>4, <2>5, <2>6
<1>8. CASE ReplayAccepted \/ ReplayRefused \/ ReplayStops
    <2>1. /\ push' = [push EXCEPT !["replay"] = NoPush]
          /\ UNCHANGED <<page, up, settled, made, news, crashes, timer, reading, sent>>
        BY <1>8 DEF ReplayAccepted, ReplayRefused, ReplayStops, history, durable
    <2>2. /\ push["replay"] \in Push /\ push["replay"].state # "none" /\ up /\ replay # <<>>
          /\ page.version \in Nat /\ push["replay"].answer \in Page
          /\ push["replay"].answer.version \in 0 .. page.version
        BY <1>8, NoPushType
        DEF ReplayAccepted, ReplayRefused, ReplayStops, Slot, SlotsOK, SlotOK, ReplayOK, RestOK, Page, Push
    <2>3. push'["replay"] = NoPush /\ "replay" \in Slot
        BY <2>1 DEF SlotsOK, Slot
    <2>4. SlotsOK'
        <3>1. /\ NoPush.answer.version <= page'.version /\ page'.version \in Nat /\ page.version <= page'.version
              /\ NoPush.state # "accepted" /\ NoPush.state = "none" /\ settled \subseteq settled'
            BY <2>1, <2>2, NoPushType
        <3>2. QED
            BY <2>1, <2>2, <2>3, <3>1, NoPushType, SlotChanged
    <2>5. cache' \in 0 .. page.version /\ failed' \subseteq Content
        <3>1. push["replay"].content \in Content
            BY <2>2 DEF Push
        <3>2. QED
            BY <1>8, <2>2, <3>1 DEF ReplayAccepted, ReplayRefused, ReplayStops, durable, RestOK
    <2>6. /\ file' \in Content \cup {Nil} /\ suppressed' \in BOOLEAN /\ notice' \in BOOLEAN
          /\ notice' \/ timer => file' \in Content
          /\ origin' \in {"edited", "written", "raced"}
        <3>1. CASE ReplayRefused
            <4>1. push["replay"].answer.content \in Content
                BY <2>2 DEF Page
            <4>2. QED
                BY <3>1, <4>1, OverwriteType DEF ReplayRefused
        <3>2. CASE ReplayAccepted \/ ReplayStops
            BY <3>2 DEF ReplayAccepted, ReplayStops, durable, history, RestOK
        <3>3. QED
            BY <1>8, <3>1, <3>2
    <2>7. RestOK'
        BY <2>1, <2>2, <2>5, <2>6 DEF RestOK
    <2>8. ReplayOK'
        <3>1. NoPush.state = "none"
            BY NoPushType
        <3>2. CASE replay' = <<>> /\ queue' = queue
            BY <2>3, <3>1, <3>2 DEF ReplayOK
        <3>3. CASE replay' = Tail(replay) /\ queue' = Tail(queue)
            <4>1. /\ replay \in Seq(Item) /\ queue \in Seq(Item) /\ Len(replay) <= Len(queue)
                  /\ replay # <<>> /\ queue # <<>> /\ \A i \in 1 .. Len(replay) : replay[i] = queue[i]
                BY <2>2 DEF ReplayOK
            <4>2. /\ replay' \in Seq(Item) /\ Len(replay') = Len(replay) - 1
                  /\ \A i \in 1 .. Len(replay') : replay'[i] = replay[i + 1]
                BY <3>3, <4>1
            <4>3. /\ queue' \in Seq(Item) /\ Len(queue') = Len(queue) - 1
                  /\ \A i \in 1 .. Len(queue') : queue'[i] = queue[i + 1]
                BY <3>3, <4>1
            <4>4. Len(replay') <= Len(queue') /\ \A i \in 1 .. Len(replay') : replay'[i] = queue'[i]
                BY <4>1, <4>2, <4>3
            <4>5. QED
                BY <2>3, <3>1, <4>2, <4>3, <4>4 DEF ReplayOK
        <3>4. QED
            BY <1>8, <3>2, <3>3 DEF ReplayAccepted, ReplayRefused, ReplayStops, Dequeue, durable
    <2>9. QED
        BY <2>4, <2>7, <2>8
<1>9. CASE Read
    <2>1. RestOK'
        BY <1>9 DEF Read, durable, history, RestOK, Page
    <2>2. QED
        BY <1>9, <2>1, SlotsKept, ReplayKept DEF Read, durable, history
<1>10. CASE ApplyRead
    <2>1. /\ reading \in Page /\ reading.version \in 0 .. page.version /\ reading.content \in Content
          /\ up /\ reading' = Nil /\ cache' = reading.version
          /\ UNCHANGED <<page, made, news, queue, failed, crashes, up, timer, push, replay, sent, settled>>
        BY <1>10 DEF ApplyRead, RestOK, Page
    <2>2. /\ file' \in Content \cup {Nil} /\ suppressed' \in BOOLEAN /\ notice' \in BOOLEAN
          /\ notice' \/ timer => file' \in Content
          /\ origin' \in {"edited", "written", "raced"}
        BY <1>10, <2>1, OverwriteType DEF ApplyRead
    <2>3. RestOK'
        BY <2>1, <2>2 DEF RestOK
    <2>4. QED
        BY <2>1, <2>3, SlotsKept, ReplayKept
<1>11. CASE Crash
    <2>1. RestOK'
        <3>1. news' \in Nat /\ crashes' \in 0 .. MaxCrashes
            BY <1>11, AgentAssumption DEF Crash, RestOK
        <3>2. settled' \subseteq Local
            BY <1>11 DEF Crash, RestOK
        <3>3. /\ up' = FALSE /\ notice' = FALSE /\ suppressed' = FALSE /\ timer' = FALSE
              /\ replay' = <<>> /\ reading' = Nil
              /\ UNCHANGED <<page, made, file, cache, failed, sent>>
              /\ origin' \in {"edited", "written", "raced"}
            BY <1>11 DEF Crash, Past, durable, RestOK
        <3>4. QED
            BY <3>1, <3>2, <3>3 DEF RestOK
    <2>2. \A s \in Slot : push'[s] = NoPush
        BY <1>11 DEF Crash
    <2>3. SlotsOK'
        <3>1. page.version \in Nat /\ page' = page /\ push' = [s \in Slot |-> NoPush]
            BY <1>11 DEF Crash, RestOK, Page
        <3>2. QED
            BY <2>2, <3>1, NoPushType DEF SlotsOK, SlotOK
    <2>4. ReplayOK'
        BY <1>11, <2>2, NoPushType DEF Crash, durable, ReplayOK, Slot
    <2>5. QED
        BY <2>1, <2>3, <2>4
<1>12. CASE Restart
    <2>1. RestOK'
        BY <1>12 DEF Restart, durable, history, RestOK
    <2>2. push["replay"].state = "none"
        BY <1>12 DEF Restart, SlotsOK, SlotOK, Slot
    <2>3. SlotsOK'
        BY <1>12 DEF Restart, SlotsOK, SlotOK, history
    <2>4. ReplayOK'
        BY <1>12, <2>2 DEF Restart, durable, ReplayOK
    <2>5. QED
        BY <2>1, <2>3, <2>4
<1>13. CASE UNCHANGED agentVars
    <2>1. RestOK'
        BY <1>13 DEF agentVars, durable, volatile, history, RestOK
    <2>2. QED
        BY <1>13, <2>1, SlotsKept, ReplayKept DEF agentVars, durable, volatile, history
<1>14. CASE FlushSkipped
    <2>1. RestOK'
        BY <1>14 DEF FlushSkipped, Past, RestOK, durable
    <2>2. QED
        BY <1>14, <2>1, SlotsKept, ReplayKept DEF FlushSkipped, durable
<1>15. QED
    BY <1>1, <1>2, <1>3, <1>4, <1>5, <1>6, <1>7, <1>8, <1>9, <1>10, <1>11, <1>12, <1>13, <1>14 DEF AgentNext

\* The invariant always holds.
LEMMA AgentAlways == AgentSpec => []AgentInv
BY InitInv, NextInv, PTL DEF AgentSpec

(***************************************************************************)
(* Type correctness, with the cached version never ahead of the master's,  *)
(* an agent that is down holding no call, and the replay at the start of   *)
(* the queue.                                                              *)
(***************************************************************************)
THEOREM AgentTypeCorrect == AgentSpec => []AgentTypeOK
BY AgentAlways, InvImpliesType, PTL

-----------------------------------------------------------------------------
(* What was sent.                                                           *)

\* Nothing is lost where the calls and the queue only lose what is settled.
LEMMA KeptStays ==
    ASSUME AgentInv, SentIsKept, UNCHANGED sent, settled \subseteq settled',
           \A f \in Flushes : push'[f].content = push[f].content \/ push[f].content \cap Local \subseteq settled',
           \A i \in DOMAIN queue : \/ \E j \in DOMAIN queue' : queue'[j] = queue[i]
                                  \/ queue[i].content \cap Local \subseteq settled'
                                  \/ queue[i].content \in failed',
           failed \subseteq failed'
    PROVE  SentIsKept'
<1>1. sent \subseteq Local
    BY DEF AgentInv, RestOK
<1>2. ASSUME NEW e \in sent \ settled'
      PROVE  \/ \E f \in Flushes : e \in push'[f].content
             \/ \E i \in DOMAIN queue' : e \in queue'[i].content
             \/ \E c \in failed' : e \in c
    BY <1>1, <1>2 DEF SentIsKept
<1>3. QED
    BY <1>2 DEF SentIsKept

\* Every step keeps SentIsKept.
LEMMA NextSent == AgentInv /\ SentIsKept /\ [AgentNext]_agentVars => SentIsKept'
<1> SUFFICES ASSUME AgentInv, SentIsKept, [AgentNext]_agentVars PROVE SentIsKept'
    OBVIOUS
<1>1. ASSUME UNCHANGED <<push, queue, failed, sent, settled>> PROVE SentIsKept'
    BY <1>1 DEF SentIsKept
<1>2. ASSUME NEW f \in Flushes, Flush(f) PROVE SentIsKept'
    <2>1. file \in Content /\ cache \in Nat /\ push[f].content = {} /\ f \in Slot
        BY <1>2, NoPushType DEF Flush, AgentInv, RestOK, Page, Slot
    <2>2. push'[f].content = file /\ \A g \in Flushes \ {f} : push'[g] = push[g]
        BY <1>2, <2>1, CallType DEF Flush, AgentInv, SlotsOK, Slot
    <2>3. sent' = sent \cup (file \cap Local) /\ UNCHANGED <<queue, failed, settled>>
        BY <1>2 DEF Flush, durable
    <2>4. ASSUME NEW e \in sent' \ settled'
          PROVE  \/ \E g \in Flushes : e \in push'[g].content
                 \/ \E i \in DOMAIN queue' : e \in queue'[i].content
                 \/ \E c \in failed' : e \in c
        <3>1. CASE e \in file
            BY <2>2, <3>1
        <3>2. CASE e \in sent \ settled
            BY <2>1, <2>2, <2>3, <3>2 DEF SentIsKept
        <3>3. QED
            BY <2>3, <2>4, <3>1, <3>2
    <2>5. QED
        BY <2>4 DEF SentIsKept
<1>3. ASSUME NEW s \in Slot, Serve(s) PROVE SentIsKept'
    <2>1. \A r \in Slot : push'[r].content = push[r].content
        <3>1. push[s] \in Push /\ push \in [Slot -> Push]
            BY DEF AgentInv, SlotsOK
        <3>2. PICK state, answer : push' = [push EXCEPT ![s] = [push[s] EXCEPT !.state = state, !.answer = answer]]
            BY <1>3 DEF Serve
        <3>3. QED
            BY <3>1, <3>2 DEF Push
    <2>2. UNCHANGED <<sent, queue, failed>> /\ settled \subseteq settled'
        BY <1>3 DEF Serve, durable
    <2>3. QED
        BY <2>1, <2>2, KeptStays DEF Slot
<1>4. ASSUME NEW f \in Flushes, Accepted(f) \/ Refused(f) PROVE SentIsKept'
    <2>1. push' = [push EXCEPT ![f] = NoPush] /\ UNCHANGED <<sent, queue, failed>>
        BY <1>4 DEF Accepted, Refused, history
    <2>2. settled \subseteq settled' /\ push[f].content \cap Local \subseteq settled'
        BY <1>4 DEF Accepted, Refused, history, AgentInv, SlotsOK, SlotOK, Slot
    <2>3. \A g \in Flushes : g # f => push'[g] = push[g]
        BY <2>1 DEF AgentInv, SlotsOK, Slot
    <2>4. QED
        BY <2>1, <2>2, <2>3, KeptStays
<1>5. ASSUME NEW f \in Flushes, Unanswered(f) PROVE SentIsKept'
    <2> DEFINE item == [content |-> push[f].content, base |-> push[f].base]
    <2>1. item \in Item /\ item.content = push[f].content
        BY DEF Item, Push, AgentInv, SlotsOK, Slot
    <2>2. queue' = Append(queue, item) /\ push' = [push EXCEPT ![f] = NoPush] /\ UNCHANGED <<sent, settled, failed>>
        BY <1>5 DEF Unanswered, Enqueue, history
    <2> HIDE DEF item
    <2>3. /\ \A i \in DOMAIN queue : i \in DOMAIN queue' /\ queue'[i] = queue[i]
          /\ \E i \in DOMAIN queue' : queue'[i] = item
        <3>1. queue \in Seq(Item)
            BY DEF AgentInv, ReplayOK
        <3>2. Len(queue') = Len(queue) + 1 /\ DOMAIN queue = 1 .. Len(queue) /\ DOMAIN queue' = 1 .. Len(queue')
              /\ Len(queue) \in Nat
            BY <2>1, <2>2, <3>1
        <3>3. queue'[Len(queue')] = item /\ Len(queue') \in DOMAIN queue'
            BY <2>1, <2>2, <3>1, <3>2
        <3>4. \A i \in DOMAIN queue : i \in DOMAIN queue' /\ queue'[i] = queue[i]
            BY <2>1, <2>2, <3>1, <3>2
        <3>5. QED
            BY <3>3, <3>4
    <2>4. \A g \in Flushes : g # f => push'[g] = push[g]
        BY <2>2 DEF AgentInv, SlotsOK, Slot
    <2>5. QED
        BY <2>1, <2>2, <2>3, <2>4 DEF SentIsKept
<1>6. CASE ReplaySend \/ ReplayStops
    <2>1. \A f \in Flushes : push'[f] = push[f]
        BY <1>6, AgentAssumption DEF ReplaySend, ReplayStops, AgentInv, SlotsOK, Slot
    <2>2. UNCHANGED <<queue, failed, sent, settled>>
        BY <1>6 DEF ReplaySend, ReplayStops, durable, history
    <2>3. QED
        BY <2>1, <2>2 DEF SentIsKept
<1>7. CASE ReplayAccepted \/ ReplayRefused
    <2>1. \A f \in Flushes : push'[f] = push[f]
        BY <1>7, AgentAssumption DEF ReplayAccepted, ReplayRefused, AgentInv, SlotsOK, Slot
    <2>2. queue' = Tail(queue) /\ UNCHANGED <<sent, settled>> /\ failed \subseteq failed'
        BY <1>7 DEF ReplayAccepted, ReplayRefused, Dequeue, history
    <2>3. /\ push["replay"].state \in {"accepted", "conflict"} /\ queue \in Seq(Item) /\ queue # <<>>
          /\ push["replay"].content = queue[1].content
        <3>1. push["replay"].state \in {"accepted", "conflict"}
            BY <1>7 DEF ReplayAccepted, ReplayRefused
        <3>2. /\ replay # <<>> /\ push["replay"].content = replay[1].content
              /\ replay \in Seq(Item) /\ queue \in Seq(Item)
              /\ Len(replay) <= Len(queue) /\ \A i \in 1 .. Len(replay) : replay[i] = queue[i]
            BY <3>1 DEF AgentInv, ReplayOK
        <3>3. QED
            BY <3>1, <3>2
    <2>4. queue[1].content \cap Local \subseteq settled' \/ queue[1].content \in failed'
        <3>1. push["replay"].state = "accepted" => queue[1].content \cap Local \subseteq settled
            BY <2>3 DEF AgentInv, SlotsOK, SlotOK, Slot
        <3>2. QED
            BY <1>7, <2>2, <2>3, <3>1 DEF ReplayAccepted, ReplayRefused
    <2>5. ASSUME NEW i \in DOMAIN queue, i # 1 PROVE \E j \in DOMAIN queue' : queue'[j] = queue[i]
        <3>1. DOMAIN queue = 1 .. Len(queue) /\ Len(queue) \in Nat
            BY <2>3
        <3>2. /\ Len(queue') = Len(queue) - 1 /\ DOMAIN queue' = 1 .. Len(queue')
              /\ \A j \in 1 .. Len(queue') : queue'[j] = queue[j + 1]
            BY <2>2, <2>3
        <3>3. i - 1 \in DOMAIN queue' /\ queue'[i - 1] = queue[i]
            BY <2>5, <3>1, <3>2
        <3>4. QED
            BY <3>3
    <2>6. QED
        BY <2>1, <2>2, <2>4, <2>5, KeptStays
<1>8. CASE Crash
    <2>1. \A f \in Flushes : push[f].content \cap Local \subseteq settled'
        BY <1>8 DEF Crash
    <2>2. UNCHANGED <<sent, queue, failed>> /\ settled \subseteq settled'
        BY <1>8 DEF Crash, durable
    <2>3. QED
        BY <2>1, <2>2, KeptStays
<1>9. QED
    BY <1>1, <1>2, <1>3, <1>4, <1>5, <1>6, <1>7, <1>8
    DEF AgentNext, LocalEdit, RemoteEdit, OnChange, FlushSkipped, Expire, Read, ApplyRead, Restart, agentVars, durable,
        volatile, history

(***************************************************************************)
(* A local edit that was part of a call is nowhere lost without a trace,   *)
(* whatever answers are lost and whenever the agent stops                  *)
(* (_send_or_queue and _replay_queue of watcher.py, queue.py).             *)
(***************************************************************************)
THEOREM SentNotLost == AgentSpec => []SentIsKept
<1>1. AgentInit => SentIsKept
    BY DEF AgentInit, SentIsKept
<1>2. QED
    BY <1>1, AgentAlways, NextSent, PTL DEF AgentSpec

-----------------------------------------------------------------------------
(* What was not sent.                                                       *)

\* Writing to the vault keeps an edit in the file, or it is dropped.
LEMMA PendingOverwritten ==
    ASSUME AgentInv, UnsentIsPending, NEW content \in Content, Overwrite(content), UNCHANGED <<made, sent, timer>>
    PROVE  UnsentIsPending'
<1>1. file # Nil \/ (~notice /\ ~timer)
    BY AgentAssumption DEF AgentInv, RestOK, Content
<1>2. ASSUME NEW e \in (made \cap Local) \ (sent \cup dropped'), file # content PROVE e \in content
    <2>1. e \in file /\ (notice \/ timer)
        BY <1>2 DEF UnsentIsPending, Overwrite
    <2>2. e \in Unsent
        BY <1>1, <1>2, <2>1 DEF Unsent
    <2>3. QED
        BY <1>2, <2>2 DEF Overwrite
<1>3. QED
    BY <1>2 DEF UnsentIsPending, Overwrite

\* Every step keeps UnsentIsPending.
LEMMA NextUnsent == AgentInv /\ UnsentIsPending /\ [AgentNext]_agentVars => UnsentIsPending'
<1> SUFFICES ASSUME AgentInv, UnsentIsPending, [AgentNext]_agentVars PROVE UnsentIsPending'
    OBVIOUS
<1>1. file # Nil \/ (~notice /\ ~timer)
    BY AgentAssumption DEF AgentInv, RestOK, Content
<1>2. ASSUME NEW e \in Local, LocalEdit(e) PROVE UnsentIsPending'
    <2>1. /\ made' = made \cup {e} /\ file' = (IF file = Nil THEN {} ELSE file) \cup {e}
          /\ notice' = up /\ dropped' = (IF up THEN dropped ELSE dropped \cup {e})
          /\ UNCHANGED <<sent, timer>>
        BY <1>2 DEF LocalEdit
    <2>2. ~up => ~notice /\ ~timer
        BY DEF AgentInv, RestOK
    <2>3. QED
        BY <1>1, <2>1, <2>2 DEF UnsentIsPending
<1>3. ASSUME NEW r \in Remote, RemoteEdit(r) PROVE UnsentIsPending'
    BY <1>3, AgentAssumption DEF RemoteEdit, durable, volatile, history, UnsentIsPending
<1>4. CASE OnChange
    <2>1. /\ notice' = FALSE /\ (timer' <=> timer \/ ~suppressed)
          /\ dropped' = (IF suppressed /\ ~timer THEN dropped \cup Unsent ELSE dropped)
          /\ UNCHANGED <<made, file, sent>>
        BY <1>4 DEF OnChange, durable
    <2>2. notice
        BY <1>4 DEF OnChange
    <2>3. ASSUME NEW e \in (made \cap Local) \ (sent \cup dropped') PROVE e \in file /\ timer'
        <3>1. e \in file
            BY <2>1, <2>3 DEF UnsentIsPending
        <3>2. e \in Unsent
            BY <1>1, <2>2, <2>3, <3>1 DEF Unsent
        <3>3. QED
            BY <2>1, <2>3, <3>1, <3>2
    <2>4. QED
        BY <2>1, <2>3 DEF UnsentIsPending
<1>5. ASSUME NEW f \in Flushes, Flush(f) PROVE UnsentIsPending'
    BY <1>5 DEF Flush, durable, UnsentIsPending
<1>6. ASSUME NEW f \in Flushes, Refused(f) PROVE UnsentIsPending'
    <2>1. push[f].answer.content \in Content
        BY DEF AgentInv, SlotsOK, Slot, Push, Page
    <2>2. QED
        BY <1>6, <2>1, PendingOverwritten DEF Refused
<1>7. CASE ReplayRefused
    <2>1. push["replay"].answer.content \in Content
        BY DEF AgentInv, SlotsOK, Slot, Push, Page
    <2>2. QED
        BY <1>7, <2>1, PendingOverwritten DEF ReplayRefused
<1>8. CASE ApplyRead
    <2>1. reading.content \in Content
        BY <1>8 DEF ApplyRead, AgentInv, RestOK, Page
    <2>2. QED
        BY <1>8, <2>1, PendingOverwritten DEF ApplyRead
<1>9. CASE Crash
    <2>1. dropped' = dropped \cup Unsent /\ UNCHANGED <<made, sent>>
        BY <1>9 DEF Crash
    <2>2. ASSUME NEW e \in (made \cap Local) \ (sent \cup dropped) PROVE e \in Unsent
        BY <1>1 DEF UnsentIsPending, Unsent
    <2>3. QED
        BY <2>1, <2>2 DEF UnsentIsPending
<1>10. ASSUME UNCHANGED <<made, file, notice, timer, sent, dropped>> PROVE UnsentIsPending'
    BY <1>10 DEF UnsentIsPending
<1>11. CASE FlushSkipped
    <2>1. timer /\ UNCHANGED <<made, file, sent, notice>>
        BY <1>11 DEF FlushSkipped, durable
    <2>2. CASE notice
        BY <1>11, <2>1, <2>2 DEF FlushSkipped, UnsentIsPending
    <2>3. CASE ~notice
        <3>1. dropped' = dropped \cup Unsent
            BY <1>11, <2>3 DEF FlushSkipped
        <3>2. ASSUME NEW e \in (made \cap Local) \ (sent \cup dropped) PROVE e \in Unsent
            BY <1>1, <2>1 DEF UnsentIsPending, Unsent
        <3>3. QED
            BY <2>1, <3>1, <3>2 DEF UnsentIsPending
    <2>4. QED
        BY <2>2, <2>3
<1>12. QED
    BY <1>2, <1>3, <1>4, <1>5, <1>6, <1>7, <1>8, <1>9, <1>10, <1>11
    DEF AgentNext, Expire, Serve, Accepted, Unanswered, ReplaySend, ReplayAccepted, ReplayStops, Read, Restart,
        agentVars, durable, volatile, history

(***************************************************************************)
(* A local edit that no call has carried waits in the file for a flush, or *)
(* was dropped in one of the four ways the model notes: overwritten before *)
(* its debounce ran out, taken for an echo, not readable when the timer    *)
(* ran out, made or left while the agent was down (_on_change, _flush and  *)
(* _replace_local of watcher.py, _write_to_mirror of sync.py).             *)
(***************************************************************************)
THEOREM UnsentNotForgotten == AgentSpec => []UnsentIsPending
<1>1. AgentInit => UnsentIsPending
    BY DEF AgentInit, UnsentIsPending
<1>2. QED
    BY <1>1, AgentAlways, NextUnsent, PTL DEF AgentSpec

-----------------------------------------------------------------------------
(* The versions of calls and answers.                                       *)

\* A page that was seen is the current one, or an older version.
Recent(p) == p.version = page.version => p = page

\* A call was made from the current version or an older one; once it is answered,
\* from an older one.
CallBases(s) ==
    /\ push[s].base <= page.version
    /\ push[s].state \in {"accepted", "conflict"} => push[s].base < page.version /\ Recent(push[s].answer)
    /\ push[s].state = "accepted" => push[s].answer.by = "agent"

BasesInv ==
    /\ \A s \in Slot : CallBases(s)
    /\ \A i \in DOMAIN queue : queue[i].base <= page.version
    /\ reading # Nil => Recent(reading)

\* A call is what it was, gone, sent, or served.
CallStep(s) ==
    \/ push'[s] = push[s]
    \/ push'[s] = NoPush
    \/ /\ push'[s].state = "sent"
       /\ push'[s].base <= page.version
    \/ /\ push'[s].base < page'.version
       /\ push'[s].answer = page'
       /\ push'[s].state = "accepted" => page'.by = "agent"

\* The page is what it was, or has a new version.
LEMMA BasesStep ==
    ASSUME AgentInv, AgentInv', BasesInv, page' = page \/ page'.version = page.version + 1,
           \A s \in Slot : CallStep(s),
           \A i \in DOMAIN queue' : queue'[i].base <= page.version,
           reading' = Nil \/ reading' = reading \/ (reading' = page /\ page' = page)
    PROVE  BasesInv'
<1>1. /\ page.version \in Nat /\ page'.version \in Nat /\ page.version <= page'.version
      /\ NoPush.base = 0 /\ NoPush.state = "none"
    BY DEF AgentInv, RestOK, Page, NoPush
<1>2. \A s \in Slot : /\ push[s].answer.version \in Nat /\ push[s].answer.version <= page.version
                     /\ push[s].base \in Nat /\ push'[s].base \in Nat
    BY DEF AgentInv, SlotsOK, SlotOK, Push, Page
<1>3. \A i \in DOMAIN queue' : queue'[i].base \in Nat
    <2>1. queue' \in Seq(Item)
        BY DEF AgentInv, ReplayOK
    <2>2. \A i \in DOMAIN queue' : queue'[i] \in Item
        BY <2>1
    <2>3. QED
        BY <2>2 DEF Item
<1>4. reading # Nil => reading.version \in Nat /\ reading.version <= page.version
    BY DEF AgentInv, RestOK, Page
<1>5. ASSUME NEW s \in Slot PROVE CallBases(s)'
    <2>1. CASE push'[s] = push[s]
        BY <1>1, <1>2, <2>1 DEF BasesInv, CallBases, Recent
    <2>2. CASE push'[s] = NoPush
        BY <1>1, <2>2 DEF CallBases
    <2>3. CASE push'[s].state = "sent" /\ push'[s].base <= page.version
        BY <1>1, <1>2, <2>3 DEF CallBases
    <2>4. CASE /\ push'[s].base < page'.version
               /\ push'[s].answer = page'
               /\ push'[s].state = "accepted" => page'.by = "agent"
        BY <1>1, <1>2, <2>4 DEF CallBases, Recent
    <2>5. QED
        BY <2>1, <2>2, <2>3, <2>4 DEF CallStep
<1>6. \A i \in DOMAIN queue' : queue'[i].base <= page'.version
    BY <1>1, <1>3
<1>7. reading' # Nil => Recent(reading)'
    BY <1>1, <1>4 DEF BasesInv, Recent
<1>8. QED
    BY <1>5, <1>6, <1>7 DEF BasesInv

\* Every step keeps the bounds on the versions that calls and answers name.
LEMMA NextBases == AgentInv /\ AgentInv' /\ BasesInv /\ [AgentNext]_agentVars => BasesInv'
<1> SUFFICES ASSUME AgentInv, AgentInv', BasesInv, [AgentNext]_agentVars PROVE BasesInv'
    OBVIOUS
<1>1. /\ \A i \in DOMAIN queue : queue[i].base <= page.version
      /\ push \in [Slot -> Push] /\ queue \in Seq(Item)
    BY DEF BasesInv, AgentInv, SlotsOK, ReplayOK
<1>2. ASSUME UNCHANGED <<page, push, queue, reading>> PROVE BasesInv'
    BY <1>2 DEF BasesInv, CallBases, Recent
<1>3. ASSUME NEW r \in Remote, RemoteEdit(r) PROVE BasesInv'
    <2>1. page'.version = page.version + 1 /\ UNCHANGED <<push, queue, reading>>
        BY <1>3 DEF RemoteEdit, durable, volatile
    <2>2. QED
        BY <1>1, <2>1, BasesStep DEF CallStep
<1>4. ASSUME NEW f \in Flushes, Flush(f) PROVE BasesInv'
    <2> DEFINE q == Call(file, cache)
    <2>1. q.state = "sent" /\ q.base <= page.version
        <3>1. file \in Content /\ cache \in Nat /\ cache <= page.version
            BY <1>4 DEF Flush, AgentInv, RestOK, Page
        <3>2. QED
            BY <3>1, CallType
    <2>2. push' = [push EXCEPT ![f] = q] /\ UNCHANGED <<page, queue, reading>>
        BY <1>4 DEF Flush, durable
    <2> HIDE DEF q
    <2>3. \A s \in Slot : push'[s] = push[s] \/ (push'[s].state = "sent" /\ push'[s].base <= page.version)
        BY <1>1, <2>1, <2>2
    <2>4. QED
        BY <1>1, <2>2, <2>3, BasesStep DEF CallStep
<1>5. ASSUME NEW s \in Slot, Serve(s) PROVE BasesInv'
    <2>1. \A r \in Slot : r # s => push'[r] = push[r]
        BY <1>1, <1>5 DEF Serve
    <2>2. push[s] \in Push /\ push[s].base \in Nat /\ page.version \in Nat /\ push[s].base <= page.version
        BY <1>1 DEF BasesInv, CallBases, AgentInv, RestOK, Page, Push
    <2>3. CASE push[s].base = page.version
        <3>1. /\ page' = [version |-> page.version + 1, content |-> push[s].content, by |-> "agent"]
              /\ push' = [push EXCEPT ![s] = [push[s] EXCEPT !.state = "accepted", !.answer = page']]
            BY <1>5, <2>3 DEF Serve
        <3>2. push'[s] = [push[s] EXCEPT !.state = "accepted", !.answer = page']
            BY <1>1, <3>1
        <3>3. push'[s].base = push[s].base /\ push'[s].answer = page'
            BY <2>2, <3>2 DEF Push
        <3>4. push'[s].base < page'.version
            BY <2>2, <3>1, <3>3
        <3>5. UNCHANGED <<queue, reading>>
            BY <1>5 DEF Serve, durable
        <3>6. QED
            BY <1>1, <2>1, <3>1, <3>3, <3>4, <3>5, BasesStep DEF CallStep
    <2>4. CASE push[s].base # page.version
        <3>1. page' = page /\ push' = [push EXCEPT ![s] = [push[s] EXCEPT !.state = "conflict", !.answer = page]]
            BY <1>5, <2>4 DEF Serve
        <3>2. push'[s] = [push[s] EXCEPT !.state = "conflict", !.answer = page]
            BY <1>1, <3>1
        <3>3. push'[s].base = push[s].base /\ push'[s].answer = page /\ push'[s].state = "conflict"
            BY <2>2, <3>2 DEF Push
        <3>4. push'[s].base < page'.version
            BY <2>2, <2>4, <3>1, <3>3
        <3>5. UNCHANGED <<queue, reading>>
            BY <1>5 DEF Serve, durable
        <3>6. QED
            BY <1>1, <2>1, <3>1, <3>3, <3>4, <3>5, BasesStep DEF CallStep
    <2>5. QED
        BY <2>3, <2>4
<1>6. ASSUME NEW f \in Flushes, Accepted(f) \/ Refused(f) \/ Unanswered(f) PROVE BasesInv'
    <2>1. push' = [push EXCEPT ![f] = NoPush] /\ UNCHANGED <<page, reading>>
        BY <1>6 DEF Accepted, Refused, Unanswered
    <2>2. \A s \in Slot : push'[s] = push[s] \/ push'[s] = NoPush
        BY <1>1, <2>1
    <2>3. CASE UNCHANGED queue
        BY <1>1, <2>1, <2>2, <2>3, BasesStep DEF CallStep
    <2>4. CASE Unanswered(f)
        <3> DEFINE item == [content |-> push[f].content, base |-> push[f].base]
        <3>1. item \in Item /\ item.base <= page.version
            BY <1>1 DEF Item, Push, Slot, BasesInv, CallBases
        <3>2. queue' = Append(queue, item)
            BY <2>4 DEF Unanswered, Enqueue
        <3> HIDE DEF item
        <3>3. \A i \in DOMAIN queue' : queue'[i] = item \/ (i \in DOMAIN queue /\ queue'[i] = queue[i])
            BY <1>1, <3>1, <3>2
        <3>4. \A i \in DOMAIN queue' : queue'[i].base <= page.version
            BY <1>1, <3>1, <3>3
        <3>5. QED
            BY <2>1, <2>2, <3>4, BasesStep DEF CallStep
    <2>5. QED
        BY <1>6, <2>3, <2>4 DEF Accepted, Refused
<1>7. CASE ReplaySend
    <2> DEFINE q == Call(Head(replay).content, Head(replay).base)
    <2>1. replay \in Seq(Item) /\ replay # <<>> /\ Head(replay) = queue[1] /\ queue # <<>>
        BY <1>7 DEF ReplaySend, AgentInv, ReplayOK
    <2>2. q.state = "sent" /\ q.base <= page.version
        <3>1. Head(replay) \in Item /\ 1 \in DOMAIN queue
            BY <1>1, <2>1
        <3>2. Head(replay).content \in Content /\ Head(replay).base \in Nat /\ Head(replay).base <= page.version
            BY <1>1, <2>1, <3>1 DEF Item
        <3>3. QED
            BY <3>2, CallType
    <2>3. push' = [push EXCEPT !["replay"] = q] /\ UNCHANGED <<page, queue, reading>>
        BY <1>7 DEF ReplaySend, durable
    <2> HIDE DEF q
    <2>4. \A s \in Slot : push'[s] = push[s] \/ (push'[s].state = "sent" /\ push'[s].base <= page.version)
        BY <1>1, <2>2, <2>3
    <2>5. QED
        BY <1>1, <2>3, <2>4, BasesStep DEF CallStep
<1>8. CASE ReplayAccepted \/ ReplayRefused \/ ReplayStops
    <2>1. push' = [push EXCEPT !["replay"] = NoPush] /\ UNCHANGED <<page, reading>>
        BY <1>8 DEF ReplayAccepted, ReplayRefused, ReplayStops
    <2>2. \A s \in Slot : push'[s] = push[s] \/ push'[s] = NoPush
        BY <1>1, <2>1
    <2>3. \A i \in DOMAIN queue' : queue'[i].base <= page.version
        <3>1. CASE UNCHANGED queue
            BY <1>1, <3>1
        <3>2. CASE queue' = Tail(queue) /\ queue # <<>>
            <4>1. /\ DOMAIN queue = 1 .. Len(queue) /\ Len(queue) \in Nat
                  /\ DOMAIN queue' = 1 .. (Len(queue) - 1) /\ \A i \in DOMAIN queue' : queue'[i] = queue[i + 1]
                BY <1>1, <3>2
            <4>2. QED
                BY <1>1, <4>1
        <3>3. replay # <<>> => queue # <<>>
            BY DEF AgentInv, ReplayOK
        <3>4. QED
            BY <1>8, <3>1, <3>2, <3>3 DEF ReplayAccepted, ReplayRefused, ReplayStops, Dequeue, durable, AgentInv, ReplayOK
    <2>4. QED
        BY <2>1, <2>2, <2>3, BasesStep DEF CallStep
<1>9. CASE Read
    <2>1. UNCHANGED <<page, push, queue>> /\ reading' = page
        BY <1>9 DEF Read, durable
    <2>2. QED
        BY <1>1, <2>1, BasesStep DEF CallStep
<1>10. CASE ApplyRead \/ Crash
    <2>1. UNCHANGED <<page, queue>> /\ reading' = Nil /\ \A s \in Slot : push'[s] = push[s] \/ push'[s] = NoPush
        BY <1>10 DEF ApplyRead, Crash, durable
    <2>2. QED
        BY <1>1, <2>1, BasesStep DEF CallStep
<1>11. QED
    BY <1>2, <1>3, <1>4, <1>5, <1>6, <1>7, <1>8, <1>9, <1>10
    DEF AgentNext, LocalEdit, OnChange, FlushSkipped, Expire, Restart, agentVars, durable, volatile, history

\* These bounds always hold.
LEMMA BasesAlways == AgentSpec => []BasesInv
<1>1. AgentInit => BasesInv
    BY DEF AgentInit, BasesInv, CallBases, NoPush, NoPage
<1>2. QED
    BY <1>1, AgentAlways, NextBases, PTL DEF AgentSpec

-----------------------------------------------------------------------------
(* What other servers wrote.                                                *)

\* A content that goes with the current version, which another server wrote, has
\* what that server wrote.
Covers(v, content) == v = page.version /\ page.by = "remote" => page.content \subseteq content

FileCovers == cache = page.version /\ page.by = "remote" => file # Nil /\ page.content \subseteq file

CallCovers(s) == push[s].state = "sent" => Covers(push[s].base, push[s].content)

QueueCovers == \A i \in DOMAIN queue : Covers(queue[i].base, queue[i].content)

\* Nothing is claimed once a replayed write was refused: then the file is replaced
\* and the cached version is not.
CoverInv == failed = {} => FileCovers /\ QueueCovers /\ \A s \in Slot : CallCovers(s)

\* Every step keeps CoverInv.
LEMMA NextCovers ==
    AgentInv /\ AgentInv' /\ BasesInv /\ CoverInv /\ [AgentNext]_agentVars => CoverInv'
<1> SUFFICES ASSUME AgentInv, AgentInv', BasesInv, CoverInv, [AgentNext]_agentVars PROVE CoverInv'
    OBVIOUS
<1>1. /\ page.version \in Nat /\ cache \in Nat /\ cache <= page.version
      /\ push \in [Slot -> Push] /\ queue \in Seq(Item) /\ NoPush.state = "none"
    BY NoPushType DEF AgentInv, RestOK, SlotsOK, ReplayOK, Page
<1>2. /\ \A s \in Slot : push[s].base \in Nat /\ push[s].base <= page.version
      /\ \A i \in DOMAIN queue : queue[i].base \in Nat /\ queue[i].base <= page.version
    <2>1. \A i \in DOMAIN queue : queue[i] \in Item
        BY <1>1
    <2>2. QED
        BY <1>1, <2>1 DEF BasesInv, CallBases, Push, Item
<1>3. ASSUME UNCHANGED <<page, cache, push, queue, failed>>, file' = file \/ (file = Nil /\ file' # Nil) \/ (file' # Nil /\ file \subseteq file')
      PROVE  CoverInv'
    BY <1>3 DEF CoverInv, FileCovers, QueueCovers, CallCovers, Covers
<1>4. ASSUME NEW e \in Local, LocalEdit(e) PROVE CoverInv'
    <2>1. file' # Nil
        BY <1>4, AgentAssumption DEF LocalEdit, AgentInv, RestOK, Content
    <2>2. QED
        BY <1>3, <1>4, <2>1 DEF LocalEdit
<1>5. ASSUME NEW r \in Remote, RemoteEdit(r) PROVE CoverInv'
    <2>1. page'.version = page.version + 1 /\ UNCHANGED <<cache, push, queue>>
        BY <1>5 DEF RemoteEdit, durable, volatile
    <2>2. QED
        BY <1>1, <1>2, <2>1 DEF CoverInv, FileCovers, QueueCovers, CallCovers, Covers
<1>6. ASSUME NEW f \in Flushes, Flush(f) PROVE CoverInv'
    <2> DEFINE q == Call(file, cache)
    <2>1. q.content = file /\ q.base = cache
        BY <1>1, <1>6, CallType DEF Flush, AgentInv, RestOK
    <2>2. push' = [push EXCEPT ![f] = q] /\ UNCHANGED <<page, file, cache, queue, failed>>
        BY <1>6 DEF Flush, durable
    <2> HIDE DEF q
    <2>3. ASSUME NEW s \in Slot, failed = {} PROVE CallCovers(s)'
        <3>1. push'[s] = push[s] \/ push'[s] = q
            BY <1>1, <2>2
        <3>2. QED
            BY <2>1, <2>2, <2>3, <3>1 DEF CoverInv, CallCovers, Covers, FileCovers
    <2>4. QED
        BY <2>2, <2>3 DEF CoverInv, FileCovers, QueueCovers, Covers
<1>7. ASSUME NEW s \in Slot, Serve(s) PROVE CoverInv'
    <2>1. UNCHANGED <<file, cache, queue, failed>> /\ \A r \in Slot : r # s => push'[r] = push[r]
        BY <1>1, <1>7 DEF Serve, durable
    <2>2. push'[s].state # "sent"
        BY <1>1, <1>7 DEF Serve, Push
    <2>3. page' = page \/ page'.by = "agent"
        BY <1>7 DEF Serve
    <2>4. QED
        BY <2>1, <2>2, <2>3 DEF CoverInv, FileCovers, QueueCovers, CallCovers, Covers
<1>8. ASSUME NEW f \in Flushes, Accepted(f) \/ Refused(f) \/ Unanswered(f), failed = {} PROVE CoverInv'
    <2>1. push' = [push EXCEPT ![f] = NoPush] /\ UNCHANGED <<page, failed>>
        BY <1>8 DEF Accepted, Refused, Unanswered
    <2>2. \A s \in Slot : CallCovers(s)'
        <3>1. \A s \in Slot : push'[s] = push[s] \/ push'[s] = NoPush
            BY <1>1, <2>1
        <3>2. QED
            BY <1>1, <1>8, <2>1, <3>1 DEF CoverInv, CallCovers, Covers
    <2>3. QueueCovers'
        <3>1. CASE UNCHANGED queue
            BY <1>8, <2>1, <3>1 DEF CoverInv, QueueCovers, Covers
        <3>2. CASE Unanswered(f)
            <4> DEFINE item == [content |-> push[f].content, base |-> push[f].base]
            <4>1. item \in Item /\ queue' = Append(queue, item)
                BY <1>1, <3>2 DEF Item, Push, Slot, Unanswered, Enqueue
            <4>2. Covers(item.base, item.content)
                <5>1. CASE push[f].state = "sent"
                    BY <1>8, <5>1 DEF CoverInv, CallCovers, Slot
                <5>2. CASE push[f].state # "sent"
                    <6>1. push[f].state \in {"accepted", "conflict"}
                        BY <1>1, <3>2, <5>2 DEF Unanswered, Slot, Push
                    <6>2. push[f].base < page.version
                        BY <6>1 DEF BasesInv, CallBases, Slot
                    <6>3. push[f].base \in Nat
                        BY <1>2 DEF Slot
                    <6>4. QED
                        BY <1>1, <6>2, <6>3 DEF Covers
                <5>3. QED
                    BY <5>1, <5>2
            <4> HIDE DEF item
            <4>3. \A i \in DOMAIN queue' : queue'[i] = item \/ (i \in DOMAIN queue /\ queue'[i] = queue[i])
                BY <1>1, <4>1
            <4>4. QED
                BY <1>8, <2>1, <4>2, <4>3 DEF CoverInv, QueueCovers, Covers
        <3>3. QED
            BY <1>8, <3>1, <3>2 DEF Accepted, Refused
    <2>4. FileCovers'
        <3>1. CASE Accepted(f)
            <4>1. cache' = push[f].answer.version /\ push[f].answer.by = "agent" /\ Recent(push[f].answer)
                BY <3>1 DEF Accepted, BasesInv, CallBases, Slot
            <4>2. QED
                BY <2>1, <4>1 DEF FileCovers, Recent
        <3>2. CASE Refused(f)
            <4>1. cache' = push[f].answer.version /\ file' = push[f].answer.content /\ Recent(push[f].answer)
                BY <3>2 DEF Refused, Overwrite, BasesInv, CallBases, Slot
            <4>2. push[f].answer.content # Nil
                BY <1>1, AgentAssumption DEF Push, Page, Content, Slot
            <4>3. QED
                BY <2>1, <4>1, <4>2 DEF FileCovers, Recent
        <3>3. CASE Unanswered(f)
            BY <1>8, <3>3 DEF Unanswered, CoverInv, FileCovers
        <3>4. QED
            BY <1>8, <3>1, <3>2, <3>3
    <2>5. QED
        BY <2>2, <2>3, <2>4 DEF CoverInv
<1>9. CASE ReplaySend
    <2> DEFINE q == Call(Head(replay).content, Head(replay).base)
    <2>1. replay \in Seq(Item) /\ replay # <<>> /\ Head(replay) = queue[1] /\ 1 \in DOMAIN queue
        BY <1>1, <1>9 DEF ReplaySend, AgentInv, ReplayOK
    <2>2. q.content = queue[1].content /\ q.base = queue[1].base
        <3>1. Head(replay).content \in Content /\ Head(replay).base \in Nat
            <4>1. Head(replay) \in Item
                BY <2>1
            <4>2. QED
                BY <4>1 DEF Item
        <3>2. QED
            BY <2>1, <3>1, CallType
    <2>3. push' = [push EXCEPT !["replay"] = q] /\ UNCHANGED <<page, file, cache, queue, failed>>
        BY <1>9 DEF ReplaySend, durable
    <2> HIDE DEF q
    <2>4. ASSUME NEW s \in Slot, failed = {} PROVE CallCovers(s)'
        <3>1. push'[s] = push[s] \/ push'[s] = q
            BY <1>1, <2>3
        <3>2. QED
            BY <2>1, <2>2, <2>3, <2>4, <3>1 DEF CoverInv, CallCovers, Covers, QueueCovers
    <2>5. QED
        BY <2>3, <2>4 DEF CoverInv, FileCovers, QueueCovers, Covers
<1>10. CASE ReplayRefused
    BY <1>10 DEF ReplayRefused, CoverInv
<1>11. ASSUME ReplayAccepted \/ ReplayStops, failed = {} PROVE CoverInv'
    <2>1. push' = [push EXCEPT !["replay"] = NoPush] /\ UNCHANGED <<page, failed, file>>
        BY <1>11 DEF ReplayAccepted, ReplayStops, durable
    <2>2. \A s \in Slot : CallCovers(s)'
        <3>1. \A s \in Slot : push'[s] = push[s] \/ push'[s] = NoPush
            BY <1>1, <2>1
        <3>2. QED
            BY <1>1, <1>11, <2>1, <3>1 DEF CoverInv, CallCovers, Covers
    <2>3. QueueCovers'
        <3>1. CASE UNCHANGED queue
            BY <1>11, <2>1, <3>1 DEF CoverInv, QueueCovers, Covers
        <3>2. CASE queue' = Tail(queue) /\ queue # <<>>
            <4>1. /\ DOMAIN queue = 1 .. Len(queue) /\ Len(queue) \in Nat
                  /\ DOMAIN queue' = 1 .. (Len(queue) - 1) /\ \A i \in DOMAIN queue' : queue'[i] = queue[i + 1]
                BY <1>1, <3>2
            <4>2. \A i \in DOMAIN queue' : i + 1 \in DOMAIN queue
                BY <4>1
            <4>3. QED
                BY <1>11, <2>1, <4>1, <4>2 DEF CoverInv, QueueCovers, Covers
        <3>3. replay # <<>> => queue # <<>>
            BY DEF AgentInv, ReplayOK
        <3>4. QED
            BY <1>11, <3>1, <3>2, <3>3 DEF ReplayAccepted, ReplayStops, Dequeue, durable, AgentInv, ReplayOK
    <2>4. FileCovers'
        <3>1. CASE ReplayAccepted
            <4>1. /\ cache' = push["replay"].answer.version /\ push["replay"].answer.by = "agent"
                  /\ Recent(push["replay"].answer)
                BY <3>1 DEF ReplayAccepted, BasesInv, CallBases, Slot
            <4>2. QED
                BY <2>1, <4>1 DEF FileCovers, Recent
        <3>2. CASE ReplayStops
            BY <1>11, <3>2 DEF ReplayStops, durable, CoverInv, FileCovers
        <3>3. QED
            BY <1>11, <3>1, <3>2
    <2>5. QED
        BY <2>2, <2>3, <2>4 DEF CoverInv
<1>12. CASE ApplyRead
    <2>1. /\ cache' = reading.version /\ file' = reading.content /\ Recent(reading)
          /\ UNCHANGED <<page, push, queue, failed>>
        BY <1>12 DEF ApplyRead, Overwrite, BasesInv
    <2>2. reading.content # Nil
        BY <1>12, AgentAssumption DEF ApplyRead, AgentInv, RestOK, Page, Content
    <2>3. FileCovers'
        BY <2>1, <2>2 DEF FileCovers, Recent
    <2>4. QED
        BY <2>1, <2>3 DEF CoverInv, QueueCovers, CallCovers, Covers
<1>13. CASE Crash
    <2>1. UNCHANGED <<page, file, cache, queue, failed>> /\ \A s \in Slot : push'[s] = NoPush
        BY <1>13 DEF Crash, durable
    <2>2. QED
        BY <1>1, <2>1 DEF CoverInv, FileCovers, QueueCovers, CallCovers, Covers
<1>14. ASSUME NEW f \in Flushes, Accepted(f) \/ Refused(f) \/ Unanswered(f) PROVE CoverInv'
    <2>1. failed' = failed
        BY <1>14 DEF Accepted, Refused, Unanswered
    <2>2. QED
        BY <1>8, <1>14, <2>1 DEF CoverInv
<1>15. ASSUME ReplayAccepted \/ ReplayStops PROVE CoverInv'
    <2>1. failed' = failed
        BY <1>15 DEF ReplayAccepted, ReplayStops, durable
    <2>2. QED
        BY <1>11, <1>15, <2>1 DEF CoverInv
<1>16. CASE OnChange \/ FlushSkipped \/ Expire \/ Read \/ Restart \/ UNCHANGED agentVars
    <2>1. UNCHANGED <<page, cache, push, queue, failed, file>>
        BY <1>16 DEF OnChange, FlushSkipped, Expire, Read, Restart, agentVars, durable, volatile, history
    <2>2. QED
        BY <1>3, <2>1
<1>17. QED
    BY <1>4, <1>5, <1>6, <1>7, <1>9, <1>10, <1>12, <1>13, <1>14, <1>15, <1>16 DEF AgentNext

(***************************************************************************)
(* An accepted push never undoes what another server wrote, for any number *)
(* of edits and servers and whatever gets lost, until the replay of a      *)
(* queued write has been refused once (_flush, _send_or_queue and          *)
(* _replace_local of watcher.py, _write_to_mirror of sync.py).             *)
(***************************************************************************)
THEOREM RemoteNotUndone == AgentSpec => RemoteIsSeen
<1>1. AgentInit => CoverInv
    BY NoPushType DEF AgentInit, NoPage, CoverInv, FileCovers, QueueCovers, CallCovers, Covers
<1>2. AgentSpec => []CoverInv
    BY <1>1, AgentAlways, BasesAlways, NextCovers, PTL DEF AgentSpec
<1>3. AgentInv /\ CoverInv /\ [AgentNext]_agentVars => [Undoes => failed # {}]_agentVars
    <2> SUFFICES ASSUME AgentInv, CoverInv, AgentNext, Undoes PROVE failed # {}
        BY DEF agentVars
    <2>1. page' # page /\ page'.by = "agent"
        BY DEF Undoes
    <2>2. \A r \in Remote : ~RemoteEdit(r)
        BY <2>1 DEF RemoteEdit
    <2>3. \E s \in Slot : Serve(s)
        BY <2>1, <2>2
        DEF AgentNext, LocalEdit, Flush, Accepted, Refused, Unanswered, OnChange, FlushSkipped, Expire, ReplaySend,
            ReplayAccepted, ReplayRefused, ReplayStops, Read, ApplyRead, Crash, Restart
    <2>4. PICK s \in Slot : Serve(s)
        BY <2>3
    <2>5. push[s].state = "sent" /\ push[s].base = page.version /\ page'.content = push[s].content
        BY <2>1, <2>4 DEF Serve
    <2>6. QED
        BY <2>5 DEF Undoes, CoverInv, CallCovers, Covers
<1>4. QED
    BY <1>2, <1>3, AgentAlways, PTL DEF AgentSpec, RemoteIsSeen

-----------------------------------------------------------------------------
(* Echoes.                                                                  *)

\* A call, in flight or queued, that the master would accept.
Live ==
    \/ \E s \in Slot : push[s].state = "sent" /\ push[s].base = page.version
    \/ \E i \in DOMAIN queue : queue[i].base = page.version

Count(holds) == IF holds THEN 1 ELSE 0

\* Whatever can still lead to a version of the page has an edit of its own: a call
\* that would be accepted, a timer, an edit the watcher will hear of.
EchoInv ==
    /\ IsFiniteSet(made)
    /\ page.version + Count(Live) + Count(timer) + Count(notice /\ ~suppressed) <= Cardinality(made)

\* A step that makes no edit and no version, and adds nothing that could.
LEMMA EchoLess ==
    ASSUME EchoInv, page.version \in Nat, UNCHANGED <<page, made>>,
           Live' => Live, timer' => timer, notice' /\ ~suppressed' => notice /\ ~suppressed
    PROVE  EchoInv'
<1>1. Cardinality(made) \in Nat
    BY FS_CardinalityType DEF EchoInv
<1>2. QED
    BY <1>1 DEF EchoInv, Count

\* Every step keeps EchoInv.
LEMMA NextEcho ==
    AgentInv /\ BasesInv /\ EchoInv /\ [AgentNext]_agentVars => EchoInv'
<1> SUFFICES ASSUME AgentInv, BasesInv, EchoInv, [AgentNext]_agentVars PROVE EchoInv'
    OBVIOUS
<1>1. /\ page.version \in Nat /\ push \in [Slot -> Push] /\ queue \in Seq(Item) /\ NoPush.state = "none"
      /\ Cardinality(made) \in Nat /\ IsFiniteSet(made)
    BY NoPushType, FS_CardinalityType DEF AgentInv, RestOK, SlotsOK, ReplayOK, Page, EchoInv
<1>2. /\ \A s \in Slot : push[s].base \in Nat /\ push[s].base <= page.version
      /\ \A i \in DOMAIN queue : queue[i].base \in Nat /\ queue[i].base <= page.version
    <2>1. \A i \in DOMAIN queue : queue[i] \in Item
        BY <1>1
    <2>2. QED
        BY <1>1, <2>1 DEF BasesInv, CallBases, Push, Item
<1>3. ASSUME UNCHANGED <<page, made, push, queue>>, timer' => timer, notice' /\ ~suppressed' => notice /\ ~suppressed
      PROVE  EchoInv'
    <2>1. Live' => Live
        BY <1>3 DEF Live
    <2>2. QED
        BY <1>1, <1>3, <2>1, EchoLess
<1>4. ASSUME NEW e \in Local, LocalEdit(e) PROVE EchoInv'
    <2>1. made' = made \cup {e} /\ e \notin made /\ UNCHANGED <<page, push, queue, timer>>
        BY <1>4 DEF LocalEdit
    <2>2. IsFiniteSet(made') /\ Cardinality(made') = Cardinality(made) + 1
        BY <1>1, <2>1, FS_AddElement
    <2>3. Live' <=> Live
        BY <2>1 DEF Live
    <2>4. QED
        BY <1>1, <2>1, <2>2, <2>3 DEF EchoInv, Count
<1>5. ASSUME NEW r \in Remote, RemoteEdit(r) PROVE EchoInv'
    <2>1. /\ made' = made \cup {r} /\ r \notin made /\ page'.version = page.version + 1
          /\ UNCHANGED <<push, queue, timer, notice, suppressed>>
        BY <1>5 DEF RemoteEdit, durable, volatile
    <2>2. IsFiniteSet(made') /\ Cardinality(made') = Cardinality(made) + 1
        BY <1>1, <2>1, FS_AddElement
    <2>3. ~Live'
        BY <1>1, <1>2, <2>1 DEF Live
    <2>4. QED
        BY <1>1, <2>1, <2>2, <2>3 DEF EchoInv, Count
<1>6. CASE OnChange
    <2>1. notice /\ notice' = FALSE /\ (timer' <=> timer \/ ~suppressed) /\ UNCHANGED <<page, made, push, queue>>
        BY <1>6 DEF OnChange, durable
    <2>2. Live' <=> Live
        BY <2>1 DEF Live
    <2>3. QED
        BY <1>1, <2>1, <2>2 DEF EchoInv, Count
<1>7. ASSUME NEW f \in Flushes, Flush(f) PROVE EchoInv'
    <2>1. timer /\ timer' = FALSE /\ UNCHANGED <<page, made, notice, suppressed>>
        BY <1>7 DEF Flush
    <2>2. QED
        BY <1>1, <2>1 DEF EchoInv, Count
<1>8. ASSUME NEW s \in Slot, Serve(s) PROVE EchoInv'
    <2>1. /\ UNCHANGED <<made, queue, timer, notice, suppressed>>
          /\ \A r \in Slot : r # s => push'[r] = push[r]
        BY <1>1, <1>8 DEF Serve, durable
    <2>2. push'[s].state # "sent"
        BY <1>1, <1>8 DEF Serve, Push
    <2>3. CASE push[s].base = page.version
        <3>1. page' = [version |-> page.version + 1, content |-> push[s].content, by |-> "agent"]
            BY <1>8, <2>3 DEF Serve
        <3>2. page'.version = page.version + 1
            BY <3>1
        <3>3. Live
            BY <1>8, <2>3 DEF Live, Serve
        <3>4. ~Live'
            BY <1>1, <1>2, <2>1, <2>2, <3>2 DEF Live
        <3>5. QED
            BY <1>1, <2>1, <3>2, <3>3, <3>4 DEF EchoInv, Count
    <2>4. CASE push[s].base # page.version
        <3>1. page' = page
            BY <1>8, <2>4 DEF Serve
        <3>2. Live' => Live
            BY <2>1, <2>2, <3>1 DEF Live
        <3>3. QED
            BY <1>1, <2>1, <3>1, <3>2, EchoLess
    <2>5. QED
        BY <2>3, <2>4
<1>9. ASSUME NEW f \in Flushes, Accepted(f) \/ Refused(f) \/ Unanswered(f) PROVE EchoInv'
    <2>1. push' = [push EXCEPT ![f] = NoPush] /\ UNCHANGED <<page, made, timer>>
        BY <1>9 DEF Accepted, Refused, Unanswered
    <2>2. \A s \in Slot : push'[s] = push[s] \/ push'[s] = NoPush
        BY <1>1, <2>1
    <2>3. notice' /\ ~suppressed' => notice /\ ~suppressed
        BY <1>9 DEF Accepted, Refused, Unanswered, Overwrite
    <2>4. Live' => Live
        <3>1. CASE UNCHANGED queue
            BY <1>1, <2>1, <2>2, <3>1 DEF Live
        <3>2. CASE Unanswered(f)
            <4> DEFINE item == [content |-> push[f].content, base |-> push[f].base]
            <4>1. item \in Item /\ queue' = Append(queue, item)
                BY <1>1, <3>2 DEF Item, Push, Slot, Unanswered, Enqueue
            <4>2. item.base = page.version => push[f].state = "sent" /\ push[f].base = page.version
                <5>1. push[f].state \in {"sent", "accepted", "conflict"}
                    BY <1>1, <3>2 DEF Unanswered, Slot, Push
                <5>2. push[f].state # "sent" => push[f].base < page.version
                    BY <5>1 DEF BasesInv, CallBases, Slot
                <5>3. push[f].base \in Nat /\ item.base = push[f].base
                    BY <1>2 DEF Slot
                <5>4. QED
                    BY <1>1, <5>2, <5>3
            <4> HIDE DEF item
            <4>3. \A i \in DOMAIN queue' : queue'[i] = item \/ (i \in DOMAIN queue /\ queue'[i] = queue[i])
                BY <1>1, <4>1
            <4>4. QED
                BY <1>1, <2>1, <2>2, <4>2, <4>3 DEF Live, Slot
        <3>3. QED
            BY <1>9, <3>1, <3>2 DEF Accepted, Refused
    <2>5. QED
        BY <1>1, <2>1, <2>3, <2>4, EchoLess
<1>10. CASE ReplaySend
    <2> DEFINE q == Call(Head(replay).content, Head(replay).base)
    <2>1. replay \in Seq(Item) /\ replay # <<>> /\ Head(replay) = queue[1] /\ 1 \in DOMAIN queue
        BY <1>1, <1>10 DEF ReplaySend, AgentInv, ReplayOK
    <2>2. q.base = queue[1].base
        <3>1. Head(replay).content \in Content /\ Head(replay).base \in Nat
            <4>1. Head(replay) \in Item
                BY <2>1
            <4>2. QED
                BY <4>1 DEF Item
        <3>2. QED
            BY <2>1, <3>1, CallType
    <2>3. push' = [push EXCEPT !["replay"] = q] /\ UNCHANGED <<page, made, queue, timer, notice, suppressed>>
        BY <1>10 DEF ReplaySend, durable
    <2> HIDE DEF q
    <2>4. Live' => Live
        <3>1. \A s \in Slot : push'[s] = push[s] \/ push'[s] = q
            BY <1>1, <2>3
        <3>2. QED
            BY <2>1, <2>2, <2>3, <3>1 DEF Live
    <2>5. QED
        BY <1>1, <2>3, <2>4, EchoLess
<1>11. CASE ReplayAccepted \/ ReplayRefused \/ ReplayStops
    <2>1. push' = [push EXCEPT !["replay"] = NoPush] /\ UNCHANGED <<page, made, timer>>
        BY <1>11 DEF ReplayAccepted, ReplayRefused, ReplayStops
    <2>2. \A s \in Slot : push'[s] = push[s] \/ push'[s] = NoPush
        BY <1>1, <2>1
    <2>3. notice' /\ ~suppressed' => notice /\ ~suppressed
        BY <1>11 DEF ReplayAccepted, ReplayRefused, ReplayStops, Overwrite
    <2>4. \A i \in DOMAIN queue' : \E j \in DOMAIN queue : queue'[i] = queue[j]
        <3>1. CASE UNCHANGED queue
            BY <3>1
        <3>2. CASE queue' = Tail(queue) /\ queue # <<>>
            <4>1. /\ DOMAIN queue = 1 .. Len(queue) /\ Len(queue) \in Nat
                  /\ DOMAIN queue' = 1 .. (Len(queue) - 1) /\ \A i \in DOMAIN queue' : queue'[i] = queue[i + 1]
                BY <1>1, <3>2
            <4>2. \A i \in DOMAIN queue' : i + 1 \in DOMAIN queue
                BY <4>1
            <4>3. QED
                BY <4>1, <4>2
        <3>3. replay # <<>> => queue # <<>>
            BY DEF AgentInv, ReplayOK
        <3>4. QED
            BY <1>11, <3>1, <3>2, <3>3
            DEF ReplayAccepted, ReplayRefused, ReplayStops, Dequeue, durable, AgentInv, ReplayOK
    <2>5. Live' => Live
        BY <1>1, <2>1, <2>2, <2>4 DEF Live
    <2>6. QED
        BY <1>1, <2>1, <2>3, <2>5, EchoLess
<1>12. CASE ApplyRead
    BY <1>3, <1>12 DEF ApplyRead, Overwrite
<1>13. CASE Crash
    <2>1. /\ UNCHANGED <<page, made, queue>> /\ timer' = FALSE /\ notice' = FALSE
          /\ \A s \in Slot : push'[s] = NoPush
        BY <1>13 DEF Crash, durable
    <2>2. Live' => Live
        BY <1>1, <2>1 DEF Live
    <2>3. QED
        BY <1>1, <2>1, <2>2, EchoLess
<1>14. CASE FlushSkipped \/ Expire \/ Read \/ Restart \/ UNCHANGED agentVars
    BY <1>3, <1>14 DEF FlushSkipped, Expire, Read, Restart, agentVars, durable, volatile, history
<1>15. QED
    BY <1>4, <1>5, <1>6, <1>7, <1>8, <1>9, <1>10, <1>11, <1>12, <1>13, <1>14 DEF AgentNext

\* Unless its last change was an edit the file's notice is under a mark, and only
\* an edit starts a timer.
OriginInv ==
    /\ timer => origin # "written"
    /\ notice /\ origin # "edited" => suppressed

\* Writing to the vault marks what it writes, and leaves a running timer raced.
LEMMA OverwriteOrigin ==
    ASSUME OriginInv, NEW content, Overwrite(content), UNCHANGED timer
    PROVE  OriginInv'
BY DEF OriginInv, Overwrite

\* Every step keeps OriginInv.
LEMMA NextOrigin == OriginInv /\ [AgentNext]_agentVars => OriginInv'
<1> SUFFICES ASSUME OriginInv, [AgentNext]_agentVars PROVE OriginInv'
    OBVIOUS
<1>1. ASSUME UNCHANGED <<timer, notice, suppressed, origin>> PROVE OriginInv'
    BY <1>1 DEF OriginInv
<1>2. ASSUME NEW e \in Local, LocalEdit(e) PROVE OriginInv'
    BY <1>2 DEF LocalEdit, OriginInv
<1>3. CASE OnChange
    BY <1>3 DEF OnChange, OriginInv
<1>4. CASE FlushSkipped \/ \E f \in Flushes : Flush(f)
    BY <1>4 DEF FlushSkipped, Flush, Past, OriginInv
<1>5. ASSUME NEW f \in Flushes, Refused(f) PROVE OriginInv'
    BY <1>5, OverwriteOrigin DEF Refused
<1>6. CASE ReplayRefused
    BY <1>6, OverwriteOrigin DEF ReplayRefused
<1>7. CASE ApplyRead
    BY <1>7, OverwriteOrigin DEF ApplyRead
<1>8. CASE Crash
    BY <1>8 DEF Crash, OriginInv
<1>9. CASE Expire
    BY <1>9 DEF Expire, history, OriginInv
<1>10. QED
    BY <1>1, <1>2, <1>3, <1>4, <1>5, <1>6, <1>7, <1>8, <1>9
    DEF AgentNext, RemoteEdit, Serve, Accepted, Unanswered, ReplaySend, ReplayAccepted, ReplayStops, Read, Restart,
        agentVars, durable, volatile, history

(***************************************************************************)
(* Whatever the sync engine and the conflict answers write to the vault,   *)
(* no debounce timer is ever started by it, and pushing what they wrote    *)
(* under the timer of an earlier edit makes no second version for that     *)
(* edit, for any number of edits, servers, flushes and crashes (_on_change *)
(* of watcher.py, Suppressor).                                             *)
(***************************************************************************)
THEOREM NothingEchoes == AgentSpec => []NoEcho
<1>1. AgentInit => EchoInv /\ OriginInv
    BY NoPushType, FS_EmptySet DEF AgentInit, EchoInv, OriginInv, Live, Count
<1>2. AgentInv /\ EchoInv /\ OriginInv => NoEcho
    <2> SUFFICES ASSUME AgentInv, EchoInv, OriginInv PROVE NoEcho
        OBVIOUS
    <2>1. Cardinality(made) \in Nat /\ page.version \in Nat
        BY FS_CardinalityType DEF AgentInv, RestOK, Page, EchoInv
    <2>2. page.version <= Cardinality(made)
        BY <2>1 DEF EchoInv, Count
    <2>3. QED
        BY <2>2 DEF OriginInv, NoEcho
<1>3. QED
    BY <1>1, <1>2, AgentAlways, BasesAlways, NextEcho, NextOrigin, PTL DEF AgentSpec

-----------------------------------------------------------------------------
(* Consequences.                                                            *)

\* An agent that never stopped has nothing to replay.
NeverStopped == crashes = 0 => up /\ replay = <<>> /\ failed = {}

\* Every step keeps NeverStopped.
LEMMA NextStopped == AgentInv /\ NeverStopped /\ [AgentNext]_agentVars => NeverStopped'
<1> SUFFICES ASSUME AgentInv, NeverStopped, [AgentNext]_agentVars, crashes' = 0 PROVE up' /\ replay' = <<>> /\ failed' = {}
    BY DEF NeverStopped
<1>1. crashes \in Nat
    BY DEF AgentInv, RestOK
<1>2. CASE Crash
    BY <1>1, <1>2 DEF Crash
<1>3. CASE UNCHANGED <<crashes, up, replay, failed>>
    BY <1>3 DEF NeverStopped
<1>4. CASE ReplayAccepted \/ ReplayRefused \/ ReplayStops \/ Restart
    <2>1. crashes' = crashes
        BY <1>4 DEF ReplayAccepted, ReplayRefused, ReplayStops, Restart, durable
    <2>2. up /\ replay = <<>>
        BY <2>1 DEF NeverStopped
    <2>3. push["replay"].state = "none"
        BY <2>2 DEF AgentInv, ReplayOK
    <2>4. QED
        BY <1>4, <2>2, <2>3 DEF ReplayAccepted, ReplayRefused, ReplayStops, Restart
<1>5. QED
    BY <1>2, <1>3, <1>4
    DEF AgentNext, LocalEdit, RemoteEdit, Flush, Serve, Accepted, Refused, Unanswered, OnChange, FlushSkipped, Expire,
        ReplaySend, Read, ApplyRead, agentVars, durable, volatile, history

(***************************************************************************)
(* As long as the agent has not stopped once, nothing another server wrote *)
(* is undone: the optimistic concurrency DESIGN.md promises holds, with    *)
(* any number of pushes in flight and answers lost, until a stop lets the  *)
(* replay put an old page into the file without its version                *)
(* (_replay_queue of watcher.py).                                          *)
(***************************************************************************)
THEOREM UndoneOnlyAfterStop == AgentSpec => [][Undoes => crashes > 0]_agentVars
<1>1. AgentInit => NeverStopped
    BY DEF AgentInit, NeverStopped
<1>2. AgentInv /\ NeverStopped /\ [Undoes => failed # {}]_agentVars => [Undoes => crashes > 0]_agentVars
    BY DEF NeverStopped, AgentInv, RestOK
<1>3. QED
    BY <1>1, <1>2, NextStopped, AgentAlways, RemoteNotUndone, PTL DEF AgentSpec, RemoteIsSeen

(***************************************************************************)
(* As long as no replayed write was refused, the version cache vouches for *)
(* the file: if it names the master's version, and another server wrote    *)
(* that, then the file has all of it (set_page_version in watcher.py and   *)
(* sync.py, on which every base version rests).                            *)
(***************************************************************************)
THEOREM CacheVouchesForFile ==
    AgentSpec => [](failed = {} /\ cache = page.version /\ page.by = "remote" => file # Nil /\ page.content \subseteq file)
<1>1. AgentInit => CoverInv
    BY NoPushType DEF AgentInit, NoPage, CoverInv, FileCovers, QueueCovers, CallCovers, Covers
<1>2. CoverInv => (failed = {} /\ cache = page.version /\ page.by = "remote" => file # Nil /\ page.content \subseteq file)
    BY DEF CoverInv, FileCovers
<1>3. QED
    BY <1>1, <1>2, AgentAlways, BasesAlways, NextCovers, PTL DEF AgentSpec

\* The agent has nothing left to do for its own edits.
AtRest == ~notice /\ ~timer /\ queue = <<>> /\ \A f \in Flushes : push[f] = NoPush

(***************************************************************************)
(* When the agent is at rest every local edit has reached the page, was    *)
(* refused or cut off, was dropped in one of the ways the model names, or  *)
(* is kept in queue/failed: there is no other way to lose one.             *)
(***************************************************************************)
THEOREM RestAccountsForEdits ==
    AgentSpec => [](AtRest => made \cap Local \subseteq settled \cup dropped \cup UNION failed)
<1>1. AgentInv /\ SentIsKept /\ UnsentIsPending => (AtRest => made \cap Local \subseteq settled \cup dropped \cup UNION failed)
    <2> SUFFICES ASSUME AgentInv, SentIsKept, UnsentIsPending, AtRest,
                        NEW e \in made \cap Local, e \notin settled, e \notin dropped
                 PROVE  \E c \in failed : e \in c
        OBVIOUS
    <2>1. e \in sent
        BY DEF UnsentIsPending, AtRest
    <2>2. DOMAIN queue = {} /\ \A f \in Flushes : e \notin push[f].content
        BY NoPushType DEF AtRest
    <2>3. QED
        BY <2>1, <2>2 DEF SentIsKept
<1>2. QED
    BY <1>1, AgentAlways, SentNotLost, UnsentNotForgotten, PTL

================================================================================
