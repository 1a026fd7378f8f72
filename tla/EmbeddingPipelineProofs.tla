------------------------ MODULE EmbeddingPipelineProofs ------------------------
(***************************************************************************)
(* Theorems about EmbeddingPipeline for every set of pages and requests:   *)
(* what a job, a claim and a row of embeddings say about the page.         *)
(***************************************************************************)
EXTENDS EmbeddingPipeline, PageStoreProofs, FiniteSetTheorems

Sources == Writers \cup Embedders

\* A write or an embed that was acknowledged.
Acknowledged(r) == r \in Sources /\ pc[r] = "done" /\ reply[r].status = "ok"

\* A job stems from an acknowledged request for this version of this page.
Stems(j) ==
    /\ j \in Job
    /\ Acknowledged(j.request) /\ txn[j.request].path = j.path /\ NewVersion(j.request) = j.version

Queued ==
    /\ jobs \subseteq Job /\ IsFiniteSet(jobs)
    /\ \A j \in jobs : Stems(j)

WorkerOK ==
    /\ worker.step \in {"idle", "embed", "store"}
    /\ worker.step # "idle" => Stems(worker.job)

\* Whoever has started has its place in the order of the queue.
Started ==
    /\ began \in Seq(Request)
    /\ \A r \in Sources : pc[r] # "idle" => \E i \in DOMAIN began : began[i] = r

\* A commit that enqueues nothing repeats a version that was acknowledged before.
Repeats ==
    \A r \in Sources :
        pc[r] = "commit" /\ ~txn[r].enqueues =>
            \E s \in Sources \ {r} :
                Acknowledged(s) /\ txn[s].path = txn[r].path /\ NewVersion(s) = NewVersion(r)

PipelineInv ==
    /\ TypeOK /\ Flow
    /\ DOMAIN emb = Path
    /\ Queued /\ WorkerOK /\ Started /\ Repeats

-----------------------------------------------------------------------------
(* What a step of a request does, as far as the worker can see.             *)

\* A request that is done stays as it is.
LEMMA DoneStays ==
    ASSUME TypeOK, [Next]_vars, NEW r \in Request, pc[r] = "done"
    PROVE  pc'[r] = "done" /\ reply'[r] = reply[r] /\ txn'[r] = txn[r]
<1> USE Kinds
<1>1. ASSUME NEW q \in Request, NEW a, End(q, a), pc[q] # "done", UNCHANGED txn
      PROVE  pc'[r] = "done" /\ reply'[r] = reply[r] /\ txn'[r] = txn[r]
    BY <1>1 DEF End, TypeOK
<1>2. ASSUME NEW q \in Request, NEW l, Goto(q, l), pc[q] # "done", UNCHANGED reply,
             \A s \in Request \ {q} : txn'[s] = txn[s]
      PROVE  pc'[r] = "done" /\ reply'[r] = reply[r] /\ txn'[r] = txn[r]
    BY <1>2 DEF Goto, TypeOK
<1>3. ASSUME NEW q \in Writers, NEW p \in Path, NEW b \in Base, WriteSelect(q, p, b)
      PROVE  pc'[r] = "done" /\ reply'[r] = reply[r] /\ txn'[r] = txn[r]
    BY <1>2, <1>3 DEF WriteSelect, TypeOK
<1>4. ASSUME NEW q \in Embedders \cup Emitters, NEW p \in Path \cup {Nil}, ExtBegin(q, p)
      PROVE  pc'[r] = "done" /\ reply'[r] = reply[r] /\ txn'[r] = txn[r]
    BY <1>2, <1>4 DEF ExtBegin, TypeOK
<1>5. ASSUME NEW q \in Request, DrawVersion(q)
      PROVE  pc'[r] = "done" /\ reply'[r] = reply[r] /\ txn'[r] = txn[r]
    BY <1>2, <1>5 DEF DrawVersion, TypeOK
<1>6. ASSUME NEW q \in Request, EmbedLookup(q)
      PROVE  pc'[r] = "done" /\ reply'[r] = reply[r] /\ txn'[r] = txn[r]
    BY <1>2, <1>6 DEF EmbedLookup, TypeOK
<1>7. ASSUME NEW q \in Request, Upsert(q)
      PROVE  pc'[r] = "done" /\ reply'[r] = reply[r] /\ txn'[r] = txn[r]
    BY <1>2, <1>7 DEF Upsert, TypeOK
<1>8. ASSUME NEW d \in Deregs, NEW q \in Path \cup {Nil}, DropSnapshot(d, q) \/ DropRow(d, q)
      PROVE  pc'[r] = "done" /\ reply'[r] = reply[r] /\ txn'[r] = txn[r]
    BY <1>8, DropStep
<1>9. CASE UNCHANGED vars
    BY <1>9 DEF vars
<1>10. QED
    BY <1>1, <1>3, <1>4, <1>5, <1>6, <1>7, <1>8, <1>9
    DEF Next, Advance, AdvanceDrop, Finished, ExtUnknown, Refuse, CommitWrite, CommitLog, CommitEmbed,
        CommitEmit, CommitDrop, Abort

\* The commit of a write or of an embed.
RowCommit(r) ==
    /\ pc[r] = "commit" /\ PutRow(r) /\ UNCHANGED txn
    /\ pc' = [pc EXCEPT ![r] = "done"] /\ reply'[r].status = "ok"

\* Pages and jobs change in a commit of a row, pages in a deregistration too.
LEMMA StoreEffect ==
    ASSUME TypeOK, [Next]_vars
    PROVE  \/ \E r \in Sources : RowCommit(r)
           \/ \E d \in Deregs : /\ pages' = [p \in Path |-> IF p \in doomed[d] THEN NoRow ELSE pages[p]]
                                /\ UNCHANGED <<jobs, txn>>
           \/ UNCHANGED <<pages, jobs>>
<1> USE Kinds
<1>1. ASSUME NEW r \in Request, CommitWrite(r) \/ CommitEmbed(r) PROVE r \in Sources /\ RowCommit(r)
    BY <1>1 DEF CommitWrite, CommitEmbed, RowCommit, Sources, End, Answer, TypeOK
<1>2. QED
    BY <1>1
    DEF Next, Advance, AdvanceDrop, Finished, vars, WriteSelect, ExtBegin, ExtUnknown, DropSnapshot,
        Refuse, DrawVersion, EmbedLookup, Upsert, CommitLog, CommitEmit, DropRow, CommitDrop, Abort

\* A write or an embed comes to its commit by its upsert.
LEMMA CommitFollows ==
    ASSUME TypeOK, Flow, [Next]_vars, NEW r \in Sources, pc'[r] = "commit"
    PROVE  Upsert(r) \/ (pc[r] = "commit" /\ txn'[r] = txn[r])
<1> USE Kinds DEF Sources
<1>1. ASSUME NEW q \in Request, NEW a, End(q, a), UNCHANGED txn
      PROVE  pc[r] = "commit" /\ txn'[r] = txn[r]
    BY <1>1 DEF End, TypeOK
<1>2. ASSUME NEW q \in Request, NEW l, Goto(q, l), l # "commit" \/ q # r,
             \A s \in Request \ {q} : txn'[s] = txn[s]
      PROVE  pc[r] = "commit" /\ txn'[r] = txn[r]
    BY <1>2 DEF Goto, TypeOK
<1>3. ASSUME NEW q \in Writers, NEW p \in Path, NEW b \in Base, WriteSelect(q, p, b)
      PROVE  pc[r] = "commit" /\ txn'[r] = txn[r]
    BY <1>2, <1>3 DEF WriteSelect, TypeOK
<1>4. ASSUME NEW q \in Embedders \cup Emitters, NEW p \in Path \cup {Nil}, ExtBegin(q, p)
      PROVE  pc[r] = "commit" /\ txn'[r] = txn[r]
    BY <1>2, <1>4 DEF ExtBegin, TypeOK
<1>5. ASSUME NEW q \in Request, DrawVersion(q) PROVE pc[r] = "commit" /\ txn'[r] = txn[r]
    BY <1>2, <1>5 DEF DrawVersion, TypeOK
<1>6. ASSUME NEW q \in Request, EmbedLookup(q) PROVE pc[r] = "commit" /\ txn'[r] = txn[r]
    BY <1>2, <1>6 DEF EmbedLookup, TypeOK
<1>7. ASSUME NEW q \in Request, Upsert(q), q # r PROVE pc[r] = "commit" /\ txn'[r] = txn[r]
    BY <1>2, <1>7 DEF Upsert, TypeOK
<1>8. ASSUME NEW d \in Deregs, NEW q \in Path \cup {Nil}, DropSnapshot(d, q) \/ DropRow(d, q)
      PROVE  pc[r] = "commit" /\ txn'[r] = txn[r]
    BY <1>8, DropStep
<1>9. CASE UNCHANGED vars
    BY <1>9 DEF vars
<1>10. QED
    BY <1>1, <1>3, <1>4, <1>5, <1>6, <1>7, <1>8, <1>9
    DEF Next, Advance, AdvanceDrop, Finished, ExtUnknown, Refuse, CommitWrite, CommitLog, CommitEmbed,
        CommitEmit, CommitDrop, Abort

\* One request at a time moves.
LEMMA OneMoves ==
    ASSUME TypeOK, [Next]_vars
    PROVE  \E q : \A r \in Request : r # q => pc'[r] = pc[r]
<1>1. ASSUME NEW q \in Request, NEW a, End(q, a) PROVE \A r \in Request : r # q => pc'[r] = pc[r]
    BY <1>1 DEF End, TypeOK
<1>2. ASSUME NEW q \in Request, NEW l, Goto(q, l) PROVE \A r \in Request : r # q => pc'[r] = pc[r]
    BY <1>2 DEF Goto, TypeOK
<1>3. ASSUME NEW d \in Deregs, NEW q \in Path \cup {Nil}, DropSnapshot(d, q) \/ DropRow(d, q)
      PROVE \A r \in Request : r # d => pc'[r] = pc[r]
    BY <1>3, DropStep
<1>4. QED
    BY <1>1, <1>2, <1>3, Kinds
    DEF Next, Advance, AdvanceDrop, Finished, vars, WriteSelect, ExtBegin, ExtUnknown, Refuse, DrawVersion,
        EmbedLookup, Upsert, CommitWrite, CommitLog, CommitEmbed, CommitEmit, CommitDrop, Abort

\* What stems from an acknowledged request goes on to do so.
LEMMA StemsStays == ASSUME TypeOK, [Next]_vars, NEW j, Stems(j) PROVE Stems(j)'
<1>1. j.request \in Request
    BY Kinds DEF Stems, Acknowledged, Sources
<1>2. QED
    BY <1>1, DoneStays DEF Stems, Acknowledged, NewVersion
-----------------------------------------------------------------------------
(* The invariant.                                                           *)

\* Nothing is queued and nobody has started, but for log entries.
LEMMA InitPipeline == PipelineInit => PipelineInv
<1> SUFFICES ASSUME PipelineInit PROVE PipelineInv
    OBVIOUS
<1>1. TypeOK /\ Flow
    BY InitType, InitFlow DEF PipelineInit
<1>2. \A r \in Sources : pc[r] = "idle"
    BY Kinds DEF PipelineInit, Init, Sources
<1>3. Queued
    BY FS_EmptySet DEF PipelineInit, Init, Queued
<1>4. WorkerOK /\ Started /\ Repeats /\ DOMAIN emb = Path
    BY <1>2 DEF PipelineInit, WorkerOK, Started, Repeats, Idle
<1>5. QED
    BY <1>1, <1>3, <1>4 DEF PipelineInv

\* Something has the smallest number.
LEMMA Least ==
    ASSUME NEW S, S # {}, NEW f \in [S -> Nat]
    PROVE  \E x \in S : \A y \in S : f[x] <= f[y]
<1> DEFINE T == {f[x] : x \in S}
<1>1. T \subseteq Nat /\ T # {}
    OBVIOUS
<1>2. \E m \in T : \A n \in T : <<n, m>> \notin OpToRel(<, Nat)
    <2> HIDE DEF T
    <2>1. QED
        BY <1>1, WFMin, NatLessThanWellFounded, Zenon
<1>3. \E x \in S : \A y \in S : ~(f[y] < f[x])
    BY <1>2 DEF OpToRel
<1>4. QED
    BY <1>3

\* The claim finds a job: some job is the oldest.
LEMMA OldestIs ==
    ASSUME PipelineInv, NEW js \in SUBSET jobs, js # {}
    PROVE  Oldest(js) \in js
<1> DEFINE at(j) == CHOOSE i \in DOMAIN began : began[i] = j.request
           f == [j \in js |-> at(j)]
<1>1. ASSUME NEW j \in js PROVE at(j) \in Nat
    <2>1. Stems(j)
        BY DEF PipelineInv, Queued
    <2>2. \E i \in DOMAIN began : began[i] = j.request
        BY <2>1 DEF PipelineInv, Started, Stems, Acknowledged
    <2>3. at(j) \in DOMAIN began /\ began \in Seq(Request)
        BY <2>2 DEF PipelineInv, Started
    <2>4. QED
        BY <2>3
<1>2. f \in [js -> Nat]
    BY <1>1
<1>3. \E x \in js : \A y \in js : f[x] <= f[y]
    BY <1>2, Least
<1>4. \E x \in js : \A y \in js : at(x) <= at(y)
    BY <1>3
<1>5. QED
    BY <1>4 DEF Oldest

\* The requests that start take their place in the order.
LEMMA StoreStarts == ASSUME PipelineInv, StoreStep PROVE Started'
<1>1. PICK q : \A r \in Request : r # q => pc'[r] = pc[r]
    BY OneMoves DEF PipelineInv, StoreStep
<1>2. began \in Seq(Request) /\ \A r \in Sources : pc[r] # "idle" => \E i \in DOMAIN began : began[i] = r
    BY DEF PipelineInv, Started
<1>3. Starting \subseteq {q} /\ Starting \subseteq Sources
    BY <1>1, Kinds DEF Starting, Sources
<1>4. ASSUME NEW r \in Sources, pc'[r] # "idle" PROVE pc[r] # "idle" \/ r \in Starting
    BY <1>4 DEF Starting, Sources
<1>5. CASE Starting = {}
    <2>1. began' = began
        BY <1>5 DEF StoreStep
    <2>2. QED
        BY <1>2, <1>4, <1>5, <2>1 DEF Started
<1>6. CASE Starting # {}
    <2>1. PICK r \in Starting, i \in 0..Len(began) :
             began' = SubSeq(began, 1, i) \o <<r>> \o SubSeq(began, i + 1, Len(began))
        BY <1>6 DEF StoreStep
    <2>2. r \in Request /\ Starting = {r}
        BY <1>3, Kinds DEF Sources
    <2>3. /\ began' \in Seq(Request) /\ Len(began') = Len(began) + 1 /\ Len(began) \in Nat
          /\ began'[i + 1] = r
          /\ \A k \in 1..i : began'[k] = began[k]
          /\ \A k \in i+1..Len(began) : began'[k + 1] = began[k]
        <3>1. PICK s, t : s = began /\ t = began'
            OBVIOUS
        <3>2. s \in Seq(Request) /\ Len(s) \in Nat /\ i \in Nat /\ i <= Len(s) /\ r \in Request
            BY <1>2, <2>2, <3>1
        <3>3. PICK a : a = SubSeq(s, 1, i)
            OBVIOUS
        <3>4. PICK b : b = SubSeq(s, i + 1, Len(s))
            OBVIOUS
        <3>5. a \in Seq(Request) /\ Len(a) = i /\ \A k \in 1..i : a[k] = s[k]
            BY ONLY <3>2, <3>3
        <3>6. b \in Seq(Request) /\ Len(b) = Len(s) - i /\ \A k \in 1..(Len(s) - i) : b[k] = s[i + k]
            BY ONLY <3>2, <3>4
        <3>7. t = a \o <<r>> \o b
            BY <2>1, <3>1, <3>3, <3>4
        <3>8. /\ t \in Seq(Request) /\ Len(t) = Len(a) + 1 + Len(b) /\ t[Len(a) + 1] = r
              /\ \A k \in 1..Len(a) : t[k] = a[k]
              /\ \A k \in 1..Len(b) : t[Len(a) + 1 + k] = b[k]
            <4>1. a \in Seq(Request) /\ b \in Seq(Request) /\ r \in Request
                BY <3>2, <3>5, <3>6
            <4>2. QED
                BY ONLY <3>7, <4>1
        <3>9. ASSUME NEW k \in i+1..Len(s) PROVE t[k + 1] = s[k]
            <4>1. k - i \in 1..Len(b) /\ Len(a) + 1 + (k - i) = k + 1 /\ i + (k - i) = k
                BY ONLY <3>2, <3>5, <3>6, k \in i+1..Len(s)
            <4>2. t[Len(a) + 1 + (k - i)] = b[k - i]
                BY ONLY <3>8, <4>1
            <4>3. b[k - i] = s[i + (k - i)]
                BY ONLY <3>2, <3>6, <4>1
            <4>4. QED
                BY ONLY <4>1, <4>2, <4>3
        <3>10. /\ t \in Seq(Request) /\ Len(t) = Len(s) + 1 /\ Len(s) \in Nat /\ t[i + 1] = r
               /\ \A k \in 1..i : t[k] = s[k]
               /\ \A k \in i+1..Len(s) : t[k + 1] = s[k]
            BY ONLY <3>2, <3>5, <3>6, <3>8, <3>9
        <3>11. QED
            BY ONLY <3>1, <3>10
    <2>4. ASSUME NEW s \in Sources, pc'[s] # "idle" PROVE \E k \in DOMAIN began' : began'[k] = s
        <3>1. CASE s = r
            BY <2>3, <3>1
        <3>2. CASE s # r
            <4>1. PICK k \in 1..Len(began) : began[k] = s
                BY <1>2, <1>4, <2>2, <2>4, <3>2
            <4>2. k \in DOMAIN began' /\ k + 1 \in DOMAIN began' /\ (k \in 1..i \/ k \in i+1..Len(began))
                BY <2>3
            <4>3. QED
                BY <2>3, <4>1, <4>2
        <3>3. QED
            BY <3>1, <3>2
    <2>5. QED
        BY <2>3, <2>4 DEF Started
<1>7. QED
    BY <1>5, <1>6

\* An upsert that finds its version queued repeats an acknowledged one.
LEMMA StoreRepeats == ASSUME PipelineInv, StoreStep PROVE Repeats'
<1> SUFFICES ASSUME NEW r \in Sources, pc'[r] = "commit", ~txn'[r].enqueues
             PROVE  \E s \in Sources \ {r} :
                        (Acknowledged(s) /\ txn[s].path = txn[r].path /\ NewVersion(s) = NewVersion(r))'
    BY DEF Repeats
<1>1. TypeOK /\ Flow /\ [Next]_vars /\ r \in Request
    BY Kinds DEF PipelineInv, StoreStep, Sources
<1>2. ASSUME NEW s \in Sources, Acknowledged(s), txn[s].path = txn[r].path, NewVersion(s) = NewVersion(r),
             txn'[r].path = txn[r].path, txn'[r].seen = txn[r].seen
      PROVE  (Acknowledged(s) /\ txn[s].path = txn[r].path /\ NewVersion(s) = NewVersion(r))'
    <2>1. s \in Request
        BY Kinds DEF Sources
    <2>2. QED
        BY <1>1, <1>2, <2>1, DoneStays DEF Acknowledged, NewVersion
<1>3. CASE pc[r] = "commit" /\ txn'[r] = txn[r]
    BY <1>2, <1>3 DEF PipelineInv, Repeats
<1>4. CASE Upsert(r)
    <2> DEFINE b == ~\E j \in jobs : j.path = txn[r].path /\ j.version = NewVersion(r)
    <2>1. b \in BOOLEAN
        OBVIOUS
    <2>2. txn' = [txn EXCEPT ![r].enqueues = b] /\ pc[r] = "upsert"
        BY <1>4 DEF Upsert
    <2> HIDE DEF b
    <2>3. txn'[r].enqueues = b /\ txn'[r].path = txn[r].path /\ txn'[r].seen = txn[r].seen
        BY <1>1, <2>1, <2>2 DEF TypeOK, Txn
    <2>4. PICK j \in jobs : j.path = txn[r].path /\ j.version = NewVersion(r)
        BY <2>3 DEF b
    <2>5. Stems(j)
        BY DEF PipelineInv, Queued
    <2>6. j.request \in Sources \ {r}
        BY <2>2, <2>5 DEF Stems, Acknowledged
    <2>7. QED
        BY <1>2, <2>3, <2>4, <2>5, <2>6 DEF Stems
<1>5. QED
    BY <1>1, <1>3, <1>4, CommitFollows

\* The job of a commit stems from the request that has just been acknowledged.
LEMMA StoreQueues == ASSUME PipelineInv, StoreStep PROVE Queued'
<1>1. TypeOK /\ Flow /\ [Next]_vars
    BY DEF PipelineInv, StoreStep
<1>2. ASSUME NEW j \in jobs PROVE Stems(j)'
    BY <1>1, StemsStays DEF PipelineInv, Queued
<1>3. CASE UNCHANGED jobs
    BY <1>2, <1>3 DEF PipelineInv, Queued
<1>4. ASSUME NEW r \in Sources, RowCommit(r) PROVE Queued'
    <2> PICK k : k = [path |-> txn[r].path, version |-> NewVersion(r), request |-> r]
        OBVIOUS
    <2>1. r \in Request /\ txn[r].path \in Path /\ NewVersion(r) \in Nat
        BY <1>1, <1>4, Kinds DEF Sources, RowCommit, Flow, FlowAt, TypeOK, Txn, NewVersion
    <2>2. k \in Job /\ k.request = r /\ k.path = txn[r].path /\ k.version = NewVersion(r)
        BY <2>1 DEF Job
    <2>3. jobs' = (IF txn[r].enqueues THEN jobs \cup {k} ELSE jobs)
        BY <1>4 DEF RowCommit, PutRow
    <2>4. Stems(k)'
        BY <1>1, <1>4, <2>1, <2>2 DEF Stems, Acknowledged, RowCommit, NewVersion, TypeOK
    <2>5. IsFiniteSet(jobs')
        BY <2>3, FS_AddElement DEF PipelineInv, Queued
    <2>6. QED
        BY <1>2, <2>2, <2>3, <2>4, <2>5 DEF PipelineInv, Queued
<1>5. QED
    BY <1>1, <1>3, <1>4, StoreEffect

\* Every step keeps PipelineInv.
LEMMA NextPipeline == PipelineInv /\ [PipelineNext]_pipelineVars => PipelineInv'
<1> SUFFICES ASSUME PipelineInv, [PipelineNext]_pipelineVars PROVE PipelineInv'
    OBVIOUS
<1>1. CASE StoreStep
    <2>1. TypeOK /\ Flow /\ [Next]_vars
        BY <1>1 DEF PipelineInv, StoreStep
    <2>2. TypeOK' /\ Flow'
        BY <2>1, NextType, NextFlow
    <2>3. DOMAIN emb' = Path
        BY <1>1 DEF StoreStep
    <2>4. WorkerOK'
        <3>1. worker' = worker
            BY <1>1 DEF StoreStep
        <3> PICK k : k = worker.job
            OBVIOUS
        <3>2. worker.step # "idle" => Stems(k)'
            BY <2>1, StemsStays DEF PipelineInv, WorkerOK
        <3>3. QED
            BY <3>1, <3>2 DEF PipelineInv, WorkerOK
    <2>5. QED
        BY <1>1, <2>2, <2>3, <2>4, StoreStarts, StoreRepeats, StoreQueues DEF PipelineInv
<1>2. ASSUME UNCHANGED vars
      PROVE  TypeOK' /\ Flow' /\ Queued' /\ Repeats' /\ \A j : Stems(j) => Stems(j)'
    BY <1>2 DEF vars, PipelineInv, TypeOK, Flow, FlowAt, DropAt, Matches, Queued, Repeats, Stems, Acknowledged,
                NewVersion
<1>3. ASSUME UNCHANGED <<pc, began>> PROVE Started'
    BY <1>3 DEF PipelineInv, Started
<1>4. CASE Pop
    <2> PICK j : j = Oldest(Claimable)
        OBVIOUS
    <2>1. j \in jobs
        BY <1>4, OldestIs DEF Pop, Claimable
    <2>2. Stems(j)
        BY <2>1 DEF PipelineInv, Queued
    <2>3. worker' = [step |-> "embed", job |-> j, text |-> pages[j.path].content] /\ UNCHANGED <<vars, emb, began>>
        BY <1>4 DEF Pop
    <2>4. Stems(j)' /\ worker'.step = "embed" /\ worker'.job = j
        BY <1>2, <2>2, <2>3
    <2>5. WorkerOK'
        BY <2>4 DEF WorkerOK
    <2>6. QED
        BY <1>2, <1>3, <2>3, <2>5 DEF PipelineInv, vars
<1>5. CASE EmbedReturns
    <2>1. worker'.job = worker.job /\ worker'.step = "store" /\ UNCHANGED <<vars, emb, began>> /\ worker.step = "embed"
        BY <1>5 DEF EmbedReturns, PipelineInv, WorkerOK
    <2>2. WorkerOK'
        BY <1>2, <2>1 DEF PipelineInv, WorkerOK, Stems
    <2>3. QED
        BY <1>2, <1>3, <2>1, <2>2 DEF PipelineInv, vars
<1>6. CASE EmbedFails \/ StoreRefused
    <2>1. worker'.step = "idle" /\ UNCHANGED <<vars, emb, began>>
        BY <1>6 DEF EmbedFails, StoreRefused, Idle
    <2>2. WorkerOK'
        BY <2>1 DEF WorkerOK
    <2>3. QED
        BY <1>2, <1>3, <2>1, <2>2 DEF PipelineInv, vars
<1>7. CASE Complete
    <2>1. /\ worker'.step = "idle" /\ jobs' = jobs \ {worker.job}
          /\ UNCHANGED <<pages, seq, holder, pc, txn, doomed, registered, events, audit, reply, tries, began>>
          /\ DOMAIN emb' = DOMAIN emb
        BY <1>7 DEF Complete, Idle
    <2>2. TypeOK' /\ Flow' /\ Repeats'
        BY <2>1 DEF PipelineInv, TypeOK, Flow, FlowAt, DropAt, Matches, Repeats, Acknowledged, NewVersion
    <2>3. IsFiniteSet(jobs')
        BY <2>1, FS_Subset DEF PipelineInv, Queued
    <2>4. Queued'
        BY <2>1, <2>3 DEF PipelineInv, Queued, Stems, Acknowledged, NewVersion
    <2>5. QED
        BY <1>3, <2>1, <2>2, <2>4 DEF PipelineInv, WorkerOK
<1>8. CASE UNCHANGED pipelineVars
    <2>1. UNCHANGED <<vars, emb, began, worker>>
        BY <1>8 DEF pipelineVars
    <2>2. WorkerOK'
        BY <1>2, <2>1 DEF PipelineInv, WorkerOK, Stems
    <2>3. QED
        BY <1>2, <1>3, <2>1, <2>2 DEF PipelineInv, vars
<1>9. QED
    BY <1>1, <1>4, <1>5, <1>6, <1>7, <1>8 DEF PipelineNext

\* The invariant always holds.
LEMMA PipelineAlways == PipelineSpec => []PipelineInv
BY InitPipeline, NextPipeline, PTL DEF PipelineSpec


-----------------------------------------------------------------------------
(* Freshness.                                                               *)

\* The worker holds the content of the page, if that is what its job is about.
ClaimedOK ==
    worker.step # "idle" /\ pages[worker.job.path].content = worker.job.request =>
        worker.text = worker.job.request

\* A page whose content has no job left has its embedding, and what the worker
\* is about to store for the page does not change that.
ServedAt(p) ==
    Exists(p) /\ EachVersionOnce(p) =>
        \/ \E j \in jobs : j.path = p /\ j.request = pages[p].content
        \/ /\ emb[p].content = pages[p].content
           /\ worker.step # "idle" /\ worker.job.path = p => worker.text = pages[p].content

Served == ClaimedOK /\ \A p \in Path : ServedAt(p)

\* Pages that are there at the start have been embedded.
LEMMA InitServed == PipelineInit => Served
BY DEF PipelineInit, Init, Served, ClaimedOK, ServedAt, Exists, Idle, NoRow, NoEmb

\* Two equal versions that were acknowledged stay acknowledged.
LEMMA OnceBefore ==
    ASSUME TypeOK, Flow, [Next]_vars, NEW p, EachVersionOnce(p)'
    PROVE  EachVersionOnce(p)
<1>0. ASSUME NEW r \in Sources, reply[r].status = "ok" PROVE pc[r] = "done"
    BY <1>0, Kinds DEF Sources, Flow, FlowAt, Pending
<1> SUFFICES ASSUME NEW r \in Sources, NEW s \in Sources, r # s, txn[r].path = p, txn[s].path = p,
                    reply[r].status = "ok", reply[s].status = "ok", pc[r] = "done", pc[s] = "done"
             PROVE  NewVersion(r) # NewVersion(s)
    BY <1>0 DEF EachVersionOnce, Sources
<1>1. r \in Request /\ s \in Request
    BY Kinds DEF Sources
<1>2. UNCHANGED <<txn[r], txn[s], reply[r], reply[s]>>
    BY <1>1, DoneStays
<1>3. QED
    BY <1>2 DEF EachVersionOnce, Sources, NewVersion


\* The commit of a row: its job is queued, or its version was given out before.
LEMMA CommitServed ==
    ASSUME PipelineInv, Served, StoreStep, NEW r \in Sources, RowCommit(r)
    PROVE  Served'
<1> USE Kinds
<1>1. /\ TypeOK /\ Flow /\ [Next]_vars /\ worker' = worker
      /\ r \in Request /\ pc[r] = "commit" /\ txn' = txn /\ pages \in [Path -> Row]
    BY DEF PipelineInv, StoreStep, RowCommit, Sources, TypeOK
<1> PICK p : p = txn[r].path
    OBVIOUS
<1>2. p \in Path
    BY <1>1 DEF Flow, FlowAt, Sources
<1> PICK k : k = [path |-> p, version |-> NewVersion(r), request |-> r]
    OBVIOUS
<1>3. /\ pages'[p].content = r
      /\ \A q \in Path : q # p => pages'[q] = pages[q]
      /\ jobs' = IF txn[r].enqueues THEN jobs \cup {k} ELSE jobs
      /\ k.path = p /\ k.request = r
    BY <1>1, <1>2 DEF RowCommit, PutRow
<1>4. ClaimedOK'
    <2> SUFFICES ASSUME worker.step # "idle", pages'[worker.job.path].content = worker.job.request
                 PROVE  worker.text = worker.job.request
        BY <1>1 DEF ClaimedOK
    <2>1. Stems(worker.job)
        BY DEF PipelineInv, WorkerOK
    <2>2. worker.job.request # r /\ worker.job.path \in Path
        BY <1>1, <2>1 DEF Stems, Acknowledged, Job
    <2>3. worker.job.path # p
        BY <1>3, <2>2
    <2>4. QED
        BY <1>3, <2>2, <2>3 DEF Served, ClaimedOK
<1>5. ServedAt(p)'
    <2>1. CASE txn[r].enqueues
        BY <1>3, <2>1 DEF ServedAt
    <2>2. CASE ~txn[r].enqueues
        <3>1. PICK s \in Sources \ {r} :
                  Acknowledged(s) /\ txn[s].path = txn[r].path /\ NewVersion(s) = NewVersion(r)
            BY <1>1, <2>2 DEF PipelineInv, Repeats
        <3>2. reply'[s].status = "ok" /\ reply'[r].status = "ok"
            BY <1>1, <3>1, DoneStays DEF Acknowledged, RowCommit, Sources
        <3>3. ~EachVersionOnce(p)'
            BY <1>1, <3>1, <3>2 DEF EachVersionOnce, Sources, NewVersion
        <3>4. QED
            BY <3>3 DEF ServedAt
    <2>3. QED
        BY <2>1, <2>2
<1>6. ASSUME NEW q \in Path, q # p PROVE ServedAt(q)'
    <2> SUFFICES ASSUME Exists(q)', EachVersionOnce(q)'
                 PROVE  \/ \E j \in jobs' : j.path = q /\ j.request = pages'[q].content
                        \/ /\ emb'[q].content = pages'[q].content
                           /\ worker'.step # "idle" /\ worker'.job.path = q => worker'.text = pages'[q].content
        BY DEF ServedAt
    <2>1. pages'[q] = pages[q] /\ pages[q].version > 0
        BY <1>3, <1>6 DEF Exists
    <2>2. Exists(q) /\ EachVersionOnce(q)
        BY <1>1, <2>1, OnceBefore DEF Exists
    <2>3. emb'[q] = emb[q]
        BY <1>1, <2>1 DEF StoreStep, TypeOK, Row
    <2>4. jobs \subseteq jobs'
        BY <1>3
    <2>5. ServedAt(q)
        BY DEF Served
    <2>6. QED
        BY <1>1, <2>1, <2>2, <2>3, <2>4, <2>5 DEF ServedAt
<1>7. QED
    BY <1>4, <1>5, <1>6 DEF Served

\* A step of a request that commits no row.
LEMMA StoreServed ==
    ASSUME PipelineInv, Served, StoreStep, UNCHANGED jobs,
           \A p \in Path : pages'[p] \in {pages[p], NoRow}
    PROVE  Served'
<1>1. TypeOK /\ Flow /\ [Next]_vars /\ worker' = worker
    BY DEF PipelineInv, StoreStep
<1>2. ClaimedOK'
    <2> SUFFICES ASSUME worker.step # "idle", pages'[worker.job.path].content = worker.job.request
                 PROVE  worker.text = worker.job.request
        BY <1>1 DEF ClaimedOK
    <2>1. worker.job.path \in Path /\ worker.job.request # Nil
        BY Kinds DEF PipelineInv, WorkerOK, Stems, Job
    <2>2. pages'[worker.job.path] = pages[worker.job.path]
        BY <2>1 DEF NoRow
    <2>3. QED
        BY <2>2 DEF Served, ClaimedOK
<1>3. ASSUME NEW q \in Path PROVE ServedAt(q)'
    <2> SUFFICES ASSUME Exists(q)', EachVersionOnce(q)'
                 PROVE  \/ \E j \in jobs' : j.path = q /\ j.request = pages'[q].content
                        \/ /\ emb'[q].content = pages'[q].content
                           /\ worker'.step # "idle" /\ worker'.job.path = q => worker'.text = pages'[q].content
        BY DEF ServedAt
    <2>1. pages'[q] = pages[q] /\ pages[q].version > 0
        BY DEF Exists, NoRow
    <2>2. Exists(q) /\ EachVersionOnce(q)
        BY <1>1, <2>1, OnceBefore DEF Exists
    <2>3. emb'[q] = emb[q]
        BY <2>1 DEF StoreStep
    <2>5. ServedAt(q)
        BY DEF Served
    <2>6. QED
        BY <1>1, <2>1, <2>2, <2>3, <2>5 DEF ServedAt
<1>4. QED
    BY <1>2, <1>3 DEF Served

\* The worker stores what it claimed, and only then takes the job away.
LEMMA CompleteServed == ASSUME PipelineInv, Served, Complete PROVE Served'
<1> PICK j : j = worker.job
    OBVIOUS
<1>1. /\ worker.step = "store" /\ Stems(j) /\ j.path \in Path
      /\ emb' = [emb EXCEPT ![j.path] = [version |-> j.version, content |-> worker.text]]
      /\ jobs' = jobs \ {j} /\ worker' = Idle /\ UNCHANGED <<pages, txn, reply>> /\ DOMAIN emb = Path
    BY DEF Complete, PipelineInv, WorkerOK, Stems, Job
<1>2. worker'.step = "idle"
    BY <1>1 DEF Idle
<1>3. ClaimedOK'
    BY <1>2 DEF ClaimedOK
<1>4. ASSUME NEW q \in Path, Exists(q)', EachVersionOnce(q)'
      PROVE  \/ \E k \in jobs' : k.path = q /\ k.request = pages'[q].content
             \/ emb'[q].content = pages'[q].content
    <2>1. Exists(q) /\ EachVersionOnce(q)
        BY <1>1, <1>4 DEF Exists, EachVersionOnce, NewVersion
    <2>2. \/ \E k \in jobs : k.path = q /\ k.request = pages[q].content
          \/ /\ emb[q].content = pages[q].content
             /\ worker.step # "idle" /\ worker.job.path = q => worker.text = pages[q].content
        BY <2>1 DEF Served, ServedAt
    <2>3. CASE q = j.path
        <3>1. emb'[q].content = worker.text
            BY <1>1, <2>3
        <3>2. CASE pages[q].content = j.request
            BY <1>1, <2>3, <3>1, <3>2 DEF Served, ClaimedOK
        <3>3. CASE pages[q].content # j.request
            BY <1>1, <2>2, <2>3, <3>1, <3>3
        <3>4. QED
            BY <3>2, <3>3
    <2>4. CASE q # j.path
        BY <1>1, <2>2, <2>4
    <2>5. QED
        BY <2>3, <2>4
<1>5. QED
    BY <1>2, <1>3, <1>4 DEF Served, ServedAt

\* Every step keeps Served.
LEMMA NextServed == PipelineInv /\ Served /\ [PipelineNext]_pipelineVars => Served'
<1> SUFFICES ASSUME PipelineInv, Served, [PipelineNext]_pipelineVars PROVE Served'
    OBVIOUS
<1>1. CASE StoreStep
    <2>1. TypeOK /\ [Next]_vars
        BY <1>1 DEF PipelineInv, StoreStep
    <2>2. ASSUME NEW d \in Deregs, pages' = [p \in Path |-> IF p \in doomed[d] THEN NoRow ELSE pages[p]],
                 UNCHANGED jobs
          PROVE  Served'
        BY <1>1, <2>2, StoreServed
    <2>3. ASSUME UNCHANGED <<pages, jobs>> PROVE Served'
        BY <1>1, <2>3, StoreServed
    <2>4. QED
        BY <1>1, <2>1, <2>2, <2>3, StoreEffect, CommitServed
<1>2. ASSUME UNCHANGED <<vars, emb>>,
             worker'.step # "idle" =>
                 \/ worker.step # "idle" /\ worker'.job = worker.job /\ worker'.text = worker.text
                 \/ worker'.text = pages[worker'.job.path].content
      PROVE  Served'
    <2>1. UNCHANGED <<pages, jobs, txn, reply, emb>>
        BY <1>2 DEF vars
    <2>2. ClaimedOK'
        BY <1>2, <2>1 DEF Served, ClaimedOK
    <2>3. ASSUME NEW q \in Path PROVE ServedAt(q)'
        <3>1. ServedAt(q)
            BY DEF Served
        <3>2. QED
            BY <1>2, <2>1, <3>1 DEF ServedAt, Exists, EachVersionOnce, NewVersion
    <2>4. QED
        BY <2>2, <2>3 DEF Served
<1>3. CASE Pop
    <2> PICK j : j = Oldest(Claimable)
        OBVIOUS
    <2>1. worker' = [step |-> "embed", job |-> j, text |-> pages[j.path].content] /\ UNCHANGED <<vars, emb>>
        BY <1>3 DEF Pop
    <2>2. QED
        BY <1>2, <2>1
<1>4. CASE EmbedReturns
    <2>1. /\ worker' = [worker EXCEPT !.step = "store"] /\ worker.step = "embed" /\ UNCHANGED <<vars, emb>>
        BY <1>4 DEF EmbedReturns
    <2>2. worker'.job = worker.job /\ worker'.text = worker.text
        BY <2>1
    <2>3. QED
        BY <1>2, <2>1, <2>2
<1>5. CASE EmbedFails \/ StoreRefused
    <2>1. worker'.step = "idle" /\ UNCHANGED <<vars, emb>>
        BY <1>5 DEF EmbedFails, StoreRefused, Idle
    <2>2. QED
        BY <1>2, <2>1
<1>6. CASE Complete
    BY <1>6, CompleteServed
<1>7. CASE UNCHANGED pipelineVars
    BY <1>2, <1>7 DEF pipelineVars
<1>8. QED
    BY <1>1, <1>3, <1>4, <1>5, <1>6, <1>7 DEF PipelineNext

(***************************************************************************)
(* A page that the worker has no job for any more has the embedding of its *)
(* content, whatever was retried, overtaken, deleted or written again in   *)
(* between, as long as each of its versions was given out once             *)
(* (pop_pending_embedding_job, complete_embedding_job).                    *)
(***************************************************************************)
THEOREM DrainedIsFresh == PipelineSpec => []FreshWhenDrained
<1>1. PipelineInv /\ Served => FreshWhenDrained
    BY DEF Served, ServedAt, FreshWhenDrained, Drained, Fresh
<1>2. QED
    BY <1>1, InitServed, NextServed, PipelineAlways, PTL DEF PipelineSpec


-----------------------------------------------------------------------------
(* Labels.                                                                  *)

\* They are pages, and none of an extension.
LEMMA SettledPaths == Settled \subseteq Path /\ Settled \cap ExtPath = {} /\ Settled \subseteq Seeded
BY PathAssumption DEF Settled

\* What the store guarantees of wiki pages that are in place.
WikiInv == PinnedRow /\ Numbered /\ EmbedsAreExt /\ DrawnAbove

\* The worker touches nothing of it.
LEMMA NextWiki ==
    PipelineInv /\ WikiInv /\ [PipelineNext]_pipelineVars => WikiInv'
<1> SUFFICES ASSUME PipelineInv, WikiInv, [PipelineNext]_pipelineVars PROVE WikiInv'
    OBVIOUS
<1>1. CASE [Next]_vars
    BY <1>1, NextPinned, NextNumbered, NextEmbeds, NextAbove DEF PipelineInv, WikiInv
<1>2. CASE Complete
    <2>1. UNCHANGED <<pages, seq, holder, pc, txn, events>>
        BY <1>2 DEF Complete
    <2>2. PinnedRow' /\ EmbedsAreExt' /\ DrawnAbove'
        BY <2>1 DEF WikiInv, PinnedRow, EmbedsAreExt, DrawnAbove, AboveAt
    <2>3. Numbered'
        BY <2>1 DEF WikiInv, Numbered, NumberAt, Published, DistinctEventVersions
    <2>4. QED
        BY <2>2, <2>3 DEF WikiInv
<1>3. QED
    BY <1>1, <1>2 DEF PipelineNext, StoreStep, Pop, EmbedReturns, EmbedFails, StoreRefused, pipelineVars

\* A content that was there at the start, or that an acknowledged request wrote.
Known(c) == c = Nil \/ Acknowledged(c)

KnownContents ==
    /\ \A p \in Path : Known(pages[p].content) /\ Known(emb[p].content)
    /\ worker.step # "idle" => Known(worker.text)

\* Labels of jobs, of claims and of embeddings, against the contents' versions.
LabelsOK ==
    /\ \A p \in Settled : pages[p].version = VersionOf(pages[p].content)
    /\ \A j \in jobs : j.path \in Settled => j.version <= pages[j.path].version
    /\ worker.step # "idle" /\ worker.job.path \in Settled => worker.job.version <= VersionOf(worker.text)

Labels == KnownContents /\ LabelsOK /\ LabelNotAhead

\* The seeded pages are at version 1, and so are their embeddings.
LEMMA InitLabels == PipelineInit => Labels
<1> SUFFICES ASSUME PipelineInit PROVE Labels
    OBVIOUS
<1> USE SettledPaths
<1>1. /\ \A p \in Path : pages[p].content = Nil /\ emb[p].content = Nil
      /\ worker.step = "idle" /\ jobs = {}
    BY DEF PipelineInit, Init, NoRow, NoEmb, Idle
<1>2. ASSUME NEW p \in Settled PROVE pages[p].version = 1 /\ emb[p].version = 1
    BY DEF PipelineInit, Init, NoRow, NoEmb, Settled
<1>3. KnownContents
    BY <1>1 DEF KnownContents, Known
<1>4. LabelsOK
    BY <1>1, <1>2 DEF LabelsOK, VersionOf
<1>5. ASSUME NEW p \in Settled PROVE emb[p].version <= VersionOf(emb[p].content)
    <2>1. emb[p].version = 1 /\ VersionOf(emb[p].content) = 1
        BY <1>1, <1>2 DEF VersionOf
    <2>2. QED
        BY <2>1
<1>6. QED
    BY <1>3, <1>4, <1>5 DEF Labels, LabelNotAhead

\* A known content keeps its version, a number.
LEMMA KnownStays ==
    ASSUME TypeOK, [Next]_vars, NEW c, Known(c)
    PROVE  Known(c)' /\ VersionOf(c)' = VersionOf(c) /\ VersionOf(c) \in Nat
<1>1. CASE c = Nil
    BY <1>1 DEF Known, VersionOf
<1>2. CASE Acknowledged(c)
    <2>1. c \in Request
        BY <1>2, Kinds DEF Acknowledged, Sources
    <2>2. txn'[c] = txn[c] /\ pc'[c] = pc[c] /\ reply'[c] = reply[c]
        BY <1>2, <2>1, DoneStays DEF Acknowledged
    <2>3. txn[c].seen \in Nat
        BY <2>1 DEF TypeOK, Txn
    <2>4. QED
        BY <1>2, <2>2, <2>3 DEF Known, Acknowledged, VersionOf, NewVersion
<1>3. QED
    BY <1>1, <1>2 DEF Known

\* A step of a request writes contents that become known with it.
LEMMA StoreKnown == ASSUME PipelineInv, KnownContents, StoreStep PROVE KnownContents'
<1>1. TypeOK /\ Flow /\ [Next]_vars /\ worker' = worker
    BY DEF PipelineInv, StoreStep
<1>2. ASSUME NEW p \in Path PROVE Known(pages[p].content)'
    <2> PICK c : c = pages[p].content
        OBVIOUS
    <2>1. Known(c)'
        BY <1>1, KnownStays DEF KnownContents
    <2>2. CASE pages'[p] = pages[p]
        BY <2>1, <2>2 DEF Known, Acknowledged
    <2>3. CASE pages'[p] = NoRow
        BY <2>3 DEF Known, NoRow
    <2>4. ASSUME NEW r \in Sources, RowCommit(r), pages'[p] # pages[p] PROVE Known(pages[p].content)'
        <3>1. r \in Request /\ pages'[p].content = r
            BY <1>1, <2>4, Kinds DEF RowCommit, PutRow, TypeOK, Sources
        <3>2. pc'[r] = "done" /\ reply'[r].status = "ok"
            BY <1>1, <2>4, <3>1 DEF RowCommit, TypeOK
        <3>3. QED
            BY <3>1, <3>2 DEF Known, Acknowledged
    <2>5. QED
        BY <1>1, <2>2, <2>3, <2>4, StoreEffect
<1>3. ASSUME NEW p \in Path PROVE Known(emb[p].content)'
    <2> PICK c : c = emb[p].content
        OBVIOUS
    <2>1. Known(c)'
        BY <1>1, KnownStays DEF KnownContents
    <2>2. emb'[p].content \in {Nil, c}
        BY DEF StoreStep, NoEmb
    <2>3. QED
        BY <2>1, <2>2 DEF Known, Acknowledged
<1>4. worker'.step # "idle" => Known(worker.text)'
    <2> PICK c : c = worker.text
        OBVIOUS
    <2>1. worker.step # "idle" => Known(c)'
        BY <1>1, KnownStays DEF KnownContents
    <2>2. QED
        BY <1>1, <2>1
<1>5. QED
    BY <1>2, <1>3, <1>4 DEF KnownContents

\* A commit of a wiki page writes the next version, and its job carries it.
LEMMA StoreLabels ==
    ASSUME PipelineInv, WikiInv, Labels, StoreStep
    PROVE  LabelsOK' /\ LabelNotAhead'
<1> USE Kinds, SettledPaths
<1>1. /\ TypeOK /\ Flow /\ [Next]_vars /\ worker' = worker /\ KnownContents /\ LabelsOK /\ LabelNotAhead
      /\ pages \in [Path -> Row]
    BY DEF PipelineInv, StoreStep, Labels, TypeOK
<1>2. ASSUME NEW p \in Settled, pages'[p] = pages[p]
      PROVE  pages'[p].version = VersionOf(pages[p].content)'
    <2> PICK c : c = pages[p].content
        OBVIOUS
    <2>1. VersionOf(c)' = VersionOf(c)
        BY <1>1, KnownStays DEF KnownContents
    <2>2. QED
        BY <1>1, <1>2, <2>1 DEF LabelsOK
<1>3. ASSUME NEW r \in Sources, RowCommit(r), NEW p \in Settled, p = txn[r].path
      PROVE  /\ pages'[p].version = NewVersion(r) /\ NewVersion(r) > pages[p].version
             /\ pages'[p].version = VersionOf(pages[p].content)'
    <2>1. r \in Writers /\ pc[r] = "commit" /\ txn' = txn /\ r \in Request
        BY <1>3 DEF WikiInv, EmbedsAreExt, RowCommit, Sources
    <2>2. txn[r].seen > 0 /\ txn[r].seen \in Nat
        BY <1>1, <1>3, <2>1 DEF WikiInv, DrawnAbove, AboveAt, TypeOK, Txn
    <2>3. pages[p].version = txn[r].seen
        BY <1>3, <2>1, <2>2 DEF WikiInv, PinnedRow
    <2>4. pages'[p].version = NewVersion(r) /\ pages'[p].content = r /\ r # Nil
        BY <1>1, <1>3, <2>1 DEF RowCommit, PutRow
    <2>5. QED
        BY <2>1, <2>2, <2>3, <2>4 DEF NewVersion, VersionOf
<1>4. \A p \in Settled : pages'[p] = pages[p] \/ \E r \in Sources : RowCommit(r) /\ p = txn[r].path
    <2> SUFFICES ASSUME NEW p \in Settled
                 PROVE  pages'[p] = pages[p] \/ \E r \in Sources : RowCommit(r) /\ p = txn[r].path
        OBVIOUS
    <2>1. ASSUME NEW r \in Sources, RowCommit(r), p # txn[r].path PROVE pages'[p] = pages[p]
        BY <1>1, <2>1 DEF RowCommit, PutRow
    <2>2. ASSUME NEW d \in Deregs, pages' = [q \in Path |-> IF q \in doomed[d] THEN NoRow ELSE pages[q]]
          PROVE  pages'[p] = pages[p]
        BY <1>1, <2>2 DEF TypeOK
    <2>3. QED
        BY <1>1, <2>1, <2>2, StoreEffect
<1>5. \A p \in Settled : pages'[p].version = VersionOf(pages[p].content)'
    BY <1>2, <1>3, <1>4
<1>6. \A p \in Settled : pages[p].version <= pages'[p].version /\ pages[p].version \in Nat /\ pages'[p].version \in Nat
    <2> SUFFICES ASSUME NEW p \in Settled
                 PROVE  pages[p].version <= pages'[p].version /\ pages[p].version \in Nat /\ pages'[p].version \in Nat
        OBVIOUS
    <2>1. pages[p].version \in Nat
        BY <1>1 DEF Row
    <2>2. ASSUME NEW r \in Sources, RowCommit(r), p = txn[r].path PROVE NewVersion(r) \in Nat
        BY <1>1, <2>2 DEF Sources, TypeOK, Txn, NewVersion
    <2>3. QED
        BY <1>3, <1>4, <2>1, <2>2
<1>7. ASSUME NEW j \in jobs', j.path \in Settled PROVE j.version <= pages'[j.path].version
    <2>1. CASE j \in jobs
        <3>1. j.version <= pages[j.path].version /\ j.path \in Settled /\ j.version \in Nat
            BY <1>1, <1>7, <2>1 DEF LabelsOK, PipelineInv, Queued, Job
        <3>2. QED
            BY <1>6, <3>1
    <2>2. CASE j \notin jobs
        <3>1. PICK r \in Sources : RowCommit(r)
            BY <1>1, <2>2, StoreEffect
        <3>2. /\ j.path = txn[r].path /\ j.version = NewVersion(r)
              /\ txn[r].path \in Path
            BY <1>1, <2>2, <3>1 DEF RowCommit, PutRow, Flow, FlowAt, Sources
        <3>3. pages'[j.path].version = NewVersion(r) /\ NewVersion(r) \in Nat
            BY <1>3, <1>6, <1>7, <3>1, <3>2
        <3>4. QED
            BY <3>2, <3>3
    <2>3. QED
        BY <2>1, <2>2
<1>8. worker.step # "idle" /\ worker.job.path \in Settled => worker.job.version <= VersionOf(worker.text)'
    <2> PICK c : c = worker.text
        OBVIOUS
    <2>1. worker.step # "idle" => VersionOf(c)' = VersionOf(c)
        BY <1>1, KnownStays DEF KnownContents
    <2>2. QED
        BY <1>1, <2>1 DEF LabelsOK
<1>9. ASSUME NEW p \in Settled PROVE (emb[p].version <= VersionOf(emb[p].content))'
    <2> PICK c : c = emb[p].content
        OBVIOUS
    <2>1. VersionOf(c)' = VersionOf(c)
        BY <1>1, KnownStays DEF KnownContents
    <2>2. emb'[p] = emb[p] \/ emb'[p] = NoEmb
        BY DEF StoreStep
    <2>3. CASE emb'[p] = emb[p]
        BY <1>1, <2>1, <2>3 DEF LabelNotAhead
    <2>4. CASE emb'[p] = NoEmb
        BY <2>4 DEF NoEmb, VersionOf
    <2>5. QED
        BY <2>2, <2>3, <2>4
<1>10. LabelsOK'
    BY <1>1, <1>5, <1>7, <1>8 DEF LabelsOK
<1>11. QED
    BY <1>9, <1>10 DEF LabelNotAhead

\* Every step keeps Labels.
LEMMA NextLabels ==
    PipelineInv /\ WikiInv /\ Labels /\ [PipelineNext]_pipelineVars => Labels'
<1> SUFFICES ASSUME PipelineInv, WikiInv, Labels, [PipelineNext]_pipelineVars PROVE Labels'
    OBVIOUS
<1> USE SettledPaths
<1>1. CASE StoreStep
    BY <1>1, StoreKnown, StoreLabels DEF Labels
<1>2. ASSUME UNCHANGED <<vars, emb>>,
             worker'.step # "idle" =>
                 /\ Known(worker'.text)
                 /\ worker'.job.path \in Settled => worker'.job.version <= VersionOf(worker'.text)
      PROVE  Labels'
    <2>1. UNCHANGED <<pages, jobs, pc, txn, reply, emb>>
        BY <1>2 DEF vars
    <2>2. KnownContents'
        BY <1>2, <2>1 DEF Labels, KnownContents, Known, Acknowledged
    <2>3. LabelsOK'
        BY <1>2, <2>1 DEF Labels, LabelsOK, VersionOf, NewVersion
    <2>4. LabelNotAhead'
        BY <2>1 DEF Labels, LabelNotAhead, VersionOf, NewVersion
    <2>5. QED
        BY <2>2, <2>3, <2>4 DEF Labels
<1>3. CASE Pop
    <2> PICK j : j = Oldest(Claimable)
        OBVIOUS
    <2>1. /\ j \in jobs /\ Stems(j) /\ j.path \in Path
          /\ worker' = [step |-> "embed", job |-> j, text |-> pages[j.path].content] /\ UNCHANGED <<vars, emb>>
        BY <1>3, OldestIs DEF Pop, Claimable, PipelineInv, Queued, Stems, Job
    <2>2. worker'.job = j /\ worker'.text = pages[j.path].content
        BY <2>1
    <2>3. Known(worker'.text)
        BY <2>1, <2>2 DEF Labels, KnownContents
    <2>4. j.path \in Settled => j.version <= VersionOf(worker'.text)
        BY <2>1, <2>2 DEF Labels, LabelsOK
    <2>5. QED
        BY <1>2, <2>1, <2>2, <2>3, <2>4
<1>4. CASE EmbedReturns
    <2>1. /\ worker' = [worker EXCEPT !.step = "store"] /\ worker.step = "embed" /\ UNCHANGED <<vars, emb>>
        BY <1>4 DEF EmbedReturns
    <2>2. worker'.job = worker.job /\ worker'.text = worker.text
        BY <2>1
    <2>3. Known(worker'.text) /\ (worker'.job.path \in Settled => worker'.job.version <= VersionOf(worker'.text))
        BY <2>1, <2>2 DEF Labels, KnownContents, LabelsOK
    <2>4. QED
        BY <1>2, <2>1, <2>3
<1>5. CASE EmbedFails \/ StoreRefused
    <2>1. worker'.step = "idle" /\ UNCHANGED <<vars, emb>>
        BY <1>5 DEF EmbedFails, StoreRefused, Idle
    <2>2. QED
        BY <1>2, <2>1
<1>6. CASE Complete
    <2> PICK j : j = worker.job
        OBVIOUS
    <2>1. /\ worker.step = "store" /\ j.path \in Path /\ DOMAIN emb = Path
          /\ emb' = [emb EXCEPT ![j.path] = [version |-> j.version, content |-> worker.text]]
          /\ jobs' = jobs \ {j} /\ worker'.step = "idle" /\ UNCHANGED <<pages, pc, txn, reply>>
        BY <1>6 DEF Complete, Idle, PipelineInv, WorkerOK, Stems, Job
    <2>2. \A p \in Path : emb'[p] = emb[p] \/ (p = j.path /\ emb'[p].version = j.version /\ emb'[p].content = worker.text)
        BY <2>1
    <2>3. KnownContents'
        BY <2>1, <2>2 DEF Labels, KnownContents, Known, Acknowledged
    <2>4. LabelsOK'
        BY <2>1 DEF Labels, LabelsOK, VersionOf, NewVersion
    <2>5. LabelNotAhead'
        BY <2>1, <2>2 DEF Labels, LabelsOK, LabelNotAhead, VersionOf, NewVersion
    <2>6. QED
        BY <2>3, <2>4, <2>5 DEF Labels
<1>7. CASE UNCHANGED pipelineVars
    BY <1>2, <1>7 DEF pipelineVars, Labels, KnownContents, LabelsOK
<1>8. QED
    BY <1>1, <1>3, <1>4, <1>5, <1>6, <1>7 DEF PipelineNext

(***************************************************************************)
(* The version beside the embedding of a wiki page that was there before   *)
(* is at most that of the content it was computed from: a reader who takes *)
(* it for stale is right or too careful, never misled                      *)
(* (complete_embedding_job stores under the version of the job).           *)
(***************************************************************************)
THEOREM LabelsUnderstate == PipelineSpec => []LabelNotAhead
<1>1. PipelineInit => WikiInv
    BY InitPinned, InitNumbered, InitEmbeds, InitAbove DEF PipelineInit, WikiInv
<1>2. PipelineInit => Labels
    BY InitLabels
<1>3. Labels => LabelNotAhead
    BY DEF Labels
<1>4. QED
    BY <1>1, <1>2, <1>3, NextWiki, NextLabels, PipelineAlways, PTL DEF PipelineSpec

-----------------------------------------------------------------------------
(* What the store promises, with the worker beside it.                      *)

\* The worker's transaction touches no page, no event and no answer.
LEMMA WorkerTouches ==
    ASSUME [PipelineNext]_pipelineVars
    PROVE  [Next]_vars \/ UNCHANGED <<pages, seq, holder, pc, txn, doomed, registered, events, audit, reply>>
BY DEF PipelineNext, StoreStep, Pop, EmbedReturns, EmbedFails, StoreRefused, Complete, pipelineVars

\* So the invariants of the store hold beside it.
LEMMA WikiAlways == PipelineSpec => [](WikiInv /\ Winners)
<1>1. PipelineInit => WikiInv /\ Winners
    BY Kinds, InitPinned, InitNumbered, InitEmbeds, InitAbove
    DEF PipelineInit, WikiInv, Init, Winners, WonAt, OneWinnerOn, Pending
<1>2. PipelineInv /\ WikiInv /\ Winners /\ [PipelineNext]_pipelineVars => Winners'
    <2> SUFFICES ASSUME PipelineInv, WikiInv, Winners, [PipelineNext]_pipelineVars PROVE Winners'
        OBVIOUS
    <2>1. CASE [Next]_vars
        BY <2>1, NextWinners DEF PipelineInv, WikiInv
    <2>2. CASE UNCHANGED <<pages, seq, holder, pc, txn, doomed, registered, events, audit, reply>>
        BY <2>2 DEF Winners, WonAt, OneWinnerOn, NewVersion
    <2>3. QED
        BY <2>1, <2>2, WorkerTouches
<1>3. QED
    BY <1>1, <1>2, NextWiki, PipelineAlways, PTL DEF PipelineSpec

\* A wiki page that was there before is fresh whenever the worker has no job for it
\* left: its versions are given out once (write_page, complete_embedding_job).
THEOREM SettledIsFresh == PipelineSpec => [](\A p \in Settled : Drained(p) => Fresh(p))
<1>1. ASSUME WikiInv, Winners, PipelineInv, FreshWhenDrained, NEW p \in Settled, Drained(p) PROVE Fresh(p)
    <2>1. p \in Path /\ p \notin ExtPath /\ p # Nil /\ Exists(p)
        BY <1>1, SettledPaths, PathAssumption DEF WikiInv, DrawnAbove, Exists
    <2>2. \A r \in Embedders : txn[r].path # p
        BY <1>1, <2>1 DEF WikiInv, EmbedsAreExt
    <2>3. ASSUME NEW r \in Writers, NEW s \in Writers, r # s, txn[r].path = p, txn[s].path = p,
                 reply[r].status = "ok", reply[s].status = "ok"
          PROVE  NewVersion(r) # NewVersion(s)
        <3>1. reply[r].version = NewVersion(r) /\ reply[s].version = NewVersion(s) /\ OneWinnerOn(p)
            BY <1>1, <2>3, Kinds DEF Winners, WonAt
        <3>2. QED
            BY <2>3, <3>1 DEF OneWinnerOn
    <2>4. EachVersionOnce(p)
        BY <2>2, <2>3 DEF EachVersionOnce
    <2>5. QED
        BY <1>1, <2>1, <2>4 DEF FreshWhenDrained
<1>2. WikiInv /\ Winners /\ PipelineInv /\ FreshWhenDrained => \A p \in Settled : Drained(p) => Fresh(p)
    BY <1>1
<1>3. QED
    BY <1>2, WikiAlways, PipelineAlways, DrainedIsFresh, PTL

\* The worker disturbs neither abstraction: the events are an EventLog and the wiki
\* pages that were in place a CasStore, with it running, failing and being late
\* (EmbeddingWorker beside the transactions of db.py).
THEOREM PipelineImplementsBoth == PipelineSpec => ImplementsEventLog /\ ImplementsCasStore
<1>1. PipelineInit => Log!LogInit /\ Cas!CasInit
    <2> SUFFICES ASSUME PipelineInit PROVE Log!LogInit /\ Cas!CasInit
        OBVIOUS
    <2>1. Init
        BY DEF PipelineInit
    <2>2. QED
        BY <2>1, InitLog, InitCas
<1>2. ASSUME PipelineInv, WikiInv, [PipelineNext]_pipelineVars
      PROVE  [Log!LogNext]_(Log!logVars) /\ [Cas!CasNext]_(Cas!casVars)
    <2>1. CASE [Next]_vars
        BY <1>2, <2>1, NextLog, NextCas DEF PipelineInv, WikiInv
    <2>2. CASE UNCHANGED <<pages, seq, holder, pc, txn, doomed, registered, events, audit, reply>>
        <3>1. UNCHANGED Cas!casVars
            BY <2>2 DEF Cas!casVars, Told
        <3>2. UNCHANGED Log!logVars
            BY <2>2 DEF Log!logVars, Open
        <3>3. QED
            BY <3>1, <3>2
    <2>3. QED
        BY <1>2, <2>1, <2>2, WorkerTouches
<1>3. PipelineInv /\ WikiInv /\ [PipelineNext]_pipelineVars => [Log!LogNext]_(Log!logVars)
    BY <1>2
<1>4. PipelineInv /\ WikiInv /\ [PipelineNext]_pipelineVars => [Cas!CasNext]_(Cas!casVars)
    BY <1>2
<1>5. QED
    BY <1>1, <1>3, <1>4, WikiAlways, PipelineAlways, PTL
    DEF PipelineSpec, ImplementsEventLog, ImplementsCasStore, Log!LogSpec, Cas!CasSpec

================================================================================
