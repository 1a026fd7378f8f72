--------------------------- MODULE EmbeddingPipeline ---------------------------
(***************************************************************************)
(* The embedding worker of src/vaultmcp/master/embeddings.py over the       *)
(* embedding_jobs and embeddings tables, beside the transactions of          *)
(* PageStore that write pages and enqueue jobs.                             *)
(*                                                                         *)
(* One worker runs in the master.  It claims the oldest job, reads the page *)
(* as it is then, asks the provider for a vector outside any transaction,   *)
(* and stores it under the version of the job.  A vector is named by the    *)
(* content it was computed from.                                            *)
(***************************************************************************)
EXTENDS PageStore

CONSTANT MaxAttempts \* claims after which a job is left alone (5)

ASSUME AttemptsAssumption == MaxAttempts \in Nat \ {0}

VARIABLES
    emb,   \* the rows of embeddings, NoEmb where there is none
    tries, \* embedding_jobs.attempts, by the request that enqueued the job
    began, \* the requests in the order their transactions started: enqueued_at
    worker \* what the worker is doing, for which job, with which content

pipelineVars == <<vars, emb, tries, began, worker>>

NoEmb == [version |-> 0, content |-> Nil]

Idle == [step |-> "idle", job |-> Nil, text |-> Nil]

\* The pages that are there at the start have been embedded.
PipelineInit ==
    /\ Init
    /\ emb = [p \in Path |-> IF p \in Seeded THEN [NoEmb EXCEPT !.version = 1] ELSE NoEmb]
    /\ tries = [r \in Request |-> 0]
    /\ began = <<>>
    /\ worker = Idle

-----------------------------------------------------------------------------
\* Writes and embeds in the step that is their first statement.
Starting == {r \in Writers \cup Embedders : pc[r] = "idle" /\ pc'[r] # "idle"}

\* A step of a request.  NOW() is the BEGIN of its transaction, which may lie
\* before that of requests that were quicker to get a row lock; the rows of
\* embeddings go with their page (ON DELETE CASCADE).
StoreStep ==
    /\ Next
    /\ IF Starting = {} THEN UNCHANGED began
       ELSE \E r \in Starting, i \in 0..Len(began) :
               began' = SubSeq(began, 1, i) \o <<r>> \o SubSeq(began, i + 1, Len(began))
    /\ emb' = [p \in Path |-> IF pages'[p].version = 0 THEN NoEmb ELSE emb[p]]
    /\ UNCHANGED <<tries, worker>>

Claimable == {j \in jobs : tries[j.request] < MaxAttempts}

\* ORDER BY enqueued_at: started no later than any other.
Oldest(js) ==
    LET at(j) == CHOOSE i \in DOMAIN began : began[i] = j.request
    IN  CHOOSE j \in js : \A k \in js : at(j) <= at(k)

\* Mutant: a claim that is not counted.
PopUncounted ==
    /\ worker.step = "idle" /\ Claimable # {}
    /\ LET j == Oldest(Claimable) IN
          worker' = [step |-> "embed", job |-> j, text |-> pages[j.path].content]
    /\ UNCHANGED <<vars, emb, tries, began>>

\* pop_pending_embedding_job: claims the job and reads the page, "" if it is gone.
Pop ==
    /\ worker.step = "idle" /\ Claimable # {}
    /\ LET j == Oldest(Claimable) IN
          /\ tries' = [tries EXCEPT ![j.request] = @ + 1]
          /\ worker' = [step |-> "embed", job |-> j, text |-> pages[j.path].content]
    /\ UNCHANGED <<vars, emb, began>>

\* provider.embed answers, with a vector of the right dimension.
EmbedReturns ==
    /\ worker.step = "embed"
    /\ worker' = [worker EXCEPT !.step = "store"]
    /\ UNCHANGED <<vars, emb, tries, began>>

\* The provider, or complete_embedding_job, fails: the job stays where it is.
EmbedFails ==
    /\ worker.step \in {"embed", "store"}
    /\ worker' = Idle
    /\ UNCHANGED <<vars, emb, tries, began>>

(***************************************************************************)
(* The INSERT INTO embeddings waits for a deregistration that deletes the   *)
(* page; a new row also takes a key share lock on the page, which the       *)
(* FOR UPDATE of write_page blocks.                                         *)
(***************************************************************************)
StoreWaits(p) ==
    \/ holder[p] \in Deregs
    \/ holder[p] \in Writers /\ emb[p] = NoEmb

\* Mutants: a DELETE by path instead of by id; the label of the current row.
CompleteByPath ==
    LET j == worker.job IN
    /\ worker.step = "store"
    /\ Exists(j.path) /\ ~StoreWaits(j.path)
    /\ emb' = [emb EXCEPT ![j.path] = [version |-> j.version, content |-> worker.text]]
    /\ jobs' = {k \in jobs : k.path # j.path}
    /\ worker' = Idle
    /\ UNCHANGED <<pages, seq, holder, pc, txn, doomed, registered, events, audit, reply,
                   tries, began>>

CompleteCurrent ==
    LET j == worker.job IN
    /\ worker.step = "store"
    /\ Exists(j.path) /\ ~StoreWaits(j.path)
    /\ emb' = [emb EXCEPT ![j.path] = [version |-> pages[j.path].version, content |-> worker.text]]
    /\ jobs' = jobs \ {j}
    /\ worker' = Idle
    /\ UNCHANGED <<pages, seq, holder, pc, txn, doomed, registered, events, audit, reply,
                   tries, began>>

\* complete_embedding_job, the row and the end of the job in one transaction.
Complete ==
    LET j == worker.job IN
    /\ worker.step = "store"
    /\ Exists(j.path) /\ ~StoreWaits(j.path)
    /\ emb' = [emb EXCEPT ![j.path] = [version |-> j.version, content |-> worker.text]]
    /\ jobs' = jobs \ {j}
    /\ worker' = Idle
    /\ UNCHANGED <<pages, seq, holder, pc, txn, doomed, registered, events, audit, reply,
                   tries, began>>

\* The page is gone: the foreign key of embeddings refuses the row.
StoreRefused ==
    /\ worker.step = "store"
    /\ ~Exists(worker.job.path)
    /\ worker' = Idle
    /\ UNCHANGED <<vars, emb, tries, began>>

PipelineNext ==
    \/ StoreStep
    \/ Pop
    \/ EmbedReturns
    \/ EmbedFails
    \/ Complete
    \/ StoreRefused

PipelineSpec == PipelineInit /\ [][PipelineNext]_pipelineVars

\* The worker polls for ever, the provider answers or times out, and PostgreSQL
\* runs what it is given.
FairPipelineSpec ==
    /\ PipelineSpec
    /\ \A r \in Request : WF_pipelineVars(StoreStep /\ Advance(r))
    /\ \A d \in Deregs : WF_pipelineVars(StoreStep /\ AdvanceDrop(d))
    /\ WF_pipelineVars(StoreStep /\ BreakDeadlock)
    /\ WF_pipelineVars(Pop)
    /\ WF_pipelineVars(worker.step = "embed" /\ (EmbedReturns \/ EmbedFails))
    /\ WF_pipelineVars(Complete \/ StoreRefused)

-----------------------------------------------------------------------------
(* Properties.                                                              *)

\* Nothing left to do for page p, and no attempt at it was given up.
Drained(p) ==
    /\ worker.step = "idle"
    /\ \A j \in jobs : j.path # p

Fresh(p) == emb[p].content = pages[p].content

\* No two requests were told they wrote the same version of page p.
EachVersionOnce(p) ==
    \A r, s \in Writers \cup Embedders :
        (r # s /\ txn[r].path = p /\ txn[s].path = p
            /\ reply[r].status = "ok" /\ reply[s].status = "ok") => NewVersion(r) # NewVersion(s)

\* Once the worker has no job of a page left its embedding is that of the content
\* the page has, through retries, overtaking writes and a deletion of the page,
\* as long as the (path, version) that identifies a job was given out once.
FreshWhenDrained ==
    \A p \in Path : Exists(p) /\ Drained(p) /\ EachVersionOnce(p) => Fresh(p)

\* The version the content an embedding was computed from had.
VersionOf(content) == IF content = Nil THEN 1 ELSE NewVersion(content)

\* The embedding of a wiki page that was in place is never labelled with a version
\* newer than its content: a job that waits, is retried or is overtaken by writes
\* can only understate it.
LabelNotAhead ==
    \A p \in Settled : emb[p].version <= VersionOf(emb[p].content)

\* Every job is either carried out or given up after MaxAttempts claims, also
\* when its page is deleted meanwhile or the worker dies at any point.
JobsRetire ==
    \A r \in Writers \cup Embedders :
        (\E j \in jobs : j.request = r) ~>
            (tries[r] = MaxAttempts \/ ~\E j \in jobs : j.request = r)
=============================================================================
