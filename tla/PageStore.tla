------------------------------- MODULE PageStore -------------------------------
(***************************************************************************)
(* The page store of the master: the PostgreSQL transactions of            *)
(* src/vaultmcp/master/db.py that write to pages, events, embedding_jobs   *)
(* and audit, statement by statement, under READ COMMITTED isolation.      *)
(*                                                                         *)
(* A request is one call of a Database method; it runs in one transaction  *)
(* on one pooled connection.  Every statement whose outcome another        *)
(* transaction can influence is an action of its own: the row lock of      *)
(* SELECT ... FOR UPDATE, the draw from global_version_seq, the upsert, the *)
(* commit.  What a transaction has written stays in txn until it commits.  *)
(*                                                                         *)
(* The content a request writes is named by the request itself; a row that *)
(* was there before the first request has content Nil.  Version 0 stands   *)
(* for "no row", which is also what a 409 reports for a missing page.      *)
(***************************************************************************)
EXTENDS Naturals, Sequences

CONSTANTS
    Path,        \* page paths
    ExtPath,     \* those under ext/<name>/ of the one extension modelled
    Seeded,      \* the pages that exist, at version 1, when the model starts
    Writers,     \* calls of write_page
    Embedders,   \* calls of ext.embed (ext_enqueue_embedding)
    Loggers,     \* calls of append_log
    Emitters,    \* calls of ext.emit_event
    Deregs,      \* calls of ext.deregister
    BaseVersion, \* the integers a client may send as base_version
    Nil          \* NULL: no base_version, no lock holder, no path

ASSUME PathAssumption ==
    /\ ExtPath \subseteq Path
    /\ Seeded \subseteq Path
    /\ Nil \notin Path

\* The wiki pages that are in place before the first request.
Settled == Seeded \ ExtPath

ASSUME RequestAssumption ==
    /\ Nil \notin Writers \cup Embedders \cup Loggers \cup Emitters \cup Deregs
    /\ Writers \cap (Embedders \cup Loggers \cup Emitters \cup Deregs) = {}
    /\ Embedders \cap (Loggers \cup Emitters \cup Deregs) = {}
    /\ Loggers \cap (Emitters \cup Deregs) = {}
    /\ Emitters \cap Deregs = {}

ASSUME BaseAssumption == BaseVersion \subseteq Nat /\ Nil \notin BaseVersion

VARIABLES
    pages,      \* the committed rows of pages, NoRow where there is none
    seq,        \* the last value global_version_seq handed out
    holder,     \* who holds the row lock of a path, or is inserting it
    pc,         \* the next statement of each request
    txn,        \* the arguments and local values of each request
    doomed,     \* the rows a DELETE of ext_deregister saw in its snapshot
    registered, \* whether the extensions row exists
    events,     \* the committed rows of events, in commit (= NOTIFY) order
    jobs,       \* the committed rows of embedding_jobs
    audit,      \* the committed rows of audit
    reply       \* what the caller was told

vars == <<pages, seq, holder, pc, txn, doomed, registered, events, jobs, audit, reply>>

Request == Writers \cup Embedders \cup Loggers \cup Emitters \cup Deregs

Base == {Nil} \cup BaseVersion

NoRow == [version |-> 0, gv |-> 0, content |-> Nil]

Row == [version : Nat, gv : Nat, content : Request \cup {Nil}]

Exists(p) == pages[p].version > 0

(***************************************************************************)
(* Local values of a transaction: seen and body are the version and        *)
(* content its SELECT returned, gv the value it drew, enqueues whether its *)
(* INSERT INTO embedding_jobs found no (path, version) in its way.         *)
(***************************************************************************)
Txn == [path : Path \cup {Nil}, base : Base, seen : Nat,
        body : Request \cup {Nil}, gv : Nat, enqueues : BOOLEAN]

NoTxn == [path |-> Nil, base |-> Nil, seen |-> 0, body |-> Nil, gv |-> 0, enqueues |-> FALSE]

\* Mutants: the columns of the INSERT swapped; the version before the write.
PageChangedSwapped(p, g, v) == [type |-> "PageChanged", path |-> g, gv |-> p, version |-> v]
PageChangedBefore(p, g, v) == [type |-> "PageChanged", path |-> p, gv |-> g, version |-> v - 1]

PageChanged(p, g, v) == [type |-> "PageChanged", path |-> p, gv |-> g, version |-> v]

EventTypes == {"PageChanged", "LogAppended", "ExtEvent"}

Event == [type : EventTypes, path : Path \cup {Nil}, gv : Nat, version : Nat]

Job == [path : Path, version : Nat, request : Request]

AuditRow == [request : Request, outcome : {"ok", "conflict"},
             path : Path \cup {Nil}, before : Nat, after : Nat]

Reply == [status : {"pending", "ok", "conflict", "notfound", "failed"},
          version : Nat, content : Request \cup {Nil}]

Pending == [status |-> "pending", version |-> 0, content |-> Nil]

Answer(s, v, c) == [status |-> s, version |-> v, content |-> c]

TypeOK ==
    /\ pages \in [Path -> Row]
    /\ seq \in Nat
    /\ holder \in [Path -> Request \cup {Nil}]
    /\ pc \in [Request -> {"idle", "refuse", "draw", "look", "upsert", "delete", "commit", "done"}]
    /\ txn \in [Request -> Txn]
    /\ doomed \in [Deregs -> SUBSET ExtPath]
    /\ registered \in BOOLEAN
    /\ events \in Seq(Event)
    /\ jobs \subseteq Job
    /\ audit \subseteq AuditRow
    /\ reply \in [Request -> Reply]

Init ==
    /\ pages = [p \in Path |-> IF p \in Seeded THEN [NoRow EXCEPT !.version = 1] ELSE NoRow]
    /\ seq = 0
    /\ holder = [p \in Path |-> Nil]
    /\ pc = [r \in Request |-> IF r \in Loggers THEN "draw" ELSE "idle"]
    /\ txn = [r \in Request |-> NoTxn]
    /\ doomed = [d \in Deregs |-> {}]
    /\ registered = TRUE
    /\ events = <<>>
    /\ jobs = {}
    /\ audit = {}
    /\ reply = [r \in Request |-> Pending]

-----------------------------------------------------------------------------
(* Helpers.  *)

\* A transaction that ends gives back every row lock it holds.
Released(r) == [p \in Path |-> IF holder[p] = r THEN Nil ELSE holder[p]]

Goto(r, label) == pc' = [pc EXCEPT ![r] = label]

End(r, answer) ==
    /\ pc' = [pc EXCEPT ![r] = "done"]
    /\ reply' = [reply EXCEPT ![r] = answer]
    /\ holder' = Released(r)

\* Mutant: any version up to the current passes.
MatchesUpTo(base, version) == IF version = 0 THEN base = Nil ELSE base \in 1..version

\* base_version must be NULL for a page that is not there and the row's
\* version for one that is.
Matches(base, version) == base = (IF version = 0 THEN Nil ELSE version)

\* The version write_page and ext_enqueue_embedding give the row they write.
NewVersion(r) == txn[r].seen + 1

-----------------------------------------------------------------------------
(* wiki.write: Database.write_page.  *)

\* Mutant: SELECT without FOR UPDATE.
WriteSelectUnlocked(r, p, b) ==
    /\ pc[r] = "idle"
    /\ txn' = [txn EXCEPT ![r] = [NoTxn EXCEPT !.path = p, !.base = b,
                                     !.seen = pages[p].version, !.body = pages[p].content]]
    /\ Goto(r, IF Matches(b, pages[p].version) THEN "draw" ELSE "refuse")
    /\ UNCHANGED <<pages, seq, holder, doomed, registered, events, jobs, audit, reply>>

(***************************************************************************)
(* SELECT ... FOR UPDATE.  An existing row is read once nobody else holds  *)
(* its lock, and is then locked; a missing row locks nothing, even while   *)
(* another transaction is inserting it.                                    *)
(***************************************************************************)
WriteSelect(r, p, b) ==
    /\ pc[r] = "idle"
    /\ Exists(p) => holder[p] = Nil
    /\ txn' = [txn EXCEPT ![r] = [NoTxn EXCEPT !.path = p, !.base = b,
                                     !.seen = pages[p].version, !.body = pages[p].content]]
    /\ holder' = IF Exists(p) THEN [holder EXCEPT ![p] = r] ELSE holder
    /\ Goto(r, IF Matches(b, pages[p].version) THEN "draw" ELSE "refuse")
    /\ UNCHANGED <<pages, seq, doomed, registered, events, jobs, audit, reply>>

\* Mutant: a 409 that returns to the caller and leaves its transaction open.
RefuseStaysOpen(r) ==
    /\ pc[r] = "refuse"
    /\ audit' = audit \cup {[request |-> r, outcome |-> "conflict", path |-> txn[r].path,
                             before |-> txn[r].seen, after |-> 0]}
    /\ Goto(r, "done")
    /\ reply' = [reply EXCEPT ![r] = Answer("conflict", txn[r].seen, txn[r].body)]
    /\ UNCHANGED <<pages, seq, holder, txn, doomed, registered, events, jobs>>

(***************************************************************************)
(* The base does not match: the conflict is audited, the transaction       *)
(* commits (the early return leaves the block normally) and the caller     *)
(* gets the version and content the SELECT returned.                       *)
(***************************************************************************)
Refuse(r) ==
    /\ pc[r] = "refuse"
    /\ audit' = audit \cup {[request |-> r, outcome |-> "conflict", path |-> txn[r].path,
                             before |-> txn[r].seen, after |-> 0]}
    /\ End(r, Answer("conflict", txn[r].seen, txn[r].body))
    /\ UNCHANGED <<pages, seq, txn, doomed, registered, events, jobs>>

\* Mutant: the next number computed from the committed events.
DrawFromEvents(r) ==
    LET gvs == {events[i].gv : i \in DOMAIN events}
        next == (CHOOSE g \in gvs \cup {0} : \A h \in gvs : h <= g) + 1
    IN  /\ pc[r] = "draw"
        /\ seq' = next
        /\ txn' = [txn EXCEPT ![r].gv = next]
        /\ Goto(r, IF r \in Writers THEN "upsert"
                   ELSE IF r \in Embedders THEN "look" ELSE "commit")
        /\ UNCHANGED <<pages, holder, doomed, registered, events, jobs, audit, reply>>

(***************************************************************************)
(* SELECT nextval('global_version_seq'): never rolled back, and not        *)
(* ordered with the commits.                                               *)
(***************************************************************************)
DrawVersion(r) ==
    /\ pc[r] = "draw"
    /\ seq' = seq + 1
    /\ txn' = [txn EXCEPT ![r].gv = seq + 1]
    /\ Goto(r, IF r \in Writers THEN "upsert"
               ELSE IF r \in Embedders THEN "look" ELSE "commit")
    /\ UNCHANGED <<pages, holder, doomed, registered, events, jobs, audit, reply>>

(***************************************************************************)
(* INSERT INTO pages ... ON CONFLICT (path) DO UPDATE, and with it the     *)
(* INSERT INTO embedding_jobs ... ON CONFLICT DO NOTHING.  The upsert waits *)
(* for another transaction that has the row or is inserting it, and then    *)
(* overwrites whatever version that one left.                               *)
(***************************************************************************)
Upsert(r) ==
    LET p == txn[r].path IN
    /\ pc[r] = "upsert"
    /\ holder[p] \in {Nil, r}
    /\ holder' = [holder EXCEPT ![p] = r]
    /\ txn' = [txn EXCEPT ![r].enqueues =
                  ~\E j \in jobs : j.path = p /\ j.version = NewVersion(r)]
    /\ Goto(r, "commit")
    /\ UNCHANGED <<pages, seq, doomed, registered, events, jobs, audit, reply>>

\* The row and the job a write or an embed makes visible when it commits.
PutRow(r) ==
    LET p == txn[r].path IN
    /\ pages' = [pages EXCEPT ![p] = [version |-> NewVersion(r), gv |-> txn[r].gv, content |-> r]]
    /\ jobs' = IF txn[r].enqueues
               THEN jobs \cup {[path |-> p, version |-> NewVersion(r), request |-> r]}
               ELSE jobs

CommitWrite(r) ==
    /\ r \in Writers /\ pc[r] = "commit"
    /\ PutRow(r)
    /\ events' = Append(events, PageChanged(txn[r].path, txn[r].gv, NewVersion(r)))
    /\ audit' = audit \cup {[request |-> r, outcome |-> "ok", path |-> txn[r].path,
                             before |-> txn[r].seen, after |-> NewVersion(r)]}
    /\ End(r, Answer("ok", NewVersion(r), Nil))
    /\ UNCHANGED <<seq, txn, doomed, registered>>

-----------------------------------------------------------------------------
(* log.append: Database.append_log, which needs no page.  *)

CommitLog(r) ==
    /\ r \in Loggers /\ pc[r] = "commit"
    /\ events' = Append(events, [type |-> "LogAppended", path |-> Nil,
                                 gv |-> txn[r].gv, version |-> 0])
    /\ audit' = audit \cup {[request |-> r, outcome |-> "ok", path |-> Nil,
                             before |-> 0, after |-> 0]}
    /\ End(r, Answer("ok", 0, Nil))
    /\ UNCHANGED <<pages, seq, txn, doomed, registered, jobs>>

-----------------------------------------------------------------------------
(* Extensions: ext.embed, ext.emit_event and ext.deregister.  The handler  *)
(* looks the extension up first (ext_get) on a connection of its own.      *)

ExtUnknown(r) ==
    /\ r \in Embedders \cup Emitters /\ pc[r] = "idle"
    /\ ~registered
    /\ End(r, Answer("notfound", 0, Nil))
    /\ UNCHANGED <<pages, seq, txn, doomed, registered, events, jobs, audit>>

ExtBegin(r, p) ==
    /\ r \in Embedders => p \in ExtPath
    /\ pc[r] = "idle"
    /\ registered
    /\ txn' = [txn EXCEPT ![r] = [NoTxn EXCEPT !.path = p]]
    /\ Goto(r, "draw")
    /\ UNCHANGED <<pages, seq, holder, doomed, registered, events, jobs, audit, reply>>

(***************************************************************************)
(* ext_enqueue_embedding reads the version without a lock.                 *)
(***************************************************************************)
EmbedLookup(r) ==
    /\ pc[r] = "look"
    /\ txn' = [txn EXCEPT ![r].seen = pages[txn[r].path].version]
    /\ Goto(r, "upsert")
    /\ UNCHANGED <<pages, seq, holder, doomed, registered, events, jobs, audit, reply>>

\* It writes the page and a job, but neither an event nor an audit row.
CommitEmbed(r) ==
    /\ r \in Embedders /\ pc[r] = "commit"
    /\ PutRow(r)
    /\ End(r, Answer("ok", 0, Nil))
    /\ UNCHANGED <<seq, txn, doomed, registered, events, audit>>

CommitEmit(r) ==
    /\ r \in Emitters /\ pc[r] = "commit"
    /\ events' = Append(events, [type |-> "ExtEvent", path |-> txn[r].path,
                                 gv |-> txn[r].gv, version |-> 0])
    /\ End(r, Answer("ok", 0, Nil))
    /\ UNCHANGED <<pages, seq, txn, doomed, registered, jobs, audit>>

(***************************************************************************)
(* ext_deregister: the DELETE sees the rows of its snapshot only.  It comes *)
(* to them one by one, in the order of its scan, which is left open; it     *)
(* waits for whoever holds the row it is at, and keeps what it has locked   *)
(* meanwhile.                                                              *)
(***************************************************************************)
Scan(d, left, q) ==
    /\ IF left = {} THEN q = Nil ELSE q \in left
    /\ txn' = [txn EXCEPT ![d].path = q]
    /\ Goto(d, IF left = {} THEN "commit" ELSE "delete")

DropSnapshot(d, q) ==
    /\ pc[d] = "idle"
    /\ doomed' = [doomed EXCEPT ![d] = {p \in ExtPath : registered /\ Exists(p)}]
    /\ IF registered THEN Scan(d, doomed'[d], q) /\ UNCHANGED <<holder, reply>>
       ELSE q = Nil /\ End(d, Answer("ok", 0, Nil)) /\ UNCHANGED txn
    /\ UNCHANGED <<pages, seq, registered, events, jobs, audit>>

\* The rows the DELETE has still to come to.
Left(d) == {p \in doomed[d] : holder[p] # d}

\* Mutant: a DELETE that waits for nobody.
DropRowBlind(d, q) ==
    LET p == txn[d].path IN
    /\ pc[d] = "delete"
    /\ holder' = IF p \in doomed[d] THEN [holder EXCEPT ![p] = d] ELSE holder
    /\ Scan(d, Left(d) \ {p}, q)
    /\ UNCHANGED <<pages, seq, doomed, registered, events, jobs, audit, reply>>

\* A row that another deregistration has deleted meanwhile is passed over.
DropRow(d, q) ==
    LET p == txn[d].path IN
    /\ pc[d] = "delete"
    /\ p \in doomed[d] => holder[p] = Nil
    /\ holder' = IF p \in doomed[d] THEN [holder EXCEPT ![p] = d] ELSE holder
    /\ Scan(d, Left(d) \ {p}, q)
    /\ UNCHANGED <<pages, seq, doomed, registered, events, jobs, audit, reply>>

\* No event and no audit row: nobody is told.  The foreign key of embeddings
\* cascades; embedding_jobs has none and keeps its rows.
CommitDrop(d) ==
    /\ d \in Deregs /\ pc[d] = "commit"
    /\ pages' = [p \in Path |-> IF p \in doomed[d] THEN NoRow ELSE pages[p]]
    /\ doomed' = [e \in Deregs |-> IF e = d THEN doomed[d] ELSE doomed[e] \ doomed[d]]
    /\ registered' = FALSE
    /\ End(d, Answer("ok", 0, Nil))
    /\ UNCHANGED <<seq, txn, events, jobs, audit>>

-----------------------------------------------------------------------------
(***************************************************************************)
(* The connection drops, the statement fails or the master is killed: the  *)
(* transaction rolls back.  A drawn global version is lost with it.        *)
(***************************************************************************)
Abort(r) ==
    /\ pc[r] \notin {"idle", "done"}
    /\ End(r, Answer("failed", 0, Nil))
    /\ UNCHANGED <<pages, seq, txn, doomed, registered, events, jobs, audit>>

\* A request that waits for a row another transaction holds, or inserts.
Waiting(r) ==
    LET p == txn[r].path IN
    /\ pc[r] \in {"upsert", "delete"}
    /\ r \in Deregs => p \in doomed[r]
    /\ holder[p] \notin {Nil, r}

\* Requests that wait for each other in circles.
Deadlocked(S) ==
    /\ S # {} /\ \A r \in S : Waiting(r)
    /\ {holder[txn[r].path] : r \in S} = S

\* The deadlock detector of PostgreSQL makes the statement of one of them fail.
BreakDeadlock == \E S \in SUBSET Request : Deadlocked(S) /\ \E r \in S : Abort(r)

Finished ==
    /\ \A r \in Request : pc[r] = "done"
    /\ UNCHANGED vars

Advance(r) ==
    \/ Refuse(r)
    \/ DrawVersion(r)
    \/ EmbedLookup(r)
    \/ Upsert(r)
    \/ CommitWrite(r)
    \/ CommitLog(r)
    \/ CommitEmbed(r)
    \/ CommitEmit(r)

AdvanceDrop(d) ==
    \/ \E q \in Path \cup {Nil} : DropRow(d, q)
    \/ CommitDrop(d)

Next ==
    \/ \E r \in Writers, p \in Path, b \in Base : WriteSelect(r, p, b)
    \/ \E r \in Embedders \cup Emitters, p \in Path \cup {Nil} : ExtBegin(r, p)
    \/ \E r \in Embedders \cup Emitters : ExtUnknown(r)
    \/ \E d \in Deregs, q \in Path \cup {Nil} : DropSnapshot(d, q)
    \/ \E r \in Request : Advance(r)
    \/ \E d \in Deregs : AdvanceDrop(d)
    \/ \E r \in Request : Abort(r)
    \/ Finished

Spec == Init /\ [][Next]_vars

\* PostgreSQL runs every statement it was given, the one that waits for a row
\* lock goes on when the lock is free, and circles are broken; nothing else has to
\* fail, and nothing has to start.
FairSpec ==
    /\ Spec
    /\ \A r \in Request : WF_vars(Advance(r))
    /\ \A d \in Deregs : WF_vars(AdvanceDrop(d))
    /\ WF_vars(BreakDeadlock)

-----------------------------------------------------------------------------
(* Properties.  *)

\* From its SELECT ... FOR UPDATE to the end of its transaction, what a write
\* read of an existing row is what the row says: the version check and the
\* version it computes are never stale (db.py, write_page).
PinnedRow ==
    \A r \in Writers :
        (pc[r] \in {"refuse", "draw", "upsert", "commit"} /\ txn[r].seen > 0) =>
            LET p == txn[r].path IN
            /\ holder[p] = r
            /\ pages[p].version = txn[r].seen
            /\ pages[p].content = txn[r].body

\* No two committed events carry the same global version, whatever aborted
\* between them: a number names one event, so a cursor is a position.
DistinctEventVersions ==
    \A i, j \in DOMAIN events : i # j => events[i].gv # events[j].gv

\* The last PageChanged of a wiki page, in the order agents are notified,
\* announces the version and the global version of the row they will read.
LatestEventDescribesPage ==
    \A p \in Path \ ExtPath :
        LET changes == {i \in DOMAIN events : events[i].type = "PageChanged" /\ events[i].path = p}
        IN  \A i \in changes :
                (\A j \in changes : j <= i) =>
                    /\ events[i].version = pages[p].version
                    /\ events[i].gv = pages[p].gv

\* The step in which the caller of r gets its answer, and it is s.
Answers(r, s) == pc[r] # "done" /\ pc'[r] = "done" /\ reply'[r].status = s

\* A write acknowledged for base_version b replaced exactly version b of its
\* page, by version b + 1, even while embeds and a deregistration of the
\* extension work on the same row.
CheckedUpdate ==
    [][\A r \in Writers :
          LET p == txn[r].path IN
          (Answers(r, "ok") /\ txn[r].base # Nil) =>
              /\ pages[p].version = txn[r].base
              /\ pages'[p].version = txn[r].base + 1
              /\ pages'[p].content = r]_vars

\* A 409 for an existing page carries the version and content the page has
\* at that moment, and not the version the client named.
TruthfulConflict ==
    [][\A r \in Writers :
          LET p == txn[r].path IN
          (Answers(r, "conflict") /\ reply'[r].version > 0) =>
              /\ reply'[r].version = pages[p].version
              /\ reply'[r].content = pages[p].content
              /\ reply'[r].version # txn[r].base]_vars

\* Of the writes of one wiki page at most one is told it made version v:
\* no acknowledged write is silently replaced by one that did not see it.
OneWinnerPerVersion ==
    \A r, s \in Writers :
        (r # s /\ reply[r].status = "ok" /\ reply[s].status = "ok"
            /\ txn[r].path = txn[s].path /\ txn[r].path \notin ExtPath) =>
                reply[r].version # reply[s].version

\* The version of a wiki page that was in place, and its global version, only
\* ever grow, whatever else is written, created, embedded and deleted beside it.
PageVersionsRise ==
    [][\A p \in Settled :
          pages'[p] # pages[p] =>
              /\ pages'[p].version > pages[p].version
              /\ pages'[p].gv > pages[p].gv]_vars

\* A request that started ends: whatever waits for a row lock gets it or, in a
\* circle of deregistrations that each wait for a row of another, fails.
EveryRequestEnds == \A r \in Request : pc[r] # "idle" ~> pc[r] = "done"

\* What a writer of a page that was in place has been told.
Told(r) == IF txn[r].path \in Settled THEN reply[r] ELSE Pending

\* On the wiki pages that were in place write_page is the atomic
\* compare-and-swap store of CasStore, whatever happens on the other pages.
Cas == INSTANCE CasStore WITH
           Page <- Settled, Client <- Writers, BaseVersions <- BaseVersion, Null <- Nil,
           store <- [p \in Settled |-> [version |-> pages[p].version, content |-> pages[p].content]],
           answer <- [r \in Writers |-> Told(r)]

ImplementsCasStore == Cas!CasSpec

\* Whatever the transactions do, the events table is an EventLog: numbers are
\* drawn in order and published once, in any order, or never.
Open == {txn[r].gv : r \in {q \in Request : pc[q] # "done" /\ txn[q].gv > 0}}

Log == INSTANCE EventLog WITH
           Label <- EventTypes \X (Path \cup {Nil}),
           drawn <- seq, open <- Open,
           log <- [i \in DOMAIN events |->
                      [gv |-> events[i].gv, label |-> <<events[i].type, events[i].path>>]]

ImplementsEventLog == Log!LogSpec
=============================================================================
