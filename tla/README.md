# VaultMCP in TLA+

VaultMCP keeps a wiki of markdown pages for many servers. A *master* stores the
pages in PostgreSQL and serves them over HTTP; an *agent* on each server mirrors
them into a directory, pushes local edits, and follows a stream of events. This
directory holds the specifications of the parts where order, concurrency and
failure matter, the TLC runs that check them, and the proofs of what holds for
any number of pages, requests, agents and calls. Paths below are relative to the
repository; `src/vaultmcp/` is left out in front of `master/` and `agent/`.

## 1. Inventory

| Part | State | Operations | What is hard |
|---|---|---|---|
| Page store (`master/db.py`, `schema.sql`) | `pages`, `global_version_seq`, `events`, `embedding_jobs`, `audit`, `extensions` | `write_page`, `append_log`, `ext_emit_event`, `ext_enqueue_embedding`, `ext_deregister` | READ COMMITTED interleavings; a row lock on a row that is not there; rows locked one by one; numbers drawn before the commit |
| Event feed (`master/sse.py`, `events_since`, `listen`) | LISTEN connection, subscribers and their queues | fan-out, heartbeat, catch-up, registration | commits between query and registration; full queues; a lost listener; restarts |
| Sync engine (`agent/sync.py`, `version_cache.py`) | cursor, page versions, mirror | subscribe, apply an event | duplicates, reordering, failing reads, crashes between writes |
| Embedding pipeline (`master/embeddings.py`, queue operations of `db.py`) | `embedding_jobs`, `embeddings`, the worker | claim, embed, complete, fail | content read at the claim, stored later; retries; pages deleted underneath |
| Watcher and offline queue (`agent/watcher.py`, `queue.py`, `suppressor.py`) | debounce timers, queue files, suppression marks, the vault's files | change, flush, send or queue, replay | two flushes in flight, timers that outlive what they were started for, echo suppression, lost answers, restarts |
| Admission (`master/tools.py`, `ownership.py`, `validation.py`, `auth.py`) | the rules loaded at the start | checks before a write | order of the checks, first matching rule, what the adapter leaves out |
| Server process (`master/server.py`, `__main__.py`) | process, pool, listener, `servers`, requests | start, authenticate, dispatch, cancel, tear down; `add-server`, `rotate-token`, `remove-server` | two queries per authentication; cancellation between commit and answer; streams and shutdown |
| Rendering (`master/render.py`, `render-all`, `ingest`) | files under the wiki directory and their `.tmp` | render after a commit, render all, import | order of renders; one temporary name for every process; failures after the commit |
| Extension registry (`master/extensions.py`, `db.py`) | `extensions`, roles with their privileges, tables, rows | register, declare a table, execute a statement, embed, deregister | lookups on one connection and work on another; prefixes that overlap; `IF NOT EXISTS` |
| Listing and search (`db.py`, `tools.py`) | a caller's cursor and answers | pages of a listing, two rankers, fusion | pages that move while they are listed; ranks, ties, windows |
| MCP adapter | none | forwards calls without a server, rules or limit | |
| Dashboard, metrics, configuration, wire types, benchmarks | none, or counters | reading and parsing | nothing to model check |

The parts interact through the database and through notifications. Every write
commits a page, an event and a job together; the event's trigger notifies the
broadcaster, which puts the event into the queues of the connected agents; an agent reads
the page from the master and moves its cursor; the worker drains the jobs; the handler
renders the page to disk after its commit. The extension tools touch the same tables
by other paths, with fewer checks. The operator's commands are processes of their own
over the same database and the same directory.

What makes each part correct:

* **Page store.** Of the writers that name one version of a page at most one is
  acknowledged; an acknowledged write replaced the version it named; a refusal
  tells the truth; event numbers are distinct; the last event of a page
  describes its row; nobody waits for ever, deadlocks included.
* **Event feed and sync engine.** An agent loses an event only in known ways; a
  stream that breaks loses nothing the cursor has not passed; the mirror is as
  new as the last event applied; an open stream delivers.
* **Embedding pipeline.** When a page has no job left its embedding is that of
  its content; a label is never ahead of the content; a job ends.
* **Watcher and queue.** A local edit that was sent does not disappear without a
  trace, nor does one that was not; what the agent itself writes to the vault
  starts no push; an accepted push has seen the version it replaces.
* **Server and admission.** What is stored was admitted under the rules of the process
  that stored it; a token that was taken back gets nobody in; an answer tells
  what happened; a stop ends the process without closing the pool under a request.
* **Rendering.** A file holds a whole version of its page, and when nothing is being
  rendered the current one, but for known causes, which `render-all` repairs.
* **Extension registry.** Roles follow rows; a deregistration leaves nothing behind but
  what it could not see; a declared table stays its owner's.
* **Listing and search.** Nothing that stays put is listed twice or left out; the fusion
  prefers what both rankers prefer.

## 2. Modules

| Module | Models | Uses |
|---|---|---|
| `PageStore` | the transactions of `db.py` | |
| `CasStore` | what `write_page` promises: an atomic compare-and-swap store | instantiated by `PageStore` |
| `EventLog` | what the transactions promise to readers of `events` | instantiated by `PageStore`, extended by `EventStream` |
| `EventStream` | feed, stream, sync engine | `EventLog` |
| `EmbeddingPipeline` | the worker beside the transactions | extends `PageStore` |
| `Agent` | watcher, offline queue, suppressor and sync engine around one file | |
| `ExtRegistry` | the tools of extensions, their tables, roles and rows | |
| `Admission` | the checks before a write, as operators | |
| `Server` | the process, its requests, the operator's commands | extends `Admission` |
| `Rendering` | the files, the handlers and commands that write them | |
| `Queries` | paginated listing and hybrid search | |
| `PageStoreProofs`, `EmbeddingPipelineProofs`, `EventStreamProofs`, `AgentProofs`, `ExtRegistryProofs`, `ServerProofs`, `RenderingProofs`, `QueriesProofs` | theorems about these modules | TLAPS |
| `MCPageStore`, `MCEventStream`, `MCEmbeddingPipeline`, `MCAgent`, `MCExtRegistry`, `MCServer`, `MCRendering`, `MCQueries` | constants for TLC | |

Definitions marked *mutant* are deliberately wrong variants of the definition that
follows them; no specification uses them. They are what the properties have to reject.

### PageStore

A request is one call of a `Database` method, in one transaction. Every statement
whose outcome depends on other transactions is an action: the
`SELECT ... FOR UPDATE` (`WriteSelect`), the draw from the sequence
(`DrawVersion`), the lock-free lookup of `ext_enqueue_embedding` (`EmbedLookup`),
the upsert that waits for a row (`Upsert`), the snapshot of the `DELETE` of a
deregistration (`DropSnapshot`) and each of its rows (`DropRow`), and the commit.
`holder` is the row lock table: it also stands for an uncommitted insert, for which
an upsert waits but a `SELECT ... FOR UPDATE` does not. Uncommitted writes stay in `txn`.
`Abort` rolls a transaction back at any point and loses the number it drew. The
content of a page is the name of the request that wrote it.

The `DELETE` comes to its rows one by one, in an order that is left open (nothing in the
statement fixes it), waits for whoever holds the row it is at, and keeps what it has locked
meanwhile. So two deregistrations can wait for each other, directly or with more of them in
between: `Deadlocked(S)` says that the requests of `S` do, and `BreakDeadlock` is PostgreSQL's
deadlock detector, which makes the statement of one of them fail. A row that another
deregistration has deleted meanwhile is passed over, as READ COMMITTED does.

`CasStore` is the atomic store a reader of DESIGN.md, section 5, has in mind.
`EventLog` has three actions, *draw*, *publish* and *discard*, and makes explicit
that numbers are published in any order.

### EventStream

The database side is `EventLog`; `Commit` adds the notification. `listener` is
the LISTEN loop (`starting` until it is attached, because `start()` does not
wait for it; `dead` once it failed). Each subscriber goes through `off`, `replay`
and `live`; `replay`, `queue` and `wire` are what its catch-up query, its
in-memory queue and its HTTP stream hold. `Fanout` handles one notification for
all subscribers at once: nothing awaits while `_fanout` or `subscribe` hold the
lock. `Apply` is `_apply_event`; the page it reads is the current one, named by
the number of its last change (`LatestEventDescribesPage`, proved of `PageStore`,
is what justifies that name). The read and the write to the mirror are one
step: one agent applies one event at a time, and a commit between the two
has the same effect as a commit after both. `seen` and `missed` are history
variables; no action reads them, apart from the definition of what is passed over.

### EmbeddingPipeline

`StoreStep` is any step of `PageStore`, with the order in which transactions
started (`began`, the `enqueued_at` of their jobs) and the `ON DELETE CASCADE` of
`embeddings`. `NOW()` is the time of the BEGIN, which may be long before the first statement
gets its row lock, so a request enters `began` at any place (`Starting`). The worker claims (`Pop`), embeds (`EmbedReturns`), stores
(`Complete`), and fails or dies anywhere (`EmbedFails`; both leave the job with
its attempt counted). A vector is named by its content.

### Agent

One file of one agent. A step is what runs on the event loop between two awaits;
a `wiki.write` or `wiki.read` is in flight between steps. `Flush` takes the file
and the cached version together; `FlushSkipped` is a flush that comes to nothing, because
the file is away just then, outside the vault, or cannot be read (`watcher.py:148-161`), with
the timer used up; `Serve` is the master's answer, `Accepted`,
`Refused` and `Unanswered` the three branches of `_send_or_queue`; `ReplaySend` to
`ReplayStops` are those of `_replay_queue`, which runs beside everything else, once,
when the agent starts. `Read` and `ApplyRead` are the sync engine. File, version cache, queue and
`queue/failed` survive a crash; timers, marks, calls in flight and the replay do not.
`Crash` is also what a stream that breaks with an error of httpx does to the
agent: `sync.run` (`agent/sync.py:60`) catches `MasterClientError` and `OSError`, and an
`httpx.HTTPError` is neither.

A content is the set of edits it contains, so that undoing an edit is visible.
`news` counts the events not yet taken; what the stream loses is left to
`EventStream`, and so is a failing `wiki.read`. `made`, `sent`, `settled` and `dropped`
are history variables: the edits made, those that were part of a call, and those whose
fate is known; `dropped` has the edits that no call will carry, each put there by the step
that loses it. `origin` tells how the file came to its content: an edit, a write of the agent, or a write of
the agent while a debounce timer was running (`"raced"`). Such a timer runs on, and its flush sends
the page that was just synced, under the version just synced, which the master accepts. It is
still the timer of an edit, and `NoEcho` says exactly that: no timer starts from what the agent
wrote, and there is no second version for one edit. The suppressor's window does not end before watchdog has
reported the write it was set for: two seconds against the
milliseconds of inotify (`agent/suppressor.py:23-28`). Without that assumption `NoEcho` is
false.

### ExtRegistry

A call looks its extension up (`ext_get`, on a connection of its own) and works with the
row it got, in another transaction. `Register`, `Declare`, `Exec`, `Query`, `Emit` and `Embed` are
placed at their commit. A deregistration goes statement by statement (`DropCheck`,
`DropRole`, `DropPages`, `DropList`, `DropCommit`; its row locks are in `PageStore`), because under READ COMMITTED each statement
sees what has been committed by then; its commit deletes what the statements before it have
found. `Fails` rolls a call back. A name is not a string:
`Full` says which table a prefix and a short name spell, `Like` and `PageLike` which tables and
pages a pattern matches, in which the "_" of a name is a wildcard and one prefix may be the
beginning of another. `Exec` starts under the role of its extension and may write to any table of an
extension: the transaction is one of the master's login (`db.py:1010-1013`), so the grants of
the role decide only for a statement that stays under the role. `rows` keeps which registration
wrote with a grant, and `Nil` for a statement without one. What else the text of `ext.exec` could do
(change tables, grants or roles) is not an input of the model. `count`, `used`, `promised` and `stray` are history: how often and under which prefixes an
extension was registered, the tables a caller was promised, and what was created or kept
behind the back of a deregistration.

### Admission and Server

`Admission` has the checks of `_require_session`, `ownership.py` and `validation.py` in their order, as
operators that yield a status. A glob is the set of the paths it matches, a content is a record of
what the checks look for, a configuration the list of its rules or a file that does not load.

`Server` puts them into the requests of a process that starts (`Start`), is told to stop
(`Terminate`), waits for its requests or for the timeout (`Drained`, `Backstop`), tears down
(`StopWorkers`, `Close`) or dies (`Crash`), up to `MaxStart` times over one database. `Count` and `Find` are
the two queries of `authenticate`, between which the operator may change the table
(`AddServer`, `RotateToken`, `RemoveServer`). A request that was admitted commits, meets a
conflict, loses the database (when the COMMIT itself fails, it may have taken effect), and renders.
The adapter calls the handlers without server, rules or limit. `stored` and the fields `late` and `lapse` are history.

### Rendering

Contents are versions and paths are numbers. `Open`, `Fill` and `Rename` are the three steps of
`render_to_disk`. It runs without an await, so the handlers of the master take turns; a command is another
process, which uses the same names for its temporary files, and what a rename does to a file that the other has
open is modelled (`fd` is then `"file"` or `"gone"`). `vaultmcp-master mcp-stdio` is such a process too: it runs
`handle_write`, and so `render_to_disk`, over the same names (`master/mcp_adapter.py:202-209`); a command
stands for it as far as the files go, as a command's walk renders any page at any time. `RenderAll` and `Fetch` are the walk over the pages in
batches; `Ingest`, `Look`, `Unreadable`, `Skip` and `Import` take in files first, each one with the version seen before.
`RenderFails` covers errors of the disk, cancelled handlers and killed processes. `late` and
`mixed` are history: the paths whose file may be old, and those that two processes rendered at once.

### Queries

A content is named by the global version of its page. `ListCall` is one answer of a paginated
`wiki.list`; `Lexical` and `Semantic` are the two statements of a hybrid search, on two connections and at two moments, and `Fuse`
is the fusion: `Entries` is the dict of rows, `Inserted` its order, `Before` what sorts ahead of a row, `Best` the list cut to the limit,
and a score is in exact integers, shares of a common denominator that is the product of all 60 + rank. What a ranker makes of a text is
left open: any order of the pages it looks at. `first`, `touched` and `twice` are history.

## 3. Runs

Passing runs:

| Run | Shows | Bounds, and why they suffice |
|---|---|---|
| `store_update` | updates of a page that was in place, beside creates of another, a log entry and an extension event, refine `CasStore` (`ImplementsCasStore`); versions rise (`PageVersionsRise`); a conflict reports the page as it is (`TruthfulConflict`); `events` is an `EventLog` (`ImplementsEventLog`) whose last event of a page describes its row (`LatestEventDescribesPage`) | two writers of either page, bases 0, 1, 2: a winner and a loser, or two creates of one page that both win; four requests draw numbers and commit in any order; 169,513 states |
| `store_mixed` | a write's check holds until its commit (`PinnedRow`, `CheckedUpdate`); every request ends (`EveryRequestEnds`), also when deregistrations wait for each other | a write, an embed and two deregistrations over two extension pages: every pair of lockers meets on a row, and two `DELETE`s with two rows each are the smallest circle; 68,350 states |
| `stream_loss` | the complete list of ways to lose an event (`LossIsAccountedFor`); a catch-up stays ahead of the cursor (`ReplayAhead`); the mirror follows the last event (`MirrorIsCurrent`); an open stream delivers (`LiveDelivery`) | one agent (agents share nothing but the notification), three numbers of which two can be open, LIMIT 2 and queue 2, so that both overflow, a wire of 1; 450,000 states |
| `embed_drain` | a drained page is fresh (`FreshWhenDrained`), labels are not ahead (`LabelNotAhead`), every job retires (`JobsRetire`) | two writers, a deregistration, two pages, two attempts instead of five; 34,796 states |
| `agent_faults` | `NoEcho`, `SentIsKept`, `UnsentIsPending`, `RemoteIsSeen` | two edits here, two elsewhere, two flushes and a replay in flight, two crashes: one flush passes another, a replay meets both, a timer of the first edit finds what replaced it; 915,738 states |
| `ext_registry` | roles follow rows (`RoleMatchesRow`), what a deregistration leaves is known (`LeftoversAreStray`), a declared table stays what it was declared (`DeclaredStays`), what an extension reads in its tables was written under its present registration or without a grant (`RowsAreOwn`) | two names, `crm1x` and `crm_x`, so that the patterns of the second match the tables and the pages of the first through the wildcard; a custom prefix that is the beginning of both, and one that is not reserved; four calls: a deregistration, a registration in the middle of it and a call by each side; 71,252 states |
| `server` | `AnswersAreTruthful`, `CommitsWereAdmitted`, `TakenBackStaysOut`, `PoolOutlivesRequests`, `ShutdownEnds` | one request (requests share nothing but the pool and the table), two servers, three tokens, two starts, twelve kinds of call, three configuration files, and open streams, which use the pool for their catch-up; 457,009 states |
| `rendering` | files are whole (`FilesAreComplete`), stale ones accounted for (`StaleIsAccountedFor`), an undisturbed render-all repairs (`RenderAllRestores`) | one wiki page and two of extensions, batches of two so that a walk has a full one and a last one, two handlers, one command, versions to 3 |
| `queries` | untouched pages are listed exactly once (`ListedOnce`), the fusion respects both rankings (`FusionIsFair`) | two wiki pages and one of an extension, one entry per answer, a search of two hits and a window of two, so that both cuts happen |

Runs that find a disagreement, each with one property taken from a document or a
comment (see `findings` in PROJECT.json for the quotes):

| Run | What TLC finds |
|---|---|
| `store_create` | two concurrent creates of one page both succeed as version 1, and one content is gone |
| `stream_gap` | an event committed between the catch-up query and the registration, or before the LISTEN is attached, is lost when the next event moves the cursor |
| `agent_undone` | a replayed write is refused, the sync engine applies a newer page, then the refusal is handled: the older content is in the file under the newer version, and the next push undoes the other server's edit |

Each module has one type invariant, named `TypeOK` or `...TypeOK`. For updates, that a version has one winner
follows from `ImplementsCasStore`, and that event numbers are distinct from `ImplementsEventLog`; neither
has a run of its own.

Bounds that have no counterpart in the code: `MaxDrawn` numbers, `MaxOpen` open transactions and `WireSize` events
on a stream, `MaxCrashes`, `MaxToken`, `MaxStart`, `MaxVersion`, `MaxGv`, and the sets of edits,
requests and calls, each of which happens once. A retry by a client is another request.

`CHECK_DEADLOCK FALSE` stands where the modelled work runs out: edits (`agent_*`), calls
(`ext_registry`), starts (`server`), versions (`rendering`) and reads (`queries`). In `PageStore`,
`EmbeddingPipeline` and `EventStream` deadlock is checked.

**Fairness.** `FairSpec`: PostgreSQL executes the statements it was given,
grants a free lock, and breaks a circle of waits (its `deadlock_timeout`); no other transaction
has to abort, and none has to start. `FairStreamSpec`:
the event loop runs ready tasks, so notifications are handled, streams make
progress and a connected agent reads; nothing has to commit, connect or
restart, and nothing restarts a lost listener, because no code does.
`FairPipelineSpec`: the worker polls for ever, the provider answers or times
out. `FairServerSpec`: the steps of the teardown happen, the timeout of the shutdown among them, and a cancelled
request ends; that a request ends by itself, or that a client leaves, is not assumed.

### Further disagreements

Met while reading, explained by the models, without a run of their own:

* `master/db.py:313`: numbers are drawn before the commit, so a lower one may be published after a cursor
  has passed it. DESIGN.md:536: "Master keeps a global monotonic version counter so this catch-up is well-defined."
  (`stream_loss` lists it as one of the ways.)
* `master/sse.py:120` logs "LISTEN loop crashed; will be restarted"; nothing restarts it. A LISTEN connection
  that is lost while the task sleeps is not noticed at all; then `stop()` raises, and `db.close()` is not
  reached (`PoolOutlivesRequests` names the exception).
* `master/__main__.py:50-54` and `master/sse.py:74-78`, `195-203` say that streams end through `_stopping` and a
  sentinel. Both are set in the teardown, after the requests have ended; what ends an open stream is the timeout
  of five seconds (`ShutdownEnds` fails without it).
* `events_since` stops at 1000 rows (`master/sse.py:10`).
* `docs/05-operations.md:303` promises a cascade to `embedding_jobs` by a foreign key; there is none, so jobs stay
  until the worker finds their page gone. An `ext.embed` that overtakes a deregistration leaves its page.
* `master/db.py:970`: "Worst case the role keeps a few leftover ACLs". A statement that fails aborts the
  transaction, and the deregistration with it.
* `docs/05-operations.md:287` and `docs/06-project-state.md:212-213` name the GRANTs of the role as the boundary of
  `ext.exec`. The statement starts under `SET LOCAL ROLE`, in a transaction of the master's login
  (`master/db.py:1010-1013`); the model takes the code's word and not the documents', and
  `RowsAreOwn` says what is left of the boundary.
* `docs/03-extensibility.md` gives extensions tables only under their schema prefix; a prefix may be the
  beginning of another, and "_" matches any character, so a deregistration can drop tables of
  another extension (`DeclaredStays` says when).
* `ingest` skips files that are not valid, but a file that is not UTF-8 raises in `read_text` and ends the command.
* `ext.embed` writes no audit row (DESIGN.md:605).
* A label can lag behind the content of its vector (`schema.sql:256`; `LabelNotAhead` bounds the other direction). The second of two
  racing embeds of a page computes the version of the first, enqueues no job and may never be
  embedded, which is why `FreshWhenDrained` asks that a version be given out once (`schema.sql:271`).
* The offline queue is replayed when the agent starts and not every five seconds (DESIGN.md:522); the vault is
  not scanned at a start (DESIGN.md:746); a stream that breaks with an error of httpx ends the agent instead of
  reconnecting (`agent/sync.py:11`); an edit within two seconds of a synced write is taken for its echo and not pushed.
* `agent/watcher.py:126-129` describes the echo loop the suppressor prevents. A debounce timer that runs when
  `agent/sync.py:83` replaces the file is not cancelled, as the watcher ignores the change (`watcher.py:130`); it then
  pushes the synced page back under its own version, once. The edit the timer was for is gone
  (`UnsentIsPending` lists it as overwritten).
* A flush that finds the file gone returns in silence, one that cannot read it logs a warning (`watcher.py:155-161`), and
  text that is not UTF-8 ends its task; the edit stays in the file and is not pushed until the file changes again.

Facts that no document denies but a reader should know: `config.yaml` is read at the start only; removing the last server
makes the master accept requests without a token again; pages of extensions that `render-all` has written stay on disk when the
extension is deregistered (`remove_from_disk` has no caller); a long extension name makes a role name beyond the
63 characters of PostgreSQL.

## 4. Proofs

The theorems hold for any sets of pages, requests, agents, edits, calls and for any limits. Their only
assumptions are the named ones of the modules (which every run evaluates) and, where said, a hypothesis of the theorem.
Each proof follows the same plan: an inductive invariant that says what every program counter
knows, one step per action, then the property as a consequence.

**`PageStoreProofs`**

* `TypeCorrect`: types, with `Flow`, what each program counter says about the local
  values (a writer between draw and commit has a path, the base it matched, a number).
* `RowsArePinned` (`PinnedRow`): a writer past its `SELECT` on an existing row holds the
  row's lock, and the row is as it was read. Inductive only together with `Flow`, which
  adds that a writer or embedder about to commit holds its path's row and a deregistration every row it deletes.
* `EventVersionsDistinct`, from `Numbered`: every drawn number is at most `seq`, no two requests have drawn
  the same one, and the number of an event is that of a request that is done.
* `EventsDescribePages` (`LatestEventDescribesPage`): with `EmbedsAreExt` (no embed touches a wiki page)
  and the lock order, the commit that comes last on a row is the one that drew last.
* `OnlyDeregsDeadlock`: whoever waits in a circle is a deregistration. From `HoldsOwn`: a request that is no deregistration
  holds at most the row of its own path, so it waits for nothing while somebody waits for it.
* `UpdatesAreChecked`, `ConflictsAreTruthful`: action properties that follow from `PinnedRow` in the state before.
* `VersionsRise` (`PageVersionsRise`), for `Settled`, the wiki pages that were in place at the start, whatever else is created, embedded and
  deregistered. `DrawnAbove` says that what a writer has drawn lies above the global version of the row it holds.
* `StoreImplementsEventLog`: each action is a draw, a publish, a discard or a stutter of `EventLog`.
* `UpdatesImplementCasStore`: on the `Settled` pages each commit is an atomic write of `CasStore` and everything else a stutter; `Told` is
  what the writers of these pages were answered. `StoreInvariant` collects what the steps need. That a page was in place cannot be
  dropped: `store_create` shows two creates that both win.
* `SettledHaveOneWinner`, from `Winners`: an answered version is at most that of the page, and the next one to be answered is above it, so that
  no two writers of a settled page are given the same.

**`EmbeddingPipelineProofs`** builds on these. `PipelineInv` relates jobs, the worker and the
order of the transactions; `Served` says of a page whose job is claimed or gone that the worker's content or the
embedding is the page's, or the version was given out twice.

* `DrainedIsFresh` (`FreshWhenDrained`), for any number of writers, embeds, deregistrations and attempts.
* `LabelsUnderstate` (`LabelNotAhead`), for the `Settled` pages: a version a worker has claimed
  is not above that of the content it reads afterwards, because versions rise.
* `SettledIsFresh`: as the versions of a settled page are given out once (`Winners`), the exception in `FreshWhenDrained` is empty for it.
* `PipelineImplementsBoth`: `WorkerTouches` (a step of the worker leaves rows, numbers, events and answers alone) carries
  both refinements over to the store with its worker.

**`EventStreamProofs`**

* `StreamTypeCorrect`, from `StreamInv`: `LogOK`, `ServerOK`, `SessionsOK`, `AgentsOK`, one per kind of state.
* `ReplayKeepsAhead` (`ReplayAhead`), from `AheadInv`: what is on the wire rises, lies above the cursor and below the
  rows that are left.
* `LossesAreExplained` (`LossIsAccountedFor`), from `TrackInv`: an eligible event that is not lost in a named way is on its way to an open
  stream, everything numbered above it comes behind it, and it lies above the cursor. The second part is what makes
  it inductive: without it a later event could overtake and move the cursor past it.
* `MirrorsAreCurrent` (`MirrorIsCurrent`).
* `FeedKeepsToTheLog`: the feed treats the log as `EventLog` says, which is what joins it to `PageStore`.
* `QuietMeansDelivered`: with nothing under way (`Quiet`) "applied, lost or on its way" leaves the first two, so that an agent with an idle
  stream has applied all it was owed (`Deliverable`). It is the safety half of `LiveDelivery`.
* `TurnsKeepOrder`, under the hypothesis `MaxOpen = 1`, one writing transaction at a time: no number is committed after a higher
  one (`InTurn`), and every loss is among those the stream caused.

**`AgentProofs`**: `AgentInv` has `RestOK` (what is durable, and what an agent that is down has not), `SlotsOK` (what a flush knows in each state) and `ReplayOK` (the
replay works on a prefix of the queue).

* `AgentTypeCorrect`; `RemoteNotUndone` (`RemoteIsSeen`), from `BasesInv`, which relates every content that was sent to the
  version it names; `SentNotLost` (`SentIsKept`) and `UnsentNotForgotten` (`UnsentIsPending`), from `CoverInv`, where each edit is at any moment;
  `NothingEchoes` (`NoEcho`), from `OriginInv`: a file the agent wrote has no timer, and its change is
  heard under the mark; and from `EchoInv`: the versions there are and
  whatever can still lead to one (a live call, a timer, a change the watcher will hear of) are not more than the edits.
* `UndoneOnlyAfterStop`, from `NeverStopped` (no crash, so no replay and no refused item): until the first stop no push undoes an edit
  from elsewhere. This is the boundary of what `agent_undone` finds.
* `CacheVouchesForFile` and `RestAccountsForEdits`, consequences of `CoverInv`: what the version cache says of the file, and where every
  edit is when nothing is pending (`AtRest`).

**`ServerProofs`**: `ServerInv` for types and phases; `PoolIsSafe` (`PoolOutlivesRequests`); `StoredWasAdmitted`
(`CommitsWereAdmitted`), from `CheckedInv`: whoever is past `Dispatch` has passed every check, the first
matching rule being the one with the smallest number; `TakenBackIsRefused` (`TakenBackStaysOut`), from `LateInv`: a token that was taken back is nobody's
for ever, as tokens are not minted twice; `AnswersAreTrue` (`AnswersAreTruthful`), from `TruthInv`; `NobodyIsAnonymous`: `LapseExplains`
is inductive with these two, as a request without a session has seen the table empty, and its slot is never used again.

**`ExtRegistryProofs`**: `RegistryTypeCorrect`; `RolesMatchRows` (`RoleMatchesRow`), from `RolesInv`;
`OnlyStraysAreLeft` (`LeftoversAreStray`), from `LeftInv`, which follows grants, tables and pages from their
creation through the snapshots of a deregistration; `PromisesAreKept` (`DeclaredStays`) and `RowsStayApart` (`RowsAreOwn`), from
`OwnInv`: every prefix a call works with is on record, numbers of registrations are not used twice, and
a table that an extension was granted, or has written to with a grant, was matched by one of its prefixes, so that whoever else
touches it makes it contested. `SerialCallsLeaveNothing`, under the hypothesis that a call starts when no other is running (`Undisturbed`):
tables, pages and roles then always belong to registered extensions, since a deregistration's snapshot is still true when it acts on it.

**`RenderingProofs`**: `Shape` for types, and who is busy with what.

* `FilesAreWhole` (`FilesAreComplete`), from `Whole`: a page that no two processes had open at once has at most one
  opener, whose temporary file is empty until it is written and whole afterwards. A rename of a single opener
  that finds a version is what ends the interference.
* `StaleForAReason` (`StaleIsAccountedFor`), from `Current`: what is still to be rendered of a page that is not late is the present
  version, and whoever is left alone with such a page has a sound temporary file or none, even after an interference.
* `WalksRestore` (`RenderAllRestores`), from `Undisturbed`: behind the cursor everything is current or among the rows
  still to be rendered. `RowsCover` shows that a batch has no gaps and a short one is the last, `LastIs` that it has a last row.
* `MasterAloneKeepsFiles`, from `AloneInv`, where no second process renders: the handlers render one after the other, and only a command opens a page the master has open.

**`QueriesProofs`**: `QueriesInv` is `PagesOK`, `ListOK` and `SearchOK`; the lemmas about sorting carry the rest. `Places`: in a finite set
under a strict order, "how many are before it" is a bijection to the numbers below the size, so that sorting loses nothing, repeats nothing and
keeps the order. It is used for the fusion and for the answers of a listing.

* `QueriesTypeCorrect`: among others, no ranking and no answer names a page twice (`RankingsFact`, `BestFact`).
* `ListingNamesOnce` (`ListedOnce`), from `ListOK`: of the pages nobody touched, exactly those with a number from the cursor upwards have been named.
  `NewestFact` shows that an answer has no gaps and that a short one is the last.
* `FusionRespectsRankers` (`FusionIsFair`): `Products`, a recursive function, is shown to exist and to be a multiple of every 60 + rank
  of the window by a least counterexample (`ProductsExist`, `Divisible`); so shares are exact and fall with the rank
  (`ShareFalls`), a better page has the higher score (`BetterScores`), and `EntryPlaces` turns scores into places.

Only model-checked: liveness (`EveryRequestEnds`, `LiveDelivery`, `JobsRetire`, `ShutdownEnds`), which is out of the prover's
reach. Every safety and action property of the passing runs is a theorem.

## 5. Limits

What the models leave out of the parts they cover: several files of one agent (the replay stops at the first item
that fails and blocks the items of other files), and two agents over one store, of which `Agent` has the other
as edits that come from elsewhere. In `Agent` users add to the file and do not delete it, and a local write (the vault, the version cache,
a queue file) does not fail. In `Rendering` the wiki pages are all there at the start: a create renders as a write does, into a
file that is absent instead of old. In `ExtRegistry` the text of `ext.exec` writes rows and nothing else.
The contents of messages, pages and queries are names.

Not modelled: the dashboard and the metrics (views and counters over the same tables, written nowhere); the framing of the stream and
its parser (local to one function each); configuration, environment files and wire types (parsing and
declarations, whose bounds appear as constants); `migrate`, `list-servers` and `wiki.audit` (one statement each); the
benchmarks, which are clients. The providers of embeddings, PostgreSQL, watchdog and uvicorn are modelled from how the code
uses them.
