--------------------------------- MODULE Agent ---------------------------------
(***************************************************************************)
(* The agent of src/vaultmcp/agent and one file of its vault: the watcher    *)
(* that pushes edits, the sync engine that overwrites the file with the      *)
(* master's page, the offline queue and the suppressor between them.         *)
(*                                                                         *)
(* The pieces run on one event loop; a step is what runs between two awaits. *)
(* Requests to the master are in flight between steps: they are served in    *)
(* any order, and answers are handled in any order or get lost.  The master  *)
(* is the compare-and-swap store of CasStore, and every event arrives: what  *)
(* the stream loses is the subject of EventStream.                           *)
(*                                                                         *)
(* A content is the set of edits it contains.  Users only add, so a content  *)
(* that lacks an edit of the one it replaces has undone it.                  *)
(***************************************************************************)
EXTENDS Naturals, FiniteSets, SequencesExt

CONSTANTS
    Local,       \* edits made to the file on this server
    Remote,      \* edits that reach the page from other servers
    Flushes,     \* flush tasks that can be in flight together
    MaxCrashes,  \* how often the agent may stop
    Nil          \* no file, no read in flight

ASSUME AgentAssumption ==
    /\ Local \cap Remote = {}
    /\ "replay" \notin Flushes
    /\ \A c \in SUBSET (Local \cup Remote) : c # Nil
    /\ MaxCrashes \in Nat

VARIABLES
    page,       \* the master's page
    made,       \* edits made so far
    news,       \* PageChanged events of the page the sync engine has not taken
    file,       \* durable: the file, or Nil
    cache,      \* durable: page_versions of the version cache, 0 for no row
    queue,      \* durable: the queued writes, oldest first
    failed,     \* durable: the contents of queue/failed
    crashes,
    up,         \* whether the agent runs
    notice,     \* watchdog has an event for the watcher
    suppressed, \* the suppressor's mark on the file
    timer,      \* the debounce timer of the file
    push,       \* wiki.write calls in flight: of flush tasks, and of the replay
    replay,     \* the items the replay has still to send
    reading,    \* the page a wiki.read in flight answers with, or Nil
    sent,       \* history: local edits that were part of a call
    settled,    \* history: local edits the page took, a refusal overwrote, or a crash cut off
    dropped,    \* history: local edits no call will carry, see UnsentIsPending
    origin      \* history: how the file came to its content, see NoEcho

durable == <<file, cache, queue, failed>>
volatile == <<up, notice, suppressed, timer, push, replay, reading>>
history == <<sent, settled, dropped, origin>>
agentVars == <<page, made, news, durable, crashes, volatile, history>>

Content == SUBSET (Local \cup Remote)
Page == [version : Nat, content : Content, by : {"nobody", "agent", "remote"}]
Slot == Flushes \cup {"replay"}
NoPage == [version |-> 0, content |-> {}, by |-> "nobody"]
NoPush == [state |-> "none", content |-> {}, base |-> 0, answer |-> NoPage]

\* Local edits of the file that no call has carried yet.
Unsent == IF file = Nil THEN {} ELSE (file \cap Local) \ sent

AgentTypeOK ==
    /\ page \in Page
    /\ made \subseteq Local \cup Remote
    /\ news \in Nat
    /\ file \in Content \cup {Nil}
    /\ cache \in 0..page.version
    /\ queue \in Seq([content : Content, base : Nat])
    /\ failed \subseteq Content
    /\ crashes \in 0..MaxCrashes
    /\ push \in [Slot -> [state : {"none", "sent", "accepted", "conflict"},
                          content : Content, base : Nat, answer : Page]]
    /\ replay \in Seq([content : Content, base : Nat])
    /\ reading \in Page \cup {Nil}
    /\ <<up, notice, suppressed, timer>> \in BOOLEAN \X BOOLEAN \X BOOLEAN \X BOOLEAN
    /\ origin \in {"edited", "written", "raced"}
    /\ ~up => ~notice /\ ~timer /\ push = [s \in Slot |-> NoPush] /\ reading = Nil
    /\ IsPrefix(replay, queue)
    /\ push["replay"].state # "none" => replay # <<>>

AgentInit ==
    /\ page = NoPage /\ made = {} /\ news = 0
    /\ file = Nil /\ cache = 0 /\ queue = <<>> /\ failed = {}
    /\ crashes = 0 /\ up = TRUE
    /\ notice = FALSE /\ suppressed = FALSE /\ timer = FALSE
    /\ push = [s \in Slot |-> NoPush] /\ replay = <<>> /\ reading = Nil
    /\ sent = {} /\ settled = {} /\ dropped = {} /\ origin = "written"

-----------------------------------------------------------------------------
(* The users and the other servers.  *)

\* watchdog sees an edit only while the observer runs.
LocalEdit(e) ==
    /\ e \notin made
    /\ made' = made \cup {e}
    /\ file' = (IF file = Nil THEN {} ELSE file) \cup {e}
    /\ notice' = up
    /\ dropped' = IF up THEN dropped ELSE dropped \cup {e}
    /\ origin' = "edited"
    /\ UNCHANGED <<page, news, cache, queue, failed, crashes, up, suppressed, timer, push, replay,
                   reading, sent, settled>>

RemoteEdit(r) ==
    /\ r \notin made
    /\ made' = made \cup {r}
    /\ page' = [version |-> page.version + 1, content |-> page.content \cup {r}, by |-> "remote"]
    /\ news' = news + 1
    /\ UNCHANGED <<durable, crashes, volatile, history>>

-----------------------------------------------------------------------------
(* Writing to the vault: _replace_local and _write_to_mirror.  *)

\* A file that is as wanted is left alone; otherwise it is marked, then replaced.
Overwrite(content) ==
    IF file = content
    THEN UNCHANGED <<file, suppressed, notice, dropped, origin>>
    ELSE /\ file' = content
         /\ suppressed' = TRUE
         /\ notice' = TRUE
         /\ dropped' = dropped \cup (Unsent \ content)
         /\ origin' = IF timer THEN "raced" ELSE "written"

\* The window of two seconds runs out; watchdog reports a write within it.
Expire ==
    /\ suppressed /\ ~notice
    /\ suppressed' = FALSE
    /\ UNCHANGED <<page, made, news, durable, crashes, up, notice, timer, push, replay, reading, history>>

-----------------------------------------------------------------------------
(* The watcher.  *)

\* Mutant: the mark is not consulted.
OnChangeHeedless ==
    /\ notice
    /\ notice' = FALSE
    /\ timer' = TRUE
    /\ UNCHANGED <<page, made, news, durable, crashes, up, suppressed, push, replay, reading, history>>

\* Mutant: the timer that runs is cancelled before the mark is looked at.
OnChangeCancelling ==
    /\ notice
    /\ notice' = FALSE
    /\ timer' = ~suppressed
    /\ dropped' = IF suppressed /\ ~timer THEN dropped \cup Unsent ELSE dropped
    /\ UNCHANGED <<page, made, news, durable, crashes, up, suppressed, push, replay, reading, sent, settled, origin>>

\* _on_change: nothing under a mark; otherwise the debounce timer starts again.
OnChange ==
    /\ notice
    /\ notice' = FALSE
    /\ timer' = (timer \/ ~suppressed)
    /\ dropped' = IF suppressed /\ ~timer THEN dropped \cup Unsent ELSE dropped
    /\ UNCHANGED <<page, made, news, durable, crashes, up, suppressed, push, replay, reading, sent, settled, origin>>

Call(content, base) == [NoPush EXCEPT !.state = "sent", !.content = content, !.base = base]

\* Once no timer is left the file is no longer raced by one.
Past == IF origin = "raced" THEN "written" ELSE origin

\* _flush and the start of _send_or_queue: file and version as they are now.
Flush(f) ==
    /\ timer
    /\ push[f] = NoPush
    /\ timer' = FALSE
    /\ push' = [push EXCEPT ![f] = Call(file, cache)]
    /\ sent' = sent \cup (file \cap Local)
    /\ origin' = Past
    /\ UNCHANGED <<page, made, news, durable, crashes, up, notice, suppressed, replay, reading, settled, dropped>>

\* _flush comes to nothing: the file is away just then or cannot be read, an
\* OSError that is logged or a UnicodeDecodeError that ends the task.
FlushSkipped ==
    /\ timer
    /\ timer' = FALSE
    /\ dropped' = IF notice THEN dropped ELSE dropped \cup Unsent
    /\ origin' = Past
    /\ UNCHANGED <<page, made, news, durable, crashes, up, notice, suppressed, push, replay, reading,
                   sent, settled>>

\* The master serves a call: write_page.
Serve(s) ==
    /\ push[s].state = "sent"
    /\ IF push[s].base = page.version
       THEN /\ page' = [version |-> page.version + 1, content |-> push[s].content, by |-> "agent"]
            /\ news' = news + 1
            /\ push' = [push EXCEPT ![s].state = "accepted", ![s].answer = page']
            /\ settled' = settled \cup (push[s].content \cap Local)
       ELSE /\ push' = [push EXCEPT ![s].state = "conflict", ![s].answer = page]
            /\ UNCHANGED <<page, news, settled>>
    /\ UNCHANGED <<made, durable, crashes, up, notice, suppressed, timer, replay, reading, sent, dropped,
                   origin>>

Accepted(f) ==
    /\ push[f].state = "accepted"
    /\ cache' = push[f].answer.version
    /\ push' = [push EXCEPT ![f] = NoPush]
    /\ UNCHANGED <<page, made, news, file, queue, failed, crashes, up, notice, suppressed, timer,
                   replay, reading, history>>

\* Mutant: the local file is kept, with the version of the answer.
RefusedKeepingFile(f) ==
    /\ push[f].state = "conflict"
    /\ cache' = push[f].answer.version
    /\ push' = [push EXCEPT ![f] = NoPush]
    /\ settled' = settled \cup (push[f].content \cap Local)
    /\ UNCHANGED <<page, made, news, file, queue, failed, crashes, up, notice, suppressed, timer,
                   replay, reading, sent, dropped, origin>>

\* ConflictError: the file becomes the page of the answer, and so does its version.
Refused(f) ==
    /\ push[f].state = "conflict"
    /\ Overwrite(push[f].answer.content)
    /\ cache' = push[f].answer.version
    /\ push' = [push EXCEPT ![f] = NoPush]
    /\ settled' = settled \cup (push[f].content \cap Local)
    /\ UNCHANGED <<page, made, news, queue, failed, crashes, up, timer, replay, reading, sent>>

\* The queue directory with one file more, the newest; with the file gone of the
\* item that was replayed, the oldest.
Enqueue(call) == Append(queue, [content |-> call.content, base |-> call.base])

Dequeue == Tail(queue)

\* MasterClientError, whether the master did not get the call, refused it for
\* another reason than its version, or the answer was lost: the write is queued.
Unanswered(f) ==
    /\ push[f].state # "none"
    /\ queue' = Enqueue(push[f])
    /\ push' = [push EXCEPT ![f] = NoPush]
    /\ UNCHANGED <<page, made, news, file, cache, failed, crashes, up, notice, suppressed, timer,
                   replay, reading, history>>

-----------------------------------------------------------------------------
(* _replay_queue, which starts once with the agent.  *)

ReplaySend ==
    /\ replay # <<>>
    /\ push["replay"] = NoPush
    /\ push' = [push EXCEPT !["replay"] = Call(Head(replay).content, Head(replay).base)]
    /\ UNCHANGED <<page, made, news, durable, crashes, up, notice, suppressed, timer, replay,
                   reading, history>>

ReplayAccepted ==
    /\ push["replay"].state = "accepted"
    /\ cache' = push["replay"].answer.version
    /\ queue' = Dequeue
    /\ replay' = Tail(replay)
    /\ push' = [push EXCEPT !["replay"] = NoPush]
    /\ UNCHANGED <<page, made, news, file, failed, crashes, up, notice, suppressed, timer,
                   reading, history>>

\* Mutant: the refused write is dropped instead of kept in queue/failed.
ReplayRefusedDropping ==
    /\ push["replay"].state = "conflict"
    /\ Overwrite(push["replay"].answer.content)
    /\ queue' = Dequeue
    /\ replay' = Tail(replay)
    /\ push' = [push EXCEPT !["replay"] = NoPush]
    /\ UNCHANGED <<page, made, news, cache, failed, crashes, up, timer, reading, sent, settled>>

\* The file is replaced and the write kept aside; the version cache stays as it was.
ReplayRefused ==
    /\ push["replay"].state = "conflict"
    /\ Overwrite(push["replay"].answer.content)
    /\ queue' = Dequeue
    /\ failed' = failed \cup {push["replay"].content}
    /\ replay' = Tail(replay)
    /\ push' = [push EXCEPT !["replay"] = NoPush]
    /\ UNCHANGED <<page, made, news, cache, crashes, up, timer, reading, sent, settled>>

\* Mutant: the replay gives up while its call is still out.
ReplayStopsEarly ==
    /\ push["replay"].state # "none"
    /\ replay' = <<>>
    /\ UNCHANGED <<page, made, news, durable, crashes, up, notice, suppressed, timer, push, reading,
                   history>>

\* Any other failure stops the replay until the agent starts again.
ReplayStops ==
    /\ push["replay"].state # "none"
    /\ replay' = <<>>
    /\ push' = [push EXCEPT !["replay"] = NoPush]
    /\ UNCHANGED <<page, made, news, durable, crashes, up, notice, suppressed, timer, reading, history>>

-----------------------------------------------------------------------------
(* The sync engine, which handles one event at a time.  *)

\* The wiki.read after a PageChanged, at the moment the master answers it.
Read ==
    /\ up /\ news > 0 /\ reading = Nil
    /\ reading' = page
    /\ news' = news - 1
    /\ UNCHANGED <<page, made, durable, crashes, up, notice, suppressed, timer, push, replay, history>>

ApplyRead ==
    /\ reading # Nil
    /\ Overwrite(reading.content)
    /\ cache' = reading.version
    /\ reading' = Nil
    /\ UNCHANGED <<page, made, news, queue, failed, crashes, up, timer, push, replay, sent, settled>>

-----------------------------------------------------------------------------
(***************************************************************************)
(* The agent stops: it is killed, or the stream breaks with an error of      *)
(* httpx, which sync.run does not catch.  A call that was sent may have      *)
(* been served; the event of an unfinished read comes again.                 *)
(***************************************************************************)
Crash ==
    /\ up /\ crashes < MaxCrashes
    /\ up' = FALSE
    /\ crashes' = crashes + 1
    /\ notice' = FALSE /\ suppressed' = FALSE /\ timer' = FALSE
    /\ push' = [s \in Slot |-> NoPush] /\ replay' = <<>> /\ reading' = Nil
    /\ news' = IF reading = Nil THEN news ELSE news + 1
    /\ settled' = settled \cup (Local \cap UNION {push[f].content : f \in Flushes})
    /\ dropped' = dropped \cup Unsent
    /\ origin' = Past
    /\ UNCHANGED <<page, made, durable, sent>>

\* run: the replay takes the queue as it is now; the vault is not scanned.
Restart ==
    /\ ~up
    /\ up' = TRUE
    /\ replay' = queue
    /\ UNCHANGED <<page, made, news, durable, crashes, notice, suppressed, timer, push, reading, history>>

AgentNext ==
    \/ \E e \in Local : LocalEdit(e)
    \/ \E r \in Remote : RemoteEdit(r)
    \/ \E f \in Flushes : Flush(f) \/ Accepted(f) \/ Refused(f) \/ Unanswered(f)
    \/ \E s \in Slot : Serve(s)
    \/ OnChange \/ FlushSkipped \/ Expire
    \/ ReplaySend \/ ReplayAccepted \/ ReplayRefused \/ ReplayStops
    \/ Read \/ ApplyRead
    \/ Crash \/ Restart

AgentSpec == AgentInit /\ [][AgentNext]_agentVars

-----------------------------------------------------------------------------
(***************************************************************************)
(* What the agent writes to the vault starts no push: a debounce timer that  *)
(* runs is that of an edit, even when the file was overwritten meanwhile.    *)
(* Such a timer does push the page that was synced, but no push makes        *)
(* another: every version of the page has an edit of its own.                *)
(***************************************************************************)
NoEcho ==
    /\ timer => origin # "written"
    /\ page.version <= Cardinality(made)

(***************************************************************************)
(* A local edit that was part of a call to the master has reached the page,  *)
(* was overwritten by a conflict answer, was cut off by a crash, is still in *)
(* flight, is queued, or is kept in queue/failed.                            *)
(***************************************************************************)
SentIsKept ==
    \A e \in sent \ settled :
       \/ \E f \in Flushes : e \in push[f].content
       \/ \E i \in DOMAIN queue : e \in queue[i].content
       \/ \E c \in failed : e \in c

(***************************************************************************)
(* A local edit that no call has carried yet is still in the file and will   *)
(* be flushed, unless it was overwritten before its debounce ran out, was    *)
(* taken for the echo of a write to the vault, could not be read when its    *)
(* timer ran out, or the agent was down.                                     *)
(***************************************************************************)
UnsentIsPending ==
    \A e \in (made \cap Local) \ (sent \cup dropped) : e \in file /\ (notice \/ timer)

(***************************************************************************)
(* An accepted push that replaces a version written by another server        *)
(* contains what that server wrote, unless a replayed write was refused.     *)
(***************************************************************************)
Undoes == page.by = "remote" /\ page'.by = "agent" /\ ~(page.content \subseteq page'.content)

RemoteIsSeen == [][Undoes => failed # {}]_agentVars

\* DESIGN.md promises optimistic concurrency: a push that was made without the
\* current version, written by another server, is refused.
NothingUndone == [][~Undoes]_agentVars
=============================================================================
