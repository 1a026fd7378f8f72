------------------------------ MODULE Rendering -------------------------------
(***************************************************************************)
(* The copy of the pages table on disk: the files that render_to_disk       *)
(* writes under the wiki directory, after each commit of a handler and by   *)
(* the commands render-all and ingest (src/vaultmcp/master/render.py,       *)
(* tools.py, db.py, __main__.py).                                          *)
(*                                                                         *)
(* A content is the version it belongs to; paths are numbers, in their     *)
(* order.  render_to_disk is three steps: it opens <path>.tmp, which       *)
(* truncates it, writes the content, and renames the file.  The master     *)
(* runs it without an await, so its handlers take turns, but a command is  *)
(* a process of its own, with the same names for its temporary files.      *)
(***************************************************************************)
EXTENDS Integers, FiniteSets

CONSTANTS
    Wiki,     \* paths of wiki pages
    Ext,      \* paths under ext/, which only ext.embed writes and a
              \* deregistration deletes; neither touches the disk
    Writer,   \* handlers of the master
    Command,  \* render-all and ingest
    Batch,    \* rows per statement of iter_all_pages
    MaxVersion, \* bound on the versions of a page
    Nil

ASSUME RenderingAssumption ==
    /\ Wiki \subseteq Nat \ {0} /\ Ext \subseteq Nat \ {0} /\ Wiki \cap Ext = {}
    /\ IsFiniteSet(Wiki) /\ IsFiniteSet(Ext) /\ Writer \cap Command = {}
    /\ Nil \notin {"tmp", "file", "gone"} /\ Nil \notin Int
    /\ Batch \in Nat \ {0} /\ MaxVersion \in Nat \ {0}

Path == Wiki \cup Ext
Actor == Writer \cup Command

VARIABLES
    pages,  \* version of each page, 0 if there is none
    file,   \* the content of each file
    tmp,    \* the content of each temporary file
    todo,   \* the version of each page that an actor has read and will render, 0 for none
    fd,     \* where the file is that an actor has opened for the first of them:
            \* still ".tmp", renamed by another process, or replaced since
    full,   \* whether the actor has written it
    run,    \* where a command is
    late,   \* history: paths written to between a read and its render, and
            \* those whose render failed or was given up
    mixed   \* history: paths that two processes had open at once

renderVars == <<file, tmp, todo, fd, full, late, mixed>>
renderingVars == <<pages, renderVars, run>>

Present == {p \in Path : pages[p] # 0}

\* What a file may hold besides a version.
Empty == 0
Torn == -1

NoRun == [mode |-> "idle", cursor |-> 0, last |-> FALSE, left |-> {}, seen |-> 0,
          overwrite |-> FALSE, imported |-> FALSE, quiet |-> FALSE]

\* left and seen belong to the import, cursor and last to the walk.  quiet is
\* history: nothing has happened beside the walk.
Run == [mode : {"idle", "look", "write", "walk", "over", "aborted"}, cursor : {0} \cup Path, last : BOOLEAN,
        left : SUBSET Wiki, seen : 0 .. MaxVersion, overwrite : BOOLEAN, imported : BOOLEAN, quiet : BOOLEAN]

First(is) == CHOOSE p \in is : \A q \in is : p <= q

Nothing == [p \in Path |-> 0]
Left(x) == {p \in Path : todo[x][p] # 0}
Busy(x) == fd[x] # Nil
Target(x) == First(Left(x))
Opened(p) == {x \in Actor : Busy(x) /\ Target(x) = p}
Pending(p) == {x \in Actor : p \in Left(x)}

RenderingTypeOK ==
    /\ pages \in [Path -> 0 .. MaxVersion]
    /\ file \in [Path -> {Nil, Torn} \cup 0 .. MaxVersion]
    /\ tmp \in [Path -> {Nil, Torn} \cup 0 .. MaxVersion]
    /\ todo \in [Actor -> [Path -> 0 .. MaxVersion]]
    /\ fd \in [Actor -> {Nil, "tmp", "file", "gone"}]
    /\ full \in [Actor -> BOOLEAN]
    /\ \A x \in Actor : Busy(x) => Left(x) # {}
    /\ \A w, v \in Writer : Busy(w) /\ Busy(v) => w = v
    /\ run \in [Command -> Run]
    /\ late \subseteq Path /\ mixed \subseteq Path

\* All pages are there, those of the wiki on disk.
RenderingInit ==
    /\ pages = [p \in Path |-> 1]
    /\ file = [p \in Path |-> IF p \in Wiki THEN 1 ELSE Nil]
    /\ tmp = [p \in Path |-> Nil]
    /\ todo = [x \in Actor |-> Nothing]
    /\ fd = [x \in Actor |-> Nil]
    /\ full = [x \in Actor |-> FALSE]
    /\ run = [k \in Command |-> NoRun]
    /\ late = {} /\ mixed = {}

-----------------------------------------------------------------------------
(* Commits.                                                                 *)

Disturbed == [k \in Command |-> [run[k] EXCEPT !.quiet = FALSE]]

Put(p) ==
    /\ pages[p] < MaxVersion
    /\ pages' = [pages EXCEPT ![p] = @ + 1]

\* write_page: the new content goes to disk when the handler runs on.
CommitBy(x, p) ==
    /\ Put(p)
    /\ todo' = [todo EXCEPT ![x] = [Nothing EXCEPT ![p] = pages[p] + 1]]
    /\ late' = IF Pending(p) = {} THEN late ELSE late \cup {p}

Write(w, p) ==
    /\ Left(w) = {} /\ p \in Wiki
    /\ CommitBy(w, p)
    /\ run' = Disturbed
    /\ UNCHANGED <<file, tmp, fd, full, mixed>>

\* ext.embed, and the deletion of its page by ext.deregister.
Embed(p) ==
    /\ p \in Ext
    /\ Put(p)
    /\ run' = Disturbed
    /\ UNCHANGED renderVars

Delete(p) ==
    /\ p \in Ext \cap Present
    /\ pages' = [pages EXCEPT ![p] = 0]
    /\ run' = Disturbed
    /\ UNCHANGED renderVars

-----------------------------------------------------------------------------
(* render_to_disk.                                                          *)

\* A command that renders does not spoil its own walk.
Noise(x) == [k \in Command |-> IF k = x THEN run[k] ELSE Disturbed[k]]

\* Mutant: in a thread of its own.
OpenInThread(x) ==
    /\ Left(x) # {} /\ ~Busy(x)
    /\ tmp' = [tmp EXCEPT ![Target(x)] = Empty]
    /\ fd' = [fd EXCEPT ![x] = "tmp"]
    /\ mixed' = IF Opened(Target(x)) = {} THEN mixed ELSE mixed \cup {Target(x)}
    /\ run' = Noise(x)
    /\ UNCHANGED <<pages, file, todo, full, late>>

\* Mutant: without a temporary file.
OpenInPlace(x) ==
    /\ Left(x) # {} /\ ~Busy(x)
    /\ x \in Writer => \A w \in Writer : ~Busy(w)
    /\ file' = [file EXCEPT ![Target(x)] = Empty]
    /\ fd' = [fd EXCEPT ![x] = "file"]
    /\ run' = Noise(x)
    /\ UNCHANGED <<pages, tmp, todo, full, late, mixed>>

Open(x) ==
    /\ Left(x) # {} /\ ~Busy(x)
    /\ x \in Writer => \A w \in Writer : ~Busy(w)
    /\ tmp' = [tmp EXCEPT ![Target(x)] = Empty]
    /\ fd' = [fd EXCEPT ![x] = "tmp"]
    /\ mixed' = IF Opened(Target(x)) = {} THEN mixed ELSE mixed \cup {Target(x)}
    /\ run' = Noise(x)
    /\ UNCHANGED <<pages, file, todo, full, late>>

\* Written over another content, the shorter of the two leaves a mixture.
Over(old, v) == IF old \in {Empty, v} THEN {v} ELSE {v, Torn}

\* Mutant: the content that the write replaces.
FillOld(x) ==
    LET p == Target(x) IN
    /\ Busy(x) /\ ~full[x]
    /\ tmp' = [tmp EXCEPT ![p] = todo[x][p] - 1]
    /\ full' = [full EXCEPT ![x] = TRUE]
    /\ UNCHANGED <<pages, file, todo, fd, late, mixed, run>>

Fill(x) ==
    LET p == Target(x)
        v == todo[x][p]
    IN  /\ Busy(x) /\ ~full[x]
        /\ full' = [full EXCEPT ![x] = TRUE]
        /\ \/ fd[x] = "tmp" /\ \E c \in Over(tmp[p], v) : tmp' = [tmp EXCEPT ![p] = c] /\ UNCHANGED file
           \/ fd[x] = "file" /\ \E c \in Over(file[p], v) : file' = [file EXCEPT ![p] = c] /\ UNCHANGED tmp
           \/ fd[x] = "gone" /\ UNCHANGED <<file, tmp>>
        /\ UNCHANGED <<pages, todo, fd, late, mixed, run>>

\* The end of a render, well or not.  A write of ingest that cannot be rendered
\* is an error that ends the command; a walk goes on.
Rendered(x) ==
    /\ todo' = [todo EXCEPT ![x][Target(x)] = 0]
    /\ full' = [full EXCEPT ![x] = FALSE]

GivenUp(x) ==
    /\ Rendered(x)
    /\ fd' = [fd EXCEPT ![x] = Nil]
    /\ late' = late \cup {Target(x)}
    /\ run' = IF x \in Command /\ run[x].mode = "look"
              THEN [Disturbed EXCEPT ![x].mode = "aborted"] ELSE Disturbed

\* os.replace: who has the temporary file open still has it open as the file.
Rename(x) ==
    LET p == Target(x) IN
    /\ Busy(x) /\ full[x] /\ tmp[p] # Nil
    /\ file' = [file EXCEPT ![p] = tmp[p]]
    /\ tmp' = [tmp EXCEPT ![p] = Nil]
    /\ fd' = [y \in Actor |->
                CASE y = x -> Nil
                  [] y # x /\ y \in Opened(p) -> IF fd[y] = "tmp" THEN "file" ELSE "gone"
                  [] OTHER -> fd[y]]
    /\ Rendered(x)
    /\ late' = IF Pending(p) = {x} /\ tmp[p] = pages[p] THEN late \ {p} ELSE late
    /\ mixed' = IF Opened(p) = {x} /\ tmp[p] \notin {Empty, Torn} THEN mixed \ {p} ELSE mixed
    /\ UNCHANGED <<pages, run>>

\* The temporary file has been renamed by the other process.
RenameFails(x) ==
    /\ Busy(x) /\ full[x] /\ tmp[Target(x)] = Nil
    /\ GivenUp(x)
    /\ UNCHANGED <<pages, file, tmp, mixed>>

\* An OSError, or the end of the handler: cancelled between the commit and the
\* render, or killed at any point.
RenderFails(x) ==
    /\ Left(x) # {}
    /\ GivenUp(x)
    /\ UNCHANGED <<pages, file, tmp, mixed>>

-----------------------------------------------------------------------------
(* render-all and ingest.                                                   *)

Quiet == \A x \in Actor : Left(x) = {}

\* render-all walks over all pages; ingest imports its files first.
RenderAll(k) ==
    /\ run[k].mode = "idle"
    /\ run' = [run EXCEPT ![k].mode = "walk", ![k].quiet = Quiet]
    /\ UNCHANGED <<pages, renderVars>>

Ingest(k, overwrite) ==
    /\ run[k].mode = "idle"
    /\ run' = [run EXCEPT ![k].mode = "look", ![k].overwrite = overwrite,
                          ![k].left = Wiki]
    /\ UNCHANGED <<pages, renderVars>>

\* get_page of the next file; after the last one, the walk if anything came in.
Look(k) ==
    LET p == First(run[k].left) IN
    /\ run[k].mode = "look" /\ Left(k) = {}
    /\ run' =
         IF run[k].left = {}
         THEN [run EXCEPT ![k].mode = IF run[k].imported THEN "walk" ELSE "over",
                          ![k].quiet = run[k].imported /\ Quiet]
         ELSE IF p \in Present /\ ~run[k].overwrite
         THEN [run EXCEPT ![k].left = @ \ {p}]
         ELSE [run EXCEPT ![k].mode = "write", ![k].seen = pages[p]]
    /\ UNCHANGED <<pages, renderVars>>

\* A file that is not UTF-8: read_text raises before anything validates it.
Unreadable(k) ==
    /\ run[k].mode = "look" /\ Left(k) = {} /\ run[k].left # {}
    /\ run' = [run EXCEPT ![k].mode = "aborted"]
    /\ UNCHANGED <<pages, renderVars>>

\* The content is not accepted: the file is skipped.
Skip(k) ==
    /\ run[k].mode = "write"
    /\ run' = [run EXCEPT ![k].mode = "look", ![k].left = @ \ {First(@)}, ![k].seen = 0]
    /\ UNCHANGED <<pages, renderVars>>

\* handle_write with the version seen as base; a ConflictError ends the command.
Import(k) ==
    LET p == First(run[k].left) IN
    /\ run[k].mode = "write"
    /\ IF pages[p] = run[k].seen
       THEN /\ CommitBy(k, p)
            /\ run' = [Disturbed EXCEPT ![k].mode = "look", ![k].left = @ \ {p}, ![k].seen = 0,
                                        ![k].imported = TRUE]
            /\ UNCHANGED <<file, tmp, fd, full, mixed>>
       ELSE /\ run' = [run EXCEPT ![k].mode = "aborted"]
            /\ UNCHANGED <<pages, renderVars>>

Ahead(k) == {p \in Present : p > run[k].cursor}

\* ORDER BY path LIMIT batch
Limited(is) == {p \in is : Cardinality({q \in is : q < p}) < Batch}

\* The next rows of a walk.
NextRows(k) == Limited(Ahead(k))

Read(k, rows) == todo' = [todo EXCEPT ![k] = [p \in Path |-> IF p \in rows THEN pages[p] ELSE 0]]

\* Mutant: a full batch is taken for the last.
FetchOnce(k) ==
    /\ run[k].mode = "walk" /\ Left(k) = {}
    /\ IF run[k].last THEN run' = [run EXCEPT ![k].mode = "over"] /\ UNCHANGED todo
       ELSE run' = [run EXCEPT ![k].last = TRUE] /\ Read(k, NextRows(k))
    /\ UNCHANGED <<pages, file, tmp, fd, full, late, mixed>>

\* iter_all_pages: a statement per batch, whose rows are rendered one by one.
Fetch(k) ==
    LET rows == NextRows(k) IN
    /\ run[k].mode = "walk" /\ Left(k) = {}
    /\ IF run[k].last \/ rows = {}
       THEN run' = [run EXCEPT ![k].mode = "over"] /\ UNCHANGED todo
       ELSE /\ run' = [run EXCEPT ![k].cursor = CHOOSE p \in rows : \A q \in rows : q <= p,
                                  ![k].last = Cardinality(rows) < Batch]
            /\ Read(k, rows)
    /\ UNCHANGED <<pages, file, tmp, fd, full, late, mixed>>

-----------------------------------------------------------------------------
Render(x) == Open(x) \/ Fill(x) \/ Rename(x) \/ RenameFails(x) \/ RenderFails(x)

RunCommand(k) ==
    \/ RenderAll(k) \/ Fetch(k)
    \/ \E overwrite \in BOOLEAN : Ingest(k, overwrite)
    \/ Look(k) \/ Unreadable(k) \/ Skip(k) \/ Import(k)

RenderingNext ==
    \/ \E w \in Writer, p \in Wiki : Write(w, p)
    \/ \E p \in Ext : Embed(p) \/ Delete(p)
    \/ \E x \in Actor : Render(x)
    \/ \E k \in Command : RunCommand(k)

RenderingSpec == RenderingInit /\ [][RenderingNext]_renderingVars

-----------------------------------------------------------------------------
(* Properties.                                                              *)

\* Who reads a file finds a version of the page in it, whatever fails and
\* whenever, unless a command and the master rendered the page at the same time.
FilesAreComplete == \A p \in Path : file[p] \in {Empty, Torn} => p \in mixed

\* The file of a wiki page is never newer than the page.  When nothing is left to
\* render it is not older either, unless the page was written while another
\* content of it was on its way to the disk, or its last render failed, or a
\* command interfered.
StaleIsAccountedFor ==
    \A p \in Wiki :
        /\ file[p] <= pages[p]
        /\ Pending(p) = {} => file[p] = pages[p] \/ p \in late \cup mixed

\* A walk that nothing disturbs leaves a current file for every page.
RenderAllRestores ==
    \A k \in Command :
        run[k].mode = "over" /\ run[k].quiet => \A p \in Present : file[p] = pages[p]
===============================================================================
