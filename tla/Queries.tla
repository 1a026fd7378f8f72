------------------------------- MODULE Queries --------------------------------
(***************************************************************************)
(* The reads of the pages table that take more than one statement: a       *)
(* caller that lists all pages answer by answer (wiki.list as the command  *)
(* verify of src/vaultmcp/agent/__main__.py uses it), and a hybrid search, *)
(* which ranks the pages twice, over two connections, and fuses the ranks  *)
(* (handle_search of src/vaultmcp/master/tools.py, the queries of db.py).  *)
(*                                                                         *)
(* A content is named by the global version of its page.  What a ranker    *)
(* makes of the contents is left open: any order of the pages it looks at. *)
(***************************************************************************)
EXTENDS Naturals, Sequences, FiniteSets, SequencesExt

CONSTANTS
    Wiki,        \* wiki pages
    Ext,         \* pages under ext/, which only ext.embed writes and a
                 \* deregistration deletes
    ListLimit,   \* entries per answer of wiki.list
    SearchLimit, \* entries of a search
    Depth,       \* how much deeper than the answer a ranker looks (4)
    MinWindow,   \* and at least (50)
    K,           \* the constant of the rank fusion (60)
    MaxGv        \* bound on the global versions

Path == Wiki \cup Ext

ASSUME QueriesAssumption ==
    /\ Wiki \cap Ext = {} /\ IsFiniteSet(Path) /\ MaxGv \in Nat /\ Cardinality(Path) <= MaxGv
    /\ {ListLimit, SearchLimit, Depth, MinWindow, K} \subseteq Nat \ {0}

VARIABLES
    pages,    \* global version of each page, 0 if there is none
    drawn,    \* the global versions that were used
    embedded, \* the content each page has an embedding of, 0 if there is none
    op,       \* what the caller does
    cursor,   \* where its listing has come to
    listed,   \* the pages in the answers so far
    lex, sem, \* the rows of the two rankers, best first; Pending before
    answer    \* the hits of the search

VARIABLES
    first,    \* history: the pages there were when the caller began
    touched,  \* history: the pages written or deleted since
    twice     \* history: the pages that came in more than one answer

pageVars == <<pages, drawn, embedded>>
listVars == <<cursor, listed, twice>>
searchVars == <<lex, sem, answer>>
queriesVars == <<pageVars, op, listVars, searchVars, first, touched>>

Present == {p \in Path : pages[p] # 0}

Row(p) == [path |-> p, gv |-> pages[p]]
Rows == {Row(p) : p \in Present}

Pending == <<[path |-> "pending"]>>

Ranked(q) == \/ q = Pending
             \/ /\ \A i \in DOMAIN q : q[i].path \in Path /\ q[i].gv \in 1 .. MaxGv
                /\ \A i, j \in DOMAIN q : q[i].path = q[j].path => i = j

QueriesTypeOK ==
    /\ pages \in [Path -> 0 .. MaxGv] /\ embedded \in [Path -> 0 .. MaxGv]
    /\ \A p, q \in Present : pages[p] = pages[q] => p = q
    /\ \A p \in Path : embedded[p] # 0 => p \in Present
    /\ drawn \subseteq 1 .. MaxGv /\ {pages[p] : p \in Present} \subseteq drawn
    /\ op \in {"none", "list", "listed", "search", "found"}
    /\ cursor \in 0 .. MaxGv + 1
    /\ listed \subseteq Path /\ twice \subseteq listed
    /\ Ranked(lex) /\ Ranked(sem) /\ Ranked(answer)
    /\ first \subseteq Path /\ touched \subseteq Path

QueriesInit ==
    /\ \E order \in {f \in [Path -> 1 .. Cardinality(Path)] : \A p, q \in Path : f[p] = f[q] => p = q} :
          pages = order
    /\ drawn = 1 .. Cardinality(Path)
    /\ embedded \in [Path -> {0}] \cup {pages}
    /\ op = "none"
    /\ cursor = MaxGv + 1 /\ listed = {} /\ twice = {}
    /\ lex = Pending /\ sem = Pending /\ answer = <<>>
    /\ first = {} /\ touched = {}

-----------------------------------------------------------------------------
(* The pages.                                                               *)

Calling == op \in {"list", "search"}

\* Bound: nothing is looked at once the caller has its answer.
Bounded == op \notin {"listed", "found"}

Touch(p) == touched' = IF Calling THEN touched \cup {p} ELSE touched

\* A number drawn for a write, perhaps long before its commit.  write_page has
\* locked the row when it draws; ext.embed has not.
Fresh(p) == {g \in (1 .. MaxGv) \ drawn : p \in Wiki => g > pages[p]}

\* wiki.write, ext.embed: the old embedding stays until the worker is there.
Write(p) ==
    /\ Bounded
    /\ \E g \in Fresh(p) :
          /\ pages' = [pages EXCEPT ![p] = g]
          /\ drawn' = drawn \cup {g}
    /\ Touch(p)
    /\ UNCHANGED <<embedded, op, listVars, searchVars, first>>

\* ext.deregister; the embedding goes with the page.
Delete(p) ==
    /\ Bounded
    /\ p \in Ext \cap Present
    /\ pages' = [pages EXCEPT ![p] = 0]
    /\ embedded' = [embedded EXCEPT ![p] = 0]
    /\ Touch(p)
    /\ UNCHANGED <<drawn, op, listVars, searchVars, first>>

\* The embedding worker.
Embed(p) ==
    /\ Bounded
    /\ p \in Present
    /\ embedded' = [embedded EXCEPT ![p] = pages[p]]
    /\ UNCHANGED <<pages, drawn, op, listVars, searchVars, first, touched>>

-----------------------------------------------------------------------------
(* Listing.                                                                 *)

Begin(what) ==
    /\ op = "none"
    /\ op' = what
    /\ first' = Present
    /\ UNCHANGED <<pageVars, listVars, searchVars, touched>>

\* The pages whose number is one of the set, newest first, as far as the limit goes.
Newest(is) ==
    {p \in is : Cardinality({q \in is : pages[q] > pages[p]}) < ListLimit}

\* Mutant: the cursor is an offset.
OlderThanCount == {p \in Present : Cardinality({q \in Present : pages[q] > pages[p]}) >= Cardinality(listed)}

\* global_version < cursor
Older == {p \in Present : pages[p] < cursor}

\* list_pages: a short answer carries no cursor and is the last.
ListCall ==
    LET rows == Newest(Older)
        more == Cardinality(rows) = ListLimit
    IN  /\ op = "list"
        /\ listed' = listed \cup rows
        /\ twice' = twice \cup (listed \cap rows)
        /\ IF more
           THEN /\ cursor' \in {pages[p] : p \in rows}
                /\ \A p \in rows : cursor' <= pages[p]
                /\ UNCHANGED op
           ELSE op' = "listed" /\ UNCHANGED cursor
        /\ UNCHANGED <<pageVars, searchVars, first, touched>>

-----------------------------------------------------------------------------
(* Searching.                                                               *)

Window == LET deep == Depth * SearchLimit IN IF deep > MinWindow THEN deep ELSE MinWindow

\* The first rows of a ranking of the pages, by content that is not modelled.
Rankings(is) ==
    {SubSeq(q, 1, IF Len(q) < Window THEN Len(q) ELSE Window) : q \in SetToSeqs(is)}

\* search_pages: the pages whose text matches.
Lexical ==
    /\ op = "search" /\ lex = Pending
    /\ \E is \in SUBSET Rows : lex' \in Rankings(is)
    /\ UNCHANGED <<pageVars, op, listVars, sem, answer, first, touched>>

\* search_pages_semantic: every page that has an embedding, near or far, old or new.
Semantic ==
    /\ op = "search" /\ sem = Pending
    /\ sem' \in Rankings({Row(p) : p \in {p \in Path : embedded[p] # 0}})
    /\ UNCHANGED <<pageVars, op, listVars, lex, answer, first, touched>>

\* What the shares are counted in.
Products[n \in 0 .. Window] == IF n = 0 THEN 1 ELSE Products[n - 1] * (K + n)
Denominator == Products[Window]

\* Mutant: 1 / k + rank.
ShareUnbracketed(rank) == Denominator \div K + Denominator * rank

\* 1 / (k + rank)
Share(rank) == Denominator \div (K + rank)

RowsOf(q) == {q[i] : i \in DOMAIN q}
PathsOf(q) == {q[i].path : i \in DOMAIN q}
Rank(p, q) == CHOOSE i \in DOMAIN q : q[i].path = p

Score(p) ==
    LET share(q) == IF p \in PathsOf(q) THEN Share(Rank(p, q)) ELSE 0
    IN  share(lex) + share(sem)

\* Mutant: a list instead of a dict.
EntriesTwice == RowsOf(lex) \cup RowsOf(sem)

\* The dict of _reciprocal_rank_fusion: a page both have found keeps the row of
\* the lexical ranker.
Entries == RowsOf(lex) \cup {r \in RowsOf(sem) : r.path \notin PathsOf(lex)}

\* The order of its insertions.
Inserted(r) == IF r \in RowsOf(lex) THEN Rank(r.path, lex) ELSE Len(lex) + Rank(r.path, sem)

Before(r) ==
    {s \in Entries : \/ Score(s.path) > Score(r.path)
                     \/ Score(s.path) = Score(r.path) /\ Inserted(s) < Inserted(r)}

\* Sorted by score, equal ones in the order they were in, and cut.
Best ==
    LET found == Cardinality(Entries)
    IN  [n \in 1 .. IF found < SearchLimit THEN found ELSE SearchLimit |->
            CHOOSE r \in Entries : Cardinality(Before(r)) = n - 1]

Fuse ==
    /\ op = "search" /\ lex # Pending /\ sem # Pending
    /\ answer' = Best
    /\ op' = "found"
    /\ UNCHANGED <<pageVars, listVars, lex, sem, first, touched>>

-----------------------------------------------------------------------------
QueriesNext ==
    \/ \E p \in Path : Write(p) \/ Delete(p) \/ Embed(p)
    \/ Begin("list") \/ ListCall
    \/ Begin("search") \/ Lexical \/ Semantic \/ Fuse

QueriesSpec == QueriesInit /\ [][QueriesNext]_queriesVars

-----------------------------------------------------------------------------
(* Properties.                                                              *)

\* A listing names every page once that is not written or deleted meanwhile,
\* whatever happens to the others: what verify reports as missing on the master,
\* and is there, was written while it listed.
ListedOnce ==
    /\ twice \subseteq touched
    /\ op = "listed" => \A p \in Path \ touched : p \in first <=> p \in listed

\* Better: in no ranking behind, in one ahead.
Better(p, q) ==
    LET rank(r, is) == IF r \in PathsOf(is) THEN Rank(r, is) ELSE Window + 1
    IN  /\ rank(p, lex) <= rank(q, lex) /\ rank(p, sem) <= rank(q, sem)
        /\ rank(p, lex) < rank(q, lex) \/ rank(p, sem) < rank(q, sem)

\* The fusion respects both rankers: whoever is not behind in either and ahead
\* in one comes first, nobody is dropped for someone worse, and the answer is
\* short only if both together found no more.
FusionIsFair ==
    op = "found" =>
        LET found == PathsOf(lex) \cup PathsOf(sem)
            hits  == PathsOf(answer)
        IN  /\ hits \subseteq found
            /\ hits = found \/ Len(answer) = SearchLimit
            /\ \A p \in found, q \in hits :
                  Better(p, q) => p \in hits /\ Rank(p, answer) < Rank(q, answer)
=============================================================================
