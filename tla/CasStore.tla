------------------------------- MODULE CasStore --------------------------------
(***************************************************************************)
(* The store wiki.write promises (DESIGN.md, section 5): every page is a    *)
(* register with a version, a write names the version it replaces, and      *)
(* succeeds or is refused in one indivisible step.                          *)
(***************************************************************************)
EXTENDS Naturals

CONSTANTS Page, Client, BaseVersions, Null

VARIABLES
    store,  \* the version and content of each page; version 0: no page
    answer  \* what each client was told

casVars == <<store, answer>>

Unanswered == [status |-> "pending", version |-> 0, content |-> Null]

CasInit ==
    /\ store \in [Page -> {[version |-> 0, content |-> Null], [version |-> 1, content |-> Null]}]
    /\ answer = [c \in Client |-> Unanswered]

\* The version a client has to name to write a page: none for a new page.
Expected(p) == IF store[p].version = 0 THEN Null ELSE store[p].version

Accept(c, p) ==
    /\ answer[c] = Unanswered
    /\ store' = [store EXCEPT ![p] = [version |-> store[p].version + 1, content |-> c]]
    /\ answer' = [answer EXCEPT ![c] = [status |-> "ok", version |-> store[p].version + 1,
                                        content |-> Null]]

Reject(c, p) ==
    /\ answer[c] = Unanswered
    /\ answer' = [answer EXCEPT ![c] = [status |-> "conflict", version |-> store[p].version,
                                        content |-> store[p].content]]
    /\ UNCHANGED store

\* An error: the write did not happen.
Fail(c) ==
    /\ answer[c] = Unanswered
    /\ answer' = [answer EXCEPT ![c] = [status |-> "failed", version |-> 0, content |-> Null]]
    /\ UNCHANGED store

Write(c, p, b) == IF b = Expected(p) THEN Accept(c, p) ELSE Reject(c, p)

CasNext ==
    \E c \in Client : \/ Fail(c)
                      \/ \E p \in Page, b \in {Null} \cup BaseVersions : Write(c, p, b)

CasSpec == CasInit /\ [][CasNext]_casVars
=============================================================================
